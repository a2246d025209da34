---------------------------- MODULE SeedsProofs ----------------------------
(***************************************************************************)
(* Proofs about Seeds for any base BTF, any objects and any limits: what   *)
(* is in the type set, what the witness lists, which types the roots are,  *)
(* that an error has its cause, and that an access finds its members.      *)
(***************************************************************************)
EXTENDS Seeds, RecursionProofs, SequenceTheorems

-----------------------------------------------------------------------------
\* The invariant

InAccess == {"access", "member", "unwind"}
InMember == {"member", "unwind"}

\* Where the loops and the access string are.
AtItem ==
    /\ pc = "next" => item <= 1 + IF phase = "types" THEN Len(Types) ELSE Len(Object.relos)
    /\ pc = "resolve" /\ phase = "types" => item \in Ids(Types) /\ Queryable(Types[item])
    /\ pc \in InAccess \/ (pc = "resolve" /\ phase = "relos") => item \in DOMAIN Object.relos
    /\ pc \in InAccess => /\ phase = "relos" /\ Relo.access # << >>
                           /\ comp \in 0 .. Len(Relo.access)
    /\ pc \in InMember=> /\ comp \in 1 .. Len(Relo.access) - 1 /\ Component # Bad
                         /\ oid \in Ids(Types) /\ Component \in DOMAIN Types[oid].members
    /\ pc = "ok" => object = Len(objects)
    /\ pc = "error" <=> err # "none"

\* The chain of the type that is being resolved: nothing on it so far is known.
Start == IF phase = "types" THEN item ELSE Relo.type_id

Unknowns(o, start, n) == \A k \in 0 .. n - 1 : KnownAs(o, ChainFrom(o, start)[k]) = {}

Resolving == pc = "resolve" => /\ id = ChainFrom(Object, Start)[depth]
                               /\ Unknowns(Object, Start, depth)

\* The calls on the stack, each but the innermost in an anonymous record of its own.
Waiting(n) == n < Len(frames) \/ pc = "unwind"
OnTheWay ==
    /\ pc = "member" => frames # << >> /\ frames[1].record = bid
    /\ \A n \in DOMAIN frames : Waiting(n) => frames[n].at \in Wrappers(frames[n].record)
    /\ \A n \in DOMAIN frames : n < Len(frames) =>
          frames[n + 1].record = Wrapped(frames[n].record, frames[n].at)

\* What the calls have searched does not have the member.
Lacking(r, name) == \A d \in 0 .. MaxNesting + 1 : Nested(Everything, name, MaxNesting + 1)[d][r] = {}
Searched ==
    pc = "member" /\ Selected.name # Unnamed =>
      \A n \in DOMAIN frames :
        /\ n < Len(frames) => Named(frames[n].record, Selected.name) = {}
        /\ \A w \in Wrappers(frames[n].record) :
             w < frames[n].at \/ (w = frames[n].at /\ n = Len(frames))
               => Lacking(Wrapped(frames[n].record, w), Selected.name)

\* Root r stands for one of the first n types, or of the first n relocations, of object o.
ByType(o, n, r) == \E i \in 1 .. n : Queryable(o.types[i]) /\ r \in Answer(o, i)
ByRelo(o, n, r) == \E k \in 1 .. n : r \in Answer(o, o.relos[k].type_id)
ByObject(o, r)  == ByType(o, Len(o.types), r) \/ ByRelo(o, Len(o.relos), r)

Done == IF pc \in InAccess THEN item ELSE item - 1

RootsSoFar ==
    /\ pc \notin {"ok", "error"} =>
         \A r \in Ids(base) :
           r \in roots <=> \/ \E n \in 1 .. object - 1 : ByObject(objects[n], r)
                           \/ phase = "types" /\ ByType(Object, Done, r)
                           \/ /\ phase = "relos"
                              /\ ByType(Object, Len(Types), r) \/ ByRelo(Object, Done, r)
    /\ pc = "ok" => \A r \in Ids(base) :
                       r \in roots <=> \E n \in DOMAIN objects : ByObject(objects[n], r)

Inv == /\ TypeOK /\ AtItem
       /\ SeedsAreRequirements /\ WitnessIsExact
       /\ OnTheWay /\ Searched
       /\ Resolving /\ RootsSoFar
       /\ FailuresAreReal

-----------------------------------------------------------------------------
\* The input

LEMMA Shape ==
  ASSUME TypeOK
  PROVE  /\ base \in Seq(Type) /\ Len(base) \in Nat /\ Ids(base) = DOMAIN base
         /\ \A i \in Ids(base) : /\ base[i] \in Type /\ base[i].type \in Nat
                                 /\ base[i].members \in Seq(Member)
                                 /\ \A m \in DOMAIN base[i].members :
                                       m \in Nat \ {0} /\ base[i].members[m].type \in Nat
         /\ objects \in Seq(ObjectFile) /\ object \in DOMAIN objects
         /\ object \in Nat /\ Len(objects) \in Nat /\ DOMAIN objects = 1 .. Len(objects)
<1>1. [base |-> base, objects |-> objects] \in [base : Seq(Type), objects : Seq(ObjectFile) \ {<< >>}]
  BY InputAssumption DEF TypeOK
<1>2. base \in Seq(Type) /\ objects \in Seq(ObjectFile)
  BY <1>1
<1>3. Len(base) \in Nat /\ Ids(base) = DOMAIN base /\ \A i \in Ids(base) : base[i] \in Type
  BY <1>2 DEF Ids
<1>4. ASSUME NEW i \in Ids(base)
      PROVE  /\ base[i].type \in Nat /\ base[i].members \in Seq(Member)
             /\ \A m \in DOMAIN base[i].members :
                   m \in Nat \ {0} /\ base[i].members[m].type \in Nat
  <2>1. base[i].type \in Nat /\ base[i].members \in Seq(Member)
    BY <1>3 DEF Type
  <2>2. \A m \in DOMAIN base[i].members : m \in Nat \ {0} /\ base[i].members[m] \in Member
    BY <2>1
  <2> QED BY <2>1, <2>2 DEF Member
<1> QED BY <1>2, <1>3, <1>4 DEF TypeOK

LEMMA ObjectShape ==
  ASSUME TypeOK, NEW n \in DOMAIN objects
  PROVE  /\ objects[n].types \in Seq(Type) /\ Len(objects[n].types) \in Nat
         /\ Ids(objects[n].types) = DOMAIN objects[n].types
         /\ \A i \in Ids(objects[n].types) :
               /\ objects[n].types[i].type \in Nat
               /\ objects[n].types[i].members \in Seq(Member)
               /\ \A m \in DOMAIN objects[n].types[i].members :
                     objects[n].types[i].members[m].type \in Nat
         /\ objects[n].relos \in Seq(Relocation) /\ Len(objects[n].relos) \in Nat
         /\ DOMAIN objects[n].relos = 1 .. Len(objects[n].relos)
         /\ \A k \in DOMAIN objects[n].relos :
               /\ objects[n].relos[k].type_id \in Nat
               /\ objects[n].relos[k].access \in Seq(Nat \cup {Bad})
               /\ Len(objects[n].relos[k].access) \in Nat
               /\ \A c \in 1 .. Len(objects[n].relos[k].access) :
                     /\ objects[n].relos[k].access[c] \in Nat \cup {Bad}
                     /\ c > 1 => objects[n].relos[k].access[c] # 0
<1>1. objects[n] \in ObjectFile
  BY Shape
<1>2. objects[n].types \in Seq(Type) /\ objects[n].relos \in Seq(Relocation)
  BY <1>1 DEF ObjectFile
<1>3. /\ Len(objects[n].types) \in Nat /\ Ids(objects[n].types) = DOMAIN objects[n].types
      /\ Len(objects[n].relos) \in Nat /\ DOMAIN objects[n].relos = 1 .. Len(objects[n].relos)
  BY <1>2 DEF Ids
<1>4. ASSUME NEW i \in Ids(objects[n].types)
      PROVE  /\ objects[n].types[i].type \in Nat
             /\ objects[n].types[i].members \in Seq(Member)
             /\ \A m \in DOMAIN objects[n].types[i].members :
                   objects[n].types[i].members[m].type \in Nat
  <2> DEFINE t == objects[n].types[i]
  <2>1. t \in Type
    BY <1>2, <1>3
  <2>2. t.type \in Nat /\ t.members \in Seq(Member)
    BY <2>1 DEF Type
  <2>3. \A m \in DOMAIN t.members : t.members[m] \in Member
    BY <2>2
  <2> QED BY <2>2, <2>3 DEF Member
<1>5. ASSUME NEW k \in DOMAIN objects[n].relos
      PROVE  /\ objects[n].relos[k].type_id \in Nat
             /\ objects[n].relos[k].access \in Seq(Nat \cup {Bad})
             /\ Len(objects[n].relos[k].access) \in Nat
             /\ \A c \in 1 .. Len(objects[n].relos[k].access) :
                     /\ objects[n].relos[k].access[c] \in Nat \cup {Bad}
                     /\ c > 1 => objects[n].relos[k].access[c] # 0
  <2> DEFINE r == objects[n].relos[k]
  <2>1. r \in Relocation
    BY <1>2
  <2>2. r.type_id \in Nat /\ r.access \in Seq(Nat \cup {Bad})
    BY <2>1 DEF Relocation
  <2>3. /\ Len(r.access) \in Nat /\ DOMAIN r.access = 1 .. Len(r.access)
        /\ \A c \in 1 .. Len(r.access) : r.access[c] \in Nat \cup {Bad}
    BY <2>2
  <2>4. \A c \in DOMAIN r.access : c > 1 => r.access[c] # 0
    <3> DEFINE in == [base |-> base, objects |-> objects]
    <3>1. in \in Inputs /\ in.objects = objects
      BY DEF TypeOK
    <3>2. n \in DOMAIN in.objects /\ k \in DOMAIN in.objects[n].relos
      BY <3>1
    <3>3. \A c \in DOMAIN in.objects[n].relos[k].access : c > 1 => in.objects[n].relos[k].access[c] # 0
      BY <3>1, <3>2, InputAssumption
    <3> QED BY <3>1, <3>3
  <2> QED BY <2>2, <2>3, <2>4
<1> QED BY <1>2, <1>3, <1>4, <1>5

\* The sets of members and records that the search picks from.
LEMMA Picks ==
  ASSUME TypeOK, NEW r \in Ids(base)
  PROVE  /\ \A name : Named(r, name) \subseteq DOMAIN base[r].members
         /\ Found(r) \subseteq DOMAIN base[r].members
         /\ Wrappers(r) \subseteq DOMAIN base[r].members
         /\ \A m \in Wrappers(r) : Wrapped(r, m) \in Ids(base)
         /\ DOMAIN base[r].members \in SUBSET Nat
<1>1. \A name : Named(r, name) \subseteq DOMAIN base[r].members
  BY DEF Named
<1>2. Found(r) \subseteq DOMAIN base[r].members
  BY <1>1 DEF Found
<1>3. Wrappers(r) \subseteq DOMAIN base[r].members
  BY <1>1 DEF Wrappers
<1>4. \A m \in Wrappers(r) : Wrapped(r, m) \in Ids(base)
  BY DEF Wrappers, Wrapped, IsRecord
<1>5. DOMAIN base[r].members \in SUBSET Nat
  BY Shape
<1> QED BY <1>1, <1>2, <1>3, <1>4, <1>5

LEMMA FirstIsLeast ==
  ASSUME NEW S \in SUBSET Nat, S # {}
  PROVE  First(S) \in S /\ \A m \in S : First(S) <= m
BY LeastExists DEF First

-----------------------------------------------------------------------------
\* Type correctness

Places == {"next", "resolve", "access", "member", "unwind", "ok", "error"}
TraceRec == [what : {"root", "member"}, id : Ids(base), member : Nat,
             object : DOMAIN objects, phase : {"types", "relos"}]

LEMMA InitType == Init => TypeOK
<1> SUFFICES ASSUME Init PROVE TypeOK
  OBVIOUS
<1>1. PICK in \in Inputs : base = in.base /\ objects = in.objects
  BY DEF Init
<1>2. in \in [base : Seq(Type), objects : Seq(ObjectFile) \ {<< >>}]
  BY InputAssumption
<1>3. in = [base |-> base, objects |-> objects]
  BY <1>1, <1>2
<1>4. 1 \in DOMAIN objects
  <2>1. objects \in Seq(ObjectFile) /\ objects # << >>
    BY <1>1, <1>2
  <2> QED BY <2>1
<1>5. frames \in Seq([record : Ids(base), at : Nat]) /\ traces \in Seq(TraceRec)
  BY DEF Init
<1>6. MaxChain \in Nat
  BY LimitAssumption
<1> QED BY <1>1, <1>3, <1>4, <1>5, <1>6 DEF Init, TypeOK, TraceRec

\* Steps that record nothing and do not move in an access string.
LEMMA ControlType ==
  ASSUME TypeOK, UNCHANGED <<inputs, path, result>>,
         object' \in DOMAIN objects, phase' \in {"types", "relos"}, item' \in Nat \ {0},
         pc' \in Places, id' \in Nat, depth' \in 0 .. MaxChain
  PROVE  TypeOK'
BY DEF TypeOK, Places, inputs, path, result

\* What recording a root or a member leaves well-typed.
LEMMA RootType ==
  ASSUME TypeOK, UNCHANGED <<inputs, object, phase>>, NEW i \in Ids(base), AddRoot(i)
  PROVE  /\ roots' \subseteq Ids(base)' /\ UNCHANGED members
         /\ traces' \in Seq(TraceRec)'
<1>1. Trace("root", i, 0) \in TraceRec
  BY DEF Trace, TraceRec, TypeOK
<1>2. traces \in Seq(TraceRec)
  BY DEF TypeOK, TraceRec
<1>3. traces' \in Seq(TraceRec)
  BY <1>1, <1>2 DEF AddRoot
<1>4. TraceRec' = TraceRec /\ Ids(base)' = Ids(base)
  BY DEF TraceRec, inputs, Ids
<1> QED BY <1>3, <1>4 DEF AddRoot, TypeOK

LEMMA MemberType ==
  ASSUME TypeOK, UNCHANGED <<inputs, object, phase>>,
         NEW i \in Ids(base), NEW m \in DOMAIN base[i].members, AddMember(i, m)
  PROVE  /\ members' \in [Ids(base) -> SUBSET Nat]' /\ UNCHANGED roots
         /\ \A k \in Ids(base) : members'[k] \subseteq DOMAIN base[k].members
         /\ members'[i] = members[i] \cup {m}
         /\ \A k \in Ids(base) : k # i => members'[k] = members[k]
         /\ traces' \in Seq(TraceRec)'
<1>1. m \in Nat
  BY Shape
<1>2. Trace("member", i, m) \in TraceRec
  BY <1>1 DEF Trace, TraceRec, TypeOK
<1>3. traces \in Seq(TraceRec)
  BY DEF TypeOK, TraceRec
<1>4. traces' \in Seq(TraceRec)
  BY <1>2, <1>3 DEF AddMember
<1>5. TraceRec' = TraceRec /\ Ids(base)' = Ids(base)
  BY DEF TraceRec, inputs, Ids
<1>6. members \in [Ids(base) -> SUBSET Nat]
  BY DEF TypeOK
<1>7. /\ members' \in [Ids(base) -> SUBSET Nat]
      /\ members'[i] = members[i] \cup {m}
      /\ \A k \in Ids(base) : k # i => members'[k] = members[k]
  BY <1>1, <1>6 DEF AddMember
<1>8. \A k \in Ids(base) : members'[k] \subseteq DOMAIN base[k].members
  <2>1. \A k \in Ids(base) : members[k] \subseteq DOMAIN base[k].members
    BY DEF TypeOK
  <2> QED BY <2>1, <1>7
<1> QED BY <1>4, <1>5, <1>7, <1>8 DEF AddMember

\* Steps that record something.
LEMMA RecordType ==
  ASSUME TypeOK, UNCHANGED <<inputs, object, phase, chain>>,
         item' \in Nat \ {0}, pc' \in Places,
         comp' \in Nat, oid' \in Nat, bid' \in Nat,
         frames' \in Seq([record : Ids(base), at : Nat]),
         required' \subseteq Ids(base), roots' \subseteq Ids(base),
         members' \in [Ids(base) -> SUBSET Nat]',
         \A k \in Ids(base) : members'[k] \subseteq DOMAIN base[k].members,
         traces' \in Seq(TraceRec)'
  PROVE  TypeOK'
<1>1. base' = base /\ objects' = objects /\ Ids(base)' = Ids(base)
  BY DEF inputs, Ids
<1>2. traces' \in Seq(TraceRec)
  BY <1>1 DEF TraceRec
<1>3. members' \in [Ids(base) -> SUBSET Nat]
  BY <1>1
<1>4. frames' \in Seq([record : Ids(base)', at : Nat])
  BY <1>1
<1>5. /\ [base |-> base', objects |-> objects'] \in Inputs
      /\ object' \in DOMAIN objects' /\ phase' \in {"types", "relos"}
      /\ id' \in Nat /\ depth' \in 0 .. MaxChain
  BY <1>1 DEF TypeOK, chain
<1>6. \A k \in Ids(base)' : members'[k] \subseteq DOMAIN base'[k].members
  BY <1>1
<1> QED BY <1>1, <1>2, <1>3, <1>4, <1>5, <1>6 DEF TypeOK, Places, TraceRec

\* The calls that are left when the innermost returns.
LEMMA CallersType ==
  ASSUME TypeOK, frames # << >>
  PROVE  /\ Len(frames) \in Nat \ {0} /\ Len(frames) \in DOMAIN frames
         /\ Top.record \in Ids(base) /\ Top.at \in Nat
         /\ Callers \in Seq([record : Ids(base), at : Nat])
         /\ Len(Callers) = Len(frames) - 1
         /\ \A n \in 1 .. Len(frames) - 1 : Callers[n] = frames[n]
<1> DEFINE R == [record : Ids(base), at : Nat]
<1>1. frames \in Seq(R)
  BY DEF TypeOK
<1> HIDE DEF R
<1>2. Len(frames) \in Nat \ {0} /\ Len(frames) \in DOMAIN frames /\ Top \in R
  BY <1>1 DEF Top
<1>3. /\ Callers \in Seq(R) /\ Len(Callers) = Len(frames) - 1
      /\ \A n \in 1 .. Len(frames) - 1 : Callers[n] = frames[n]
  <2> DEFINE n == Len(frames) - 1
  <2>1. n \in Int /\ 1 \in Int /\ n >= 0 /\ \A i \in 1 .. n : frames[i] \in R
    BY <1>1, <1>2
  <2> HIDE DEF n
  <2>2. /\ SubSeq(frames, 1, n) \in Seq(R)
        /\ Len(SubSeq(frames, 1, n)) = IF 1 <= n THEN n - 1 + 1 ELSE 0
        /\ \A i \in 1 .. n - 1 + 1 : SubSeq(frames, 1, n)[i] = frames[1 + i - 1]
    BY <2>1, SubSeqProperties
  <2>3. n - 1 + 1 = n /\ \A i \in 1 .. n : 1 + i - 1 = i
    BY <2>1
  <2>4. Len(SubSeq(frames, 1, n)) = n /\ \A i \in 1 .. n : SubSeq(frames, 1, n)[i] = frames[i]
    BY <2>1, <2>2, <2>3
  <2> QED BY <2>2, <2>4 DEF Callers, n
<1>4. Top.record \in Ids(base) /\ Top.at \in Nat
  BY <1>2 DEF R
<1> QED BY <1>2, <1>3, <1>4 DEF R

\* What stays the same while the input and the place in the loops do.
LEMMA SamePlace ==
  ASSUME UNCHANGED <<inputs, object, item>>
  PROVE  /\ base' = base /\ objects' = objects /\ object' = object /\ item' = item
         /\ Object' = Object /\ Types' = Types /\ Relo' = Relo
         /\ Ids(base)' = Ids(base) /\ Ids(Types)' = Ids(Types)
BY DEF inputs, Object, Types, Relo, Ids

\* An object and its lists have the shape of the input.
LEMMA AtWork ==
  ASSUME TypeOK
  PROVE  /\ object \in DOMAIN objects /\ Object = objects[object] /\ Types = Object.types
         /\ Types \in Seq(Type) /\ Len(Types) \in Nat /\ Ids(Types) = DOMAIN Types
         /\ Ids(Types) = 1 .. Len(Types)
         /\ \A i \in Ids(Types) : /\ Types[i].type \in Nat /\ Types[i].members \in Seq(Member)
                                  /\ Len(Types[i].members) \in Nat
                                  /\ DOMAIN Types[i].members = 1 .. Len(Types[i].members)
                                  /\ \A m \in DOMAIN Types[i].members :
                                        Types[i].members[m].type \in Nat
         /\ Len(Object.relos) \in Nat /\ DOMAIN Object.relos = 1 .. Len(Object.relos)
         /\ item \in Nat \ {0}
         /\ item \in DOMAIN Object.relos =>
              /\ Relo.type_id \in Nat /\ Len(Relo.access) \in Nat
              /\ Relo.access # << >> => Len(Relo.access) > 0
              /\ \A c \in 1 .. Len(Relo.access) : /\ Relo.access[c] \in Nat \cup {Bad}
                                                  /\ c > 1 => Relo.access[c] # 0
<1>1. object \in DOMAIN objects /\ item \in Nat \ {0}
  BY DEF TypeOK
<1>2. /\ Types \in Seq(Type) /\ Len(Types) \in Nat /\ Ids(Types) = DOMAIN Types
      /\ \A i \in Ids(Types) : /\ Types[i].type \in Nat /\ Types[i].members \in Seq(Member)
                               /\ \A m \in DOMAIN Types[i].members :
                                     Types[i].members[m].type \in Nat
      /\ Len(Object.relos) \in Nat /\ DOMAIN Object.relos = 1 .. Len(Object.relos)
  BY <1>1, ObjectShape DEF Object, Types
<1>3. item \in DOMAIN Object.relos =>
              /\ Relo.type_id \in Nat /\ Len(Relo.access) \in Nat
              /\ Relo.access # << >> => Len(Relo.access) > 0
              /\ \A c \in 1 .. Len(Relo.access) : /\ Relo.access[c] \in Nat \cup {Bad}
                                                  /\ c > 1 => Relo.access[c] # 0
  BY <1>1, ObjectShape DEF Object, Relo
<1>4. \A i \in Ids(Types) : /\ Len(Types[i].members) \in Nat
                            /\ DOMAIN Types[i].members = 1 .. Len(Types[i].members)
  BY <1>2
<1> QED BY <1>1, <1>2, <1>3, <1>4 DEF Object, Types, Ids

\* An error changes nothing that the invariant speaks of.
LEMMA FailKeepsInv ==
  ASSUME Inv, pc # "error", NEW why, why # "none", Fail(why),
         UNCHANGED <<inputs, loop, chain, path, roots, members, traces>>,
         required' \subseteq Ids(base), FailuresAreReal'
  PROVE  Inv'
<1>1. UNCHANGED <<object, phase, item, id, depth, comp, oid, bid, frames>>
  BY DEF loop, chain, path
<1>2. pc' = "error" /\ err' = why
  BY DEF Fail
<1>3. /\ base' = base /\ objects' = objects /\ Ids(base)' = Ids(base)
      /\ Object' = Object /\ Types' = Types /\ Relo' = Relo
  BY <1>1, SamePlace
<1>4. TypeOK'
  BY <1>1, <1>2, <1>3 DEF Inv, TypeOK
<1>5. AtItem'
  BY <1>1, <1>2, <1>3 DEF AtItem, InAccess, InMember
<1>6. SeedsAreRequirements'
  BY <1>2 DEF SeedsAreRequirements
<1>7. WitnessIsExact'
  BY <1>3 DEF Inv, WitnessIsExact, Unexplained
<1>8. OnTheWay'
  <2>1. \A r, m : (m \in Wrappers(r) <=> m \in Wrappers(r)') /\ Wrapped(r, m)' = Wrapped(r, m)
    BY <1>3 DEF Wrappers, Wrapped, Named, IsRecord, Ids, Peel, Behind
  <2>2. \A n \in DOMAIN frames : n < Len(frames) => Waiting(n)
    BY DEF Waiting
  <2>3. \A n \in DOMAIN frames : Waiting(n)' => n < Len(frames)
    BY <1>1, <1>2 DEF Waiting
  <2> QED BY <1>1, <1>2, <2>1, <2>2, <2>3 DEF Inv, OnTheWay
<1>9. Searched' /\ Resolving' /\ RootsSoFar'
  BY <1>2 DEF Searched, Resolving, RootsSoFar
<1> QED BY <1>4, <1>5, <1>6, <1>7, <1>8, <1>9 DEF Inv

-----------------------------------------------------------------------------
\* Chains of types and what they stand for

LEMMA ChainSteps ==
  ASSUME NEW o, \A i \in Ids(o.types) : o.types[i].type \in Nat, NEW start \in Nat
  PROVE  /\ \A n \in 0 .. MaxChain : ChainFrom(o, start)[n] \in Nat
         /\ ChainFrom(o, start)[0] = start
         /\ \A n \in 1 .. MaxChain :
               ChainFrom(o, start)[n] =
                 LET i == ChainFrom(o, start)[n - 1]
                 IN IF i \in Ids(o.types) /\ o.types[i].kind \in ChainKinds
                      THEN o.types[i].type ELSE 0
<1> DEFINE G == [i \in Nat |-> IF i \in Ids(o.types) /\ o.types[i].kind \in ChainKinds
                                 THEN o.types[i].type ELSE 0]
           C == ChainFrom(o, start)
<1>1. G \in [Nat -> Nat]
  OBVIOUS
<1>2. C = Iterate(G, start, MaxChain)
  BY DEF ChainFrom
<1>3. \A i \in Nat : G[i] = IF i \in Ids(o.types) /\ o.types[i].kind \in ChainKinds
                              THEN o.types[i].type ELSE 0
  OBVIOUS
<1> HIDE DEF G, C
<1>4. /\ \A n \in 0 .. MaxChain : C[n] \in Nat
      /\ C[0] = start
      /\ \A n \in 1 .. MaxChain : C[n] = G[C[n - 1]]
  <2>1. MaxChain \in Nat
    BY LimitAssumption
  <2>2. Iterates(Iterate(G, start, MaxChain), G, start, MaxChain, Nat)
    BY <1>1, <2>1, Iteration, Zenon
  <2> QED BY <1>2, <2>2 DEF Iterates
<1>5. \A n \in 1 .. MaxChain : n - 1 \in 0 .. MaxChain
  BY LimitAssumption
<1>6. \A n \in 1 .. MaxChain : C[n - 1] \in Nat
  BY <1>4, <1>5
<1>7. ASSUME NEW n \in 1 .. MaxChain
      PROVE  C[n] = LET i == C[n - 1]
                    IN IF i \in Ids(o.types) /\ o.types[i].kind \in ChainKinds
                         THEN o.types[i].type ELSE 0
  BY <1>3, <1>4, <1>6
<1> QED BY <1>4, <1>7 DEF C

\* The first type of the chain that the base BTF has decides.
LEMMA AnswerIsFirst ==
  ASSUME NEW o, NEW start, NEW n \in 0 .. MaxChain - 1, Unknowns(o, start, n),
         KnownAs(o, ChainFrom(o, start)[n]) # {}
  PROVE  Answer(o, start) = KnownAs(o, ChainFrom(o, start)[n])
<1> DEFINE C == ChainFrom(o, start)
           N == {m \in 0 .. MaxChain - 1 : \A k \in 0 .. m - 1 : KnownAs(o, C[k]) = {}}
<1>1. Answer(o, start) = UNION {KnownAs(o, C[m]) : m \in N}
  BY DEF Answer
<1>2. n \in N
  BY DEF Unknowns
<1>3. ASSUME NEW m \in N, m # n PROVE KnownAs(o, C[m]) = {}
  <2>1. m \in Int /\ n \in Int /\ MaxChain \in Nat
    BY LimitAssumption
  <2>2. CASE m < n
    <3>1. m \in 0 .. n - 1
      BY <2>1, <2>2
    <3> QED BY <3>1 DEF Unknowns
  <2>3. CASE n < m
    <3>1. n \in 0 .. m - 1
      BY <2>1, <2>3
    <3> QED BY <3>1
  <2> QED BY <2>1, <2>2, <2>3, <1>3
<1> HIDE DEF N, C
<1> QED BY <1>1, <1>2, <1>3 DEF C

\* A chain that ends unknown stands for nothing.
LEMMA AnswerIsEmpty ==
  ASSUME NEW o, \A i \in Ids(o.types) : o.types[i].type \in Nat, NEW start \in Nat,
         NEW n \in 0 .. MaxChain - 1, Unknowns(o, start, n + 1),
         o.types[ChainFrom(o, start)[n]].kind \notin ChainKinds
  PROVE  Answer(o, start) = {}
<1> DEFINE C == ChainFrom(o, start)
           S == {k \in Nat : n + 1 + k <= MaxChain => C[n + 1 + k] = 0}
<1>0. MaxChain \in Nat /\ n \in Nat /\ n + 1 \in 1 .. MaxChain /\ n + 1 - 1 = n
  BY LimitAssumption
<1>1. \A m \in 1 .. MaxChain :
        C[m] = LET i == C[m - 1]
               IN IF i \in Ids(o.types) /\ o.types[i].kind \in ChainKinds
                    THEN o.types[i].type ELSE 0
  BY ChainSteps
<1>2. o.types[C[n]].kind \notin ChainKinds /\ 0 \notin Ids(o.types)
  BY DEF Ids
<1> HIDE DEF C
<1>3. C[n + 1] = 0
  BY <1>0, <1>1, <1>2
<1>4. 0 \in S
  BY <1>0, <1>3
<1>5. ASSUME NEW k \in S PROVE k + 1 \in S
  <2>1. k \in Nat /\ n + 1 + (k + 1) - 1 = n + 1 + k
    BY <1>0
  <2>2. ASSUME n + 1 + (k + 1) <= MaxChain PROVE C[n + 1 + (k + 1)] = 0
    <3>1. n + 1 + (k + 1) \in 1 .. MaxChain /\ n + 1 + k <= MaxChain
      BY <1>0, <2>1, <2>2
    <3>2. C[n + 1 + k] = 0
      BY <3>1
    <3> HIDE DEF S
    <3> QED BY <1>1, <1>2, <2>1, <3>1, <3>2
  <2> QED BY <2>1, <2>2
<1>6. S \in SUBSET Nat
  OBVIOUS
<1>7. \A k \in Nat : k \in S
  <2> HIDE DEF S
  <2> QED BY <1>4, <1>5, <1>6, Induction
<1>8. ASSUME NEW m \in 0 .. MaxChain - 1 PROVE KnownAs(o, C[m]) = {}
  <2>1. CASE m <= n
    <3>1. m \in 0 .. n + 1 - 1
      BY <1>0, <2>1
    <3> QED BY <3>1 DEF Unknowns, C
  <2>2. CASE m > n
    <3>1. m - (n + 1) \in Nat /\ n + 1 + (m - (n + 1)) = m /\ m <= MaxChain
      BY <1>0, <2>2
    <3>2. m - (n + 1) \in S
      BY <1>7, <3>1
    <3>3. C[m] = 0
      BY <3>1, <3>2
    <3> QED BY <3>3, <1>2 DEF KnownAs
  <2> QED BY <1>0, <2>1, <2>2
<1> QED BY <1>8 DEF Answer, C

LEMMA Counting ==
  /\ \A o, r : ~ ByType(o, 0, r) /\ ~ ByRelo(o, 0, r)
  /\ \A o, r : \A n \in Nat \ {0} :
       /\ ByType(o, n, r) <=> \/ ByType(o, n - 1, r)
                              \/ Queryable(o.types[n]) /\ r \in Answer(o, n)
       /\ ByRelo(o, n, r) <=> ByRelo(o, n - 1, r) \/ r \in Answer(o, o.relos[n].type_id)
BY DEF ByType, ByRelo

\* Operators that read nothing but the input.
LEMMA SameBase ==
  ASSUME UNCHANGED inputs
  PROVE  /\ base' = base /\ objects' = objects
         /\ \A r, m : Wrapped(r, m)' = Wrapped(r, m)
         /\ \A r : Wrappers(r)' = Wrappers(r)
         /\ \A r, name : Named(r, name)' = Named(r, name) /\ Lacking(r, name)' = Lacking(r, name)
         /\ \A o, s : ChainFrom(o, s)' = ChainFrom(o, s) /\ Answer(o, s)' = Answer(o, s)
         /\ \A o, s, n : Unknowns(o, s, n)' = Unknowns(o, s, n)
         /\ \A o, n, r : ByType(o, n, r)' = ByType(o, n, r) /\ ByRelo(o, n, r)' = ByRelo(o, n, r)
         /\ \A o, r : ByObject(o, r)' = ByObject(o, r)
<1>1. base' = base /\ objects' = objects
  BY DEF inputs
<1>2. \A r, m : Wrapped(r, m)' = Wrapped(r, m)
  BY <1>1 DEF Wrapped, Peel, Behind, Ids
<1>3. \A r, name : Named(r, name)' = Named(r, name)
  BY <1>1 DEF Named
<1>4. \A r : Wrappers(r)' = Wrappers(r)
  BY <1>1 DEF Wrappers, Named, IsRecord, Peel, Behind, Ids
<1>5. \A r, name : Lacking(r, name)' = Lacking(r, name)
  BY <1>1 DEF Lacking, Nested, Iterate, Everything, Wrapped, Wrappers, Named, IsRecord, Peel, Behind, Ids
<1>6. \A o, s : ChainFrom(o, s)' = ChainFrom(o, s)
  BY DEF ChainFrom, Iterate, Ids
<1>7. \A o, s : Answer(o, s)' = Answer(o, s)
  BY <1>1 DEF Answer, KnownAs, Matches, Queryable, ChainFrom, Iterate, Ids
<1>8. \A o, s, n : Unknowns(o, s, n)' = Unknowns(o, s, n)
  BY <1>1 DEF Unknowns, KnownAs, Matches, Queryable, ChainFrom, Iterate, Ids
<1>9. \A o, n, r : ByType(o, n, r)' = ByType(o, n, r) /\ ByRelo(o, n, r)' = ByRelo(o, n, r)
  BY <1>7 DEF ByType, ByRelo, Queryable
<1>10. \A o, r : ByObject(o, r)' = ByObject(o, r)
  BY <1>9 DEF ByObject
<1> QED BY <1>1, <1>2, <1>3, <1>4, <1>5, <1>6, <1>7, <1>8, <1>9, <1>10

-----------------------------------------------------------------------------
\* The loops

\* Steps that record nothing and end nothing.
LEMMA QuietKeeps ==
  ASSUME Inv, UNCHANGED <<inputs, result, err>>, pc # "error", pc' # "error"
  PROVE  SeedsAreRequirements' /\ WitnessIsExact' /\ FailuresAreReal'
<1>1. base' = base /\ Ids(base)' = Ids(base)
  BY DEF inputs, Ids
<1>2. UNCHANGED <<required, roots, members, traces>>
  BY DEF result
<1>3. SeedsAreRequirements'
  BY <1>1, <1>2 DEF Inv, SeedsAreRequirements, Pruned
<1>4. WitnessIsExact'
  BY <1>1, <1>2 DEF Inv, WitnessIsExact, Unexplained
<1>5. err' = "none"
  BY DEF Inv, AtItem
<1> QED BY <1>3, <1>4, <1>5 DEF FailuresAreReal

\* Outside of the search the stack has no part.
LEMMA FramesKept ==
  ASSUME Inv, UNCHANGED <<inputs, frames>>, pc' \notin InMember
  PROVE  OnTheWay' /\ Searched'
<1>1. \A n \in DOMAIN frames : (n < Len(frames) => Waiting(n)) /\ (Waiting(n)' => n < Len(frames))
  BY DEF Waiting, InMember
<1>2. OnTheWay'
  BY <1>1, SameBase DEF Inv, OnTheWay, InMember
<1> QED BY <1>2 DEF Searched, InMember

\* The account of the roots, for steps that add none.
LEMMA SameRoots ==
  ASSUME Inv, pc \notin {"ok", "error"}, UNCHANGED <<inputs, object, phase, roots>>,
         \A r : phase = "types" => (ByType(Object, Done, r)' <=> ByType(Object, Done, r)),
         \A r : phase = "relos" => (ByRelo(Object, Done, r)' <=> ByRelo(Object, Done, r)),
         pc' # "ok"
  PROVE  RootsSoFar'
<1>1. /\ base' = base /\ objects' = objects /\ Object' = Object /\ Types' = Types
      /\ Ids(base)' = Ids(base)
  BY DEF inputs, Object, Types, Ids
<1>2. \A o, r : ByObject(o, r)' = ByObject(o, r)
  BY SameBase
<1>3. \A r : ByType(Object, Len(Types), r)' = ByType(Object, Len(Types), r)
  BY <1>1, SameBase
<1> QED BY <1>1, <1>2, <1>3 DEF Inv, RootsSoFar

LEMMA SkipTypeInv == Inv /\ SkipType => Inv'
<1> SUFFICES ASSUME Inv, SkipType PROVE Inv'
  OBVIOUS
<1>1. /\ pc = "next" /\ pc' = "next" /\ err' = err /\ phase = "types" /\ item \in Ids(Types)
      /\ ~ Queryable(Types[item]) /\ item' = item + 1
      /\ UNCHANGED <<inputs, object, phase, chain, path, result>>
  BY DEF SkipType, NextItem, Goto
<1>2. TypeOK /\ AtItem /\ Object' = Object /\ Types' = Types
  BY <1>1 DEF Inv, inputs, Object, Types
<1>3. item \in Nat \ {0} /\ Len(Types) \in Nat /\ item \in 1 .. Len(Types)
  BY <1>1, <1>2, AtWork
<1>4. TypeOK'
  <2>1. /\ object' \in DOMAIN objects /\ phase' \in {"types", "relos"} /\ item' \in Nat \ {0}
        /\ pc' \in Places /\ id' \in Nat /\ depth' \in 0 .. MaxChain
    BY <1>1, <1>2, <1>3 DEF TypeOK, Places, chain
  <2> QED BY <1>1, <1>2, <2>1, ControlType
<1>5. AtItem'
  BY <1>1, <1>2, <1>3 DEF AtItem, InAccess, InMember
<1>6. SeedsAreRequirements' /\ WitnessIsExact' /\ FailuresAreReal'
  BY <1>1, QuietKeeps
<1>7. OnTheWay' /\ Searched'
  BY <1>1, FramesKept DEF path, InMember
<1>8. Resolving'
  BY <1>1 DEF Resolving
<1>9. RootsSoFar'
  <2>1. Done = item - 1 /\ Done' = item
    BY <1>1, <1>3 DEF Done, InAccess
  <2>2. Types = Object.types
    BY DEF Types
  <2>3. \A r : ByType(Object, item, r) <=> ByType(Object, item - 1, r)
    BY <1>1, <1>3, <2>2, Counting
  <2>4. \A r : ByType(Object, Done, r)' <=> ByType(Object, Done, r)
    BY <1>1, <1>2, <2>1, <2>3, SameBase
  <2> QED BY <1>1, <2>4, SameRoots DEF result
<1> QED BY <1>4, <1>5, <1>6, <1>7, <1>8, <1>9 DEF Inv

\* The chain of a type or a relocation starts.
LEMMA TakeInv == Inv /\ (TakeType \/ TakeRelo) => Inv'
<1> SUFFICES ASSUME Inv, TakeType \/ TakeRelo PROVE Inv'
  OBVIOUS
<1>1. /\ pc = "next" /\ pc' = "resolve" /\ err' = err /\ depth' = 0
      /\ UNCHANGED <<inputs, object, phase, item, path, result>>
  BY DEF TakeType, TakeRelo, Goto, loop
<1>2. TypeOK /\ AtItem /\ Object' = Object /\ Types' = Types /\ Relo' = Relo
  BY <1>1 DEF Inv, inputs, Object, Types, Relo
<1>3. /\ phase = "types" => id' = item /\ item \in Ids(Types) /\ Queryable(Types[item])
      /\ phase = "relos" => id' = Relo.type_id /\ item \in DOMAIN Object.relos
      /\ phase \in {"types", "relos"}
  BY <1>2 DEF TakeType, TakeRelo, TypeOK
<1>4. id' = Start /\ Start \in Nat /\ Start' = Start
  BY <1>1, <1>2, <1>3, AtWork DEF Start
<1>5. TypeOK'
  <2>1. /\ object' \in DOMAIN objects /\ phase' \in {"types", "relos"} /\ item' \in Nat \ {0}
        /\ pc' \in Places /\ id' \in Nat /\ depth' \in 0 .. MaxChain
    BY <1>1, <1>2, <1>4, LimitAssumption DEF TypeOK, Places
  <2> QED BY <1>1, <1>2, <2>1, ControlType
<1>6. AtItem'
  <2>1. Queryable(Types[item])' = Queryable(Types[item]) /\ Ids(Types)' = Ids(Types)
    BY <1>1, <1>2 DEF Queryable, Ids
  <2> QED BY <1>1, <1>2, <1>3, <2>1 DEF AtItem, InAccess, InMember
<1>7. SeedsAreRequirements' /\ WitnessIsExact' /\ FailuresAreReal'
  BY <1>1, QuietKeeps
<1>8. OnTheWay' /\ Searched'
  BY <1>1, FramesKept DEF path, InMember
<1>9. Resolving'
  <2>1. \A i \in Ids(Object.types) : Object.types[i].type \in Nat
    BY <1>2, AtWork DEF Types
  <2>2. ChainFrom(Object, Start)[0] = Start
    BY <1>4, <2>1, ChainSteps
  <2>3. Unknowns(Object, Start, 0)
    BY DEF Unknowns
  <2> QED BY <1>1, <1>2, <1>4, <2>2, <2>3, SameBase DEF Resolving
<1>10. RootsSoFar'
  <2>1. Done' = Done
    BY <1>1 DEF Done, InAccess
  <2> QED BY <1>1, <1>2, <2>1, SameBase, SameRoots DEF result
<1> QED BY <1>5, <1>6, <1>7, <1>8, <1>9, <1>10 DEF Inv

LEMMA TypesDoneInv == Inv /\ TypesDone => Inv'
<1> SUFFICES ASSUME Inv, TypesDone PROVE Inv'
  OBVIOUS
<1>1. /\ pc = "next" /\ pc' = "next" /\ err' = err /\ phase = "types" /\ item > Len(Types)
      /\ phase' = "relos" /\ item' = 1
      /\ UNCHANGED <<inputs, object, chain, path, result>>
  BY DEF TypesDone
<1>2. TypeOK /\ AtItem /\ Object' = Object /\ Types' = Types
  BY <1>1 DEF Inv, inputs, Object, Types
<1>3. item \in Nat /\ Len(Types) \in Nat /\ Len(Object.relos) \in Nat
  BY <1>2, AtWork
<1>4. TypeOK'
  <2>1. /\ object' \in DOMAIN objects /\ phase' \in {"types", "relos"} /\ item' \in Nat \ {0}
        /\ pc' \in Places /\ id' \in Nat /\ depth' \in 0 .. MaxChain
    BY <1>1, <1>2 DEF TypeOK, Places, chain
  <2> QED BY <1>1, <1>2, <2>1, ControlType
<1>5. AtItem'
  BY <1>1, <1>2, <1>3 DEF AtItem, InAccess, InMember
<1>6. SeedsAreRequirements' /\ WitnessIsExact' /\ FailuresAreReal'
  BY <1>1, QuietKeeps
<1>7. OnTheWay' /\ Searched'
  BY <1>1, FramesKept DEF path, InMember
<1>8. Resolving'
  BY <1>1 DEF Resolving
<1>9. RootsSoFar'
  <2>1. Done = Len(Types) /\ Done' = 0
    BY <1>1, <1>2, <1>3 DEF Done, InAccess, AtItem
  <2>2. \A r : ~ ByRelo(Object, 0, r)
    BY Counting
  <2>3. /\ base' = base /\ Ids(base)' = Ids(base) /\ objects' = objects
        /\ \A r : ByType(Object, Len(Types), r)' <=> ByType(Object, Len(Types), r)
        /\ \A r : ~ ByRelo(Object, Done, r)'
        /\ \A o, r : ByObject(o, r)' = ByObject(o, r)
    BY <1>1, <1>2, <2>1, <2>2, SameBase DEF Ids
  <2>4. \A r \in Ids(base) : r \in roots <=> \/ \E n \in 1 .. object - 1 : ByObject(objects[n], r)
                                             \/ ByType(Object, Len(Types), r)
    BY <1>1, <2>1 DEF Inv, RootsSoFar
  <2> QED BY <1>1, <2>3, <2>4 DEF RootsSoFar, result
<1> QED BY <1>4, <1>5, <1>6, <1>7, <1>8, <1>9 DEF Inv

LEMMA RelosDoneInv == Inv /\ RelosDone => Inv'
<1> SUFFICES ASSUME Inv, RelosDone PROVE Inv'
  OBVIOUS
<1>1. /\ pc = "next" /\ pc' \in {"next", "ok"} /\ err' = err
      /\ phase = "relos" /\ item > Len(Object.relos)
      /\ UNCHANGED <<inputs, chain, path, result>>
  BY DEF RelosDone, Goto
<1>2. TypeOK /\ AtItem
  BY DEF Inv
<1>3. /\ item \in Nat /\ Len(Types) \in Nat /\ Len(Object.relos) \in Nat
      /\ object \in Nat /\ Len(objects) \in Nat /\ DOMAIN objects = 1 .. Len(objects)
      /\ object \in DOMAIN objects /\ Object = objects[object] /\ Types = Object.types
  BY <1>2, AtWork, Shape
<1>4. \/ /\ pc' = "next" /\ object' = object + 1 /\ object' \in DOMAIN objects
         /\ phase' = "types" /\ item' = 1
      \/ pc' = "ok" /\ object = Len(objects) /\ UNCHANGED loop
  <2>1. \/ /\ pc' = "next" /\ object < Len(objects) /\ object' = object + 1
           /\ phase' = "types" /\ item' = 1
        \/ pc' = "ok" /\ object = Len(objects) /\ UNCHANGED loop
    BY DEF RelosDone, Goto
  <2>2. object < Len(objects) => object + 1 \in DOMAIN objects
    BY <1>3
  <2> QED BY <2>1, <2>2
<1>5. TypeOK'
  <2>1. /\ object' \in DOMAIN objects /\ phase' \in {"types", "relos"} /\ item' \in Nat \ {0}
        /\ pc' \in Places /\ id' \in Nat /\ depth' \in 0 .. MaxChain
    BY <1>1, <1>2, <1>4 DEF TypeOK, Places, chain, loop
  <2> QED BY <1>1, <1>2, <2>1, ControlType
<1>6. AtItem'
  <2>1. TypeOK' => Len(Types)' \in Nat /\ Len(Object.relos)' \in Nat
    <3>1. TypeOK' => object' \in DOMAIN objects' /\ objects'[object'].types \in Seq(Type)
                     /\ objects'[object'].relos \in Seq(Relocation)
      <4>1. base' = base /\ objects' = objects
        BY <1>1, SameBase
      <4>2. object' \in DOMAIN objects
        BY <1>3, <1>4 DEF loop
      <4> QED BY <1>2, <4>1, <4>2, ObjectShape
    <3> QED BY <3>1 DEF Types, Object
  <2>2. pc = "next" /\ err = "none" /\ objects' = objects
    BY <1>1, <1>2 DEF AtItem, inputs
  <2> QED BY <1>1, <1>4, <1>5, <2>1, <2>2 DEF AtItem, InAccess, InMember, loop
<1>7. SeedsAreRequirements' /\ WitnessIsExact' /\ FailuresAreReal'
  BY <1>1, QuietKeeps
<1>8. OnTheWay' /\ Searched'
  BY <1>1, FramesKept DEF path, InMember
<1>9. Resolving'
  BY <1>1 DEF Resolving
<1>10. RootsSoFar'
  <2>1. Done = Len(Object.relos)
    BY <1>1, <1>2, <1>3 DEF Done, InAccess, AtItem
  <2>2. /\ base' = base /\ Ids(base)' = Ids(base) /\ objects' = objects
        /\ \A o, r : ByObject(o, r)' = ByObject(o, r)
    BY <1>1, SameBase DEF Ids
  <2>3. ASSUME NEW r \in Ids(base)
        PROVE  r \in roots <=> \E n \in 1 .. object : ByObject(objects[n], r)
    <3>1. r \in roots <=> \/ \E n \in 1 .. object - 1 : ByObject(objects[n], r)
                          \/ ByType(Object, Len(Types), r) \/ ByRelo(Object, Len(Object.relos), r)
      BY <1>1, <2>1 DEF Inv, RootsSoFar
    <3>2. r \in roots <=> \/ \E n \in 1 .. object - 1 : ByObject(objects[n], r)
                          \/ ByObject(objects[object], r)
      BY <3>1, <1>3 DEF ByObject
    <3> HIDE DEF ByObject
    <3> QED BY <3>2, <1>3
  <2>4. roots' = roots
    BY <1>1 DEF result
  <2>5. CASE pc' = "next"
    <3>1. Done' = 0 /\ object' - 1 = object /\ phase' = "types"
      BY <1>3, <1>4, <2>5 DEF Done, InAccess
    <3>2. \A o, r : ~ ByType(o, 0, r)'
      BY <1>1, SameBase, Counting
    <3>3. \A r, n : ByObject(objects[n], r)' <=> ByObject(objects[n], r)
      BY <2>2
    <3>4. \A r \in Ids(base)' : r \in roots' <=> \E n \in 1 .. object' - 1 : ByObject(objects[n], r)'
      BY <2>2, <2>3, <2>4, <3>1, <3>3
    <3>5. \A r : ~ ByType(Object, Done, r)'
      BY <3>1, <3>2
    <3> QED BY <2>5, <3>1, <3>2, <3>4 DEF RootsSoFar
  <2>6. CASE pc' = "ok"
    <3>1. DOMAIN objects' = 1 .. object
      BY <1>3, <1>4, <2>2, <2>6
    <3> QED BY <2>2, <2>3, <2>4, <2>6, <3>1 DEF RootsSoFar
  <2> QED BY <1>1, <2>5, <2>6
<1> QED BY <1>5, <1>6, <1>7, <1>8, <1>9, <1>10 DEF Inv

-----------------------------------------------------------------------------
\* Resolving a type

\* What is at the current place of the chain.
LEMMA AtChain ==
  ASSUME Inv, Looking
  PROVE  /\ id = ChainFrom(Object, Start)[depth] /\ Unknowns(Object, Start, depth)
         /\ depth \in 0 .. MaxChain - 1 /\ id \in Ids(Object.types) /\ id \in Ids(Types)
         /\ Current = Object.types[id] /\ Hits = KnownAs(Object, id)
         /\ Start \in Nat /\ \A i \in Ids(Object.types) : Object.types[i].type \in Nat
         /\ Hits \subseteq Ids(base)
         /\ pc = "resolve" /\ TypeOK /\ AtItem /\ err = "none"
         /\ phase = "types" => /\ Start = item /\ item \in Ids(Types) /\ Queryable(Types[item])
         /\ phase = "relos" => Start = Relo.type_id /\ item \in DOMAIN Object.relos
<1>1. pc = "resolve" /\ depth < MaxChain /\ id \in Ids(Types) /\ TypeOK /\ AtItem
  BY DEF Looking, Inv
<1>2. id = ChainFrom(Object, Start)[depth] /\ Unknowns(Object, Start, depth)
  BY <1>1 DEF Inv, Resolving
<1>3. depth \in 0 .. MaxChain - 1
  BY <1>1, LimitAssumption DEF TypeOK
<1>4. id \in Ids(Object.types) /\ Current = Object.types[id]
  BY <1>1 DEF Types, Current
<1>5. Hits = KnownAs(Object, id)
  BY <1>4 DEF Hits, KnownAs
<1>6. Hits \subseteq Ids(base)
  BY DEF Hits, Matches
<1>7. \A i \in Ids(Object.types) : Object.types[i].type \in Nat
  BY <1>1, AtWork
<1>8. /\ phase = "types" => Start = item /\ item \in Ids(Types) /\ Queryable(Types[item])
      /\ phase = "relos" => Start = Relo.type_id /\ item \in DOMAIN Object.relos
      /\ phase \in {"types", "relos"}
  BY <1>1 DEF Start, AtItem, TypeOK
<1>9. Start \in Nat
  BY <1>1, <1>8, AtWork
<1>10. err = "none"
  BY <1>1 DEF AtItem
<1> QED BY <1>1, <1>2, <1>3, <1>4, <1>5, <1>6, <1>7, <1>8, <1>9, <1>10

LEMMA FollowChainInv == Inv /\ FollowChain => Inv'
<1> SUFFICES ASSUME Inv, FollowChain PROVE Inv'
  OBVIOUS
<1>1. /\ Looking /\ Hits = {} /\ Current.kind \in ChainKinds
      /\ id' = Current.type /\ depth' = depth + 1
      /\ UNCHANGED <<inputs, loop, pc, path, result, err>>
  BY DEF FollowChain
<1>2. UNCHANGED <<object, phase, item>> /\ pc = "resolve" /\ pc' = "resolve" /\ err' = err
  BY <1>1 DEF loop, Looking
<1>3. TypeOK /\ AtItem /\ Object' = Object /\ Types' = Types /\ Relo' = Relo
  BY <1>1, <1>2 DEF Inv, inputs, Object, Types, Relo
<1>4. /\ id = ChainFrom(Object, Start)[depth] /\ Unknowns(Object, Start, depth)
      /\ depth \in 0 .. MaxChain - 1 /\ id \in Ids(Object.types)
      /\ Current = Object.types[id] /\ Hits = KnownAs(Object, id)
      /\ Start \in Nat /\ \A i \in Ids(Object.types) : Object.types[i].type \in Nat
  BY <1>1, AtChain
<1>5. MaxChain \in Nat /\ depth + 1 \in 1 .. MaxChain /\ depth + 1 - 1 = depth
  BY <1>4, LimitAssumption
<1>6. TypeOK'
  <2>1. /\ object' \in DOMAIN objects /\ phase' \in {"types", "relos"} /\ item' \in Nat \ {0}
        /\ pc' \in Places /\ id' \in Nat /\ depth' \in 0 .. MaxChain
    BY <1>1, <1>2, <1>3, <1>4, <1>5 DEF TypeOK, Places
  <2> QED BY <1>1, <1>3, <2>1, ControlType
<1>7. AtItem'
  <2>1. Queryable(Types[item])' = Queryable(Types[item]) /\ Ids(Types)' = Ids(Types)
    BY <1>2, <1>3 DEF Queryable, Ids
  <2> QED BY <1>1, <1>2, <1>3, <2>1 DEF AtItem, InAccess, InMember
<1>8. SeedsAreRequirements' /\ WitnessIsExact' /\ FailuresAreReal'
  BY <1>1, <1>2, QuietKeeps
<1>9. OnTheWay' /\ Searched'
  BY <1>1, <1>2, FramesKept DEF path, InMember
<1>10. Resolving'
  <2>1. ChainFrom(Object, Start)[depth + 1] = Current.type
    BY <1>1, <1>4, <1>5, ChainSteps
  <2>2. Unknowns(Object, Start, depth + 1)
    BY <1>1, <1>4, <1>5 DEF Unknowns
  <2>3. Start' = Start
    BY <1>2, <1>3 DEF Start
  <2> QED BY <1>1, <1>2, <1>3, <2>1, <2>2, <2>3, SameBase DEF Resolving
<1>11. RootsSoFar'
  <2>1. Done' = Done
    BY <1>2 DEF Done
  <2> QED BY <1>1, <1>2, <1>3, <2>1, SameBase, SameRoots DEF result
<1> QED BY <1>6, <1>7, <1>8, <1>9, <1>10, <1>11 DEF Inv

\* The item is done: it stands for nothing.
LEMMA ProgramLocalInv == Inv /\ ProgramLocal => Inv'
<1> SUFFICES ASSUME Inv, ProgramLocal PROVE Inv'
  OBVIOUS
<1>1. /\ Looking /\ Hits = {} /\ Current.kind \notin ChainKinds /\ phase = "types"
      /\ pc' = "next" /\ err' = err /\ item' = item + 1
      /\ UNCHANGED <<inputs, object, phase, chain, path, result>>
  BY DEF ProgramLocal, NextItem, Goto
<1>2. TypeOK /\ AtItem /\ Object' = Object /\ Types' = Types /\ pc = "resolve"
  BY <1>1 DEF Inv, inputs, Object, Types, Looking
<1>3. item \in Nat \ {0} /\ Len(Types) \in Nat /\ item \in 1 .. Len(Types)
  BY <1>1, <1>2, AtWork DEF AtItem
<1>4. TypeOK'
  <2>1. /\ object' \in DOMAIN objects /\ phase' \in {"types", "relos"} /\ item' \in Nat \ {0}
        /\ pc' \in Places /\ id' \in Nat /\ depth' \in 0 .. MaxChain
    BY <1>1, <1>2, <1>3 DEF TypeOK, Places, chain
  <2> QED BY <1>1, <1>2, <2>1, ControlType
<1>5. AtItem'
  BY <1>1, <1>2, <1>3 DEF AtItem, InAccess, InMember
<1>6. SeedsAreRequirements' /\ WitnessIsExact' /\ FailuresAreReal'
  BY <1>1, <1>2, QuietKeeps
<1>7. OnTheWay' /\ Searched'
  BY <1>1, FramesKept DEF path, InMember
<1>8. Resolving'
  BY <1>1 DEF Resolving
<1>9. RootsSoFar'
  <2>1. Done = item - 1 /\ Done' = item
    BY <1>1, <1>2, <1>3 DEF Done, InAccess
  <2>2. Answer(Object, item) = {}
    <3>1. /\ id = ChainFrom(Object, Start)[depth] /\ Unknowns(Object, Start, depth)
          /\ depth \in 0 .. MaxChain - 1 /\ Start = item
          /\ Current = Object.types[id] /\ Hits = KnownAs(Object, id)
          /\ Start \in Nat /\ \A i \in Ids(Object.types) : Object.types[i].type \in Nat
      BY <1>1, AtChain
    <3>2. Unknowns(Object, Start, depth + 1)
      BY <1>1, <3>1 DEF Unknowns
    <3> QED BY <1>1, <3>1, <3>2, AnswerIsEmpty
  <2>3. \A r : ByType(Object, item, r) <=> ByType(Object, item - 1, r)
    BY <1>3, <2>2, Counting
  <2>4. \A r : ByType(Object, Done, r)' <=> ByType(Object, Done, r)
    BY <1>1, <1>2, <2>1, <2>3, SameBase
  <2> QED BY <1>1, <1>2, <2>4, SameRoots DEF result
<1> QED BY <1>4, <1>5, <1>6, <1>7, <1>8, <1>9 DEF Inv

-----------------------------------------------------------------------------
\* The witness, trace by trace

Witness(ts, rs, ms, b) ==
    /\ \A n \in DOMAIN ts : /\ ts[n].id \in Ids(b)
                            /\ ts[n].what = "member" => ts[n].member \in DOMAIN b[ts[n].id].members
    /\ \A i : i \in rs <=> \E n \in DOMAIN ts : ts[n].what = "root" /\ ts[n].id = i
    /\ \A i \in Ids(b) : \A m :
          m \in ms[i] <=> \E n \in DOMAIN ts : ts[n].what = "member" /\ ts[n].id = i /\ ts[n].member = m
    /\ \A m, n \in DOMAIN ts :
          ts[m].what = ts[n].what /\ ts[m].id = ts[n].id /\ ts[m].member = ts[n].member => m = n

LEMMA WitnessByTrace == WitnessIsExact <=> Witness(traces, roots, members, base)
<1> DEFINE All == {traces[n] : n \in DOMAIN traces}
           RootIds == {t.id : t \in {u \in All : u.what = "root"}}
           Mems(i) == {t.member : t \in {u \in All : u.what = "member" /\ u.id = i}}
<1>1. \A i : i \in RootIds <=> \E n \in DOMAIN traces : traces[n].what = "root" /\ traces[n].id = i
  OBVIOUS
<1>2. \A i, m : m \in Mems(i) <=> \E n \in DOMAIN traces : /\ traces[n].what = "member"
                                                           /\ traces[n].id = i /\ traces[n].member = m
  OBVIOUS
<1>3. (RootIds = roots) <=> \A i : i \in roots <=> i \in RootIds
  OBVIOUS
<1>4. \A i : (Mems(i) = members[i]) <=> \A m : m \in members[i] <=> m \in Mems(i)
  OBVIOUS
<1>5. \A n \in DOMAIN traces : ~ Unexplained(traces[n]) <=>
         /\ traces[n].id \in Ids(base)
         /\ traces[n].what = "member" => traces[n].member \in DOMAIN base[traces[n].id].members
  BY DEF Unexplained
<1>6. WitnessIsExact <=>
         /\ \A n \in DOMAIN traces : ~ Unexplained(traces[n])
         /\ RootIds = roots
         /\ \A i \in Ids(base) : Mems(i) = members[i]
         /\ \A m, n \in DOMAIN traces :
               /\ traces[m].what = traces[n].what /\ traces[m].id = traces[n].id
               /\ traces[m].member = traces[n].member
               => m = n
  BY DEF WitnessIsExact
<1> HIDE DEF All, RootIds, Mems
<1>7. (RootIds = roots) <=>
         \A i : i \in roots <=> \E n \in DOMAIN traces : traces[n].what = "root" /\ traces[n].id = i
  BY <1>1, <1>3
<1>8. \A i : (Mems(i) = members[i]) <=>
         \A m : m \in members[i] <=> \E n \in DOMAIN traces : /\ traces[n].what = "member"
                                                              /\ traces[n].id = i /\ traces[n].member = m
  BY <1>2, <1>4
<1> QED BY <1>5, <1>6, <1>7, <1>8 DEF Witness

\* A trace of something new.
LEMMA Appended ==
  ASSUME NEW S, NEW ts \in Seq(S), NEW t \in S
  PROVE  /\ DOMAIN Append(ts, t) = DOMAIN ts \cup {Len(ts) + 1}
         /\ Len(ts) + 1 \notin DOMAIN ts
         /\ Append(ts, t)[Len(ts) + 1] = t
         /\ \A n \in DOMAIN ts : Append(ts, t)[n] = ts[n]
<1>1. DOMAIN ts = 1 .. Len(ts) /\ Len(ts) \in Nat /\ DOMAIN Append(ts, t) = 1 .. Len(ts) + 1
  OBVIOUS
<1>2. Append(ts, t)[Len(ts) + 1] = t /\ \A n \in 1 .. Len(ts) : Append(ts, t)[n] = ts[n]
  OBVIOUS
<1> QED BY <1>1, <1>2

LEMMA RootWitness ==
  ASSUME TypeOK, WitnessIsExact, UNCHANGED base, NEW i \in Ids(base), AddRoot(i)
  PROVE  WitnessIsExact'
<1>1. Witness(traces, roots, members, base)
  BY WitnessByTrace
<1>2. roots' = roots \cup {i} /\ members' = members /\ base' = base
  BY DEF AddRoot
<1>3. Witness(traces', roots', members', base')
  <2>1. CASE i \in roots
    <3>1. roots' = roots /\ traces' = traces
      BY <1>2, <2>1 DEF AddRoot
    <3> QED BY <1>1, <1>2, <3>1
  <2>2. CASE i \notin roots
    <3> DEFINE t == Trace("root", i, 0)  ts == traces'  last == Len(traces) + 1
    <3>1. ts = Append(traces, t) /\ t.what = "root" /\ t.id = i
      BY <2>2 DEF AddRoot, Trace
    <3>2. traces \in Seq(TraceRec) /\ t \in TraceRec
      BY DEF TypeOK, Trace, TraceRec
    <3> HIDE DEF t, ts, last
    <3>3. /\ DOMAIN ts = DOMAIN traces \cup {last} /\ last \notin DOMAIN traces /\ ts[last] = t
          /\ \A n \in DOMAIN traces : ts[n] = traces[n]
      BY <3>1, <3>2, Appended DEF last
    <3>4. \A n \in DOMAIN traces : ~ (traces[n].what = "root" /\ traces[n].id = i)
      BY <1>1, <2>2 DEF Witness
    <3>5. \A n \in DOMAIN ts : /\ ts[n].id \in Ids(base)
                               /\ ts[n].what = "member" => ts[n].member \in DOMAIN base[ts[n].id].members
      BY <1>1, <3>1, <3>3 DEF Witness
    <3>6. \A k : k \in roots' <=> \E n \in DOMAIN ts : ts[n].what = "root" /\ ts[n].id = k
      BY <1>1, <1>2, <3>1, <3>3 DEF Witness
    <3>7. \A k \in Ids(base) : \A m :
            m \in members[k] <=>
              \E n \in DOMAIN ts : ts[n].what = "member" /\ ts[n].id = k /\ ts[n].member = m
      BY <1>1, <3>1, <3>3 DEF Witness
    <3>8. \A m, n \in DOMAIN ts :
            ts[m].what = ts[n].what /\ ts[m].id = ts[n].id /\ ts[m].member = ts[n].member => m = n
      BY <1>1, <3>1, <3>3, <3>4 DEF Witness
    <3> QED BY <1>2, <3>5, <3>6, <3>7, <3>8 DEF Witness, ts
  <2> QED BY <2>1, <2>2
<1>9. (WitnessIsExact <=> Witness(traces, roots, members, base))'
  BY WitnessByTrace, PTL
<1> QED BY <1>3, <1>9

LEMMA MemberWitness ==
  ASSUME TypeOK, WitnessIsExact, UNCHANGED base,
         NEW i \in Ids(base), NEW m \in DOMAIN base[i].members, AddMember(i, m)
  PROVE  WitnessIsExact'
<1>1. Witness(traces, roots, members, base)
  BY WitnessByTrace
<1>2. /\ members \in [Ids(base) -> SUBSET Nat]
      /\ members' = [members EXCEPT ![i] = @ \cup {m}] /\ roots' = roots /\ base' = base
  BY DEF AddMember, TypeOK
<1>3. /\ members'[i] = members[i] \cup {m}
      /\ \A k \in Ids(base) : k # i => members'[k] = members[k]
  BY <1>2
<1>4. Witness(traces', roots', members', base')
  <2>1. CASE m \in members[i]
    <3>1. traces' = traces
      BY <2>1 DEF AddMember
    <3>2. \A k \in Ids(base) : members'[k] = members[k]
      BY <1>3, <2>1
    <3>3. roots' = roots /\ base' = base
      BY <1>2
    <3> QED BY <1>1, <3>1, <3>2, <3>3 DEF Witness
  <2>2. CASE m \notin members[i]
    <3> DEFINE t == Trace("member", i, m)  ts == traces'  last == Len(traces) + 1
    <3>1. ts = Append(traces, t) /\ t.what = "member" /\ t.id = i /\ t.member = m
      BY <2>2 DEF AddMember, Trace
    <3>2. traces \in Seq(TraceRec) /\ t \in TraceRec
      <4>1. m \in Nat
        BY Shape
      <4> QED BY <4>1 DEF TypeOK, Trace, TraceRec
    <3> HIDE DEF t, ts, last
    <3>3. /\ DOMAIN ts = DOMAIN traces \cup {last} /\ last \notin DOMAIN traces /\ ts[last] = t
          /\ \A n \in DOMAIN traces : ts[n] = traces[n]
      BY <3>1, <3>2, Appended DEF last
    <3>4. \A n \in DOMAIN traces : ~ (traces[n].what = "member" /\ traces[n].id = i /\ traces[n].member = m)
      BY <1>1, <2>2 DEF Witness
    <3>5. \A n \in DOMAIN ts : /\ ts[n].id \in Ids(base)
                               /\ ts[n].what = "member" => ts[n].member \in DOMAIN base[ts[n].id].members
      BY <1>1, <3>1, <3>3 DEF Witness
    <3>6. \A k : k \in roots <=> \E n \in DOMAIN ts : ts[n].what = "root" /\ ts[n].id = k
      BY <1>1, <3>1, <3>3 DEF Witness
    <3>7. ASSUME NEW k \in Ids(base), NEW x
          PROVE  x \in members'[k] <=>
                   \E n \in DOMAIN ts : ts[n].what = "member" /\ ts[n].id = k /\ ts[n].member = x
      <4>1. x \in members[k] <=>
              \E n \in DOMAIN traces : traces[n].what = "member" /\ traces[n].id = k /\ traces[n].member = x
        BY <1>1 DEF Witness
      <4>2. x \in members'[k] <=> x \in members[k] \/ (k = i /\ x = m)
        BY <1>3
      <4>3. (\E n \in DOMAIN ts : ts[n].what = "member" /\ ts[n].id = k /\ ts[n].member = x)
              <=> \/ \E n \in DOMAIN traces : /\ traces[n].what = "member" /\ traces[n].id = k
                                              /\ traces[n].member = x
                  \/ k = i /\ x = m
        BY <3>1, <3>3
      <4> QED BY <4>1, <4>2, <4>3
    <3>8. \A k, n \in DOMAIN ts :
            ts[k].what = ts[n].what /\ ts[k].id = ts[n].id /\ ts[k].member = ts[n].member => k = n
      BY <1>1, <3>1, <3>3, <3>4 DEF Witness
    <3>9. roots' = roots /\ base' = base
      BY <1>2
    <3> QED BY <3>5, <3>6, <3>7, <3>8, <3>9 DEF Witness, ts
  <2> QED BY <2>1, <2>2
<1>9. (WitnessIsExact <=> Witness(traces, roots, members, base))'
  BY WitnessByTrace, PTL
<1> QED BY <1>4, <1>9

-----------------------------------------------------------------------------
\* The roots

\* What the one hit of a lookup is.
LEMMA OneHit ==
  ASSUME Inv, Looking, ~ Several(Hits), NEW i \in Hits
  PROVE  /\ Answer(Object, Start) = {i} /\ i \in Ids(base)
<1>1. Hits = {i}
  BY DEF Several
<1>2. /\ id = ChainFrom(Object, Start)[depth] /\ Unknowns(Object, Start, depth)
      /\ depth \in 0 .. MaxChain - 1 /\ Hits = KnownAs(Object, id) /\ Hits \subseteq Ids(base)
  BY AtChain
<1>3. KnownAs(Object, ChainFrom(Object, Start)[depth]) # {}
  BY <1>1, <1>2
<1> QED BY <1>1, <1>2, <1>3, AnswerIsFirst

\* The account of the roots, for steps that add the answer of the item.
LEMMA OneRoot ==
  ASSUME Inv, pc = "resolve", UNCHANGED <<inputs, object, phase>>, pc' \notin {"ok", "error"},
         NEW i, Answer(Object, Start) = {i}, roots' = roots \cup {i}, Done' = item
  PROVE  RootsSoFar'
<1>1. /\ base' = base /\ objects' = objects /\ Object' = Object /\ Types' = Types
      /\ Ids(base)' = Ids(base)
  BY DEF inputs, Object, Types, Ids
<1>2. /\ \A o, r : ByObject(o, r)' = ByObject(o, r)
      /\ \A o, n, r : ByType(o, n, r)' = ByType(o, n, r) /\ ByRelo(o, n, r)' = ByRelo(o, n, r)
  BY SameBase
<1>3. Done = item - 1 /\ item \in Nat \ {0} /\ Types = Object.types /\ phase \in {"types", "relos"}
  BY DEF Done, InAccess, Types, Inv, TypeOK
<1>4. ASSUME phase = "types", NEW r
      PROVE  ByType(Object, item, r) <=> ByType(Object, item - 1, r) \/ r = i
  <2>1. Queryable(Object.types[item]) /\ Answer(Object, item) = {i}
    BY <1>3, <1>4 DEF Inv, AtItem, Start
  <2> QED BY <1>3, <2>1, Counting
<1>5. ASSUME phase = "relos", NEW r
      PROVE  ByRelo(Object, item, r) <=> ByRelo(Object, item - 1, r) \/ r = i
  <2>1. Answer(Object, Object.relos[item].type_id) = {i}
    BY <1>5 DEF Start, Relo
  <2> QED BY <1>3, <2>1, Counting
<1>6. ASSUME NEW r \in Ids(base)
      PROVE  r \in roots <=> \/ \E n \in 1 .. object - 1 : ByObject(objects[n], r)
                             \/ phase = "types" /\ ByType(Object, item - 1, r)
                             \/ /\ phase = "relos"
                                /\ ByType(Object, Len(Types), r) \/ ByRelo(Object, item - 1, r)
  BY <1>3 DEF Inv, RootsSoFar
<1>7. ASSUME NEW r \in Ids(base)
      PROVE  r \in roots' <=> \/ \E n \in 1 .. object - 1 : ByObject(objects[n], r)
                              \/ phase = "types" /\ ByType(Object, item, r)
                              \/ /\ phase = "relos"
                                 /\ ByType(Object, Len(Types), r) \/ ByRelo(Object, item, r)
  BY <1>3, <1>4, <1>5, <1>6
<1> QED BY <1>1, <1>2, <1>7 DEF RootsSoFar

LEMMA RootInSet ==
  ASSUME SeedsAreRequirements, pc # "error", UNCHANGED base, NEW i, AddRoot(i),
         required' = required \cup {i}
  PROVE  SeedsAreRequirements'
BY DEF SeedsAreRequirements, AddRoot, Pruned, Ids

\* The reasons that have no property of their own.
LEMMA OtherFailure ==
  ASSUME err' \notin {"ambiguous", "unresolved", "no member"}
  PROVE  FailuresAreReal'
BY DEF FailuresAreReal

LEMMA SeedFoundInv == Inv /\ SeedFound => Inv'
<1> SUFFICES ASSUME Inv, SeedFound PROVE Inv'
  OBVIOUS
<1>1. /\ Looking /\ phase = "types" /\ ~ Several(Hits)
      /\ UNCHANGED <<inputs, chain, path>>
  BY DEF SeedFound
<1>2. PICK i \in Hits : \/ AddRoot(i) /\ required' = required \cup {i} /\ NextItem
                        \/ NoMemory(i \in roots) /\ UNCHANGED <<loop, result>>
  BY DEF SeedFound
<1>3. TypeOK /\ AtItem /\ pc = "resolve" /\ err = "none" /\ i \in Ids(base)
  BY <1>1, <1>2, AtChain, OneHit
<1>4. CASE NoMemory(i \in roots) /\ UNCHANGED <<loop, result>>
  <2>1. Fail("memory") /\ err' = "memory"
    BY <1>4 DEF NoMemory, Fail
  <2>2. UNCHANGED <<required, roots, members, traces>> /\ required' \subseteq Ids(base)
    BY <1>3, <1>4 DEF result, TypeOK
  <2> QED BY <1>1, <1>3, <1>4, <2>1, <2>2, OtherFailure, FailKeepsInv
<1>5. CASE AddRoot(i) /\ required' = required \cup {i} /\ NextItem
  <2>1. /\ pc' = "next" /\ err' = err /\ item' = item + 1
        /\ UNCHANGED <<inputs, object, phase, chain, path>>
    BY <1>1, <1>5 DEF NextItem, Goto
  <2>2. Object' = Object /\ Types' = Types /\ base' = base
    BY <2>1 DEF inputs, Object, Types
  <2>3. item \in Nat \ {0} /\ Len(Types) \in Nat /\ item \in 1 .. Len(Types)
    BY <1>1, <1>3, AtWork DEF AtItem
  <2>4. TypeOK'
    <3>1. roots' \subseteq Ids(base)' /\ UNCHANGED members /\ traces' \in Seq(TraceRec)'
      BY <1>3, <1>5, <2>1, RootType
    <3>2. Ids(base)' = Ids(base)
      BY <2>2 DEF Ids
    <3>3. /\ item' \in Nat \ {0} /\ pc' \in Places
          /\ comp' \in Nat /\ oid' \in Nat /\ bid' \in Nat
          /\ frames' \in Seq([record : Ids(base), at : Nat])
          /\ required' \subseteq Ids(base)
      BY <1>3, <1>5, <2>1, <2>3 DEF TypeOK, Places, path
    <3>4. /\ members' \in [Ids(base) -> SUBSET Nat]'
          /\ \A k \in Ids(base) : members'[k] \subseteq DOMAIN base[k].members
      BY <1>3, <3>1, <3>2 DEF TypeOK
    <3> QED BY <1>3, <2>1, <3>1, <3>2, <3>3, <3>4, RecordType
  <2>5. AtItem'
    BY <1>1, <1>3, <2>1, <2>2, <2>3 DEF AtItem, InAccess, InMember
  <2>6. SeedsAreRequirements'
    BY <1>3, <1>5, <2>2, RootInSet DEF Inv
  <2>7. WitnessIsExact'
    BY <1>3, <1>5, <2>2, RootWitness DEF Inv
  <2>8. FailuresAreReal'
    BY <1>3, <2>1, OtherFailure
  <2>9. OnTheWay' /\ Searched'
    BY <2>1, FramesKept DEF path, InMember
  <2>10. Resolving'
    BY <2>1 DEF Resolving
  <2>11. RootsSoFar'
    <3>1. Answer(Object, Start) = {i}
      BY <1>1, OneHit
    <3>2. Done' = item /\ roots' = roots \cup {i}
      BY <1>5, <2>1, <2>3 DEF Done, InAccess, AddRoot
    <3> QED BY <1>3, <2>1, <3>1, <3>2, OneRoot
  <2> QED BY <2>4, <2>5, <2>6, <2>7, <2>8, <2>9, <2>10, <2>11 DEF Inv
<1> QED BY <1>2, <1>4, <1>5

LEMMA RootFoundInv == Inv /\ RootFound => Inv'
<1> SUFFICES ASSUME Inv, RootFound PROVE Inv'
  OBVIOUS
<1>1. Looking /\ phase = "relos" /\ ~ Several(Hits) /\ UNCHANGED <<inputs, chain>>
  BY DEF RootFound
<1>2. PICK i \in Hits :
        /\ required' = required \cup {i}
        /\ \/ NoMemory(i \in roots) /\ UNCHANGED <<loop, roots, members, traces, path>>
           \/ /\ AddRoot(i)
              /\ IF Relo.field /\ Relo.access # << >>
                   THEN /\ comp' = 0 /\ oid' = Relo.type_id /\ bid' = i
                        /\ Goto("access")
                        /\ UNCHANGED <<loop, frames>>
                   ELSE NextItem /\ UNCHANGED path
  BY DEF RootFound
<1>3. /\ TypeOK /\ AtItem /\ pc = "resolve" /\ err = "none" /\ i \in Ids(base)
      /\ item \in DOMAIN Object.relos
  BY <1>1, <1>2, AtChain, OneHit
<1>4. required' \subseteq Ids(base)
  BY <1>2, <1>3 DEF TypeOK
<1>5. CASE NoMemory(i \in roots) /\ UNCHANGED <<loop, roots, members, traces, path>>
  <2>1. Fail("memory") /\ err' = "memory"
    BY <1>5 DEF NoMemory, Fail
  <2> QED BY <1>1, <1>3, <1>4, <1>5, <2>1, OtherFailure, FailKeepsInv
<1>6. CASE /\ AddRoot(i)
           /\ IF Relo.field /\ Relo.access # << >>
                THEN /\ comp' = 0 /\ oid' = Relo.type_id /\ bid' = i
                     /\ Goto("access")
                     /\ UNCHANGED <<loop, frames>>
                ELSE NextItem /\ UNCHANGED path
  <2>1. /\ err' = err /\ UNCHANGED <<inputs, object, phase, chain, frames>>
        /\ \/ /\ pc' = "access" /\ item' = item
              /\ comp' = 0 /\ oid' = Relo.type_id /\ bid' = i
           \/ pc' = "next" /\ item' = item + 1 /\ UNCHANGED path
    BY <1>1, <1>6 DEF NextItem, Goto, loop, path
  <2>2. Object' = Object /\ Types' = Types /\ base' = base /\ Ids(base)' = Ids(base)
    BY <2>1 DEF inputs, Object, Types, Ids
  <2>3. /\ item \in Nat \ {0} /\ Len(Object.relos) \in Nat /\ item \in 1 .. Len(Object.relos)
        /\ Relo.type_id \in Nat /\ Len(Relo.access) \in Nat
    BY <1>3, AtWork
  <2>4. TypeOK'
    <3>1. roots' \subseteq Ids(base)' /\ UNCHANGED members /\ traces' \in Seq(TraceRec)'
      BY <1>3, <1>6, <2>1, RootType
    <3>2. item' \in Nat \ {0} /\ pc' \in Places
      BY <2>1, <2>3 DEF Places
    <3>3. comp' \in Nat /\ oid' \in Nat /\ bid' \in Nat
      <4>1. comp \in Nat /\ oid \in Nat /\ bid \in Nat /\ i \in Nat
        BY <1>3 DEF TypeOK, Ids
      <4> QED BY <2>1, <2>3, <4>1 DEF path
    <3>4. frames' \in Seq([record : Ids(base), at : Nat])
      BY <1>3, <2>1 DEF TypeOK
    <3>5. /\ members' \in [Ids(base) -> SUBSET Nat]'
          /\ \A k \in Ids(base) : members'[k] \subseteq DOMAIN base[k].members
      BY <1>3, <2>2, <3>1 DEF TypeOK
    <3> QED BY <1>3, <1>4, <2>1, <2>2, <3>1, <3>2, <3>3, <3>4, <3>5, RecordType
  <2>5. AtItem'
    <3>1. Relo' = Relo \/ pc' = "next"
      BY <2>1, <2>2 DEF Relo
    <3>2. pc' = "access" => /\ item' \in DOMAIN Object'.relos /\ comp' = 0 /\ Relo' = Relo
                            /\ Relo.access # << >>
      BY <1>3, <1>6, <2>1, <2>2 DEF Relo, NextItem, Goto
    <3>3. pc' = "next" => item' <= 1 + Len(Object'.relos)
      BY <2>1, <2>2, <2>3
    <3>4. phase' = "relos" /\ pc' \in {"access", "next"} /\ err' = "none"
      BY <1>1, <1>3, <2>1
    <3> QED BY <2>3, <3>2, <3>3, <3>4 DEF AtItem, InAccess, InMember
  <2>6. SeedsAreRequirements'
    BY <1>2, <1>3, <1>6, <2>2, RootInSet DEF Inv
  <2>7. WitnessIsExact'
    BY <1>3, <1>6, <2>2, RootWitness DEF Inv
  <2>8. FailuresAreReal'
    BY <1>3, <2>1, OtherFailure
  <2>9. OnTheWay' /\ Searched'
    BY <2>1, FramesKept DEF InMember
  <2>10. Resolving'
    BY <2>1 DEF Resolving
  <2>11. RootsSoFar'
    <3>1. Answer(Object, Start) = {i}
      BY <1>1, OneHit
    <3>2. Done' = item /\ roots' = roots \cup {i} /\ pc' \notin {"ok", "error"}
      BY <1>6, <2>1, <2>3 DEF Done, InAccess, AddRoot
    <3> QED BY <1>3, <2>1, <3>1, <3>2, OneRoot
  <2> QED BY <2>4, <2>5, <2>6, <2>7, <2>8, <2>9, <2>10, <2>11 DEF Inv
<1> QED BY <1>2, <1>5, <1>6

-----------------------------------------------------------------------------
\* The errors

LEMMA PlainFailure ==
  ASSUME Inv, pc # "error", UNCHANGED <<inputs, loop, chain, path, result>>,
         NEW why, why # "none", Fail(why), FailuresAreReal'
  PROVE  Inv'
<1>1. UNCHANGED <<required, roots, members, traces>> /\ required' \subseteq Ids(base)
  BY DEF result, Inv, TypeOK
<1> QED BY <1>1, FailKeepsInv

LEMMA LimitInv ==
  Inv /\ (InvalidType \/ ChainTooDeep \/ BadAccess \/ NotRecords \/ InvalidMember \/ TooNested) => Inv'
<1> SUFFICES ASSUME Inv,
                    InvalidType \/ ChainTooDeep \/ BadAccess \/ NotRecords \/ InvalidMember \/ TooNested
             PROVE  Inv'
  OBVIOUS
<1>1. PICK why \in {"invalid id", "chain", "access", "not records", "invalid member", "nesting"} :
        Fail(why)
  BY DEF InvalidType, ChainTooDeep, BadAccess, NotRecords, InvalidMember, TooNested
<1>2. UNCHANGED <<inputs, loop, chain, path, result>> /\ pc # "error"
  BY DEF InvalidType, ChainTooDeep, BadAccess, NotRecords, InvalidMember, TooNested, Reading
<1>3. why # "none" /\ err' \notin {"ambiguous", "unresolved", "no member"}
  BY <1>1 DEF Fail
<1> QED BY <1>1, <1>2, <1>3, OtherFailure, PlainFailure

LEMMA AmbiguousInv == Inv /\ AmbiguousType => Inv'
<1> SUFFICES ASSUME Inv, AmbiguousType PROVE Inv'
  OBVIOUS
<1>1. /\ Looking /\ Several(Hits) /\ Fail("ambiguous") /\ err' = "ambiguous" /\ pc # "error"
      /\ UNCHANGED <<inputs, loop, chain, path, result>>
  BY DEF AmbiguousType, Looking, Fail
<1>2. PICK i, j \in Hits : i # j
  BY <1>1 DEF Several
<1>3. Queryable(Current) /\ Hits = Matches(Current)
  BY <1>2 DEF Hits
<1>4. /\ i \in Ids(base) /\ base[i].kind = Current.kind /\ base[i].name = Current.name
      /\ Current.name = Unnamed => base[i].members = Current.members
  BY <1>2, <1>3 DEF Matches
<1>5. Queryable(base[i]) /\ Matches(base[i]) = Matches(Current)
  BY <1>3, <1>4 DEF Queryable, Matches
<1>6. Ambiguous
  BY <1>1, <1>3, <1>4, <1>5 DEF Ambiguous
<1>7. base' = base
  BY <1>1 DEF inputs
<1>8. Ambiguous'
  BY <1>6, <1>7 DEF Ambiguous, Ids, Queryable, Matches, Several
<1>9. FailuresAreReal'
  BY <1>1, <1>8 DEF FailuresAreReal
<1> QED BY <1>1, <1>9, PlainFailure

LEMMA UnresolvedInv == Inv /\ Unresolved => Inv'
<1> SUFFICES ASSUME Inv, Unresolved PROVE Inv'
  OBVIOUS
<1>1. /\ Looking /\ Hits = {} /\ Current.kind \notin ChainKinds /\ phase = "relos"
      /\ Fail("unresolved") /\ err' = "unresolved" /\ pc # "error"
      /\ UNCHANGED <<inputs, loop, chain, path, result>>
  BY DEF Unresolved, Looking, Fail
<1>2. /\ id = ChainFrom(Object, Start)[depth] /\ Unknowns(Object, Start, depth)
      /\ depth \in 0 .. MaxChain - 1 /\ Start = Relo.type_id /\ item \in DOMAIN Object.relos
      /\ Current = Object.types[id] /\ Hits = KnownAs(Object, id) /\ TypeOK
      /\ Start \in Nat /\ \A i \in Ids(Object.types) : Object.types[i].type \in Nat
  BY <1>1, AtChain
<1>3. Unknowns(Object, Start, depth + 1)
  BY <1>1, <1>2 DEF Unknowns
<1>4. Answer(Object, Start) = {}
  BY <1>1, <1>2, <1>3, AnswerIsEmpty
<1>5. object \in DOMAIN objects /\ Object = objects[object]
  BY <1>2, AtWork
<1>6. /\ item \in DOMAIN objects[object].relos
      /\ Answer(objects[object], objects[object].relos[item].type_id) = {}
  BY <1>2, <1>4, <1>5 DEF Relo
<1>7. objects' = objects /\ \A o, s : Answer(o, s)' = Answer(o, s)
  BY <1>1, SameBase
<1>8. Unknown'
  BY <1>5, <1>6, <1>7 DEF Unknown
<1>9. FailuresAreReal'
  BY <1>1, <1>8 DEF FailuresAreReal
<1> QED BY <1>1, <1>9, PlainFailure

-----------------------------------------------------------------------------
\* The access string

LEMMA RootAccessInv == Inv /\ RootAccess => Inv'
<1> SUFFICES ASSUME Inv, RootAccess PROVE Inv'
  OBVIOUS
<1>1. /\ pc = "access" /\ pc' = "access" /\ err' = err /\ comp = 0 /\ comp' = 1 /\ Component # Bad
      /\ UNCHANGED <<inputs, object, phase, item, chain, oid, bid, frames, result>>
  BY DEF RootAccess, loop
<1>2. TypeOK /\ AtItem /\ item \in DOMAIN Object.relos
  BY <1>1 DEF Inv, AtItem, InAccess
<1>3. /\ base' = base /\ objects' = objects /\ Object' = Object /\ Types' = Types /\ Relo' = Relo
  BY <1>1, SamePlace
<1>4. UNCHANGED <<inputs, object, phase, item, id, depth, oid, bid, frames, required, roots, members, traces>>
  BY <1>1 DEF chain, result
<1>5. TypeOK'
  <2> USE <1>1, <1>3, <1>4
  <2>1. Ids(base)' = Ids(base)
    BY DEF Ids
  <2> QED BY <1>2, <2>1 DEF TypeOK
<1>6. AtItem'
  <2>1. Relo.access # << >> /\ 1 \in 0 .. Len(Relo.access)
    BY <1>1, <1>2, AtWork DEF AtItem, InAccess
  <2> QED BY <1>1, <1>2, <1>3, <2>1 DEF AtItem, InAccess, InMember
<1>7. SeedsAreRequirements' /\ WitnessIsExact' /\ FailuresAreReal'
  BY <1>1, QuietKeeps
<1>8. OnTheWay' /\ Searched'
  BY <1>1, FramesKept DEF InMember
<1>9. Resolving'
  BY <1>1 DEF Resolving
<1>10. RootsSoFar'
  <2>1. Done' = Done
    BY <1>1 DEF Done
  <2> QED BY <1>1, <1>3, <1>4, <2>1, SameBase, SameRoots
<1> QED BY <1>5, <1>6, <1>7, <1>8, <1>9, <1>10 DEF Inv

\* What the search is about, as long as the component is the same.
LEMMA SameMember ==
  ASSUME UNCHANGED <<inputs, object, item, comp, oid>>
  PROVE  /\ base' = base /\ objects' = objects /\ Object' = Object /\ Types' = Types
         /\ Relo' = Relo /\ Component' = Component /\ Selected' = Selected
         /\ Ids(base)' = Ids(base) /\ Ids(Types)' = Ids(Types)
<1>1. /\ base' = base /\ objects' = objects /\ Object' = Object /\ Types' = Types
      /\ Relo' = Relo /\ Ids(base)' = Ids(base) /\ Ids(Types)' = Ids(Types)
  BY SamePlace
<1>2. Component' = Component
  BY <1>1 DEF Component
<1>3. Selected' = Selected
  BY <1>1, <1>2 DEF Selected
<1> QED BY <1>1, <1>2, <1>3

LEMMA AccessDoneInv == Inv /\ AccessDone => Inv'
<1> SUFFICES ASSUME Inv, AccessDone PROVE Inv'
  OBVIOUS
<1>1. /\ pc = "access" /\ pc' = "next" /\ err' = err /\ item' = item + 1
      /\ UNCHANGED <<inputs, object, phase, chain, path, result>>
  BY DEF AccessDone, NextItem, Goto
<1>2. TypeOK /\ AtItem /\ Object' = Object /\ Types' = Types
  BY <1>1 DEF Inv, inputs, Object, Types
<1>3. /\ phase = "relos" /\ item \in Nat \ {0} /\ Len(Object.relos) \in Nat
      /\ item \in 1 .. Len(Object.relos)
  BY <1>1, <1>2, AtWork DEF AtItem, InAccess
<1>4. TypeOK'
  <2>1. /\ object' \in DOMAIN objects /\ phase' \in {"types", "relos"} /\ item' \in Nat \ {0}
        /\ pc' \in Places /\ id' \in Nat /\ depth' \in 0 .. MaxChain
    BY <1>1, <1>2, <1>3 DEF TypeOK, Places, chain
  <2> QED BY <1>1, <1>2, <2>1, ControlType
<1>5. AtItem'
  BY <1>1, <1>2, <1>3 DEF AtItem, InAccess, InMember
<1>6. SeedsAreRequirements' /\ WitnessIsExact' /\ FailuresAreReal'
  BY <1>1, QuietKeeps
<1>7. OnTheWay' /\ Searched'
  BY <1>1, FramesKept DEF path, InMember
<1>8. Resolving'
  BY <1>1 DEF Resolving
<1>9. RootsSoFar'
  <2>1. Done' = Done
    BY <1>1, <1>3 DEF Done, InAccess
  <2> QED BY <1>1, <1>2, <1>3, <2>1, SameBase, SameRoots DEF result
<1> QED BY <1>4, <1>5, <1>6, <1>7, <1>8, <1>9 DEF Inv

LEMMA TakeMemberInv == Inv /\ TakeMember => Inv'
<1> SUFFICES ASSUME Inv, TakeMember PROVE Inv'
  OBVIOUS
<1>0. PICK o \in Ids(Types), b \in Ids(base) : o = Peel(Types, oid) /\ b = Peel(base, bid)
  BY DEF TakeMember, Records, IsRecord
<1>1. /\ pc = "access" /\ pc' = "member" /\ err' = err
      /\ comp \in 1 .. Len(Relo.access) - 1 /\ Component # Bad
      /\ o \in Ids(Types) /\ b \in Ids(base)
      /\ Component <= Len(Types[o].members)
      /\ oid' = o /\ bid' = b /\ frames' = << [record |-> b, at |-> 0] >>
      /\ UNCHANGED <<inputs, loop, chain, comp, result>>
  BY <1>0 DEF TakeMember, Reading, Goto
<1>2. UNCHANGED <<object, phase, item, id, depth, required, roots, members, traces>>
  BY <1>1 DEF loop, chain, result
<1>3. /\ base' = base /\ objects' = objects /\ Object' = Object /\ Types' = Types /\ Relo' = Relo
      /\ Ids(base)' = Ids(base) /\ Ids(Types)' = Ids(Types)
  BY <1>1, <1>2, SamePlace
<1>4. TypeOK /\ AtItem /\ phase = "relos" /\ item \in DOMAIN Object.relos
  BY <1>1 DEF Inv, AtItem, InAccess
<1>5. Component' = Component /\ Component \in 1 .. Len(Types[o].members)
  <2>1. /\ Len(Relo.access) \in Nat
        /\ \A c \in 1 .. Len(Relo.access) : /\ Relo.access[c] \in Nat \cup {Bad}
                                            /\ c > 1 => Relo.access[c] # 0
    BY <1>4, AtWork
  <2>2. comp + 1 \in 1 .. Len(Relo.access) /\ comp + 1 > 1
    BY <1>1, <2>1
  <2>3. Component \in Nat \ {0}
    BY <1>1, <2>1, <2>2 DEF Component
  <2>4. Len(Types[o].members) \in Nat
    BY <1>1, <1>4, AtWork
  <2> QED BY <1>1, <1>3, <2>3, <2>4 DEF Component
<1>6. TypeOK'
  <2>1. [record |-> b, at |-> 0] \in [record : Ids(base), at : Nat]
    BY <1>1
  <2>2. frames' \in Seq([record : Ids(base), at : Nat])
    BY <1>1, <2>1
  <2>3. oid' \in Nat /\ bid' \in Nat /\ pc' \in Places
    BY <1>1 DEF Ids, Places
  <2>4. /\ members' \in [Ids(base) -> SUBSET Nat]'
        /\ \A k \in Ids(base) : members'[k] \subseteq DOMAIN base[k].members
        /\ roots' \subseteq Ids(base) /\ required' \subseteq Ids(base)
        /\ traces' \in Seq(TraceRec)' /\ item' \in Nat \ {0} /\ comp' \in Nat
    BY <1>1, <1>2, <1>3, <1>4 DEF TypeOK, TraceRec
  <2> QED BY <1>1, <1>2, <1>4, <2>2, <2>3, <2>4, RecordType
<1>7. AtItem'
  <2>1. Component \in DOMAIN Types[o].members
    BY <1>1, <1>4, <1>5, AtWork
  <2> QED BY <1>1, <1>2, <1>3, <1>4, <1>5, <2>1 DEF AtItem, InAccess, InMember
<1>8. SeedsAreRequirements' /\ WitnessIsExact' /\ FailuresAreReal'
  BY <1>1, QuietKeeps
<1>9. Len(frames') = 1 /\ DOMAIN frames' = {1} /\ frames'[1].record = b /\ frames'[1].at = 0
  BY <1>1
<1>10. OnTheWay'
  BY <1>1, <1>9 DEF OnTheWay, Waiting
<1>11. Searched'
  <2>1. \A w \in Wrappers(b) : w \in Nat \ {0}
    BY <1>1, <1>4, Picks, Shape
  <2>2. Wrappers(b)' = Wrappers(b)
    BY <1>1, SameBase
  <2>3. \A w \in Wrappers(frames[1].record)' : w \in Nat \ {0}
    BY <1>9, <2>1, <2>2
  <2>4. \A n \in DOMAIN frames' : n = 1 /\ ~ (n < Len(frames'))
    BY <1>9
  <2>5. \A n \in DOMAIN frames' : \A w \in Wrappers(frames[n].record)' :
           ~ (w < frames'[n].at) /\ w # frames'[n].at
    BY <1>9, <2>3, <2>4
  <2> QED BY <2>4, <2>5 DEF Searched
<1>12. Resolving'
  BY <1>1 DEF Resolving
<1>13. RootsSoFar'
  <2>1. Done' = Done
    BY <1>1, <1>2 DEF Done, InAccess
  <2> QED BY <1>1, <1>2, <1>3, <2>1, SameBase, SameRoots
<1> QED BY <1>6, <1>7, <1>8, <1>10, <1>11, <1>12, <1>13 DEF Inv

-----------------------------------------------------------------------------
\* The search for a member

\* Where the search is.
LEMMA AtSearch ==
  ASSUME Inv, pc \in InMember
  PROVE  /\ TypeOK /\ AtItem /\ err = "none" /\ phase = "relos"
         /\ oid \in Ids(Types) /\ Component \in DOMAIN Types[oid].members
         /\ Selected.type \in Nat
<1>1. TypeOK /\ AtItem
  BY DEF Inv
<1>2. /\ err = "none" /\ phase = "relos"
      /\ oid \in Ids(Types) /\ Component \in DOMAIN Types[oid].members
  BY <1>1 DEF AtItem, InAccess, InMember
<1> QED BY <1>1, <1>2, AtWork DEF Selected

\* Steps of the search keep the loops and the access string where they are.
LEMMA SearchKeeps ==
  ASSUME Inv, pc \in InMember, pc' \in InMember, err' = err,
         UNCHANGED <<inputs, loop, chain, comp, oid, roots>>
  PROVE  AtItem' /\ FailuresAreReal' /\ Resolving' /\ RootsSoFar'
<1>1. UNCHANGED <<object, phase, item>>
  BY DEF loop
<1>2. /\ base' = base /\ objects' = objects /\ Object' = Object /\ Types' = Types /\ Relo' = Relo
      /\ Component' = Component /\ Ids(Types)' = Ids(Types)
  BY <1>1, SameMember
<1>3. TypeOK /\ AtItem /\ err = "none" /\ phase = "relos"
  BY AtSearch
<1>4. AtItem'
  BY <1>1, <1>2, <1>3 DEF AtItem, InAccess, InMember
<1>5. FailuresAreReal'
  BY <1>3, OtherFailure
<1>6. Resolving'
  BY DEF Resolving, InMember
<1>7. RootsSoFar'
  <2>1. Done' = Done
    BY <1>1 DEF Done, InAccess, InMember
  <2>2. pc \notin {"ok", "error"} /\ pc' # "ok"
    BY DEF InMember
  <2> QED BY <1>1, <1>2, <2>1, <2>2, SameBase, SameRoots
<1> QED BY <1>4, <1>5, <1>6, <1>7

LEMMA SearchType ==
  ASSUME Inv, pc \in InMember, pc' \in InMember, bid' \in Nat,
         UNCHANGED <<inputs, loop, chain, comp, oid>>,
         frames' \in Seq([record : Ids(base), at : Nat]),
         required' \subseteq Ids(base), roots' \subseteq Ids(base),
         members' \in [Ids(base) -> SUBSET Nat]',
         \A k \in Ids(base) : members'[k] \subseteq DOMAIN base[k].members,
         traces' \in Seq(TraceRec)'
  PROVE  TypeOK'
<1>1. TypeOK /\ UNCHANGED <<object, phase, item>>
  BY DEF loop, Inv
<1>2. pc' \in Places /\ item' \in Nat \ {0} /\ comp' \in Nat /\ oid' \in Nat
  BY <1>1 DEF TypeOK, Places, InMember
<1> QED BY <1>1, <1>2, RecordType

LEMMA SameRecords ==
  ASSUME TypeOK, UNCHANGED <<inputs, result>>, UNCHANGED <<object, phase>>
  PROVE  /\ members' \in [Ids(base) -> SUBSET Nat]'
         /\ \A k \in Ids(base) : members'[k] \subseteq DOMAIN base[k].members
         /\ roots' \subseteq Ids(base) /\ required' \subseteq Ids(base)
         /\ traces' \in Seq(TraceRec)'
<1>1. base' = base /\ objects' = objects /\ Ids(base)' = Ids(base) /\ TraceRec' = TraceRec
  BY DEF inputs, Ids, TraceRec
<1> QED BY <1>1 DEF TypeOK, TraceRec, result

\* A record without the member, in itself and behind every wrapper.
LEMMA LackingStep ==
  ASSUME TypeOK, NEW name, NEW r \in Ids(base), Named(r, name) = {},
         \A w \in Wrappers(r) : Lacking(Wrapped(r, w), name)
  PROVE  Lacking(r, name)
<1> DEFINE A == [Ids(base) -> SUBSET Nat]
           own == [i \in Ids(base) |-> {base[i].members[m].type : m \in Everything[i] \cap Named(i, name)}]
           deeper == [d \in A |->
                        [i \in Ids(base) |->
                           own[i] \cup UNION {d[Wrapped(i, m)] : m \in Everything[i] \cap Wrappers(i)}]]
           N == Nested(Everything, name, MaxNesting + 1)
           max == MaxNesting + 1
<1>1. \A i \in Ids(base) : Everything[i] = DOMAIN base[i].members
  BY DEF Everything
<1>2. own \in A
  <2>1. ASSUME NEW i \in Ids(base)
        PROVE  {base[i].members[m].type : m \in Everything[i] \cap Named(i, name)} \subseteq Nat
    BY <1>1, Shape
  <2> QED BY <2>1
<1>3. deeper \in [A -> A]
  <2>1. ASSUME NEW d \in A, NEW i \in Ids(base)
        PROVE  own[i] \cup UNION {d[Wrapped(i, m)] : m \in Everything[i] \cap Wrappers(i)} \in SUBSET Nat
    <3>1. \A m \in Wrappers(i) : d[Wrapped(i, m)] \in SUBSET Nat
      BY Picks
    <3>2. own[i] \in SUBSET Nat
      BY <1>2
    <3> HIDE DEF own
    <3> QED BY <3>1, <3>2
  <2> HIDE DEF own
  <2> QED BY <2>1
<1>4. max \in Nat /\ 0 \in 0 .. max
  BY LimitAssumption
<1>5. N = Iterate(deeper, own, max)
  BY DEF Nested
<1>6. own[r] = {}
  BY DEF own
<1>7. \A d \in A : deeper[d][r] = own[r] \cup UNION {d[Wrapped(r, m)] : m \in Everything[r] \cap Wrappers(r)}
  <2> HIDE DEF own
  <2> QED OBVIOUS
<1> HIDE DEF A, own, deeper, N
<1>8. Iterates(N, deeper, own, max, A)
  BY <1>2, <1>3, <1>4, <1>5, Iteration, Zenon
<1> HIDE DEF max
<1>9. /\ N[0] = own /\ \A n \in 0 .. max : N[n] \in A
      /\ \A n \in 1 .. max : N[n] = deeper[N[n - 1]]
  BY <1>8 DEF Iterates
<1>10. N[0][r] = {}
  BY <1>6, <1>9
<1>11. ASSUME NEW n \in 1 .. max PROVE N[n][r] = {}
  <2>1. n - 1 \in 0 .. max
    BY <1>4
  <2>2. N[n][r] = own[r] \cup UNION {N[n - 1][Wrapped(r, m)] : m \in Everything[r] \cap Wrappers(r)}
    BY <1>7, <1>9, <2>1
  <2>3. \A m \in Wrappers(r) : N[n - 1][Wrapped(r, m)] = {}
    BY <2>1 DEF Lacking, N, max
  <2> QED BY <1>6, <2>2, <2>3
<1>12. \A n \in 0 .. max : N[n][r] = {}
  <2>1. \A n \in 0 .. max : n = 0 \/ n \in 1 .. max
    BY <1>4
  <2> QED BY <1>10, <1>11, <2>1
<1> QED BY <1>12 DEF Lacking, N, max

LEMMA MemberInSet ==
  ASSUME TypeOK, SeedsAreRequirements, pc # "error", UNCHANGED base,
         NEW i \in Ids(base), NEW m, AddMember(i, m), required' = required \cup {i}
  PROVE  SeedsAreRequirements'
<1>1. members \in [Ids(base) -> SUBSET Nat] /\ Ids(base)' = Ids(base)
  BY DEF TypeOK, Ids
<1>2. /\ members'[i] = members[i] \cup {m} /\ roots' = roots
      /\ \A k \in Ids(base) : k # i => members'[k] = members[k]
  BY <1>1 DEF AddMember
<1>3. Pruned' = Pruned \cup {i}
  BY <1>1, <1>2 DEF Pruned
<1> QED BY <1>2, <1>3 DEF SeedsAreRequirements

\* A call that records its member and returns.
LEMMA MarkInv ==
  ASSUME Inv, pc \in InMember, frames # << >>,
         UNCHANGED <<inputs, loop, chain, comp, oid>>,
         NEW r, r = Top.record, NEW m \in DOMAIN base[r].members, NEW type \in Nat,
         Mark(r, m, type)
  PROVE  Inv'
<1>0. TypeOK /\ AtItem /\ err = "none" /\ r \in Ids(base) /\ UNCHANGED <<object, phase>>
  BY AtSearch, CallersType DEF loop
<1>1. CASE NoMemory(m \in members[r]) /\ UNCHANGED <<bid, frames, result>>
  <2>1. Fail("memory") /\ err' = "memory" /\ pc # "error"
    BY <1>1 DEF NoMemory, Fail, InMember
  <2>2. UNCHANGED <<required, roots, members, traces, path>> /\ required' \subseteq Ids(base)
    BY <1>0, <1>1 DEF result, TypeOK, path
  <2> QED BY <1>0, <2>1, <2>2, OtherFailure, FailKeepsInv
<1>2. CASE /\ AddMember(r, m) /\ required' = required \cup {r}
           /\ bid' = type /\ frames' = Callers /\ Goto("unwind")
  <2>1. pc' = "unwind" /\ err' = err /\ pc # "error" /\ pc' \in InMember
    BY <1>2 DEF Goto, InMember
  <2>2. base' = base /\ Ids(base)' = Ids(base)
    BY DEF inputs, Ids
  <2>3. /\ members' \in [Ids(base) -> SUBSET Nat]' /\ roots' = roots
        /\ \A k \in Ids(base) : members'[k] \subseteq DOMAIN base[k].members
        /\ traces' \in Seq(TraceRec)'
    BY <1>0, <1>2, MemberType
  <2>4. required' \subseteq Ids(base) /\ roots' \subseteq Ids(base)
    BY <1>0, <1>2, <2>3 DEF TypeOK
  <2>5. /\ Callers \in Seq([record : Ids(base), at : Nat])
        /\ Len(frames) \in Nat \ {0} /\ Len(Callers) = Len(frames) - 1
        /\ \A n \in 1 .. Len(frames) - 1 : Callers[n] = frames[n]
    BY <1>0, CallersType
  <2>6. TypeOK'
    BY <1>2, <2>1, <2>3, <2>4, <2>5, SearchType
  <2>7. AtItem' /\ FailuresAreReal' /\ Resolving' /\ RootsSoFar'
    BY <2>1, <2>3, SearchKeeps
  <2>8. SeedsAreRequirements'
    BY <1>0, <1>2, <2>1, <2>2, MemberInSet DEF Inv
  <2>9. WitnessIsExact'
    BY <1>0, <1>2, <2>2, MemberWitness DEF Inv
  <2>10. OnTheWay'
    <3>1. DOMAIN frames' = 1 .. Len(frames) - 1 /\ Len(frames') = Len(frames) - 1
      BY <1>2, <2>5
    <3>2. \A n \in 1 .. Len(frames) - 1 : frames'[n] = frames[n] /\ n \in DOMAIN frames /\ n < Len(frames)
      <4>1. DOMAIN frames = 1 .. Len(frames)
        BY <1>0 DEF TypeOK
      <4> QED BY <1>2, <2>5, <4>1
    <3>3. \A n \in 1 .. Len(frames) - 1 : frames[n].at \in Wrappers(frames[n].record)
      BY <3>2 DEF Inv, OnTheWay, Waiting
    <3>4. \A n \in 1 .. Len(frames) - 1 :
             frames[n + 1].record = Wrapped(frames[n].record, frames[n].at)
      BY <3>2 DEF Inv, OnTheWay
    <3>5. /\ \A s : Wrappers(s)' = Wrappers(s)
          /\ \A s, w : Wrapped(s, w)' = Wrapped(s, w)
      BY SameBase
    <3>6. \A n \in DOMAIN frames' : frames'[n].at \in Wrappers(frames[n].record)'
      BY <3>1, <3>2, <3>3, <3>5
    <3>7. \A n \in DOMAIN frames' : n < Len(frames') =>
             frames'[n + 1].record = Wrapped(frames[n].record, frames[n].at)'
      <4>1. SUFFICES ASSUME NEW n \in DOMAIN frames', n < Len(frames')
                     PROVE  frames'[n + 1].record = Wrapped(frames[n].record, frames[n].at)'
        OBVIOUS
      <4>2. n \in 1 .. Len(frames) - 1 /\ n + 1 \in 1 .. Len(frames) - 1
        BY <2>5, <3>1, <4>1
      <4>3. frames'[n + 1] = frames[n + 1] /\ frames'[n] = frames[n]
        BY <3>2, <4>2
      <4>4. Wrapped(frames[n].record, frames[n].at)' = Wrapped(frames[n].record, frames[n].at)
        BY <3>5, <4>3
      <4> QED BY <3>4, <4>2, <4>3, <4>4
    <3> QED BY <2>1, <3>6, <3>7 DEF OnTheWay
  <2>11. Searched'
    BY <2>1 DEF Searched
  <2> QED BY <2>6, <2>7, <2>8, <2>9, <2>10, <2>11 DEF Inv
<1> QED BY <1>1, <1>2 DEF Mark

LEMMA FindMemberInv == Inv /\ FindMember => Inv'
<1> SUFFICES ASSUME Inv, FindMember PROVE Inv'
  OBVIOUS
<1>1. /\ pc = "member" /\ pc \in InMember /\ Found(Top.record) # {}
      /\ UNCHANGED <<inputs, loop, chain, comp, oid>>
  BY DEF FindMember, Searching, InMember
<1>2. TypeOK /\ frames # << >>
  BY <1>1 DEF Inv, OnTheWay
<1>3. PICK r \in Ids(base) : r = Top.record
  BY <1>2, CallersType
<1>4. PICK m \in DOMAIN base[r].members : m = First(Found(r))
  BY <1>1, <1>2, <1>3, Picks, FirstIsLeast
<1>5. base[r].members[m].type \in Nat
  BY <1>2, Shape
<1>6. Mark(r, m, base[r].members[m].type)
  BY <1>3, <1>4 DEF FindMember
<1> QED BY <1>1, <1>2, <1>3, <1>5, <1>6, MarkInv

LEMMA MarkWrapperInv == Inv /\ MarkWrapper => Inv'
<1> SUFFICES ASSUME Inv, MarkWrapper PROVE Inv'
  OBVIOUS
<1>1. /\ pc = "unwind" /\ pc \in InMember /\ frames # << >> /\ Mark(Top.record, Top.at, bid)
      /\ UNCHANGED <<inputs, loop, chain, comp, oid>>
  BY DEF MarkWrapper, InMember
<1>2. TypeOK /\ bid \in Nat
  BY DEF Inv, TypeOK
<1>3. PICK r \in Ids(base) : r = Top.record
  BY <1>1, <1>2, CallersType
<1>4. Top.at \in Wrappers(r)
  <2>1. Len(frames) \in DOMAIN frames /\ Waiting(Len(frames))
    BY <1>1, <1>2, CallersType DEF Waiting
  <2> QED BY <1>3, <2>1 DEF Inv, OnTheWay, Top
<1>5. PICK m \in DOMAIN base[r].members : m = Top.at
  BY <1>2, <1>4, Picks
<1>6. PICK type \in Nat : type = bid
  BY <1>2
<1>7. Mark(r, m, type)
  BY <1>1, <1>3, <1>5, <1>6
<1> QED BY <1>1, <1>3, <1>7, MarkInv

LEMMA MemberDoneInv == Inv /\ MemberDone => Inv'
<1> SUFFICES ASSUME Inv, MemberDone PROVE Inv'
  OBVIOUS
<1>1. /\ pc = "unwind" /\ pc' = "access" /\ err' = err /\ comp' = comp + 1 /\ oid' = Selected.type
      /\ UNCHANGED <<inputs, loop, chain, bid, frames, result>>
  BY DEF MemberDone, Goto
<1>2. /\ TypeOK /\ AtItem /\ err = "none" /\ phase = "relos" /\ Selected.type \in Nat
      /\ UNCHANGED <<object, phase, item>>
  BY <1>1, AtSearch DEF InMember, loop
<1>3. /\ base' = base /\ objects' = objects /\ Object' = Object /\ Types' = Types /\ Relo' = Relo
      /\ Ids(base)' = Ids(base)
  BY <1>1, <1>2, SamePlace
<1>4. /\ item \in DOMAIN Object.relos /\ Relo.access # << >>
      /\ comp \in 1 .. Len(Relo.access) - 1 /\ Len(Relo.access) \in Nat
  BY <1>1, <1>2, AtWork DEF AtItem, InAccess, InMember
<1>5. comp + 1 \in 0 .. Len(Relo.access) /\ comp + 1 \in Nat
  BY <1>4
<1>6. TypeOK'
  <2>1. /\ members' \in [Ids(base) -> SUBSET Nat]'
        /\ \A k \in Ids(base) : members'[k] \subseteq DOMAIN base[k].members
        /\ roots' \subseteq Ids(base) /\ required' \subseteq Ids(base)
        /\ traces' \in Seq(TraceRec)'
    BY <1>1, <1>2, SameRecords
  <2>2. /\ item' \in Nat \ {0} /\ pc' \in Places /\ bid' \in Nat
        /\ frames' \in Seq([record : Ids(base), at : Nat])
    BY <1>1, <1>2 DEF TypeOK, Places
  <2> QED BY <1>1, <1>2, <1>5, <2>1, <2>2, RecordType
<1>7. AtItem'
  BY <1>1, <1>2, <1>3, <1>4, <1>5 DEF AtItem, InAccess, InMember
<1>8. SeedsAreRequirements' /\ WitnessIsExact' /\ FailuresAreReal'
  BY <1>1, QuietKeeps
<1>9. OnTheWay' /\ Searched'
  BY <1>1, FramesKept DEF InMember
<1>10. Resolving'
  BY <1>1 DEF Resolving
<1>11. RootsSoFar'
  <2>1. Done' = Done
    BY <1>1, <1>2 DEF Done, InAccess
  <2> QED BY <1>1, <1>2, <1>3, <2>1, SameBase, SameRoots DEF result
<1> QED BY <1>6, <1>7, <1>8, <1>9, <1>10, <1>11 DEF Inv

\* A caller goes on in an anonymous record.
LEMMA Pushed ==
  ASSUME NEW R, NEW s \in Seq(R), NEW c \in Seq(R), NEW a \in R, NEW b \in R,
         NEW n \in Nat \ {0}, Len(s) = n, Len(c) = n - 1, \A k \in 1 .. n - 1 : c[k] = s[k]
  PROVE  /\ c \o << a, b >> \in Seq(R) /\ Len(c \o << a, b >>) = n + 1
         /\ DOMAIN (c \o << a, b >>) = 1 .. n + 1
         /\ \A k \in 1 .. n - 1 : (c \o << a, b >>)[k] = s[k]
         /\ (c \o << a, b >>)[n] = a /\ (c \o << a, b >>)[n + 1] = b
<1> DEFINE t == << a, b >>
<1>1. t \in Seq(R) /\ Len(t) = 2 /\ t[1] = a /\ t[2] = b
  OBVIOUS
<1> HIDE DEF t
<1>2. /\ c \o t \in Seq(R) /\ Len(c \o t) = Len(c) + Len(t)
      /\ \A k \in 1 .. Len(c) + Len(t) :
            (c \o t)[k] = IF k <= Len(c) THEN c[k] ELSE t[k - Len(c)]
  BY <1>1, ConcatProperties, Zenon
<1>3. /\ Len(c) + Len(t) = n + 1 /\ n - Len(c) = 1 /\ n + 1 - Len(c) = 2
      /\ ~ (n <= Len(c)) /\ ~ (n + 1 <= Len(c))
      /\ n \in 1 .. n + 1 /\ n + 1 \in 1 .. n + 1
      /\ \A k \in 1 .. n - 1 : k \in 1 .. n + 1 /\ k <= Len(c)
  BY <1>1
<1>4. Len(c \o t) = n + 1 /\ DOMAIN (c \o t) = 1 .. n + 1
  <2>1. DOMAIN (c \o t) = 1 .. Len(c \o t)
    BY <1>2
  <2> QED BY <1>2, <1>3, <2>1
<1>5. \A k \in 1 .. n - 1 : (c \o t)[k] = s[k]
  BY <1>2, <1>3
<1>6. (c \o t)[n] = a
  <2>1. (c \o t)[n] = t[n - Len(c)]
    BY <1>2, <1>3
  <2> QED BY <1>1, <1>3, <2>1
<1>7. (c \o t)[n + 1] = b
  <2>1. (c \o t)[n + 1] = t[n + 1 - Len(c)]
    BY <1>2, <1>3
  <2> QED BY <1>1, <1>3, <2>1
<1> QED BY <1>2, <1>4, <1>5, <1>6, <1>7 DEF t

LEMMA DescendInv == Inv /\ Descend => Inv'
<1> SUFFICES ASSUME Inv, Descend PROVE Inv'
  OBVIOUS
<1>1. /\ pc = "member" /\ pc' = "member" /\ err' = err /\ Found(Top.record) = {} /\ Left # {}
      /\ UNCHANGED <<inputs, loop, chain, comp, oid, bid, result>>
  BY DEF Descend, Searching
<1>2. /\ TypeOK /\ AtItem /\ err = "none" /\ frames # << >> /\ frames[1].record = bid
      /\ UNCHANGED <<object, phase, item>>
  BY <1>1, AtSearch DEF InMember, loop, Inv, OnTheWay
<1>3. /\ base' = base /\ Selected' = Selected /\ Ids(base)' = Ids(base)
  BY <1>1, <1>2, SameMember
<1> DEFINE R == [record : Ids(base), at : Nat]
<1>4. /\ frames \in Seq(R) /\ Callers \in Seq(R)
      /\ Len(Callers) = Len(frames) - 1
      /\ \A n \in 1 .. Len(frames) - 1 : Callers[n] = frames[n]
  BY <1>2, CallersType DEF TypeOK
<1>5. PICK len \in Nat \ {0} : len = Len(frames)
  BY <1>2, CallersType
<1>6. PICK r \in Ids(base) : r = Top.record
  BY <1>2, CallersType
<1>7. /\ Selected.name # Unnamed /\ Left = {m \in Wrappers(r) : m > Top.at}
      /\ Named(r, Selected.name) = {}
  BY <1>1, <1>6 DEF Left, Found
<1>8. PICK w \in Wrappers(r) : w = First(Left) /\ w > Top.at /\ \A m \in Left : w <= m
  <2>1. Left \in SUBSET Nat
    BY <1>2, <1>7, Picks
  <2>2. First(Left) \in Left /\ \A m \in Left : First(Left) <= m
    BY <1>1, <2>1, FirstIsLeast
  <2> QED BY <1>7, <2>2
<1>9. PICK inner \in Ids(base) : inner = Wrapped(r, w)
  BY <1>2, Picks
<1>10. w \in Nat \ {0} /\ Top.at \in Nat
  BY <1>2, <1>6, Picks, Shape, CallersType
<1> DEFINE a == [Top EXCEPT !.at = w]  b == [record |-> inner, at |-> 0]
<1>11. a = [record |-> r, at |-> w] /\ a \in R /\ b \in R
  <2>1. Top \in R
    <3> HIDE DEF R
    <3>1. Len(frames) \in DOMAIN frames
      BY <1>2, CallersType
    <3> QED BY <1>4, <3>1 DEF Top
  <2> QED BY <1>6, <1>10, <2>1
<1>12. frames' = Callers \o << a, b >>
  BY <1>1, <1>6, <1>8, <1>9 DEF Descend
<1>13. a.record = r /\ a.at = w /\ b.record = inner /\ b.at = 0
  BY <1>11
<1> HIDE DEF R, a, b
<1>14. /\ frames' \in Seq(R) /\ Len(frames') = len + 1 /\ DOMAIN frames' = 1 .. len + 1
       /\ \A n \in 1 .. len - 1 : frames'[n] = frames[n]
       /\ frames'[len] = a /\ frames'[len + 1] = b
  <2> DEFINE c == Callers
  <2>1. /\ c \in Seq(R) /\ Len(frames) = len /\ Len(c) = len - 1
        /\ \A n \in 1 .. len - 1 : c[n] = frames[n]
    BY <1>4, <1>5
  <2> HIDE DEF c
  <2>2. /\ c \o << a, b >> \in Seq(R) /\ Len(c \o << a, b >>) = len + 1
        /\ DOMAIN (c \o << a, b >>) = 1 .. len + 1
        /\ \A n \in 1 .. len - 1 : (c \o << a, b >>)[n] = frames[n]
        /\ (c \o << a, b >>)[len] = a /\ (c \o << a, b >>)[len + 1] = b
    BY <1>4, <1>11, <2>1, Pushed
  <2>3. frames' = c \o << a, b >>
    BY <1>12 DEF c
  <2> QED BY <2>2, <2>3
<1>15. DOMAIN frames = 1 .. len /\ frames[len].record = r /\ frames[len].at = Top.at
  BY <1>4, <1>5, <1>6 DEF Top
<1>16. TypeOK'
  <2>1. frames' \in Seq([record : Ids(base), at : Nat]) /\ bid' \in Nat
    BY <1>1, <1>2, <1>14 DEF R, TypeOK
  <2>2. /\ members' \in [Ids(base) -> SUBSET Nat]'
        /\ \A k \in Ids(base) : members'[k] \subseteq DOMAIN base[k].members
        /\ roots' \subseteq Ids(base) /\ required' \subseteq Ids(base)
        /\ traces' \in Seq(TraceRec)'
    BY <1>1, <1>2, SameRecords
  <2> QED BY <1>1, <2>1, <2>2, SearchType DEF InMember
<1>17. AtItem' /\ FailuresAreReal' /\ Resolving' /\ RootsSoFar'
  BY <1>1, SearchKeeps DEF InMember, result
<1>18. SeedsAreRequirements' /\ WitnessIsExact'
  BY <1>1, QuietKeeps
<1>19. /\ \A s : Wrappers(s)' = Wrappers(s)
       /\ \A s, m : Wrapped(s, m)' = Wrapped(s, m)
       /\ \A s, name : Named(s, name)' = Named(s, name) /\ Lacking(s, name)' = Lacking(s, name)
  BY <1>1, SameBase
<1>20. \A n \in DOMAIN frames' : n = len + 1 \/ n = len \/ n \in 1 .. len - 1
  BY <1>5, <1>14
<1>21. OnTheWay'
  <2>1. frames' # << >> /\ frames'[1].record = bid'
    <3>1. ASSUME len = 1 PROVE frames'[1].record = bid'
      BY <1>1, <1>2, <1>13, <1>14, <1>15, <3>1
    <3>2. ASSUME len > 1 PROVE frames'[1].record = bid'
      <4>1. 1 \in 1 .. len - 1
        BY <1>5, <3>2
      <4> QED BY <1>1, <1>2, <1>14, <4>1
    <3>3. frames' # << >>
      BY <1>5, <1>14
    <3> QED BY <3>1, <3>2, <3>3, <1>5
  <2>2. \A n \in 1 .. len - 1 : /\ frames[n].at \in Wrappers(frames[n].record)
                                /\ frames[n + 1].record = Wrapped(frames[n].record, frames[n].at)
    <3>1. \A n \in 1 .. len - 1 : n \in DOMAIN frames /\ n < Len(frames)
      BY <1>5, <1>15
    <3> QED BY <3>1 DEF Inv, OnTheWay, Waiting
  <2>3. ASSUME NEW n \in DOMAIN frames', n < Len(frames')
        PROVE  /\ frames'[n].at \in Wrappers(frames[n].record)'
               /\ frames'[n + 1].record = Wrapped(frames[n].record, frames[n].at)'
    <3>1. n \in 1 .. len
      BY <1>5, <1>14, <2>3
    <3>2. CASE n = len
      <4>1. frames'[n].record = r /\ frames'[n].at = w /\ frames'[n + 1].record = inner
        BY <1>13, <1>14, <3>2
      <4>2. Wrappers(frames[n].record)' = Wrappers(r)
        BY <1>19, <4>1
      <4>3. Wrapped(frames[n].record, frames[n].at)' = Wrapped(r, w)
        BY <1>19, <4>1
      <4> QED BY <1>9, <4>1, <4>2, <4>3
    <3>3. CASE n \in 1 .. len - 1
      <4>1. frames'[n] = frames[n]
        BY <1>14, <3>3
      <4>2. frames'[n + 1].record = frames[n + 1].record
        <5>1. n + 1 = len \/ n + 1 \in 1 .. len - 1
          BY <1>5, <3>3
        <5> QED BY <1>13, <1>14, <1>15, <5>1
      <4>3. Wrappers(frames[n].record)' = Wrappers(frames[n].record)
        BY <1>19, <4>1
      <4>4. Wrapped(frames[n].record, frames[n].at)' = Wrapped(frames[n].record, frames[n].at)
        BY <1>19, <4>1
      <4> QED BY <2>2, <3>3, <4>1, <4>2, <4>3, <4>4
    <3> QED BY <1>5, <3>1, <3>2, <3>3
  <2>4. \A n \in DOMAIN frames' : Waiting(n)' => n < Len(frames')
    BY <1>1 DEF Waiting
  <2> QED BY <2>1, <2>3, <2>4 DEF OnTheWay
<1>22. Searched'
  <2>1. ASSUME NEW n \in DOMAIN frames', n < Len(frames')
        PROVE  Named(frames[n].record, Selected.name)' = {}
    <3>1. CASE n = len
      <4>1. frames'[n].record = r
        BY <1>13, <1>14, <3>1
      <4>2. Named(frames[n].record, Selected.name)' = Named(r, Selected.name)
        BY <1>3, <1>19, <4>1
      <4> QED BY <1>7, <4>2
    <3>2. CASE n \in 1 .. len - 1
      <4>1. frames'[n] = frames[n] /\ n \in DOMAIN frames /\ n < Len(frames)
        BY <1>5, <1>14, <1>15, <3>2
      <4>2. Named(frames[n].record, Selected.name)' = Named(frames[n].record, Selected.name)
        BY <1>3, <1>19, <4>1
      <4> QED BY <1>1, <1>7, <4>1, <4>2 DEF Inv, Searched
    <3> QED BY <1>5, <1>14, <1>20, <2>1, <3>1, <3>2
  <2>2. ASSUME NEW n \in DOMAIN frames', NEW v \in Wrappers(frames[n].record)',
               v < frames'[n].at \/ (v = frames'[n].at /\ n = Len(frames'))
        PROVE  Lacking(Wrapped(frames[n].record, v), Selected.name)'
    <3>1. CASE n = len + 1
      <4>1. frames'[n].record = inner /\ frames'[n].at = 0
        BY <1>13, <1>14, <3>1
      <4>2. v \in Wrappers(inner)
        BY <1>19, <2>2, <4>1
      <4>3. v \in Nat \ {0}
        BY <1>2, <4>2, Picks, Shape
      <4> QED BY <2>2, <4>1, <4>3
    <3>2. CASE n = len
      <4>1. frames'[n].record = r /\ frames'[n].at = w /\ n # Len(frames')
        BY <1>5, <1>13, <1>14, <3>2
      <4>2. v \in Wrappers(r) /\ v < w
        BY <1>19, <2>2, <4>1
      <4>3. v \notin Left
        BY <1>2, <1>8, <1>10, <4>2, Picks
      <4>4. v <= Top.at
        <5>1. v \in Nat
          BY <1>2, <4>2, Picks
        <5> QED BY <1>7, <1>10, <4>2, <4>3, <5>1
      <4>5. Lacking(Wrapped(r, v), Selected.name)
        <5>1. len \in DOMAIN frames /\ len = Len(frames)
          BY <1>5, <1>15
        <5>2. v \in Nat
          BY <1>2, <4>2, Picks
        <5>3. v < frames[len].at \/ (v = frames[len].at /\ len = Len(frames))
          BY <1>10, <1>15, <4>4, <5>1, <5>2
        <5> QED BY <1>1, <1>7, <1>15, <4>2, <5>1, <5>3 DEF Inv, Searched
      <4>6. Wrapped(frames[n].record, v)' = Wrapped(r, v)
        BY <1>19, <4>1
      <4> QED BY <1>3, <1>19, <4>5, <4>6
    <3>3. CASE n \in 1 .. len - 1
      <4>1. frames'[n] = frames[n] /\ n \in DOMAIN frames /\ n < Len(frames) /\ n # Len(frames')
        BY <1>5, <1>14, <1>15, <3>3
      <4>2. v \in Wrappers(frames[n].record) /\ v < frames[n].at
        BY <1>19, <2>2, <4>1
      <4>3. Lacking(Wrapped(frames[n].record, v), Selected.name)
        BY <1>1, <1>7, <4>1, <4>2 DEF Inv, Searched
      <4>4. Wrapped(frames[n].record, v)' = Wrapped(frames[n].record, v)
        BY <1>19, <4>1
      <4> QED BY <1>3, <1>19, <4>3, <4>4
    <3> QED BY <1>20, <3>1, <3>2, <3>3
  <2> QED BY <2>1, <2>2 DEF Searched
<1> QED BY <1>16, <1>17, <1>18, <1>21, <1>22 DEF Inv

\* The record of the innermost call does not have the member.
LEMMA TopLacks ==
  ASSUME Inv, pc = "member", Selected.name # Unnamed, Found(Top.record) = {}, Left = {}
  PROVE  Lacking(Top.record, Selected.name) /\ Named(Top.record, Selected.name) = {}
<1>1. TypeOK /\ frames # << >>
  BY DEF Inv, OnTheWay
<1>2. /\ Top.record \in Ids(base) /\ Top.at \in Nat /\ Len(frames) \in DOMAIN frames
      /\ Top = frames[Len(frames)]
  BY <1>1, CallersType DEF Top
<1>3. Named(Top.record, Selected.name) = {}
  BY DEF Found
<1>4. ASSUME NEW w \in Wrappers(Top.record)
      PROVE  Lacking(Wrapped(Top.record, w), Selected.name)
  <2>1. w \in Nat /\ ~ (w > Top.at)
    BY <1>1, <1>2, Picks DEF Left
  <2>2. w < Top.at \/ w = Top.at
    BY <1>2, <2>1
  <2> QED BY <1>2, <2>2 DEF Inv, Searched
<1> QED BY <1>1, <1>2, <1>3, <1>4, LackingStep

LEMMA NotHereInv == Inv /\ NotHere => Inv'
<1> SUFFICES ASSUME Inv, NotHere PROVE Inv'
  OBVIOUS
<1>1. /\ pc = "member" /\ Found(Top.record) = {} /\ Left = {}
      /\ UNCHANGED <<inputs, loop, chain, comp, oid, bid, result>>
  BY DEF NotHere, Searching
<1>2. /\ TypeOK /\ AtItem /\ err = "none" /\ frames # << >> /\ frames[1].record = bid
      /\ UNCHANGED <<object, phase, item>>
  BY <1>1, AtSearch DEF InMember, loop, Inv, OnTheWay
<1>3. /\ base' = base /\ Selected' = Selected /\ Ids(base)' = Ids(base)
  BY <1>1, <1>2, SameMember
<1>4. /\ Callers \in Seq([record : Ids(base), at : Nat]) /\ Len(Callers) = Len(frames) - 1
      /\ \A n \in 1 .. Len(frames) - 1 : Callers[n] = frames[n]
      /\ Top.record \in Ids(base)
  BY <1>2, CallersType
<1>5. PICK len \in Nat \ {0} : len = Len(frames)
  BY <1>2, CallersType
<1>6. DOMAIN frames = 1 .. len /\ frames[len] = Top
  <2>1. frames \in Seq([record : Ids(base), at : Nat])
    BY <1>2 DEF TypeOK
  <2> QED BY <1>5, <2>1 DEF Top
<1>7. /\ \A s : Wrappers(s)' = Wrappers(s)
      /\ \A s, m : Wrapped(s, m)' = Wrapped(s, m)
      /\ \A s, name : Named(s, name)' = Named(s, name) /\ Lacking(s, name)' = Lacking(s, name)
  BY <1>1, SameBase
<1>8. CASE Len(frames) = 1 /\ Fail("no member") /\ UNCHANGED frames
  <2>1. err' = "no member" /\ UNCHANGED <<path, roots, members, traces>> /\ pc # "error"
        /\ required' \subseteq Ids(base)
    BY <1>1, <1>2, <1>8 DEF Fail, path, result, TypeOK
  <2>2. ASSUME Selected.name # Unnamed PROVE Denotes(Everything, bid, Selected.name, MaxNesting + 1) = {}
    <3>1. Lacking(Top.record, Selected.name) /\ Top.record = bid
      BY <1>1, <1>2, <1>5, <1>6, <1>8, <2>2, TopLacks
    <3>2. MaxNesting + 1 \in 0 .. MaxNesting + 1
      BY LimitAssumption
    <3> QED BY <3>1, <3>2 DEF Lacking, Denotes
  <2>3. bid' = bid
    BY <1>1
  <2>4. \A s, name : Denotes(Everything, s, name, MaxNesting + 1)'
                         = Denotes(Everything, s, name, MaxNesting + 1)
    BY <1>3 DEF Denotes, Nested, Iterate, Everything, Wrapped, Wrappers, Named, IsRecord,
                Peel, Behind, Ids
  <2>5. MemberLess'
    <3>1. Denotes(Everything, bid, Selected.name, MaxNesting + 1)'
            = Denotes(Everything, bid, Selected.name, MaxNesting + 1)
      BY <1>3, <2>3, <2>4
    <3> QED BY <1>3, <2>2, <3>1 DEF MemberLess
  <2>6. FailuresAreReal'
    BY <2>1, <2>5 DEF FailuresAreReal
  <2> QED BY <1>1, <1>8, <2>1, <2>6, FailKeepsInv
<1>9. CASE Len(frames) > 1 /\ frames' = Callers /\ UNCHANGED <<pc, err>>
  <2>1. pc' = "member" /\ err' = err /\ Len(frames') = len - 1 /\ DOMAIN frames' = 1 .. len - 1
        /\ len - 1 \in Nat \ {0}
    <3>1. DOMAIN Callers = 1 .. Len(Callers)
      BY <1>4
    <3> QED BY <1>1, <1>4, <1>5, <1>9, <3>1
  <2>2. \A n \in 1 .. len - 1 : frames'[n] = frames[n] /\ n \in DOMAIN frames /\ n < Len(frames)
    BY <1>4, <1>5, <1>6, <1>9
  <2>3. TypeOK'
    <3>1. frames' \in Seq([record : Ids(base), at : Nat]) /\ bid' \in Nat
      BY <1>1, <1>2, <1>4, <1>9 DEF TypeOK
    <3>2. /\ members' \in [Ids(base) -> SUBSET Nat]'
          /\ \A k \in Ids(base) : members'[k] \subseteq DOMAIN base[k].members
          /\ roots' \subseteq Ids(base) /\ required' \subseteq Ids(base)
          /\ traces' \in Seq(TraceRec)'
      BY <1>1, <1>2, SameRecords
    <3> QED BY <1>1, <2>1, <3>1, <3>2, SearchType DEF InMember
  <2>4. AtItem' /\ FailuresAreReal' /\ Resolving' /\ RootsSoFar'
    BY <1>1, <2>1, SearchKeeps DEF InMember, result
  <2>5. SeedsAreRequirements' /\ WitnessIsExact'
    BY <1>1, <2>1, QuietKeeps
  <2>6. \A n \in 1 .. len - 1 : /\ frames[n].at \in Wrappers(frames[n].record)
                                /\ frames[n + 1].record = Wrapped(frames[n].record, frames[n].at)
    BY <2>2 DEF Inv, OnTheWay, Waiting
  <2>7. OnTheWay'
    <3>1. frames' # << >> /\ frames'[1].record = bid'
      <4>1. 1 \in 1 .. len - 1
        BY <2>1
      <4>2. frames'[1] = frames[1]
        BY <2>2, <4>1
      <4> QED BY <1>1, <1>2, <2>1, <4>1, <4>2
    <3>2. ASSUME NEW n \in DOMAIN frames', n < Len(frames')
          PROVE  /\ frames'[n].at \in Wrappers(frames[n].record)'
                 /\ frames'[n + 1].record = Wrapped(frames[n].record, frames[n].at)'
      <4>1. n \in 1 .. len - 1 /\ n + 1 \in 1 .. len - 1
        BY <1>5, <2>1, <3>2
      <4>2. frames'[n] = frames[n] /\ frames'[n + 1] = frames[n + 1]
        BY <2>2, <4>1
      <4>3. Wrappers(frames[n].record)' = Wrappers(frames[n].record)
        BY <1>7, <4>2
      <4>4. Wrapped(frames[n].record, frames[n].at)' = Wrapped(frames[n].record, frames[n].at)
        BY <1>7, <4>2
      <4> QED BY <2>6, <4>1, <4>2, <4>3, <4>4
    <3>3. \A n \in DOMAIN frames' : Waiting(n)' => n < Len(frames')
      BY <2>1 DEF Waiting
    <3> QED BY <3>1, <3>2, <3>3 DEF OnTheWay
  <2>8. Searched'
    <3>1. SUFFICES ASSUME Selected.name # Unnamed, NEW n \in DOMAIN frames'
                   PROVE  /\ Named(frames[n].record, Selected.name)' = {}
                          /\ \A v \in Wrappers(frames[n].record)' :
                               v < frames'[n].at \/ (v = frames'[n].at /\ n = Len(frames'))
                                 => Lacking(Wrapped(frames[n].record, v), Selected.name)'
      BY <1>3 DEF Searched
    <3>2. /\ n \in 1 .. len - 1 /\ frames'[n] = frames[n] /\ n \in DOMAIN frames /\ n < Len(frames)
          /\ n # Len(frames)
      BY <1>5, <2>1, <2>2, <3>1
    <3>3. Named(frames[n].record, Selected.name)' = Named(frames[n].record, Selected.name)
      BY <1>3, <1>7, <3>2
    <3>4. Named(frames[n].record, Selected.name) = {}
      BY <1>1, <3>1, <3>2 DEF Inv, Searched
    <3>5. ASSUME NEW v \in Wrappers(frames[n].record)',
                 v < frames'[n].at \/ (v = frames'[n].at /\ n = Len(frames'))
          PROVE  Lacking(Wrapped(frames[n].record, v), Selected.name)'
      <4>0. v \in Wrappers(frames[n].record)
        BY <1>7, <3>2, <3>5
      <4>1. v < frames[n].at \/ (v = frames[n].at /\ n = len - 1)
        BY <2>1, <3>2, <3>5
      <4>2. Lacking(Wrapped(frames[n].record, v), Selected.name)
        <5>1. CASE v < frames[n].at
          BY <1>1, <3>1, <3>2, <4>0, <5>1 DEF Inv, Searched
        <5>2. CASE v = frames[n].at /\ n = len - 1
          <6>1. frames[n + 1].record = Wrapped(frames[n].record, v)
            BY <2>6, <3>2, <5>2
          <6>2. n + 1 = len
            BY <5>2
          <6>3. Lacking(Top.record, Selected.name)
            BY <1>1, <3>1, TopLacks
          <6> QED BY <1>6, <6>1, <6>2, <6>3
        <5> QED BY <4>1, <5>1, <5>2
      <4>3. Wrapped(frames[n].record, v)' = Wrapped(frames[n].record, v)
        BY <1>7, <3>2
      <4> QED BY <1>3, <1>7, <4>2, <4>3
    <3> QED BY <3>3, <3>4, <3>5
  <2> QED BY <2>3, <2>4, <2>5, <2>7, <2>8 DEF Inv
<1> QED BY <1>8, <1>9 DEF NotHere

-----------------------------------------------------------------------------
LEMMA InitInv == Init => Inv
<1> SUFFICES ASSUME Init PROVE Inv
  OBVIOUS
<1>1. TypeOK
  BY InitType
<1>2. /\ object = 1 /\ phase = "types" /\ item = 1 /\ pc = "next" /\ frames = << >>
      /\ required = {} /\ roots = {} /\ traces = << >> /\ err = "none"
      /\ members = [i \in Ids(base) |-> {}]
  BY DEF Init
<1>3. Len(Types) \in Nat
  BY <1>1, AtWork
<1>4. AtItem
  BY <1>2, <1>3 DEF AtItem, InAccess, InMember
<1>5. SeedsAreRequirements
  BY <1>2 DEF SeedsAreRequirements, Pruned
<1>6. WitnessIsExact
  <2>1. DOMAIN traces = {} /\ \A i \in Ids(base) : members[i] = {}
    BY <1>2
  <2>2. Witness(traces, roots, members, base)
    BY <1>2, <2>1 DEF Witness
  <2> QED BY <2>2, WitnessByTrace
<1>7. OnTheWay /\ Searched /\ Resolving
  BY <1>2 DEF OnTheWay, Searched, Resolving
<1>8. RootsSoFar
  <2>1. Done = 0
    BY <1>2 DEF Done, InAccess
  <2>2. \A n : ~ (n \in 1 .. object - 1)
    BY <1>2
  <2> QED BY <1>2, <2>1, <2>2, Counting DEF RootsSoFar
<1>9. FailuresAreReal
  BY <1>2 DEF FailuresAreReal
<1> QED BY <1>1, <1>4, <1>5, <1>6, <1>7, <1>8, <1>9 DEF Inv

LEMMA StutterInv == Inv /\ UNCHANGED vars => Inv'
<1> SUFFICES ASSUME Inv, UNCHANGED vars PROVE Inv'
  OBVIOUS
<1>1. /\ UNCHANGED <<inputs, loop, chain, path, result, pc, err>>
      /\ UNCHANGED <<base, objects, object, phase, item, id, depth, comp, oid, bid, frames>>
      /\ UNCHANGED <<required, roots, members, traces>>
  BY DEF vars, inputs, loop, chain, path, result
<1> USE <1>1 DEF Inv
<1>2. /\ Object' = Object /\ Types' = Types /\ Relo' = Relo /\ Component' = Component
      /\ Selected' = Selected /\ Ids(base)' = Ids(base) /\ Ids(Types)' = Ids(Types)
  BY SameMember
<1>3. TypeOK'
  BY <1>2 DEF TypeOK
<1>4. AtItem'
  <2>1. Queryable(Types[item])' = Queryable(Types[item])
    BY <1>2 DEF Queryable
  <2> QED BY <1>2, <2>1 DEF AtItem
<1>5. SeedsAreRequirements' /\ WitnessIsExact'
  BY DEF SeedsAreRequirements, Pruned, WitnessIsExact, Unexplained, Ids
<1>6. OnTheWay'
  BY SameBase DEF OnTheWay, Waiting
<1>7. Searched'
  BY <1>2, SameBase DEF Searched
<1>8. Resolving'
  BY <1>2, SameBase DEF Resolving, Start
<1>9. RootsSoFar'
  BY <1>2, SameBase DEF RootsSoFar, Done
<1>10. FailuresAreReal'
  <2>1. \A o, s : Answer(o, s)' = Answer(o, s)
    BY SameBase
  <2>2. Ambiguous' = Ambiguous
    BY DEF Ambiguous, Queryable, Matches, Several, Ids
  <2>3. Unknown' = Unknown
    BY <2>1 DEF Unknown
  <2>4. \A s, name : Denotes(Everything, s, name, MaxNesting + 1)'
                         = Denotes(Everything, s, name, MaxNesting + 1)
    BY DEF Denotes, Nested, Iterate, Everything, Wrapped, Wrappers, Named, IsRecord, Peel, Behind, Ids
  <2>5. MemberLess' = MemberLess
    BY <1>2, <2>4 DEF MemberLess
  <2> QED BY <2>2, <2>3, <2>5 DEF FailuresAreReal
<1> QED BY <1>3, <1>4, <1>5, <1>6, <1>7, <1>8, <1>9, <1>10

\* The invariant holds in every state.
THEOREM Invariance == Spec => []Inv
<1>1. Init => Inv
  BY InitInv
<1>2. ASSUME Inv, [Next]_vars PROVE Inv'
  <2>1. CASE SkipType \/ TakeType \/ TypesDone \/ TakeRelo \/ RelosDone
    BY <1>2, <2>1, SkipTypeInv, TakeInv, TypesDoneInv, RelosDoneInv
  <2>2. CASE Resolve
    BY <1>2, <2>2, LimitInv, AmbiguousInv, FollowChainInv, ProgramLocalInv, UnresolvedInv,
       SeedFoundInv, RootFoundInv DEF Resolve
  <2>3. CASE Access
    BY <1>2, <2>3, LimitInv, RootAccessInv, TakeMemberInv, AccessDoneInv, FindMemberInv,
       DescendInv, NotHereInv, MarkWrapperInv, MemberDoneInv DEF Access
  <2>4. CASE UNCHANGED vars
    BY <1>2, <2>4, StutterInv
  <2> QED BY <1>2, <2>1, <2>2, <2>3, <2>4 DEF Next
<1> QED BY <1>1, <1>2, PTL DEF Spec

\* Every id that the extraction keeps is one of the base BTF, and every recorded
\* member one of its record (seeds.c:483-541, 570-617; requirements.c:198-310).
THEOREM TypeCorrect == Spec => []TypeOK
<1>1. Inv => TypeOK
  BY DEF Inv
<1> QED BY <1>1, Invariance, PTL

\* For any base BTF and any objects, the type set holds the roots and the records
\* with recorded members, and nothing else (seeds.c:494-498, 529-533, 791-797, 937-940).
THEOREM SetIsRequirements == Spec => []SeedsAreRequirements
<1>1. Inv => SeedsAreRequirements
  BY DEF Inv
<1> QED BY <1>1, Invariance, PTL

\* Each root and each recorded member has exactly one trace, and --explain can
\* print it (requirements.c:225-233, 293-303, 341-355).
THEOREM WitnessExact == Spec => []WitnessIsExact
<1>1. Inv => WitnessIsExact
  BY DEF Inv
<1> QED BY <1>1, Invariance, PTL

\* A run that succeeds has found exactly what the objects' types and relocations
\* stand for, whatever the length of their chains and the order of the objects
\* (seeds.c:625-720, 750-801, 901-952).
THEOREM RootsComplete == Spec => []RootsExact
<1>1. Inv => RootsExact
  <2>1. SUFFICES ASSUME Inv, pc = "ok"
                 PROVE  roots = UNION {AnswersFor(objects[n]) : n \in DOMAIN objects}
    BY DEF RootsExact
  <2>2. ASSUME NEW n \in DOMAIN objects, NEW r
        PROVE  r \in AnswersFor(objects[n]) <=> ByObject(objects[n], r)
    <3> DEFINE o == objects[n]
               byType == {Answer(o, i) : i \in {j \in Ids(o.types) : Queryable(o.types[j])}}
               byRelo == {Answer(o, o.relos[k].type_id) : k \in DOMAIN o.relos}
    <3>1. Ids(o.types) = 1 .. Len(o.types) /\ DOMAIN o.relos = 1 .. Len(o.relos)
      BY <2>1, ObjectShape DEF Inv, Ids
    <3>2. AnswersFor(o) = UNION (byType \cup byRelo)
      BY DEF AnswersFor
    <3>3. (\E s \in byType : r \in s) <=> ByType(o, Len(o.types), r)
      BY <3>1 DEF ByType
    <3>4. (\E s \in byRelo : r \in s) <=> ByRelo(o, Len(o.relos), r)
      BY <3>1 DEF ByRelo
    <3> HIDE DEF byType, byRelo
    <3> QED BY <3>2, <3>3, <3>4 DEF ByObject
  <2>3. \A n \in DOMAIN objects : \A r \in AnswersFor(objects[n]) : r \in Ids(base)
    <3>1. \A o, i : KnownAs(o, i) \subseteq Ids(base)
      BY DEF KnownAs, Matches
    <3>2. \A o, s : Answer(o, s) \subseteq Ids(base)
      BY <3>1 DEF Answer
    <3> QED BY <3>2 DEF AnswersFor
  <2>4. roots \subseteq Ids(base)
    BY <2>1 DEF Inv, TypeOK
  <2>5. \A r \in Ids(base) : r \in roots <=> \E n \in DOMAIN objects : ByObject(objects[n], r)
    BY <2>1 DEF Inv, RootsSoFar
  <2> QED BY <2>2, <2>3, <2>4, <2>5
<1> QED BY <1>1, Invariance, PTL

\* Whatever the input, "ambiguous" is reported only of two types that the base BTF
\* cannot tell apart, "unresolved" only of a relocation of which it has nothing,
\* and "no member" only of a member that no anonymous record holds either
\* (seeds.c:667-674, 701-716, 608-617).
THEOREM FailuresExplained == Spec => []FailuresAreReal
<1>1. Inv => FailuresAreReal
  BY DEF Inv
<1> QED BY <1>1, Invariance, PTL

-----------------------------------------------------------------------------
(***************************************************************************)
(* The accesses.  What is recorded only grows, and with it what an access  *)
(* finds in the header; so it is enough that each component finds its      *)
(* member at the time when it is recorded.                                 *)
(***************************************************************************)
\* Members that records of the base BTF may be left with.
Shapes == {has \in [Ids(base) -> SUBSET Nat] :
             \A i \in Ids(base) : has[i] \subseteq DOMAIN base[i].members}

Own(has, name, i) == {base[i].members[m].type : m \in has[i] \cap Named(i, name)}

\* The values whose members the code compares (seeds.c:823-899): behind arrays and
\* pointers too, and an anonymous member is taken from its position.
Pair(o, relo, v) ==
    LET x == Peel(o.types, v[2])
        y == Peel(base, v[3])
        c == relo.access[v[1] + 1]
    IN IF IsRecord(o.types, x) /\ IsRecord(base, y) /\ c \in DOMAIN o.types[x].members
         THEN LET m == o.types[x].members[c]
              IN {<<v[1] + 1, m.type, t>> :
                    t \in IF m.name = Unnamed
                            THEN {base[y].members[k].type : k \in {c} \cap DOMAIN base[y].members}
                            ELSE Denotes(Everything, y, m.name, MaxNesting + Len(relo.access))}
       ELSE {}

Compared(o, relo, root) ==
    Iterate([V \in SUBSET Values |-> UNION {Pair(o, relo, v) : v \in V}],
            {<<1, relo.type_id, root>>}, Len(relo.access) - 1)

\* The records are there without an array or a pointer in between, and an anonymous
\* member of the object stands where the base BTF has one too.
Straight(o, relo, v) ==
    LET x == Peel(o.types, v[2])
        y == Peel(base, v[3])
        c == relo.access[v[1] + 1]
    IN IsRecord(o.types, x) /\ IsRecord(base, y) =>
         /\ Bare(o.types, v[2]) = x /\ Bare(base, v[3]) = y
         /\ (c \in DOMAIN o.types[x].members \cap DOMAIN base[y].members)
              => (o.types[x].members[c].name = Unnamed => base[y].members[c].name = Unnamed)

IsAccess(relo) == relo.field /\ relo.access # << >>

\* No field access takes one of the two ways of array_access.
Direct ==
    \A n \in DOMAIN objects : \A k \in DOMAIN objects[n].relos :
      LET o == objects[n]   relo == o.relos[k]
      IN IsAccess(relo) =>
           \A root \in Answer(o, relo.type_id) : \A d \in 0 .. Len(relo.access) - 2 :
             \A v \in Compared(o, relo, root)[d] : Straight(o, relo, v)

\* The definition of Nested, by levels.
LEMMA NestedIs ==
  ASSUME TypeOK, NEW has \in Shapes, NEW name, NEW levels \in Nat
  PROVE  /\ \A d \in 0 .. levels : \A i \in Ids(base) : Nested(has, name, levels)[d][i] \in SUBSET Nat
         /\ \A i \in Ids(base) : Nested(has, name, levels)[0][i] = Own(has, name, i)
         /\ \A d \in 1 .. levels : \A i \in Ids(base) :
              Nested(has, name, levels)[d][i] =
                Own(has, name, i) \cup UNION {Nested(has, name, levels)[d - 1][Wrapped(i, m)] :
                                                 m \in has[i] \cap Wrappers(i)}
<1> DEFINE A == [Ids(base) -> SUBSET Nat]
           own == [i \in Ids(base) |-> {base[i].members[m].type : m \in has[i] \cap Named(i, name)}]
           deeper == [d \in A |->
                        [i \in Ids(base) |->
                           own[i] \cup UNION {d[Wrapped(i, m)] : m \in has[i] \cap Wrappers(i)}]]
           N == Nested(has, name, levels)
<1>1. \A i \in Ids(base) : has[i] \subseteq DOMAIN base[i].members
  BY DEF Shapes
<1>2. own \in A
  <2>1. ASSUME NEW i \in Ids(base)
        PROVE  {base[i].members[m].type : m \in has[i] \cap Named(i, name)} \subseteq Nat
    BY <1>1, Shape
  <2> QED BY <2>1
<1>3. deeper \in [A -> A]
  <2>1. ASSUME NEW d \in A, NEW i \in Ids(base)
        PROVE  own[i] \cup UNION {d[Wrapped(i, m)] : m \in has[i] \cap Wrappers(i)} \in SUBSET Nat
    <3>1. \A m \in Wrappers(i) : d[Wrapped(i, m)] \in SUBSET Nat
      BY Picks
    <3>2. own[i] \in SUBSET Nat
      BY <1>2
    <3> HIDE DEF own
    <3> QED BY <3>1, <3>2
  <2> HIDE DEF own
  <2> QED BY <2>1
<1>4. N = Iterate(deeper, own, levels)
  BY DEF Nested
<1>5. \A i \in Ids(base) : own[i] = Own(has, name, i)
  BY DEF Own
<1>6. \A d \in A, i \in Ids(base) :
         deeper[d][i] = own[i] \cup UNION {d[Wrapped(i, m)] : m \in has[i] \cap Wrappers(i)}
  <2> HIDE DEF own
  <2> QED OBVIOUS
<1> HIDE DEF A, own, deeper, N
<1>7. Iterates(N, deeper, own, levels, A)
  BY <1>2, <1>3, <1>4, Iteration, Zenon
<1>8. /\ N[0] = own /\ \A d \in 0 .. levels : N[d] \in A
      /\ \A d \in 1 .. levels : N[d] = deeper[N[d - 1]]
  BY <1>7 DEF Iterates
<1>9. \A d \in 0 .. levels : \A i \in Ids(base) : N[d][i] \in SUBSET Nat
  BY <1>8 DEF A
<1>10. ASSUME NEW d \in 1 .. levels, NEW i \in Ids(base)
       PROVE  N[d][i] = Own(has, name, i) \cup UNION {N[d - 1][Wrapped(i, m)] : m \in has[i] \cap Wrappers(i)}
  <2>1. d - 1 \in 0 .. levels
    OBVIOUS
  <2> QED BY <1>5, <1>6, <1>8, <2>1
<1> QED BY <1>5, <1>8, <1>9, <1>10 DEF N

\* A member is found at every level from its own on.
LEMMA NestedHolds ==
  ASSUME TypeOK, NEW has \in Shapes, NEW name, NEW levels \in Nat, NEW i \in Ids(base)
  PROVE  /\ \A d \in 0 .. levels : Own(has, name, i) \subseteq Nested(has, name, levels)[d][i]
         /\ \A d \in 0 .. levels - 1 : \A m \in has[i] \cap Wrappers(i) :
              Nested(has, name, levels)[d][Wrapped(i, m)] \subseteq Nested(has, name, levels)[d + 1][i]
<1>1. ASSUME NEW d \in 0 .. levels PROVE Own(has, name, i) \subseteq Nested(has, name, levels)[d][i]
  <2>1. d = 0 \/ d \in 1 .. levels
    OBVIOUS
  <2> QED BY <2>1, NestedIs
<1>2. ASSUME NEW d \in 0 .. levels - 1, NEW m \in has[i] \cap Wrappers(i)
      PROVE  Nested(has, name, levels)[d][Wrapped(i, m)] \subseteq Nested(has, name, levels)[d + 1][i]
  <2>1. d + 1 \in 1 .. levels /\ d + 1 - 1 = d
    OBVIOUS
  <2>2. Nested(has, name, levels)[d + 1][i] =
          Own(has, name, i)
            \cup UNION {Nested(has, name, levels)[d][Wrapped(i, k)] : k \in has[i] \cap Wrappers(i)}
    BY <2>1, NestedIs
  <2> QED BY <2>2
<1> QED BY <1>1, <1>2

\* More levels find more, and so do more members.
LEMMA NestedGrows ==
  ASSUME TypeOK, NEW has \in Shapes, NEW more \in Shapes, \A i \in Ids(base) : has[i] \subseteq more[i],
         NEW name, NEW levels \in Nat
  PROVE  /\ \A d \in 0 .. levels : \A i \in Ids(base) :
              Nested(has, name, levels)[d][i] \subseteq Nested(more, name, levels)[d][i]
         /\ \A d \in 0 .. levels - 1 : \A i \in Ids(base) :
              Nested(has, name, levels)[d][i] \subseteq Nested(has, name, levels)[d + 1][i]
<1> DEFINE N == Nested(has, name, levels)   M == Nested(more, name, levels)
<1>1. ASSUME NEW i \in Ids(base) PROVE Own(has, name, i) \subseteq Own(more, name, i)
  BY DEF Own
<1>2. \A i \in Ids(base) : \A m \in Wrappers(i) : Wrapped(i, m) \in Ids(base)
  BY Picks
<1>3. /\ \A i \in Ids(base) : N[0][i] = Own(has, name, i)
      /\ \A d \in 1 .. levels : \A i \in Ids(base) :
           N[d][i] = Own(has, name, i) \cup UNION {N[d - 1][Wrapped(i, m)] : m \in has[i] \cap Wrappers(i)}
  BY NestedIs
<1>6. /\ \A i \in Ids(base) : M[0][i] = Own(more, name, i)
      /\ \A d \in 1 .. levels : \A i \in Ids(base) :
           M[d][i] = Own(more, name, i) \cup UNION {M[d - 1][Wrapped(i, m)] : m \in more[i] \cap Wrappers(i)}
  BY NestedIs
<1> HIDE DEF N, M
<1>4. \A d \in 0 .. levels : \A i \in Ids(base) : N[d][i] \subseteq M[d][i]
  <2> DEFINE S == {d \in Nat : d <= levels => \A i \in Ids(base) : N[d][i] \subseteq M[d][i]}
  <2>1. 0 \in S
    BY <1>1, <1>3, <1>6
  <2>2. ASSUME NEW d \in S PROVE d + 1 \in S
    <3>1. SUFFICES ASSUME d + 1 <= levels, NEW i \in Ids(base) PROVE N[d + 1][i] \subseteq M[d + 1][i]
      OBVIOUS
    <3>2. d + 1 \in 1 .. levels /\ d + 1 - 1 = d /\ d <= levels
      BY <3>1
    <3>3. /\ N[d + 1][i] =
               Own(has, name, i) \cup UNION {N[d][Wrapped(i, m)] : m \in has[i] \cap Wrappers(i)}
          /\ M[d + 1][i] =
               Own(more, name, i) \cup UNION {M[d][Wrapped(i, m)] : m \in more[i] \cap Wrappers(i)}
      BY <1>3, <1>6, <3>2
    <3>4. \A m \in has[i] \cap Wrappers(i) :
            m \in more[i] \cap Wrappers(i) /\ N[d][Wrapped(i, m)] \subseteq M[d][Wrapped(i, m)]
      BY <1>2, <3>2
    <3> QED BY <1>1, <3>3, <3>4
  <2>3. S \in SUBSET Nat
    OBVIOUS
  <2> HIDE DEF S
  <2>4. \A d \in Nat : d \in S
    BY <2>1, <2>2, <2>3, Induction
  <2> QED BY <2>4 DEF S
<1>5. \A d \in 0 .. levels - 1 : \A i \in Ids(base) : N[d][i] \subseteq N[d + 1][i]
  <2> DEFINE S == {d \in Nat : d + 1 <= levels => \A i \in Ids(base) : N[d][i] \subseteq N[d + 1][i]}
  <2>1. 0 \in S
    BY <1>3
  <2>2. ASSUME NEW d \in S PROVE d + 1 \in S
    <3>1. SUFFICES ASSUME d + 1 + 1 <= levels, NEW i \in Ids(base) PROVE N[d + 1][i] \subseteq N[d + 1 + 1][i]
      OBVIOUS
    <3>2. /\ d + 1 \in 1 .. levels /\ d + 1 - 1 = d /\ d + 1 <= levels
          /\ d + 1 + 1 \in 1 .. levels /\ d + 1 + 1 - 1 = d + 1
      BY <3>1
    <3>3. /\ N[d + 1][i] =
               Own(has, name, i) \cup UNION {N[d][Wrapped(i, m)] : m \in has[i] \cap Wrappers(i)}
          /\ N[d + 1 + 1][i] =
               Own(has, name, i) \cup UNION {N[d + 1][Wrapped(i, m)] : m \in has[i] \cap Wrappers(i)}
      BY <1>3, <3>2
    <3>4. \A m \in has[i] \cap Wrappers(i) : N[d][Wrapped(i, m)] \subseteq N[d + 1][Wrapped(i, m)]
      BY <1>2, <3>2
    <3> QED BY <3>3, <3>4
  <2>3. S \in SUBSET Nat
    OBVIOUS
  <2> HIDE DEF S
  <2>4. \A d \in Nat : d \in S
    BY <2>1, <2>2, <2>3, Induction
  <2> QED BY <2>4 DEF S
<1> QED BY <1>4, <1>5 DEF N, M

LEMMA NestedDeepens ==
  ASSUME TypeOK, NEW has \in Shapes, NEW name, NEW levels \in Nat, NEW i \in Ids(base),
         NEW d \in 0 .. levels, NEW e \in d .. levels
  PROVE  Nested(has, name, levels)[d][i] \subseteq Nested(has, name, levels)[e][i]
<1> DEFINE N == Nested(has, name, levels)
           S == {k \in Nat : d + k <= levels => N[d][i] \subseteq N[d + k][i]}
<1>1. \A k \in 0 .. levels - 1 : N[k][i] \subseteq N[k + 1][i]
  BY NestedGrows
<1> HIDE DEF N
<1>2. 0 \in S
  OBVIOUS
<1>3. ASSUME NEW k \in S PROVE k + 1 \in S
  <2>1. SUFFICES ASSUME d + (k + 1) <= levels PROVE N[d][i] \subseteq N[d + (k + 1)][i]
    OBVIOUS
  <2>2. d + k \in 0 .. levels - 1 /\ d + k + 1 = d + (k + 1) /\ d + k <= levels
    BY <2>1
  <2>3. N[d + k][i] \subseteq N[d + (k + 1)][i]
    BY <1>1, <2>2
  <2> QED BY <2>2, <2>3
<1>4. S \in SUBSET Nat
  OBVIOUS
<1> HIDE DEF S
<1>5. e - d \in S
  BY <1>2, <1>3, <1>4, Induction
<1>6. d + (e - d) = e
  OBVIOUS
<1> QED BY <1>5, <1>6 DEF S, N

\* The definition of Accessed, by components.
LEMMA ApplyIs ==
  ASSUME TypeOK, NEW n \in DOMAIN objects, NEW k \in DOMAIN objects[n].relos,
         NEW has \in Shapes, NEW v \in Values
  PROVE  Apply(objects[n], objects[n].relos[k], has, v) \subseteq Values
<1> DEFINE o == objects[n]   relo == o.relos[k]
           x == Bare(o.types, v[2])   y == Bare(base, v[3])   c == relo.access[v[1] + 1]
           m == o.types[x].members[c]   levels == MaxNesting + Len(relo.access)
<1>1. v[1] + 1 \in Nat /\ v[3] \in Nat
  BY DEF Values
<1>2. levels \in Nat
  BY ObjectShape, LimitAssumption
<1>3. CASE x \in Ids(o.types) /\ y \in Ids(base) /\ o.types[x].kind = "ARRAY" /\ base[y].kind = "ARRAY"
  <2>1. Apply(o, relo, has, v) = {<<v[1] + 1, o.types[x].type, base[y].type>>}
    BY <1>3 DEF Apply
  <2>2. o.types[x].type \in Nat /\ base[y].type \in Nat
    BY <1>3, ObjectShape, Shape
  <2> QED BY <1>1, <2>1, <2>2 DEF Values
<1>4. CASE /\ ~ (x \in Ids(o.types) /\ y \in Ids(base) /\ o.types[x].kind = "ARRAY" /\ base[y].kind = "ARRAY")
           /\ IsRecord(o.types, x) /\ IsRecord(base, y) /\ c \in DOMAIN o.types[x].members
  <2> DEFINE T == IF m.name = Unnamed THEN {v[3]} ELSE Denotes(has, y, m.name, levels)
  <2>1. Apply(o, relo, has, v) = {<<v[1] + 1, m.type, t>> : t \in T}
    BY <1>4 DEF Apply
  <2>2. x \in Ids(o.types) /\ y \in Ids(base)
    BY <1>4 DEF IsRecord
  <2>3. m.type \in Nat
    BY <1>4, <2>2, ObjectShape
  <2>4. Denotes(has, y, m.name, levels) \in SUBSET Nat
    <3>1. levels \in 0 .. levels
      BY <1>2
    <3> HIDE DEF levels, m, y
    <3> QED BY <1>2, <2>2, <3>1, NestedIs DEF Denotes
  <2>5. T \in SUBSET Nat
    BY <1>1, <2>4
  <2> HIDE DEF T, m
  <2> QED BY <1>1, <2>1, <2>3, <2>5 DEF Values
<1>5. CASE /\ ~ (x \in Ids(o.types) /\ y \in Ids(base) /\ o.types[x].kind = "ARRAY" /\ base[y].kind = "ARRAY")
           /\ ~ (IsRecord(o.types, x) /\ IsRecord(base, y) /\ c \in DOMAIN o.types[x].members)
  <2>1. Apply(o, relo, has, v) = {}
    BY <1>5 DEF Apply
  <2> QED BY <2>1
<1> QED BY <1>3, <1>4, <1>5

Applies(A, o, relo, has, root) ==
  /\ Len(relo.access) - 1 \in Nat
  /\ A[0] = {<<1, relo.type_id, root>>}
  /\ \A d \in 0 .. Len(relo.access) - 1 : A[d] \subseteq Values
  /\ \A d \in 1 .. Len(relo.access) - 1 : A[d] = UNION {Apply(o, relo, has, v) : v \in A[d - 1]}

LEMMA AccessedIs ==
  ASSUME TypeOK, NEW n \in DOMAIN objects, NEW k \in DOMAIN objects[n].relos,
         IsAccess(objects[n].relos[k]), NEW has \in Shapes, NEW root \in Nat
  PROVE  Applies(Accessed(objects[n], objects[n].relos[k], has, root),
                 objects[n], objects[n].relos[k], has, root)
<1> DEFINE o == objects[n]   relo == o.relos[k]   A == Accessed(o, relo, has, root)
           max == Len(relo.access) - 1   VV == SUBSET Values
           F == [V \in VV |-> UNION {Apply(o, relo, has, v) : v \in V}]
           start == {<<1, relo.type_id, root>>}
<1>1. max \in Nat
  <2>1. relo.access \in Seq(Nat \cup {Bad}) /\ relo.access # << >>
    BY ObjectShape DEF IsAccess
  <2> QED BY <2>1
<1>2. start \in VV
  <2>1. relo.type_id \in Nat
    BY ObjectShape
  <2> QED BY <2>1 DEF Values
<1>3. F \in [VV -> VV]
  <2>1. ASSUME NEW V \in VV PROVE UNION {Apply(o, relo, has, v) : v \in V} \in VV
    <3>1. \A v \in V : Apply(o, relo, has, v) \subseteq Values
      BY ApplyIs
    <3> QED BY <3>1
  <2> QED BY <2>1
<1>4. A = Iterate(F, start, max)
  BY DEF Accessed
<1>5. \A V \in VV : F[V] = UNION {Apply(o, relo, has, v) : v \in V}
  OBVIOUS
<1> HIDE DEF F, A, VV, max
<1>6. Iterates(A, F, start, max, VV)
  BY <1>1, <1>2, <1>3, <1>4, Iteration, Zenon
<1>7. /\ A[0] = start /\ \A d \in 0 .. max : A[d] \in VV
      /\ \A d \in 1 .. max : A[d] = F[A[d - 1]]
  BY <1>6 DEF Iterates
<1>8. ASSUME NEW d \in 1 .. max PROVE A[d] = UNION {Apply(o, relo, has, v) : v \in A[d - 1]}
  <2>1. d - 1 \in 0 .. max
    BY <1>1
  <2> QED BY <1>5, <1>7, <2>1
<1> QED BY <1>1, <1>7, <1>8 DEF A, VV, max, Applies

\* The same of Compared.
LEMMA PairIs ==
  ASSUME TypeOK, NEW n \in DOMAIN objects, NEW k \in DOMAIN objects[n].relos, NEW v \in Values
  PROVE  Pair(objects[n], objects[n].relos[k], v) \subseteq Values
<1> DEFINE o == objects[n]   relo == o.relos[k]
           x == Peel(o.types, v[2])   y == Peel(base, v[3])   c == relo.access[v[1] + 1]
           m == o.types[x].members[c]   levels == MaxNesting + Len(relo.access)
<1>1. v[1] + 1 \in Nat
  BY DEF Values
<1>2. levels \in Nat
  BY ObjectShape, LimitAssumption
<1>3. CASE IsRecord(o.types, x) /\ IsRecord(base, y) /\ c \in DOMAIN o.types[x].members
  <2> DEFINE P == {base[y].members[j].type : j \in {c} \cap DOMAIN base[y].members}
             T == IF m.name = Unnamed THEN P ELSE Denotes(Everything, y, m.name, levels)
  <2>1. Pair(o, relo, v) = {<<v[1] + 1, m.type, t>> : t \in T}
    BY <1>3 DEF Pair
  <2>2. x \in Ids(o.types) /\ y \in Ids(base)
    BY <1>3 DEF IsRecord
  <2>3. m.type \in Nat
    BY <1>3, <2>2, ObjectShape
  <2>4. Denotes(Everything, y, m.name, levels) \in SUBSET Nat
    <3>1. levels \in 0 .. levels
      BY <1>2
    <3>2. Everything \in Shapes
      BY Shape DEF Everything, Shapes
    <3> HIDE DEF levels, m, y
    <3> QED BY <1>2, <2>2, <3>1, <3>2, NestedIs DEF Denotes
  <2>5. P \in SUBSET Nat
    BY <2>2, Shape
  <2>6. T \in SUBSET Nat
    BY <2>4, <2>5
  <2> HIDE DEF T, m
  <2> QED BY <1>1, <2>1, <2>3, <2>6 DEF Values
<1>4. CASE ~ (IsRecord(o.types, x) /\ IsRecord(base, y) /\ c \in DOMAIN o.types[x].members)
  <2>1. Pair(o, relo, v) = {}
    BY <1>4 DEF Pair
  <2> QED BY <2>1
<1> QED BY <1>3, <1>4

Pairs(A, o, relo, root) ==
  /\ A[0] = {<<1, relo.type_id, root>>}
  /\ \A d \in 0 .. Len(relo.access) - 1 : A[d] \subseteq Values
  /\ \A d \in 1 .. Len(relo.access) - 1 : A[d] = UNION {Pair(o, relo, v) : v \in A[d - 1]}

LEMMA ComparedIs ==
  ASSUME TypeOK, NEW n \in DOMAIN objects, NEW k \in DOMAIN objects[n].relos,
         IsAccess(objects[n].relos[k]), NEW root \in Nat
  PROVE  Pairs(Compared(objects[n], objects[n].relos[k], root), objects[n], objects[n].relos[k], root)
<1> DEFINE o == objects[n]   relo == o.relos[k]   A == Compared(o, relo, root)
           max == Len(relo.access) - 1   VV == SUBSET Values
           F == [V \in VV |-> UNION {Pair(o, relo, v) : v \in V}]
           start == {<<1, relo.type_id, root>>}
<1>1. max \in Nat
  <2>1. relo.access \in Seq(Nat \cup {Bad}) /\ relo.access # << >>
    BY ObjectShape DEF IsAccess
  <2> QED BY <2>1
<1>2. start \in VV
  <2>1. relo.type_id \in Nat
    BY ObjectShape
  <2> QED BY <2>1 DEF Values
<1>3. F \in [VV -> VV]
  <2>1. ASSUME NEW V \in VV PROVE UNION {Pair(o, relo, v) : v \in V} \in VV
    <3>1. \A v \in V : Pair(o, relo, v) \subseteq Values
      BY PairIs
    <3> QED BY <3>1
  <2> QED BY <2>1
<1>4. A = Iterate(F, start, max)
  BY DEF Compared
<1>5. \A V \in VV : F[V] = UNION {Pair(o, relo, v) : v \in V}
  OBVIOUS
<1> HIDE DEF F, A, VV, max
<1>6. Iterates(A, F, start, max, VV)
  BY <1>1, <1>2, <1>3, <1>4, Iteration, Zenon
<1>7. /\ A[0] = start /\ \A d \in 0 .. max : A[d] \in VV
      /\ \A d \in 1 .. max : A[d] = F[A[d - 1]]
  BY <1>6 DEF Iterates
<1>8. ASSUME NEW d \in 1 .. max PROVE A[d] = UNION {Pair(o, relo, v) : v \in A[d - 1]}
  <2>1. d - 1 \in 0 .. max
    BY <1>1
  <2> QED BY <1>5, <1>7, <2>1
<1> QED BY <1>7, <1>8 DEF A, VV, max, Pairs

\* What is recorded later takes nothing away.
LEMMA AccessedGrows ==
  ASSUME TypeOK, NEW n \in DOMAIN objects, NEW k \in DOMAIN objects[n].relos,
         IsAccess(objects[n].relos[k]), NEW root \in Nat,
         NEW has \in Shapes, NEW more \in Shapes, \A i \in Ids(base) : has[i] \subseteq more[i]
  PROVE  \A d \in 0 .. Len(objects[n].relos[k].access) - 1 :
            Accessed(objects[n], objects[n].relos[k], has, root)[d]
              \subseteq Accessed(objects[n], objects[n].relos[k], more, root)[d]
<1> DEFINE o == objects[n]   relo == o.relos[k]   max == Len(relo.access) - 1
           A == Accessed(o, relo, has, root)   B == Accessed(o, relo, more, root)
           levels == MaxNesting + Len(relo.access)
<1>1. levels \in Nat /\ levels \in 0 .. levels
  <2>1. levels \in Nat
    BY ObjectShape, LimitAssumption
  <2> QED BY <2>1
<1>2. \A name : \A y \in Ids(base) : Denotes(has, y, name, levels) \subseteq Denotes(more, y, name, levels)
  <2> HIDE DEF levels
  <2> QED BY <1>1, NestedGrows DEF Denotes
<1>3. ASSUME NEW v PROVE Apply(o, relo, has, v) \subseteq Apply(o, relo, more, v)
  <2> DEFINE x == Bare(o.types, v[2])   y == Bare(base, v[3])   c == relo.access[v[1] + 1]
             m == o.types[x].members[c]
             array == /\ x \in Ids(o.types) /\ y \in Ids(base)
                      /\ o.types[x].kind = "ARRAY" /\ base[y].kind = "ARRAY"
             record == IsRecord(o.types, x) /\ IsRecord(base, y) /\ c \in DOMAIN o.types[x].members
             T(h) == IF m.name = Unnamed THEN {v[3]} ELSE Denotes(h, y, m.name, levels)
  <2>1. CASE array
    BY <2>1 DEF Apply
  <2>2. CASE ~ array /\ record
    <3>1. /\ Apply(o, relo, has, v) = {<<v[1] + 1, m.type, t>> : t \in T(has)}
          /\ Apply(o, relo, more, v) = {<<v[1] + 1, m.type, t>> : t \in T(more)}
      BY <2>2 DEF Apply
    <3>2. y \in Ids(base)
      BY <2>2 DEF IsRecord
    <3>3. T(has) \subseteq T(more)
      <4> HIDE DEF m, levels, y
      <4> QED BY <1>2, <3>2
    <3> HIDE DEF T, m
    <3> QED BY <3>1, <3>3
  <2>3. CASE ~ array /\ ~ record
    <3>1. Apply(o, relo, has, v) = {}
      BY <2>3 DEF Apply
    <3> QED BY <3>1
  <2> QED BY <2>1, <2>2, <2>3
<1>4. Applies(A, o, relo, has, root) /\ Applies(B, o, relo, more, root)
  BY AccessedIs
<1>5. /\ max \in Nat /\ A[0] = B[0]
      /\ \A d \in 1 .. max : A[d] = UNION {Apply(o, relo, has, v) : v \in A[d - 1]}
      /\ \A d \in 1 .. max : B[d] = UNION {Apply(o, relo, more, v) : v \in B[d - 1]}
  <2> HIDE DEF A, B, o, relo
  <2> QED BY <1>4 DEF Applies
<1> HIDE DEF A, B, max, o, relo
<1> DEFINE S == {d \in Nat : d <= max => A[d] \subseteq B[d]}
<1>7. 0 \in S
  BY <1>5
<1>8. ASSUME NEW d \in S PROVE d + 1 \in S
  <2>1. SUFFICES ASSUME d + 1 <= max PROVE A[d + 1] \subseteq B[d + 1]
    OBVIOUS
  <2>2. d + 1 \in 1 .. max /\ d + 1 - 1 = d /\ A[d] \subseteq B[d]
    BY <1>5, <2>1
  <2>3. /\ A[d + 1] = UNION {Apply(o, relo, has, v) : v \in A[d]}
        /\ B[d + 1] = UNION {Apply(o, relo, more, v) : v \in B[d]}
    BY <1>5, <2>2
  <2> QED BY <1>3, <2>2, <2>3
<1>9. S \in SUBSET Nat
  OBVIOUS
<1> HIDE DEF S
<1>10. \A d \in Nat : d \in S
  BY <1>7, <1>8, <1>9, Induction
<1>11. \A d \in 0 .. max : A[d] \subseteq B[d]
  BY <1>5, <1>10 DEF S
<1> QED BY <1>11 DEF A, B, max, o, relo

-----------------------------------------------------------------------------
\* What a record may have: what is recorded of it, and more to come.
Havings == {has \in Shapes : \A i \in Ids(base) : members[i] \subseteq has[i]}

Levels == MaxNesting + Len(Relo.access)

\* The value of the code, v, is in the record of type c, the header's, behind at most
\* v[1] - 1 anonymous members, all of them recorded.
Within(v, c) ==
    IsRecord(Types, Peel(Types, v[2])) /\ IsRecord(base, Peel(base, v[3])) =>
      /\ Bare(Types, v[2]) = Peel(Types, v[2])
      /\ IsRecord(base, Bare(base, c))
      /\ \A has \in Havings : \A name : \A d \in 0 .. Levels - (v[1] - 1) :
            Nested(has, name, Levels)[d][Peel(base, v[3])]
              \subseteq Nested(has, name, Levels)[d + (v[1] - 1)][Bare(base, c)]

\* The components consumed lead there, in the header and in the code.
Stands(root, v, c) ==
    /\ v[1] = comp
    /\ <<comp, v[2], c>> \in Accessed(Object, Relo, members, root)[comp - 1]
    /\ v \in Compared(Object, Relo, root)[comp - 1]
    /\ comp < Len(Relo.access) => Within(v, c)

\* The search of record r has found the member and returns to the calls that wait.
Returning(r) ==
    IF Selected.name = Unnamed
      THEN /\ frames = << >> /\ Component \in members[r]
           /\ bid = base[r].members[Component].type
      ELSE IF frames = << >>
        THEN bid \in Nested(members, Selected.name, Levels)[MaxNesting + 1][r]
        ELSE /\ frames[1].record = r /\ Len(frames) <= MaxNesting
             /\ bid \in Nested(members, Selected.name, Levels)
                          [MaxNesting + 1 - Len(frames)][Wrapped(Top.record, Top.at)]

\* Where the code is with value v.
Handles(v) ==
    /\ pc = "access" => oid = v[2] /\ bid = v[3]
    /\ pc # "access" => /\ oid = Peel(Types, v[2]) /\ IsRecord(Types, Peel(Types, v[2]))
                        /\ IsRecord(base, Peel(base, v[3]))
    /\ pc = "member" => /\ bid = Peel(base, v[3])
                        /\ Selected.name = Unnamed => Len(frames) = 1
    /\ pc = "unwind" => Returning(Peel(base, v[3]))

AtAccess ==
    pc \in InAccess =>
      /\ IsAccess(Relo)
      /\ comp = 0 => pc = "access" /\ oid = Relo.type_id /\ bid \in Answer(Object, Relo.type_id)
      /\ comp # 0 => \E root \in Answer(Object, Relo.type_id) : \E v \in Values, c \in Nat :
                        Stands(root, v, c) /\ Handles(v)

\* The relocations that the loop has come past compile with what is recorded so far.
Past(n, k) == n < object \/ pc = "ok" \/ (n = object /\ phase = "relos" /\ k < item)
Compiles(n, k) == \E root \in Answer(objects[n], objects[n].relos[k].type_id) :
                     AccessCompiles(objects[n], objects[n].relos[k], members, root)

AccessesSoFar ==
    pc # "error" =>
      \A n \in DOMAIN objects : \A k \in DOMAIN objects[n].relos :
        Past(n, k) /\ IsAccess(objects[n].relos[k]) => Compiles(n, k)

LEMMA SameMeaning ==
  ASSUME UNCHANGED inputs
  PROVE  /\ base' = base /\ objects' = objects /\ Ids(base)' = Ids(base) /\ Shapes' = Shapes
         /\ \A has, name, l : Nested(has, name, l)' = Nested(has, name, l)
         /\ \A o, relo, has, root : Accessed(o, relo, has, root)' = Accessed(o, relo, has, root)
         /\ \A o, relo, root : Compared(o, relo, root)' = Compared(o, relo, root)
         /\ \A o, s : Answer(o, s)' = Answer(o, s)
         /\ Direct' = Direct
<1>1. base' = base /\ objects' = objects /\ Ids(base)' = Ids(base)
  BY DEF inputs, Ids
<1>2. Shapes' = Shapes
  BY <1>1 DEF Shapes
<1>3. \A has, name, l : Nested(has, name, l)' = Nested(has, name, l)
  BY <1>1 DEF Nested, Iterate, Wrapped, Wrappers, Named, IsRecord, Peel, Behind, Ids
<1>6. \A o, relo, has, root : Accessed(o, relo, has, root)' = Accessed(o, relo, has, root)
  BY <1>1 DEF Accessed, Apply, Denotes, Bare, Nested, Iterate, Wrapped, Wrappers, Named, IsRecord, Peel,
              Behind, Ids
<1>9. \A o, relo, root : Compared(o, relo, root)' = Compared(o, relo, root)
  BY <1>1 DEF Compared, Pair, Denotes, Everything, Nested, Iterate, Wrapped, Wrappers, Named, IsRecord,
              Peel, Behind, Ids
<1>10. \A o, s : Answer(o, s)' = Answer(o, s)
  BY SameBase
<1>11. \A o, relo, v : Straight(o, relo, v)' <=> Straight(o, relo, v)
  BY <1>1 DEF Straight, Peel, Bare, Behind, IsRecord, Ids
<1>12. Direct' = Direct
  BY <1>1 DEF Direct, IsAccess, Answer, KnownAs, Matches, Queryable, ChainFrom, Compared, Pair, Denotes,
              Everything, Nested, Iterate, Wrapped, Wrappers, Named, IsRecord, Peel, Bare, Behind, Straight,
              Ids
<1> QED BY <1>1, <1>2, <1>3, <1>6, <1>9, <1>10, <1>12

\* Nothing recorded is taken back.
LEMMA OnlyAdds ==
  ASSUME TypeOK, TypeOK', [Next]_vars
  PROVE  /\ UNCHANGED inputs /\ members \in Shapes /\ members' \in Shapes
         /\ \A i \in Ids(base) : members[i] \subseteq members'[i]
<1>1. UNCHANGED inputs
  BY DEF Next, SkipType, TakeType, TypesDone, TakeRelo, RelosDone, Resolve, InvalidType, AmbiguousType,
         FollowChain, ChainTooDeep, ProgramLocal, Unresolved, SeedFound, RootFound, Access, BadAccess,
         RootAccess, NotRecords, InvalidMember, TakeMember, AccessDone, TooNested, FindMember, Descend,
         NotHere, MarkWrapper, MemberDone, vars
<1>2. members \in [Ids(base) -> SUBSET Nat]
  BY DEF TypeOK
<1>3. members \in Shapes /\ members' \in Shapes
  BY <1>1, SameMeaning DEF TypeOK, Shapes
<1>4. UNCHANGED members \/ \E r, m : AddMember(r, m)
  <2>1. CASE FindMember \/ MarkWrapper
    BY <2>1 DEF FindMember, MarkWrapper, Mark, result
  <2>2. CASE SeedFound \/ RootFound
    BY <2>2 DEF SeedFound, RootFound, AddRoot, result
  <2>3. CASE SkipType \/ TakeType \/ TypesDone \/ TakeRelo \/ RelosDone \/ UNCHANGED vars
    BY <2>3 DEF SkipType, TakeType, TypesDone, TakeRelo, RelosDone, vars, result
  <2>4. CASE InvalidType \/ AmbiguousType \/ FollowChain \/ ChainTooDeep \/ ProgramLocal \/ Unresolved
    BY <2>4 DEF InvalidType, AmbiguousType, FollowChain, ChainTooDeep, ProgramLocal, Unresolved, result
  <2>5. CASE BadAccess \/ RootAccess \/ NotRecords \/ InvalidMember \/ TakeMember \/ AccessDone
             \/ TooNested \/ Descend \/ NotHere \/ MemberDone
    BY <2>5 DEF BadAccess, RootAccess, NotRecords, InvalidMember, TakeMember, AccessDone, TooNested,
                Descend, NotHere, MemberDone, result
  <2> QED BY <2>1, <2>2, <2>3, <2>4, <2>5 DEF Next, Resolve, Access
<1>5. \A i \in Ids(base) : members[i] \subseteq members'[i]
  <2>1. CASE UNCHANGED members
    BY <2>1
  <2>2. ASSUME NEW r, NEW m, AddMember(r, m), NEW i \in Ids(base) PROVE members[i] \subseteq members'[i]
    <3>1. members' = [members EXCEPT ![r] = @ \cup {m}]
      BY <2>2 DEF AddMember
    <3>2. members'[i] = members[i] \/ members'[i] = members[i] \cup {m}
      BY <1>2, <3>1
    <3> QED BY <3>2
  <2> QED BY <1>4, <2>1, <2>2
<1> QED BY <1>1, <1>3, <1>5

LEMMA AnswersAreIds == \A o, s : \A r \in Answer(o, s) : r \in Ids(base) /\ r \in Nat
<1>1. \A o, i : KnownAs(o, i) \subseteq Ids(base)
  BY DEF KnownAs, Matches
<1>2. \A o, s : \A r \in Answer(o, s) : r \in Ids(base)
  BY <1>1 DEF Answer
<1>3. \A r \in Ids(base) : r \in Nat
  BY DEF Ids
<1> QED BY <1>2, <1>3

\* Where an access is.
LEMMA AccessHere ==
  ASSUME Inv, pc \in InAccess
  PROVE  /\ TypeOK /\ AtItem /\ phase = "relos" /\ object \in DOMAIN objects
         /\ item \in DOMAIN objects[object].relos /\ Object = objects[object]
         /\ Relo = objects[object].relos[item]
         /\ Len(Relo.access) \in Nat \ {0} /\ comp \in 0 .. Len(Relo.access)
         /\ Levels \in Nat /\ MaxNesting + 1 \in 0 .. Levels
         /\ Relo.type_id \in Nat
         /\ \A root \in Answer(Object, Relo.type_id) : root \in Ids(base) /\ root \in Nat
<1>1. TypeOK /\ AtItem
  BY DEF Inv
<1>2. /\ phase = "relos" /\ object \in DOMAIN objects /\ item \in DOMAIN objects[object].relos
      /\ Object = objects[object] /\ Relo = objects[object].relos[item]
      /\ Relo.access # << >> /\ comp \in 0 .. Len(Relo.access)
  BY <1>1 DEF AtItem, InAccess, Object, Relo, TypeOK
<1>3. Len(Relo.access) \in Nat \ {0} /\ Relo.type_id \in Nat
  BY <1>1, <1>2, AtWork
<1>4. Levels \in Nat /\ MaxNesting + 1 \in 0 .. Levels
  BY <1>3, LimitAssumption DEF Levels
<1>5. \A root \in Answer(Object, Relo.type_id) : root \in Ids(base) /\ root \in Nat
  BY AnswersAreIds
<1> QED BY <1>1, <1>2, <1>3, <1>4, <1>5

LEMMA SamePeel ==
  ASSUME UNCHANGED <<inputs, object>>
  PROVE  /\ \A i : Peel(base, i)' = Peel(base, i) /\ Bare(base, i)' = Bare(base, i)
         /\ \A i : Peel(Types, i)' = Peel(Types, i) /\ Bare(Types, i)' = Bare(Types, i)
         /\ \A i : (IsRecord(base, i)' <=> IsRecord(base, i)) /\ (IsRecord(Types, i)' <=> IsRecord(Types, i))
         /\ base' = base /\ Types' = Types
<1>1. base' = base /\ Types' = Types
  BY DEF inputs, Object, Types
<1> QED BY <1>1 DEF Peel, Bare, Behind, IsRecord, Ids

LEMMA WithinStill ==
  ASSUME UNCHANGED <<inputs, object, item>>, \A i \in Ids(base) : members[i] \subseteq members'[i],
         NEW v, NEW c, Within(v, c)
  PROVE  Within(v, c)'
<1>1. /\ base' = base /\ Ids(base)' = Ids(base) /\ Levels' = Levels
  BY SamePlace DEF Levels
<1>2. Havings' \subseteq Havings
  <2>1. Shapes' = Shapes
    BY SameMeaning
  <2> QED BY <1>1, <2>1 DEF Havings
<1>3. \A has, name, l : Nested(has, name, l)' = Nested(has, name, l)
  BY SameMeaning
<1> QED BY <1>1, <1>2, <1>3, SamePeel DEF Within

\* As long as the component is the same, the access stands where it stood.
LEMMA StandsStill ==
  ASSUME Inv, TypeOK', pc \in InAccess, IsAccess(Relo), comp # 0, [Next]_vars,
         UNCHANGED <<object, item, comp>>,
         NEW root \in Answer(Object, Relo.type_id), NEW v \in Values, NEW c \in Nat, Stands(root, v, c)
  PROVE  /\ root \in Answer(Object, Relo.type_id)' /\ Stands(root, v, c)'
         /\ Relo' = Relo /\ Object' = Object /\ Types' = Types /\ IsAccess(Relo)' /\ Levels' = Levels
<1>1. /\ UNCHANGED inputs /\ members \in Shapes /\ members' \in Shapes
      /\ \A i \in Ids(base) : members[i] \subseteq members'[i]
  BY OnlyAdds, AccessHere
<1>2. /\ base' = base /\ objects' = objects /\ Object' = Object /\ Types' = Types /\ Relo' = Relo
      /\ Ids(base)' = Ids(base) /\ comp' = comp
  BY <1>1, SamePlace
<1>3. Levels' = Levels /\ IsAccess(Relo)'
  BY <1>2 DEF Levels, IsAccess
<1>4. root \in Answer(Object, Relo.type_id)'
  <2>1. \A o, s : Answer(o, s)' = Answer(o, s)
    BY <1>1, SameMeaning
  <2> QED BY <1>2, <2>1
<1>5. <<comp, v[2], c>> \in Accessed(Object, Relo, members', root)[comp - 1]
  <2>1. comp - 1 \in 0 .. Len(Relo.access) - 1
    BY AccessHere
  <2>2. Accessed(Object, Relo, members, root)[comp - 1]
          \subseteq Accessed(Object, Relo, members', root)[comp - 1]
    BY <1>1, <2>1, AccessHere, AccessedGrows
  <2> QED BY <2>2 DEF Stands
<1>6. <<comp', v[2], c>> \in Accessed(Object, Relo, members, root)'[comp' - 1]
  <2>1. \A o, relo, has, r : Accessed(o, relo, has, r)' = Accessed(o, relo, has, r)
    BY <1>1, SameMeaning
  <2>2. Accessed(Object, Relo, members, root)' = Accessed(Object, Relo, members', root)
    BY <1>2, <2>1
  <2> QED BY <1>2, <1>5, <2>2
<1>7. v \in Compared(Object, Relo, root)'[comp' - 1]
  <2>1. \A o, relo, r : Compared(o, relo, r)' = Compared(o, relo, r)
    BY <1>1, SameMeaning
  <2> QED BY <1>2, <2>1 DEF Stands
<1>8. Within(v, c) => Within(v, c)'
  BY <1>1, WithinStill
<1> QED BY <1>2, <1>3, <1>4, <1>6, <1>7, <1>8 DEF Stands

\* A step within a component.
LEMMA SameComponent ==
  ASSUME Inv, TypeOK', AtAccess, [Next]_vars, pc \in InAccess, comp # 0,
         UNCHANGED <<object, item, comp>>,
         \A v \in Values : Handles(v) => Handles(v)'
  PROVE  AtAccess'
<1>1. PICK root \in Answer(Object, Relo.type_id) : \E v \in Values, c \in Nat :
             Stands(root, v, c) /\ Handles(v)
  BY DEF AtAccess
<1>2. PICK v \in Values, c \in Nat : Stands(root, v, c) /\ Handles(v)
  BY <1>1
<1>3. IsAccess(Relo)
  BY DEF AtAccess
<1>4. /\ root \in Answer(Object, Relo.type_id)' /\ Stands(root, v, c)' /\ IsAccess(Relo)'
  BY <1>2, <1>3, StandsStill
<1>5. Handles(v)' /\ comp' = comp
  BY <1>2
<1> QED BY <1>4, <1>5 DEF AtAccess

LEMMA TakeMemberHandles ==
  ASSUME Inv, TakeMember, NEW v \in Values, Handles(v)
  PROVE  Handles(v)'
<1>1. /\ pc = "access" /\ pc' = "member" /\ Records
      /\ oid' = Peel(Types, oid) /\ bid' = Peel(base, bid)
      /\ frames' = << [record |-> Peel(base, bid), at |-> 0] >>
      /\ UNCHANGED <<inputs, object>>
  BY DEF TakeMember, Reading, Goto, loop
<1>2. oid = v[2] /\ bid = v[3]
  BY <1>1 DEF Handles
<1>3. /\ oid' = Peel(Types, v[2]) /\ IsRecord(Types, Peel(Types, v[2]))
      /\ IsRecord(base, Peel(base, v[3])) /\ bid' = Peel(base, v[3])
  BY <1>1, <1>2 DEF Records
<1>4. /\ oid' = Peel(Types, v[2])' /\ IsRecord(Types, Peel(Types, v[2]))'
      /\ IsRecord(base, Peel(base, v[3]))' /\ bid' = Peel(base, v[3])'
  BY <1>1, <1>3, SamePeel
<1>5. Len(frames') = 1
  BY <1>1
<1> QED BY <1>1, <1>4, <1>5 DEF Handles

LEMMA DescendHandles ==
  ASSUME Inv, Descend \/ NotHere, pc' # "error", NEW v \in Values, Handles(v)
  PROVE  Handles(v)'
<1>1. /\ pc = "member" /\ UNCHANGED <<inputs, loop, chain, comp, oid, bid, result>>
      /\ UNCHANGED <<object, item>> /\ pc' = "member"
  BY DEF Descend, NotHere, Searching, Fail, loop
<1>2. Selected.name # Unnamed
  <2>1. CASE Descend
    BY <2>1 DEF Descend, Left
  <2>2. CASE NotHere
    <3>1. PICK len \in Nat : len = Len(frames)
      BY <1>1, CallersType DEF Inv, OnTheWay
    <3>2. len > 1
      BY <1>1, <2>2, <3>1 DEF NotHere, Fail
    <3>3. len # 1
      BY <3>2
    <3> QED BY <1>1, <3>1, <3>3 DEF Handles
  <2> QED BY <2>1, <2>2
<1>3. Selected'.name # Unnamed
  BY <1>1, <1>2, SameMember
<1>4. /\ oid = Peel(Types, v[2]) /\ IsRecord(Types, Peel(Types, v[2]))
      /\ IsRecord(base, Peel(base, v[3])) /\ bid = Peel(base, v[3])
  BY <1>1 DEF Handles
<1>5. /\ oid' = Peel(Types, v[2])' /\ IsRecord(Types, Peel(Types, v[2]))'
      /\ IsRecord(base, Peel(base, v[3]))' /\ bid' = Peel(base, v[3])'
  BY <1>1, <1>4, SamePeel
<1> QED BY <1>1, <1>3, <1>5 DEF Handles

\* The frames that are left when the innermost call returns.
LEMMA CallersLeft ==
  ASSUME TypeOK, frames # << >>, NEW len, len = Len(frames)
  PROVE  /\ len \in Nat \ {0} /\ frames[len] = Top
         /\ len = 1 => Callers = << >>
         /\ len # 1 => /\ len - 1 \in Nat \ {0} /\ Callers # << >> /\ Len(Callers) = len - 1
                       /\ Callers[1] = frames[1] /\ Callers[Len(Callers)] = frames[len - 1]
<1>1. /\ len \in Nat \ {0} /\ Callers \in Seq([record : Ids(base), at : Nat])
      /\ Len(Callers) = len - 1 /\ \A n \in 1 .. len - 1 : Callers[n] = frames[n]
  BY CallersType
<1>2. frames[len] = Top
  BY DEF Top
<1>3. len = 1 => Callers = << >>
  <2>1. ASSUME len = 1 PROVE Len(Callers) = 0
    BY <1>1, <2>1
  <2> QED BY <1>1, <2>1, EmptySeq
<1>4. ASSUME len # 1
      PROVE  /\ len - 1 \in Nat \ {0} /\ Callers # << >> /\ Len(Callers) = len - 1
             /\ Callers[1] = frames[1] /\ Callers[Len(Callers)] = frames[len - 1]
  <2>1. len - 1 \in Nat \ {0} /\ 1 \in 1 .. len - 1 /\ len - 1 \in 1 .. len - 1
    BY <1>1, <1>4
  <2>2. Callers # << >>
    BY <1>1, <2>1
  <2> QED BY <1>1, <2>1, <2>2
<1> QED BY <1>1, <1>2, <1>3, <1>4

LEMMA FindMemberHandles ==
  ASSUME Inv, TypeOK', FindMember, pc' # "error", NEW v \in Values, Handles(v), Levels \in Nat,
         MaxNesting + 1 \in 0 .. Levels
  PROVE  Handles(v)'
<1> DEFINE y == Peel(base, v[3])
<1>1. /\ pc = "member" /\ UNCHANGED <<inputs, loop, chain, comp, oid>> /\ UNCHANGED <<object, item>>
      /\ Found(Top.record) # {} /\ pc' = "unwind" /\ frames' = Callers
      /\ AddMember(Top.record, First(Found(Top.record)))
      /\ bid' = base[Top.record].members[First(Found(Top.record))].type
      /\ Len(frames) <= MaxNesting + 1
  BY DEF FindMember, Searching, Mark, NoMemory, Fail, Goto, loop
<1>2. /\ TypeOK /\ frames # << >> /\ frames[1].record = bid
  BY <1>1 DEF Inv, OnTheWay
<1>3. /\ oid = Peel(Types, v[2]) /\ IsRecord(Types, Peel(Types, v[2]))
      /\ IsRecord(base, y) /\ bid = y /\ y \in Ids(base)
  BY <1>1 DEF Handles, IsRecord
<1>4. /\ oid' = Peel(Types, v[2])' /\ IsRecord(Types, Peel(Types, v[2]))'
      /\ IsRecord(base, Peel(base, v[3]))' /\ y = Peel(base, v[3])'
  BY <1>1, <1>3, SamePeel
<1>5. /\ Selected' = Selected /\ Component' = Component /\ base' = base /\ Levels' = Levels
  BY <1>1, SameMember DEF Levels
<1>6. PICK r \in Ids(base) : r = Top.record
  BY <1>2, CallersType
<1>7. PICK m \in DOMAIN base[r].members : m = First(Found(r)) /\ m \in Found(r)
  BY <1>1, <1>2, <1>6, Picks, FirstIsLeast
<1>8. PICK len : len = Len(frames)
  OBVIOUS
<1>9. /\ len \in Nat \ {0} /\ frames[len] = Top
      /\ len = 1 => Callers = << >>
      /\ len # 1 => /\ len - 1 \in Nat \ {0} /\ Callers # << >> /\ Len(Callers) = len - 1
                    /\ Callers[1] = frames[1] /\ Callers[Len(Callers)] = frames[len - 1]
  BY <1>2, <1>8, CallersLeft
<1>10. /\ members' \in Shapes /\ m \in members'[r] /\ bid' = base[r].members[m].type
  <2>1. [Next]_vars
    BY DEF Next, Access
  <2>2. members' \in Shapes
    BY <1>2, <2>1, OnlyAdds
  <2>3. m \in members'[r]
    BY <1>1, <1>6, <1>7, <1>2 DEF AddMember, TypeOK
  <2> QED BY <1>1, <1>6, <1>7, <2>2, <2>3
<1>11. \A name, l : Nested(members, name, l)' = Nested(members', name, l)
  BY <1>1, SameMeaning
<1>12. CASE Selected.name = Unnamed
  <2>1. len = 1 /\ r = y
    BY <1>1, <1>2, <1>3, <1>6, <1>8, <1>9, <1>12 DEF Handles
  <2>2. m = Component
    BY <1>7, <1>12 DEF Found
  <2>3. Returning(y)'
    BY <1>1, <1>5, <1>9, <1>10, <1>12, <2>1, <2>2 DEF Returning
  <2> QED BY <1>1, <1>4, <2>3 DEF Handles
<1>13. CASE Selected.name # Unnamed
  <2> DEFINE name == Selected.name   N == Nested(members', name, Levels)
  <2>1. bid' \in Own(members', name, r)
    BY <1>7, <1>10, <1>13 DEF Found, Own
  <2>2. \A d \in 0 .. Levels : bid' \in N[d][r]
    BY <1>2, <1>10, <2>1, NestedHolds
  <2>3. N = Nested(members, Selected.name, Levels)'
    BY <1>5, <1>11
  <2>4. CASE len = 1
    <3>1. r = y
      BY <1>2, <1>3, <1>6, <1>9, <2>4
    <3>2. bid' \in N[MaxNesting + 1][y]
      BY <2>2, <3>1
    <3>3. Returning(y)'
      BY <1>1, <1>5, <1>9, <1>13, <2>3, <2>4, <3>2 DEF Returning
    <3> QED BY <1>1, <1>4, <3>3 DEF Handles
  <2>5. CASE len # 1
    <3>1. r = Wrapped(frames[len - 1].record, frames[len - 1].at)
      <4>1. frames \in Seq([record : Ids(base), at : Nat])
        BY <1>2 DEF TypeOK
      <4>2. len - 1 \in DOMAIN frames /\ len - 1 < Len(frames) /\ len - 1 + 1 = len
        BY <1>8, <1>9, <2>5, <4>1
      <4>3. frames[len - 1 + 1].record = Wrapped(frames[len - 1].record, frames[len - 1].at)
        BY <4>2 DEF Inv, OnTheWay
      <4> QED BY <1>6, <1>9, <4>2, <4>3
    <3>2. Top' = frames[len - 1]
      BY <1>1, <1>9, <2>5 DEF Top
    <3>3. Wrapped(Top.record, Top.at)' = r
      <4>1. \A s, k : Wrapped(s, k)' = Wrapped(s, k)
        BY <1>1, SameBase
      <4>2. Wrapped(Top.record, Top.at)' = Wrapped(Top'.record, Top'.at)
        BY <4>1
      <4> QED BY <3>1, <3>2, <4>2
    <3>4. /\ frames' # << >> /\ frames'[1].record = y /\ Len(frames') = len - 1
          /\ Len(frames') <= MaxNesting /\ MaxNesting + 1 - Len(frames') \in 0 .. Levels
      BY <1>1, <1>2, <1>3, <1>8, <1>9, <2>5, LimitAssumption
    <3>5. bid' \in N[MaxNesting + 1 - Len(frames')][r]
      BY <2>2, <3>4
    <3>6. Returning(y)'
      BY <1>5, <1>13, <2>3, <3>3, <3>4, <3>5 DEF Returning
    <3> QED BY <1>1, <1>4, <3>6 DEF Handles
  <2> QED BY <2>4, <2>5
<1> QED BY <1>12, <1>13

LEMMA MarkWrapperHandles ==
  ASSUME Inv, TypeOK', MarkWrapper, pc' # "error", NEW v \in Values, Handles(v), Levels \in Nat,
         MaxNesting + 1 \in 0 .. Levels
  PROVE  Handles(v)'
<1> DEFINE y == Peel(base, v[3])   name == Selected.name   M == Nested(members, name, Levels)
           N == Nested(members', name, Levels)
<1>1. /\ pc = "unwind" /\ UNCHANGED <<inputs, loop, chain, comp, oid>> /\ UNCHANGED <<object, item>>
      /\ frames # << >> /\ pc' = "unwind" /\ frames' = Callers
      /\ AddMember(Top.record, Top.at) /\ bid' = bid
  BY DEF MarkWrapper, Mark, NoMemory, Fail, Goto, loop
<1>2. TypeOK
  BY DEF Inv
<1>3. /\ oid = Peel(Types, v[2]) /\ IsRecord(Types, Peel(Types, v[2]))
      /\ IsRecord(base, y) /\ y \in Ids(base)
  BY <1>1 DEF Handles, IsRecord
<1>4. /\ oid' = Peel(Types, v[2])' /\ IsRecord(Types, Peel(Types, v[2]))'
      /\ IsRecord(base, Peel(base, v[3]))' /\ y = Peel(base, v[3])'
  BY <1>1, <1>3, SamePeel
<1>5. /\ Selected' = Selected /\ Component' = Component /\ base' = base /\ Levels' = Levels
  BY <1>1, SameMember DEF Levels
<1>6. PICK len : len = Len(frames)
  OBVIOUS
<1>7. /\ len \in Nat \ {0} /\ frames[len] = Top
      /\ len = 1 => Callers = << >>
      /\ len # 1 => /\ len - 1 \in Nat \ {0} /\ Callers # << >> /\ Len(Callers) = len - 1
                    /\ Callers[1] = frames[1] /\ Callers[Len(Callers)] = frames[len - 1]
  BY <1>1, <1>2, <1>6, CallersLeft
<1>8. PICK r \in Ids(base) : r = Top.record
  BY <1>1, <1>2, CallersType
<1>9. Top.at \in Wrappers(r) /\ Wrapped(r, Top.at) \in Ids(base)
  <2>1. Len(frames) \in DOMAIN frames /\ Waiting(Len(frames))
    BY <1>1, <1>2, CallersType DEF Waiting
  <2>2. Top.at \in Wrappers(r)
    BY <1>8, <2>1 DEF Inv, OnTheWay, Top
  <2> QED BY <1>2, <2>2, Picks
<1>10. /\ members \in Shapes /\ members' \in Shapes /\ Top.at \in members'[r]
       /\ \A i \in Ids(base) : members[i] \subseteq members'[i]
  <2>1. [Next]_vars
    BY DEF Next, Access
  <2>2. Top.at \in members'[r]
    BY <1>1, <1>2, <1>8 DEF AddMember, TypeOK
  <2> QED BY <1>2, <2>1, <2>2, OnlyAdds
<1>11. \A nm, l : Nested(members, nm, l)' = Nested(members', nm, l)
  BY <1>1, SameMeaning
<1>12. name # Unnamed
  BY <1>1 DEF Handles, Returning
<1>13. /\ frames[1].record = y /\ len <= MaxNesting
       /\ bid \in M[MaxNesting + 1 - len][Wrapped(r, Top.at)]
  BY <1>1, <1>6, <1>8, <1>12 DEF Handles, Returning
<1>14. bid \in N[MaxNesting + 1 - len + 1][r]
  <2> DEFINE d == MaxNesting + 1 - len
  <2>1. d \in 0 .. Levels - 1 /\ d \in 0 .. Levels
    BY <1>7, <1>13, LimitAssumption
  <2> HIDE DEF d
  <2>2. M[d][Wrapped(r, Top.at)] \subseteq N[d][Wrapped(r, Top.at)]
    BY <1>2, <1>9, <1>10, <2>1, NestedGrows
  <2>3. N[d][Wrapped(r, Top.at)] \subseteq N[d + 1][r]
    BY <1>2, <1>9, <1>10, <2>1, NestedHolds
  <2>4. bid \in M[d][Wrapped(r, Top.at)]
    BY <1>13 DEF d
  <2>5. bid \in N[d + 1][r]
    BY <2>2, <2>3, <2>4
  <2> QED BY <2>5 DEF d
<1>15. N = Nested(members, Selected.name, Levels)'
  BY <1>5, <1>11
<1>16. CASE len = 1
  <2>1. r = y /\ MaxNesting + 1 - len + 1 = MaxNesting + 1
    BY <1>7, <1>8, <1>13, <1>16, LimitAssumption
  <2>2. bid' \in N[MaxNesting + 1][y]
    BY <1>1, <1>14, <2>1
  <2>3. Returning(y)'
    BY <1>1, <1>5, <1>7, <1>12, <1>15, <1>16, <2>2 DEF Returning
  <2> QED BY <1>1, <1>4, <2>3 DEF Handles
<1>17. CASE len # 1
  <2>1. r = Wrapped(frames[len - 1].record, frames[len - 1].at)
    <3>1. frames \in Seq([record : Ids(base), at : Nat])
      BY <1>2 DEF TypeOK
    <3>2. len - 1 \in DOMAIN frames /\ len - 1 < Len(frames) /\ len - 1 + 1 = len
      BY <1>6, <1>7, <1>17, <3>1
    <3>3. frames[len - 1 + 1].record = Wrapped(frames[len - 1].record, frames[len - 1].at)
      BY <3>2 DEF Inv, OnTheWay
    <3> QED BY <1>7, <1>8, <3>2, <3>3
  <2>2. Top' = frames[len - 1]
    BY <1>1, <1>7, <1>17 DEF Top
  <2>3. Wrapped(Top.record, Top.at)' = r
    <3>1. \A s, k : Wrapped(s, k)' = Wrapped(s, k)
      BY <1>1, SameBase
    <3>2. Wrapped(Top.record, Top.at)' = Wrapped(Top'.record, Top'.at)
      BY <3>1
    <3> QED BY <2>1, <2>2, <3>2
  <2>4. /\ frames' # << >> /\ frames'[1].record = y /\ Len(frames') <= MaxNesting
        /\ MaxNesting + 1 - Len(frames') = MaxNesting + 1 - len + 1
    BY <1>1, <1>7, <1>13, <1>17, LimitAssumption
  <2>5. bid' \in N[MaxNesting + 1 - Len(frames')][r]
    BY <1>1, <1>14, <2>4
  <2>6. Returning(y)'
    BY <1>5, <1>12, <1>15, <2>3, <2>4, <2>5 DEF Returning
  <2> QED BY <1>1, <1>4, <2>6 DEF Handles
<1> QED BY <1>16, <1>17

\* What applying a component gives is among the values after it.
LEMMA AccessStep ==
  ASSUME TypeOK, NEW n \in DOMAIN objects, NEW k \in DOMAIN objects[n].relos,
         IsAccess(objects[n].relos[k]), NEW root \in Nat,
         NEW d \in 1 .. Len(objects[n].relos[k].access) - 1
  PROVE  /\ \A has \in Shapes : \A v \in Accessed(objects[n], objects[n].relos[k], has, root)[d - 1] :
              Apply(objects[n], objects[n].relos[k], has, v)
                \subseteq Accessed(objects[n], objects[n].relos[k], has, root)[d]
         /\ \A v \in Compared(objects[n], objects[n].relos[k], root)[d - 1] :
              Pair(objects[n], objects[n].relos[k], v)
                \subseteq Compared(objects[n], objects[n].relos[k], root)[d]
<1> DEFINE o == objects[n]   relo == o.relos[k]   max == Len(relo.access) - 1
<1>1. ASSUME NEW has \in Shapes, NEW v \in Accessed(o, relo, has, root)[d - 1]
      PROVE  Apply(o, relo, has, v) \subseteq Accessed(o, relo, has, root)[d]
  <2> DEFINE A == Accessed(o, relo, has, root)
  <2>1. Applies(A, o, relo, has, root)
    BY AccessedIs
  <2> HIDE DEF A, o, relo
  <2>2. A[d] = UNION {Apply(o, relo, has, u) : u \in A[d - 1]}
    BY <2>1 DEF Applies, o, relo
  <2>3. v \in A[d - 1]
    BY <1>1 DEF A
  <2>4. Apply(o, relo, has, v) \subseteq A[d]
    BY <2>2, <2>3
  <2> QED BY <2>4 DEF A
<1>2. ASSUME NEW v \in Compared(o, relo, root)[d - 1]
      PROVE  Pair(o, relo, v) \subseteq Compared(o, relo, root)[d]
  <2> DEFINE A == Compared(o, relo, root)
  <2>1. Pairs(A, o, relo, root)
    BY ComparedIs
  <2> HIDE DEF A, o, relo
  <2>2. A[d] = UNION {Pair(o, relo, u) : u \in A[d - 1]}
    BY <2>1 DEF Pairs, o, relo
  <2>3. v \in A[d - 1]
    BY <1>2 DEF A
  <2>4. Pair(o, relo, v) \subseteq A[d]
    BY <2>2, <2>3
  <2> QED BY <2>4 DEF A
<1> QED BY <1>1, <1>2

\* A record that the header reaches directly holds what it holds.
LEMMA Fresh ==
  ASSUME Inv, pc \in InAccess, NEW v \in Values, v[1] \in 1 .. Len(Relo.access),
         Straight(Object, Relo, v)
  PROVE  Within(v, v[3])
<1>1. TypeOK /\ Levels \in Nat /\ Len(Relo.access) \in Nat /\ Levels = MaxNesting + Len(Relo.access)
  BY AccessHere DEF Levels
<1>2. SUFFICES ASSUME IsRecord(Types, Peel(Types, v[2])), IsRecord(base, Peel(base, v[3]))
               PROVE  /\ Bare(Types, v[2]) = Peel(Types, v[2])
                      /\ IsRecord(base, Bare(base, v[3]))
                      /\ \A has \in Havings : \A name : \A d \in 0 .. Levels - (v[1] - 1) :
                            Nested(has, name, Levels)[d][Peel(base, v[3])]
                              \subseteq Nested(has, name, Levels)[d + (v[1] - 1)][Bare(base, v[3])]
  BY DEF Within
<1>3. Bare(Types, v[2]) = Peel(Types, v[2]) /\ Bare(base, v[3]) = Peel(base, v[3])
  BY <1>2 DEF Straight, Types
<1>4. ASSUME NEW has \in Havings, NEW name, NEW d \in 0 .. Levels - (v[1] - 1)
      PROVE  Nested(has, name, Levels)[d][Peel(base, v[3])]
               \subseteq Nested(has, name, Levels)[d + (v[1] - 1)][Peel(base, v[3])]
  <2>1. has \in Shapes /\ Peel(base, v[3]) \in Ids(base)
    BY <1>2 DEF Havings, IsRecord
  <2>2. d \in 0 .. Levels /\ d + (v[1] - 1) \in d .. Levels
    BY <1>1
  <2> QED BY <1>1, <2>1, <2>2, NestedDeepens
<1> QED BY <1>2, <1>3, <1>4

LEMMA DirectHere ==
  ASSUME Inv, Direct, pc \in InAccess, IsAccess(Relo), NEW root \in Answer(Object, Relo.type_id),
         NEW d \in 0 .. Len(Relo.access) - 2, NEW v \in Compared(Object, Relo, root)[d]
  PROVE  Straight(Object, Relo, v)
<1>1. /\ object \in DOMAIN objects /\ item \in DOMAIN objects[object].relos /\ Object = objects[object]
      /\ Relo = objects[object].relos[item]
  BY AccessHere
<1> QED BY <1>1 DEF Direct

LEMMA RootAccessHere == Inv /\ TypeOK' /\ Direct /\ AtAccess /\ RootAccess => AtAccess'
<1> SUFFICES ASSUME Inv, TypeOK', Direct, AtAccess, RootAccess PROVE AtAccess'
  OBVIOUS
<1>1. /\ pc = "access" /\ comp = 0 /\ comp' = 1 /\ pc \in InAccess
      /\ UNCHANGED <<inputs, loop, pc, chain, oid, bid, frames, result, err>>
      /\ UNCHANGED <<object, item, members>>
  BY DEF RootAccess, loop, result, InAccess
<1>2. IsAccess(Relo) /\ oid = Relo.type_id /\ bid \in Answer(Object, Relo.type_id)
  BY <1>1 DEF AtAccess
<1>3. /\ TypeOK /\ object \in DOMAIN objects /\ item \in DOMAIN objects[object].relos
      /\ Object = objects[object] /\ Relo = objects[object].relos[item]
      /\ Len(Relo.access) \in Nat \ {0} /\ Relo.type_id \in Nat /\ bid \in Nat
  BY <1>1, <1>2, AccessHere
<1>4. members \in Shapes
  BY <1>3 DEF TypeOK, Shapes
<1>5. PICK root \in Nat : root = bid
  BY <1>3
<1>6. PICK v \in Values : v = <<1, oid, root>>
  BY <1>2, <1>3, <1>5 DEF Values
<1>7. v[1] = 1 /\ v[2] = oid /\ v[3] = root /\ v = <<1, v[2], root>>
  BY <1>6
<1>8. v \in Accessed(Object, Relo, members, root)[0] /\ v \in Compared(Object, Relo, root)[0]
  <2>1. /\ Applies(Accessed(Object, Relo, members, root), Object, Relo, members, root)
        /\ Pairs(Compared(Object, Relo, root), Object, Relo, root)
    BY <1>2, <1>3, <1>4, AccessedIs, ComparedIs
  <2>2. /\ Accessed(Object, Relo, members, root)[0] = {<<1, Relo.type_id, root>>}
        /\ Compared(Object, Relo, root)[0] = {<<1, Relo.type_id, root>>}
    BY <2>1 DEF Applies, Pairs
  <2> QED BY <1>2, <1>6, <2>2
<1>9. 1 < Len(Relo.access) => Within(v, root)
  <2>1. SUFFICES ASSUME 1 < Len(Relo.access) PROVE Within(v, root)
    OBVIOUS
  <2>2. 0 \in 0 .. Len(Relo.access) - 2 /\ v[1] \in 1 .. Len(Relo.access)
    BY <1>3, <1>7, <2>1
  <2>3. Straight(Object, Relo, v)
    BY <1>1, <1>2, <1>5, <1>8, <2>2, DirectHere
  <2>4. Within(v, v[3])
    BY <1>1, <2>2, <2>3, Fresh
  <2> QED BY <1>7, <2>4
<1>10. /\ Object' = Object /\ Relo' = Relo /\ base' = base /\ IsAccess(Relo)'
  BY <1>1, <1>2, SamePlace DEF IsAccess
<1>11. root \in Answer(Object, Relo.type_id)'
  <2>1. \A o, s : Answer(o, s)' = Answer(o, s)
    BY <1>1, SameMeaning
  <2> QED BY <1>2, <1>5, <1>10, <2>1
<1>12. Stands(root, v, root)'
  <2>1. /\ \A o, relo, has, r : Accessed(o, relo, has, r)' = Accessed(o, relo, has, r)
        /\ \A o, relo, r : Compared(o, relo, r)' = Compared(o, relo, r)
    BY <1>1, SameMeaning
  <2>2. /\ Accessed(Object, Relo, members, root)' = Accessed(Object, Relo, members, root)
        /\ Compared(Object, Relo, root)' = Compared(Object, Relo, root)
    BY <1>1, <1>10, <2>1
  <2>3. Within(v, root) => Within(v, root)'
    BY <1>1, WithinStill
  <2>4. <<comp', v[2], root>> = v /\ comp' - 1 = 0
    BY <1>1, <1>7
  <2> QED BY <1>1, <1>7, <1>8, <1>9, <1>10, <2>2, <2>3, <2>4 DEF Stands
<1>13. Handles(v)'
  BY <1>1, <1>5, <1>7 DEF Handles
<1> QED BY <1>1, <1>10, <1>11, <1>12, <1>13 DEF AtAccess

LEMMA MemberDoneHere == Inv /\ TypeOK' /\ Direct /\ AtAccess /\ MemberDone => AtAccess'
<1> SUFFICES ASSUME Inv, TypeOK', Direct, AtAccess, MemberDone PROVE AtAccess'
  OBVIOUS
<1>1. /\ pc = "unwind" /\ frames = << >> /\ pc' = "access" /\ pc \in InAccess /\ pc \in InMember
      /\ comp' = comp + 1 /\ oid' = Selected.type /\ bid' = bid
      /\ UNCHANGED <<inputs, loop, chain, bid, frames, result>>
      /\ UNCHANGED <<object, item, members>>
  BY DEF MemberDone, Goto, loop, result, InAccess, InMember
<1>2. /\ TypeOK /\ object \in DOMAIN objects /\ item \in DOMAIN objects[object].relos
      /\ Object = objects[object] /\ Relo = objects[object].relos[item] /\ Types = Object.types
      /\ Len(Relo.access) \in Nat \ {0} /\ Levels \in Nat /\ Levels = MaxNesting + Len(Relo.access)
      /\ comp \in 1 .. Len(Relo.access) - 1
      /\ oid \in Ids(Types) /\ Component \in DOMAIN Types[oid].members /\ Selected.type \in Nat
      /\ \A root \in Answer(Object, Relo.type_id) : root \in Nat
  BY <1>1, AccessHere, AtSearch, AtWork DEF AtItem, Inv, Levels
<1>3. PICK root \in Nat : /\ root \in Answer(Object, Relo.type_id)
                         /\ \E v \in Values, c \in Nat : Stands(root, v, c) /\ Handles(v)
  BY <1>1, <1>2 DEF AtAccess
<1>4. PICK v \in Values, c \in Nat : Stands(root, v, c) /\ Handles(v)
  BY <1>3
<1>5. IsAccess(Relo)
  BY <1>1 DEF AtAccess
<1>6. PICK y \in Ids(base) : y = Peel(base, v[3])
  BY <1>1, <1>4 DEF Handles, IsRecord
<1>7. /\ oid = Peel(Types, v[2]) /\ IsRecord(Types, oid) /\ IsRecord(base, y) /\ Returning(y)
      /\ v[1] = comp /\ v \in Compared(Object, Relo, root)[comp - 1]
      /\ <<comp, v[2], c>> \in Accessed(Object, Relo, members, root)[comp - 1]
      /\ Within(v, c)
  BY <1>1, <1>2, <1>4, <1>6 DEF Handles, Stands
<1>8. members \in Shapes /\ members \in Havings /\ Everything \in Shapes
      /\ \A i \in Ids(base) : members[i] \subseteq Everything[i]
  BY <1>2, Shape DEF TypeOK, Shapes, Havings, Everything
<1>9. bid \in Nat
  BY <1>2 DEF TypeOK
<1>10. PICK m : m = Selected
  OBVIOUS
<1>11. m = Object.types[oid].members[Component] /\ Component = Relo.access[comp + 1] /\ m.type \in Nat
  BY <1>2, <1>10 DEF Selected, Component
<1>12. PICK w \in Values : w = <<comp + 1, m.type, bid>>
  <2>1. comp + 1 \in Nat
    BY <1>2
  <2> QED BY <1>9, <1>11, <2>1 DEF Values
<1>13. PICK cc \in Nat : cc = IF m.name = Unnamed THEN c ELSE bid
  BY <1>9
<1>14. PICK z \in Ids(base) : z = Bare(base, c)
  BY <1>6, <1>7 DEF Within, IsRecord
<1>15. /\ Bare(Types, v[2]) = oid /\ IsRecord(base, z)
       /\ \A has \in Havings : \A name : \A d \in 0 .. Levels - (comp - 1) :
            Nested(has, name, Levels)[d][y] \subseteq Nested(has, name, Levels)[d + (comp - 1)][z]
  BY <1>6, <1>7, <1>14 DEF Within
<1>16. m.name # Unnamed => bid \in Nested(members, m.name, Levels)[MaxNesting + 1][y]
  BY <1>1, <1>7, <1>10 DEF Returning
<1>17. m.name = Unnamed => Component \in members[y] /\ bid = base[y].members[Component].type
  BY <1>7, <1>10 DEF Returning
\* The header.
<1>18. <<comp + 1, m.type, cc>> \in Accessed(Object, Relo, members, root)[comp]
  <2>1. cc \in IF m.name = Unnamed THEN {c} ELSE Denotes(members, z, m.name, Levels)
    <3>1. CASE m.name = Unnamed
      BY <1>13, <3>1
    <3>2. CASE m.name # Unnamed
      <4>0. PICK d : d = MaxNesting + 1 + (comp - 1)
        OBVIOUS
      <4>1. MaxNesting + 1 \in 0 .. Levels - (comp - 1) /\ d \in 0 .. Levels /\ Levels \in d .. Levels
        BY <1>2, <4>0, LimitAssumption
      <4>2. bid \in Nested(members, m.name, Levels)[d][z]
        BY <1>8, <1>15, <1>16, <3>2, <4>0, <4>1
      <4>3. Nested(members, m.name, Levels)[d][z] \subseteq Nested(members, m.name, Levels)[Levels][z]
        <5>1. \A a \in 0 .. Levels : \A b \in a .. Levels :
                 Nested(members, m.name, Levels)[a][z] \subseteq Nested(members, m.name, Levels)[b][z]
          BY <1>2, <1>8, NestedDeepens
        <5> QED BY <4>1, <5>1
      <4>4. bid \in Nested(members, m.name, Levels)[Levels][z]
        BY <4>2, <4>3
      <4> QED BY <1>13, <3>2, <4>4 DEF Denotes
    <3> QED BY <3>1, <3>2
  <2> DEFINE u == <<comp, v[2], c>>
  <2>2. u[1] = comp /\ u[2] = v[2] /\ u[3] = c
    OBVIOUS
  <2> HIDE DEF u
  <2>3. <<comp + 1, m.type, cc>> \in Apply(Object, Relo, members, u)
    <3>1. Object.types[oid].kind # "ARRAY"
      BY <1>2, <1>7 DEF IsRecord, RecordKinds
    <3> QED BY <1>2, <1>7, <1>11, <1>14, <1>15, <2>1, <2>2, <3>1 DEF Apply, IsRecord
  <2>4. u \in Accessed(Object, Relo, members, root)[comp - 1]
    BY <1>7 DEF u
  <2>5. comp \in 1 .. Len(Relo.access) - 1
    BY <1>2
  <2> QED BY <1>2, <1>5, <1>8, <2>3, <2>4, <2>5, AccessStep
\* The code.
<1>19. w \in Compared(Object, Relo, root)[comp]
  <2>1. bid \in IF m.name = Unnamed
                  THEN {base[y].members[k].type : k \in {Component} \cap DOMAIN base[y].members}
                  ELSE Denotes(Everything, y, m.name, Levels)
    <3>1. CASE m.name = Unnamed
      <4>1. Component \in DOMAIN base[y].members
        BY <1>8, <1>17, <3>1 DEF Shapes
      <4> QED BY <1>17, <3>1, <4>1
    <3>2. CASE m.name # Unnamed
      <4>1. MaxNesting + 1 \in 0 .. Levels /\ Levels \in MaxNesting + 1 .. Levels
        BY <1>2, LimitAssumption
      <4>2. bid \in Nested(Everything, m.name, Levels)[MaxNesting + 1][y]
        BY <1>2, <1>8, <1>16, <3>2, <4>1, NestedGrows
      <4>3. bid \in Nested(Everything, m.name, Levels)[Levels][y]
        BY <1>2, <1>8, <4>1, <4>2, NestedDeepens
      <4> QED BY <3>2, <4>3 DEF Denotes
    <3> QED BY <3>1, <3>2
  <2>2. w \in Pair(Object, Relo, v)
    BY <1>2, <1>6, <1>7, <1>11, <1>12, <2>1 DEF Pair
  <2> QED BY <1>2, <1>5, <1>7, <2>2, AccessStep
<1>20. w[1] = comp + 1 /\ w[2] = m.type /\ w[3] = bid
  BY <1>12
<1>21. comp + 1 < Len(Relo.access) => Within(w, cc)
  <2>1. SUFFICES ASSUME comp + 1 < Len(Relo.access) PROVE Within(w, cc)
    OBVIOUS
  <2>2. Straight(Object, Relo, w)
    <3>1. comp \in 0 .. Len(Relo.access) - 2
      BY <1>2, <2>1
    <3> QED BY <1>1, <1>3, <1>5, <1>19, <3>1, DirectHere
  <2>3. CASE m.name # Unnamed
    <3>1. w[1] \in 1 .. Len(Relo.access)
      BY <1>2, <1>20
    <3>2. Within(w, w[3])
      BY <1>1, <2>2, <3>1, Fresh
    <3> QED BY <1>13, <1>20, <2>3, <3>2
  <2>4. CASE m.name = Unnamed
    <3>1. SUFFICES ASSUME IsRecord(Types, Peel(Types, w[2])), IsRecord(base, Peel(base, w[3]))
                   PROVE  /\ Bare(Types, w[2]) = Peel(Types, w[2])
                          /\ \A has \in Havings : \A name : \A d \in 0 .. Levels - comp :
                                Nested(has, name, Levels)[d][Peel(base, bid)]
                                  \subseteq Nested(has, name, Levels)[d + comp][z]
      <4>1. w[1] - 1 = comp
        BY <1>2, <1>20
      <4> QED BY <1>13, <1>14, <1>15, <1>20, <2>4, <4>1 DEF Within
    <3>2. Bare(Types, w[2]) = Peel(Types, w[2])
      BY <1>2, <2>2, <3>1 DEF Straight
    <3>3. base[y].members[Component].name = Unnamed
      <4>1. Straight(Object, Relo, v)
        <5>1. comp - 1 \in 0 .. Len(Relo.access) - 2
          BY <1>2
        <5> QED BY <1>1, <1>3, <1>5, <1>7, <5>1, DirectHere
      <4>2. Component \in DOMAIN base[y].members
        BY <1>8, <1>17, <2>4 DEF Shapes
      <4> QED BY <1>2, <1>6, <1>7, <1>11, <2>4, <4>1, <4>2 DEF Straight
    <3>4. Component \in Wrappers(y) /\ Wrapped(y, Component) = Peel(base, bid)
      <4>1. Component \in Named(y, Unnamed)
        BY <1>8, <1>17, <2>4, <3>3 DEF Named, Shapes
      <4> QED BY <1>17, <1>20, <2>4, <3>1, <4>1 DEF Wrappers, Wrapped
    <3>5. ASSUME NEW has \in Havings, NEW name, NEW d \in 0 .. Levels - comp
          PROVE  Nested(has, name, Levels)[d][Peel(base, bid)]
                   \subseteq Nested(has, name, Levels)[d + comp][z]
      <4>1. has \in Shapes /\ Component \in has[y]
        BY <1>17, <2>4 DEF Havings
      <4>2. /\ d \in 0 .. Levels - 1 /\ d + 1 \in 0 .. Levels - (comp - 1)
            /\ d + 1 + (comp - 1) = d + comp
        BY <1>2
      <4>3. Nested(has, name, Levels)[d][Wrapped(y, Component)] \subseteq Nested(has, name, Levels)[d + 1][y]
        BY <1>2, <3>4, <4>1, <4>2, NestedHolds
      <4>4. Nested(has, name, Levels)[d + 1][y] \subseteq Nested(has, name, Levels)[d + 1 + (comp - 1)][z]
        BY <1>15, <4>2
      <4> QED BY <3>4, <4>2, <4>3, <4>4
    <3> QED BY <3>2, <3>5
  <2> QED BY <2>3, <2>4
<1>22. /\ Object' = Object /\ Relo' = Relo /\ base' = base /\ IsAccess(Relo)'
  BY <1>1, <1>5, SamePlace DEF IsAccess
<1>23. root \in Answer(Object, Relo.type_id)'
  <2>1. \A o, s : Answer(o, s)' = Answer(o, s)
    BY <1>1, SameMeaning
  <2> QED BY <1>3, <1>22, <2>1
<1>24. Stands(root, w, cc)'
  <2>1. /\ \A o, relo, has, r : Accessed(o, relo, has, r)' = Accessed(o, relo, has, r)
        /\ \A o, relo, r : Compared(o, relo, r)' = Compared(o, relo, r)
    BY <1>1, SameMeaning
  <2>2. /\ Accessed(Object, Relo, members, root)' = Accessed(Object, Relo, members, root)
        /\ Compared(Object, Relo, root)' = Compared(Object, Relo, root)
    BY <1>1, <1>22, <2>1
  <2>3. Within(w, cc) => Within(w, cc)'
    BY <1>1, WithinStill
  <2>4. comp' - 1 = comp
    BY <1>1, <1>2
  <2> QED BY <1>1, <1>18, <1>19, <1>20, <1>21, <1>22, <2>2, <2>3, <2>4 DEF Stands
<1>25. Handles(w)'
  BY <1>1, <1>10, <1>20 DEF Handles
<1>26. comp' # 0
  BY <1>1, <1>2
<1> QED BY <1>22, <1>23, <1>24, <1>25, <1>26 DEF AtAccess

LEMMA RootFoundHere == Inv /\ RootFound => AtAccess'
<1> SUFFICES ASSUME Inv, RootFound, pc' \in InAccess PROVE AtAccess'
  BY DEF AtAccess
<1>1. Looking /\ phase = "relos" /\ ~ Several(Hits) /\ UNCHANGED <<inputs, chain>>
  BY DEF RootFound
<1>2. PICK i \in Hits :
        /\ IsAccess(Relo) /\ comp' = 0 /\ oid' = Relo.type_id /\ bid' = i
        /\ pc' = "access" /\ UNCHANGED loop
  BY DEF RootFound, NoMemory, Fail, Goto, NextItem, InAccess, IsAccess
<1>3. UNCHANGED <<object, item>> /\ Start = Relo.type_id
  BY <1>1, <1>2 DEF loop, Start
<1>4. i \in Answer(Object, Relo.type_id)
  BY <1>1, <1>3, OneHit
<1>5. Object' = Object /\ Relo' = Relo /\ IsAccess(Relo)'
  BY <1>1, <1>2, <1>3, SamePlace DEF IsAccess
<1>6. i \in Answer(Object, Relo.type_id)'
  <2>1. \A o, s : Answer(o, s)' = Answer(o, s)
    BY <1>1, SameMeaning
  <2> QED BY <1>4, <1>5, <2>1
<1>7. bid' \in Answer(Object, Relo.type_id)' /\ oid' = Relo'.type_id
  BY <1>2, <1>5, <1>6
<1> QED BY <1>2, <1>5, <1>7 DEF AtAccess

\* The access of every step.
LEMMA AtAccessNext == Inv /\ TypeOK' /\ Direct /\ AtAccess /\ [Next]_vars => AtAccess'
<1> SUFFICES ASSUME Inv, TypeOK', Direct, AtAccess, [Next]_vars, pc' \in InAccess PROVE AtAccess'
  BY DEF AtAccess
<1>1. CASE RootFound
  BY <1>1, RootFoundHere
<1>2. CASE RootAccess
  BY <1>2, RootAccessHere
<1>3. CASE MemberDone
  BY <1>3, MemberDoneHere
<1>4. CASE TakeMember
  <2>1. pc \in InAccess /\ comp # 0 /\ UNCHANGED <<object, item, comp>>
    <3>1. pc \in InAccess /\ comp \in 1 .. Len(Relo.access) - 1 /\ UNCHANGED <<object, item, comp>>
      BY <1>4 DEF TakeMember, Reading, InAccess, loop
    <3>2. comp \in Nat
      BY DEF Inv, TypeOK
    <3> QED BY <3>1, <3>2, AccessHere
  <2> QED BY <1>4, <2>1, TakeMemberHandles, SameComponent
<1>5. CASE FindMember \/ Descend \/ NotHere \/ MarkWrapper
  <2>1. /\ pc \in InAccess /\ pc \in InMember /\ UNCHANGED <<object, item, comp>>
    BY <1>5 DEF FindMember, Descend, NotHere, MarkWrapper, Searching, InAccess, InMember, loop
  <2>2. /\ Levels \in Nat /\ MaxNesting + 1 \in 0 .. Levels
    BY <2>1, AccessHere
  <2>3. comp # 0
    <3>1. comp \in 1 .. Len(Relo.access) - 1 /\ Len(Relo.access) \in Nat
      BY <2>1, AccessHere DEF Inv, AtItem
    <3> QED BY <3>1
  <2>4. pc' # "error"
    BY DEF InAccess
  <2>5. \A v \in Values : Handles(v) => Handles(v)'
    BY <1>5, <2>2, <2>4, FindMemberHandles, DescendHandles, MarkWrapperHandles
  <2> QED BY <2>1, <2>3, <2>5, SameComponent
<1>6. CASE UNCHANGED vars
  <2>1. UNCHANGED <<inputs, object, item, comp, oid, bid, frames, pc, members>>
    BY <1>6 DEF vars, loop, path, result
  <2>2. pc \in InAccess
    BY <2>1
  <2>3. CASE comp # 0
    <3>1. ASSUME NEW v \in Values, Handles(v) PROVE Handles(v)'
      <4>1. Selected' = Selected /\ Component' = Component /\ Levels' = Levels
        BY <2>1, SameMember DEF Levels
      <4>2. PICK y : y = Peel(base, v[3]) /\ y = Peel(base, v[3])'
        BY <2>1, SamePeel
      <4>3. Returning(y) => Returning(y)'
        <5>1. \A has, name, l : Nested(has, name, l)' = Nested(has, name, l)
          BY <2>1, SameMeaning
        <5>2. Nested(members, Selected.name, Levels)' = Nested(members, Selected.name, Levels)
          BY <2>1, <4>1, <5>1
        <5>3. Wrapped(Top.record, Top.at)' = Wrapped(Top.record, Top.at)
          <6>1. \A s, k : Wrapped(s, k)' = Wrapped(s, k)
            BY <2>1, SameBase
          <6>2. Top' = Top
            BY <2>1 DEF Top
          <6> QED BY <6>1, <6>2
        <5> QED BY <2>1, <4>1, <5>2, <5>3 DEF Returning, inputs
      <4> QED BY <2>1, <3>1, <4>1, <4>2, <4>3, SamePeel DEF Handles
    <3> QED BY <2>1, <2>2, <2>3, <3>1, SameComponent
  <2>4. CASE comp = 0
    <3>1. /\ IsAccess(Relo) /\ pc = "access" /\ oid = Relo.type_id /\ bid \in Answer(Object, Relo.type_id)
      BY <2>2, <2>4 DEF AtAccess
    <3>2. Object' = Object /\ Relo' = Relo
      BY <2>1, SamePlace
    <3>3. \A o, s : Answer(o, s)' = Answer(o, s)
      BY <2>1, SameMeaning
    <3>4. Answer(Object, Relo.type_id)' = Answer(Object, Relo.type_id)
      BY <3>2, <3>3
    <3>5. IsAccess(Relo)'
      BY <3>1, <3>2 DEF IsAccess
    <3> QED BY <2>1, <2>4, <3>1, <3>2, <3>4, <3>5 DEF AtAccess
  <2> QED BY <2>3, <2>4
<1>7. CASE \/ SkipType \/ TakeType \/ TypesDone \/ TakeRelo \/ RelosDone
           \/ InvalidType \/ AmbiguousType \/ FollowChain \/ ChainTooDeep
           \/ ProgramLocal \/ Unresolved \/ SeedFound
           \/ BadAccess \/ NotRecords \/ InvalidMember \/ AccessDone \/ TooNested
  <2>1. pc' \notin InAccess
    BY <1>7 DEF SkipType, TakeType, TypesDone, TakeRelo, RelosDone, InvalidType, AmbiguousType,
                FollowChain, ChainTooDeep, ProgramLocal, Unresolved, SeedFound, BadAccess, NotRecords,
                InvalidMember, AccessDone, TooNested, Looking, NextItem, NoMemory, Fail, Goto, InAccess
  <2> QED BY <2>1
<1> QED BY <1>1, <1>2, <1>3, <1>4, <1>5, <1>6, <1>7 DEF Next, Resolve, Access

\* A relocation that compiles does so from then on.
LEMMA StillCompiles ==
  ASSUME TypeOK, TypeOK', [Next]_vars, NEW n \in DOMAIN objects, NEW k \in DOMAIN objects[n].relos,
         IsAccess(objects[n].relos[k]), Compiles(n, k)
  PROVE  Compiles(n, k)'
<1>1. /\ UNCHANGED inputs /\ members \in Shapes /\ members' \in Shapes
      /\ \A i \in Ids(base) : members[i] \subseteq members'[i]
  BY OnlyAdds
<1>2. objects' = objects
  BY <1>1 DEF inputs
<1>3. PICK root \in Answer(objects[n], objects[n].relos[k].type_id) :
            AccessCompiles(objects[n], objects[n].relos[k], members, root)
  BY DEF Compiles
<1>4. root \in Nat
  BY <1>3, AnswersAreIds
<1>5. Len(objects[n].relos[k].access) - 1 \in 0 .. Len(objects[n].relos[k].access) - 1
  <2>1. Applies(Accessed(objects[n], objects[n].relos[k], members, root), objects[n],
                objects[n].relos[k], members, root)
    BY <1>1, <1>4, AccessedIs
  <2> QED BY <2>1 DEF Applies
<1>6. AccessCompiles(objects[n], objects[n].relos[k], members', root)
  BY <1>1, <1>3, <1>4, <1>5, AccessedGrows DEF AccessCompiles
<1>7. AccessCompiles(objects[n], objects[n].relos[k], members, root)'
  <2>1. \A o, relo, has, r : Accessed(o, relo, has, r)' = Accessed(o, relo, has, r)
    BY <1>1, SameMeaning
  <2>2. Accessed(objects[n], objects[n].relos[k], members, root)'
          = Accessed(objects[n], objects[n].relos[k], members', root)
    BY <1>2, <2>1
  <2> QED BY <1>2, <1>6, <2>2 DEF AccessCompiles
<1>8. root \in Answer(objects[n], objects[n].relos[k].type_id)'
  <2>1. \A o, s : Answer(o, s)' = Answer(o, s)
    BY <1>1, SameMeaning
  <2> QED BY <1>2, <1>3, <2>1
<1> QED BY <1>7, <1>8 DEF Compiles

\* An access whose components are all consumed compiles.
LEMMA ReadToTheEnd ==
  ASSUME Inv, AtAccess, pc = "access", comp = Len(Relo.access)
  PROVE  Compiles(object, item)
<1>1. /\ object \in DOMAIN objects /\ item \in DOMAIN objects[object].relos /\ Object = objects[object]
      /\ Relo = objects[object].relos[item] /\ comp # 0
  BY AccessHere DEF InAccess
<1>2. PICK root \in Answer(Object, Relo.type_id) : \E v \in Values, c \in Nat : Stands(root, v, c)
  BY <1>1 DEF AtAccess, InAccess
<1>3. Accessed(Object, Relo, members, root)[Len(Relo.access) - 1] # {}
  BY <1>2 DEF Stands
<1> QED BY <1>1, <1>2, <1>3 DEF Compiles, AccessCompiles

\* What a step comes past.
LEMMA ComesPast ==
  ASSUME Inv, [Next]_vars, pc' # "error", NEW n \in DOMAIN objects, NEW k \in DOMAIN objects[n].relos,
         Past(n, k)', IsAccess(objects[n].relos[k])
  PROVE  /\ pc # "error"
         /\ \/ Past(n, k)
            \/ n = object /\ k = item /\ pc = "access" /\ comp = Len(Relo.access)
<1>1. /\ TypeOK /\ AtItem /\ object \in Nat /\ DOMAIN objects = 1 .. Len(objects)
      /\ Len(objects) \in Nat /\ n \in Nat /\ object \in DOMAIN objects
  BY Shape DEF Inv
<1>2. /\ DOMAIN objects[n].relos = 1 .. Len(objects[n].relos) /\ Len(objects[n].relos) \in Nat
      /\ k \in Nat /\ item \in Nat
  BY <1>1, ObjectShape DEF TypeOK
<1>3. Object = objects[object] /\ objects' = objects
  <2>1. UNCHANGED inputs
    BY DEF Next, SkipType, TakeType, TypesDone, TakeRelo, RelosDone, Resolve, InvalidType, AmbiguousType,
           FollowChain, ChainTooDeep, ProgramLocal, Unresolved, SeedFound, RootFound, Access, BadAccess,
           RootAccess, NotRecords, InvalidMember, TakeMember, AccessDone, TooNested, FindMember, Descend,
           NotHere, MarkWrapper, MemberDone, vars
  <2> QED BY <2>1 DEF inputs, Object
<1>4. CASE SkipType \/ ProgramLocal \/ SeedFound
  <2>1. /\ phase = "types" /\ UNCHANGED <<object, phase>> /\ pc \in {"next", "resolve"} /\ pc' = "next"
    BY <1>4 DEF SkipType, ProgramLocal, SeedFound, Looking, NextItem, NoMemory, Fail, Goto
  <2> QED BY <2>1 DEF Past
<1>5. CASE TypesDone
  <2>1. pc = "next" /\ pc' = "next" /\ object' = object /\ item' = 1
    BY <1>5 DEF TypesDone
  <2>2. ~ (k < 1)
    BY <1>2
  <2> QED BY <2>1, <2>2 DEF Past
<1>6. CASE RelosDone
  <2>1. /\ pc = "next" /\ phase = "relos" /\ item > Len(Object.relos)
        /\ \/ object' = object + 1 /\ phase' = "types" /\ pc' = "next"
           \/ object = Len(objects)
    BY <1>6 DEF RelosDone, Goto
  <2>2. n = object => k < item
    BY <1>2, <1>3, <2>1
  <2>3. n < object \/ n = object
    BY <1>1, <2>1 DEF Past
  <2> QED BY <2>1, <2>2, <2>3 DEF Past
<1>7. CASE RootFound
  <2>1. /\ pc = "resolve" /\ phase = "relos"
        /\ \/ UNCHANGED <<object, phase, item>> /\ pc' = "access"
           \/ ~ IsAccess(Relo) /\ UNCHANGED <<object, phase>> /\ item' = item + 1 /\ pc' = "next"
    BY <1>7 DEF RootFound, Looking, NextItem, NoMemory, Fail, Goto, IsAccess, loop
  <2>2. CASE UNCHANGED <<object, phase, item>> /\ pc' = "access"
    BY <2>1, <2>2 DEF Past
  <2>3. CASE ~ IsAccess(Relo) /\ UNCHANGED <<object, phase>> /\ item' = item + 1 /\ pc' = "next"
    <3>1. ~ (n = object /\ k = item)
      BY <1>3, <2>3 DEF Relo
    <3>2. n < object \/ (n = object /\ k < item + 1)
      BY <2>1, <2>3 DEF Past
    <3> QED BY <1>2, <2>1, <3>1, <3>2 DEF Past
  <2> QED BY <2>1, <2>2, <2>3
<1>8. CASE AccessDone
  <2>1. /\ pc = "access" /\ comp = Len(Relo.access) /\ UNCHANGED <<object, phase>>
        /\ item' = item + 1 /\ pc' = "next"
    BY <1>8 DEF AccessDone, NextItem, Goto
  <2>2. phase = "relos"
    BY <2>1, AccessHere DEF InAccess
  <2>3. n < object \/ (n = object /\ k < item + 1)
    BY <2>1, <2>2 DEF Past
  <2> QED BY <1>2, <2>1, <2>2, <2>3 DEF Past
<1>9. CASE \/ TakeType \/ TakeRelo \/ FollowChain \/ RootAccess \/ TakeMember \/ FindMember
           \/ Descend \/ NotHere \/ MarkWrapper \/ MemberDone
  <2>1. /\ UNCHANGED <<object, phase, item>> /\ pc' # "ok" /\ pc # "error"
    BY <1>9 DEF TakeType, TakeRelo, FollowChain, RootAccess, TakeMember, FindMember, Descend, NotHere,
                MarkWrapper, MemberDone, Looking, Reading, Searching, Mark, NoMemory, Fail, Goto, loop
  <2> QED BY <2>1 DEF Past
<1>10. CASE UNCHANGED vars
  BY <1>10 DEF vars, loop, Past
<1>11. CASE \/ InvalidType \/ AmbiguousType \/ ChainTooDeep \/ Unresolved \/ BadAccess \/ NotRecords
            \/ InvalidMember \/ TooNested
  BY <1>11 DEF InvalidType, AmbiguousType, ChainTooDeep, Unresolved, BadAccess, NotRecords,
               InvalidMember, TooNested, Fail
<1> QED BY <1>4, <1>5, <1>6, <1>7, <1>8, <1>9, <1>10, <1>11 DEF Next, Resolve, Access

LEMMA SoFarNext == Inv /\ TypeOK' /\ AtAccess /\ AccessesSoFar /\ [Next]_vars => AccessesSoFar'
<1> SUFFICES ASSUME Inv, TypeOK', AtAccess, AccessesSoFar, [Next]_vars PROVE AccessesSoFar'
  OBVIOUS
<1>1. TypeOK /\ UNCHANGED inputs /\ objects' = objects
  BY OnlyAdds DEF Inv, inputs
<1>2. ASSUME pc' # "error", NEW n \in DOMAIN objects, NEW k \in DOMAIN objects[n].relos,
             Past(n, k)', IsAccess(objects[n].relos[k])
      PROVE  Compiles(n, k)'
  <2>1. /\ pc # "error"
        /\ Past(n, k) \/ (n = object /\ k = item /\ pc = "access" /\ comp = Len(Relo.access))
    BY <1>2, ComesPast
  <2>2. Compiles(n, k)
    BY <1>2, <2>1, ReadToTheEnd DEF AccessesSoFar
  <2> QED BY <1>1, <1>2, <2>2, StillCompiles
<1>3. \A n \in DOMAIN objects : \A k \in DOMAIN objects[n].relos :
         IsAccess(objects[n].relos[k])' <=> IsAccess(objects[n].relos[k])
  BY <1>1 DEF IsAccess
<1> QED BY <1>1, <1>2, <1>3 DEF AccessesSoFar

\* Where every access finds each anonymous member at its position and no array or
\* pointer in between, a run that succeeds leaves every access of every object its
\* members in the header: none is lost to another relocation, and a member behind
\* anonymous records keeps all of them (seeds.c:479-620, 803-952; requirements.c:268-310).
THEOREM AccessesCorrect == Spec /\ Direct => []AccessesCompile
<1> DEFINE I == Inv /\ Direct /\ AtAccess /\ AccessesSoFar
<1>1. Init /\ Direct => I
  <2> SUFFICES ASSUME Init, Direct PROVE AtAccess /\ AccessesSoFar
    BY InitInv
  <2>1. pc = "next" /\ object = 1 /\ phase = "types"
    BY DEF Init
  <2>2. AtAccess
    BY <2>1 DEF AtAccess, InAccess
  <2>3. \A n \in DOMAIN objects : ~ (n < object)
    BY <2>1, InitInv, Shape DEF Inv
  <2>4. AccessesSoFar
    BY <2>1, <2>3 DEF AccessesSoFar, Past
  <2> QED BY <2>2, <2>4
<1>2. I /\ Inv' /\ [Next]_vars => I'
  <2> SUFFICES ASSUME I, Inv', [Next]_vars PROVE Direct' /\ AtAccess' /\ AccessesSoFar'
    OBVIOUS
  <2>1. TypeOK /\ TypeOK'
    BY DEF Inv
  <2>2. UNCHANGED inputs
    BY <2>1, OnlyAdds
  <2>3. Direct'
    BY <2>2, SameMeaning
  <2> QED BY <2>1, <2>3, AtAccessNext, SoFarNext
<1>3. I => AccessesCompile
  <2> SUFFICES ASSUME I, pc = "ok", NEW n \in DOMAIN objects, NEW k \in DOMAIN objects[n].relos,
                      objects[n].relos[k].field, objects[n].relos[k].access # << >>
               PROVE  \E root \in Answer(objects[n], objects[n].relos[k].type_id) :
                         AccessCompiles(objects[n], objects[n].relos[k], Emitted, root)
    BY DEF AccessesCompile
  <2>1. TypeOK /\ IsAccess(objects[n].relos[k])
    BY DEF Inv, IsAccess
  <2>2. Compiles(n, k)
    BY <2>1 DEF AccessesSoFar, Past
  <2>3. PICK root \in Answer(objects[n], objects[n].relos[k].type_id) :
              AccessCompiles(objects[n], objects[n].relos[k], members, root)
    BY <2>2 DEF Compiles
  <2>4. /\ members \in Shapes /\ Emitted \in Shapes
        /\ \A i \in Ids(base) : members[i] \subseteq Emitted[i]
    BY <2>1, Shape DEF Shapes, Emitted, Everything, TypeOK
  <2>5. root \in Nat
    BY <2>3, AnswersAreIds
  <2>6. Len(objects[n].relos[k].access) - 1 \in 0 .. Len(objects[n].relos[k].access) - 1
    <3>1. Applies(Accessed(objects[n], objects[n].relos[k], members, root), objects[n],
                  objects[n].relos[k], members, root)
      BY <2>1, <2>4, <2>5, AccessedIs
    <3> QED BY <3>1 DEF Applies
  <2>7. AccessCompiles(objects[n], objects[n].relos[k], Emitted, root)
    BY <2>1, <2>3, <2>4, <2>5, <2>6, AccessedGrows DEF AccessCompiles
  <2> QED BY <2>7
<1> QED BY <1>1, <1>2, <1>3, Invariance, PTL DEF Spec
=============================================================================
