-------------------------- MODULE ClosureProofs --------------------------
(***************************************************************************)
(* Proofs about Closure for every set of base BTFs and every smallest      *)
(* capacity: the type invariant, that a successful closure is closed and   *)
(* holds nothing that is not needed, that worklist and set agree, and that *)
(* the worklist implements DependencyClosure.                              *)
(***************************************************************************)
EXTENDS Closure, FiniteSetTheorems, TLAPS

(***************************************************************************)
(* What add_type_deps enumerates: a sequence of ids whose elements, void   *)
(* apart, are exactly the needs of the type.                               *)
(***************************************************************************)
LEMMA TypeFields ==
  ASSUME btf \in BaseBtf, NEW id \in Ids(btf)
  PROVE  /\ btf[id] \in BtfType
         /\ btf[id].kind \in Kinds
         /\ btf[id].type \in Nat
         /\ btf[id].parts \in Seq(Nat)
<1>1. btf[id] \in BtfType
  BY DEF BaseBtf, Ids
<1>2. QED BY <1>1 DEF BtfType

LEMMA DepsType ==
  ASSUME btf \in BaseBtf, NEW id \in Ids(btf)
  PROVE  Deps(id) \in Seq(Nat)
<1> DEFINE t == btf[id]
<1>1. t.kind \in Kinds /\ t.type \in Nat /\ t.parts \in Seq(Nat)
  BY TypeFields
<1>2. <<t.type>> \in Seq(Nat)
  BY <1>1
<1>3. TypeThenParts(t) \in Seq(Nat)
  BY <1>1 DEF TypeThenParts
<1>4. [i \in DOMAIN t.parts |-> IF Pruned(id, i) THEN Void ELSE t.parts[i]] \in Seq(Nat)
  <2> DEFINE kept == [i \in 1 .. Len(t.parts) |-> IF Pruned(id, i) THEN Void ELSE t.parts[i]]
  <2>1. kept \in [1 .. Len(t.parts) -> Nat]
    BY <1>1 DEF Void
  <2>2. Len(t.parts) \in Nat /\ DOMAIN t.parts = 1 .. Len(t.parts)
    BY <1>1
  <2> QED BY <2>1, <2>2
<1> QED
  BY <1>1, <1>2, <1>3, <1>4
  DEF Deps, Kinds, ReferenceKinds, RecordKinds, LeafKinds

LEMMA DepsAreNeeds ==
  ASSUME btf \in BaseBtf, NEW id \in Ids(btf)
  PROVE  Needs(id) = {Deps(id)[k] : k \in 1 .. Len(Deps(id))} \ {Void}
<1> DEFINE t == btf[id]
           D == Deps(id)
<1> USE DEF ReferenceKinds, RecordKinds, LeafKinds
<1>1. t.kind \in Kinds /\ t.type \in Nat /\ t.parts \in Seq(Nat)
  BY TypeFields
<1>2. CASE t.kind = "PTR"
  <2>1. CASE expand
    <3>1. D = <<t.type>>  BY <1>2, <2>1 DEF Deps
    <3>2. Needs(id) = {t.type} \ {Void}
      BY <1>2, <2>1 DEF Needs, NeedsType, NeedsPart
    <3> QED BY <3>1, <3>2
  <2>2. CASE ~expand
    <3>1. D = <<>>  BY <1>2, <2>2 DEF Deps
    <3>2. Needs(id) = {}
      BY <1>2, <2>2 DEF Needs, NeedsType, NeedsPart
    <3> QED BY <3>1, <3>2
  <2> QED BY <2>1, <2>2
<1>3. CASE t.kind \in ReferenceKinds
  <2>1. D = <<t.type>>  BY <1>3 DEF Deps
  <2>2. Needs(id) = {t.type} \ {Void}
    BY <1>3 DEF Needs, NeedsType, NeedsPart
  <2> QED BY <2>1, <2>2
<1>4. CASE t.kind \in {"ARRAY", "FUNC_PROTO"}
  <2>1. D = <<t.type>> \o t.parts
    BY <1>4 DEF Deps, TypeThenParts
  <2>2. Needs(id) = ({t.type} \cup {t.parts[i] : i \in DOMAIN t.parts}) \ {Void}
    BY <1>4 DEF Needs, NeedsType, NeedsPart
  <2>3. {D[k] : k \in 1 .. Len(D)} = {t.type} \cup {t.parts[i] : i \in DOMAIN t.parts}
    <3>1. Len(D) = 1 + Len(t.parts) /\ D[1] = t.type
      BY <1>1, <2>1
    <3>2. \A i \in 1 .. Len(t.parts) : D[i + 1] = t.parts[i]
      BY <1>1, <2>1
    <3>3. ASSUME NEW k \in 1 .. Len(D), k # 1
          PROVE  /\ k - 1 \in 1 .. Len(t.parts)
                 /\ D[k] = t.parts[k - 1]
      <4>1. k - 1 \in 1 .. Len(t.parts)  BY <1>1, <3>1, <3>3
      <4>2. D[(k - 1) + 1] = t.parts[k - 1]  BY <3>2, <4>1
      <4>3. (k - 1) + 1 = k  BY <1>1, <3>1
      <4> QED BY <4>1, <4>2, <4>3
    <3>4. DOMAIN t.parts = 1 .. Len(t.parts) /\ Len(t.parts) \in Nat
      BY <1>1
    <3>5. ASSUME NEW k \in 1 .. Len(D)
          PROVE  D[k] \in {t.type} \cup {t.parts[i] : i \in DOMAIN t.parts}
      BY <3>1, <3>3, <3>4
    <3>6. t.type \in {D[k] : k \in 1 .. Len(D)}
      BY <3>1, <3>4
    <3>7. ASSUME NEW i \in DOMAIN t.parts
          PROVE  t.parts[i] \in {D[k] : k \in 1 .. Len(D)}
      BY <3>1, <3>2, <3>4
    <3> HIDE DEF D
    <3> QED BY <3>5, <3>6, <3>7
  <2> QED BY <2>2, <2>3
<1>5. CASE t.kind \in RecordKinds
  <2>1. D = [i \in 1 .. Len(t.parts) |-> IF Pruned(id, i) THEN Void ELSE t.parts[i]]
    <3>1. DOMAIN t.parts = 1 .. Len(t.parts)
      BY <1>1
    <3>2. D = [i \in DOMAIN t.parts |-> IF Pruned(id, i) THEN Void ELSE t.parts[i]]
      BY <1>5 DEF Deps
    <3> QED BY <3>1, <3>2
  <2>2. Needs(id) = {t.parts[i] : i \in {j \in DOMAIN t.parts : ~Pruned(id, j)}} \ {Void}
    BY <1>5 DEF Needs, NeedsType, NeedsPart, Pruned
  <2>3. DOMAIN t.parts = 1 .. Len(t.parts) /\ Len(D) = Len(t.parts)
    BY <1>1, <2>1
  <2> QED BY <2>1, <2>2, <2>3
<1>6. CASE t.kind = "DATASEC"
  <2>1. D = t.parts  BY <1>6 DEF Deps
  <2>2. Needs(id) = {t.parts[i] : i \in DOMAIN t.parts} \ {Void}
    BY <1>6 DEF Needs, NeedsType, NeedsPart
  <2> QED BY <1>1, <2>1, <2>2
<1>7. CASE t.kind \in LeafKinds
  <2>1. D = <<>>  BY <1>7 DEF Deps
  <2>2. Needs(id) = {}
    BY <1>7 DEF Needs, NeedsType, NeedsPart
  <2> QED BY <2>1, <2>2
<1> QED BY <1>1, <1>2, <1>3, <1>4, <1>5, <1>6, <1>7 DEF Kinds

(***************************************************************************)
(* No action changes the inputs, and with them the dependency graph.       *)
(***************************************************************************)
LEMMA GraphFixed ==
  ASSUME UNCHANGED inputs
  PROVE  /\ UNCHANGED <<btf, expand, members, seeds>>
         /\ Ids(btf)' = Ids(btf)
         /\ TypeCnt(btf)' = TypeCnt(btf)
         /\ Edges' = Edges
         /\ \A S : Closed(S)' = Closed(S)
<1>1. UNCHANGED <<btf, expand, members, seeds>>
  BY DEF inputs
<1>2. Ids(btf)' = Ids(btf) /\ TypeCnt(btf)' = TypeCnt(btf)
  BY <1>1 DEF Ids, TypeCnt
<1>3. Edges' = Edges
  BY <1>1 DEF Edges, Ids, Needs, NeedsType, NeedsPart
<1>4. \A S : Closed(S)' = Closed(S)
  BY <1>3 DEF Closed
<1> QED BY <1>1, <1>2, <1>3, <1>4

LEMMA SameDeps ==
  ASSUME UNCHANGED inputs, Current' = Current
  PROVE  Deps(Current)' = Deps(Current)
BY DEF inputs, Deps, Pruned, TypeThenParts

LEMMA DepsOfNext ==
  ASSUME UNCHANGED inputs
  PROVE  Deps(Current)' = Deps(Current')
BY DEF inputs, Deps, Pruned, TypeThenParts

LEMMA BaseFacts == TypeOK => btf \in BaseBtf /\ Len(btf) \in Nat
BY BasesAssumption DEF TypeOK, BaseBtf

LEMMA InitInv == Init => Inv
<1> SUFFICES ASSUME Init PROVE Inv
  OBVIOUS
<1>1. Len(btf) \in Nat
  BY BasesAssumption DEF Init, BaseBtf
<1>2. members \in [Ids(btf) -> SUBSET Nat]
  <2>1. \A id \in Ids(btf) : MemberIndexes(btf, id) \subseteq Nat
    BY DEF MemberIndexes
  <2>2. members \in [Ids(btf) -> SUBSET UNION {MemberIndexes(btf, id) : id \in Ids(btf)}]
    BY DEF Init, MemberChoices
  <2> QED BY <2>1, <2>2
<1>3. TypeOK
  BY <1>1, <1>2 DEF Init, TypeOK, Ids, TypeCnt, Stages, Errors
<1>4. Distinct /\ FillInv /\ TakenInv /\ OnlyNeeded
  BY DEF Init, Distinct, FillInv, TakenInv, OnlyNeeded, Entries
<1> QED BY <1>3, <1>4 DEF Init, Inv

(***************************************************************************)
(* Each action preserves the invariant.                                    *)
(***************************************************************************)
LEMMA AllocateInv == ASSUME Inv, Allocate PROVE Inv'
<1> USE DEF Allocate
<1>1. UNCHANGED inputs  OBVIOUS
<1>2. cap' \in Nat
  <2>1. required \subseteq Ids(btf) /\ Len(btf) \in Nat
    BY BaseFacts DEF Inv, TypeOK
  <2>2. IsFiniteSet(required)
    <3>1. IsFiniteSet(1 .. Len(btf))
      BY <2>1, FS_Interval
    <3> QED BY <2>1, <3>1, FS_Subset DEF Ids
  <2>3. Cardinality(required) \in Nat
    BY <2>2, FS_CardinalityType
  <2> QED BY <2>3, MinCapAssumption DEF Maximum, Fail, Inv, TypeOK
<1>3. TypeOK'
  BY <1>1, <1>2, GraphFixed DEF Inv, TypeOK, Fail, Stages, Errors
<1>4. Distinct' /\ (seeds \subseteq required)'
  BY <1>1, GraphFixed DEF Inv, Distinct
<1>5. FillInv'
  <2>1. \A id \in required : id >= 1
    BY DEF Inv, TypeOK, Ids
  <2>2. worklist = <<>> /\ cursor = 1 /\ required = seeds /\ next = 0 /\ added = 0
    BY DEF Inv, FillInv
  <2>3. Entries' = {id \in required : id < cursor}
    <3>1. Entries' = {}
      <4>1. worklist' = <<>> /\ Len(worklist') = 0
        BY <2>2
      <4> QED BY <4>1 DEF Entries
    <3>2. \A id \in required : id \in Nat
      BY DEF Inv, TypeOK, Ids
    <3> QED BY <2>1, <2>2, <3>1, <3>2
  <2> QED BY <1>1, <2>2, <2>3, GraphFixed DEF FillInv, Fail
<1>6. TakenInv'
  BY <1>1, GraphFixed DEF Inv, FillInv, TakenInv, Fail
<1>7. OnlyNeeded'
  BY <1>1, GraphFixed DEF Inv, OnlyNeeded
<1> QED BY <1>3, <1>4, <1>5, <1>6, <1>7 DEF Inv

\* Appending keeps the entries there are and adds one.
LEMMA PushEntries ==
  ASSUME NEW id \in Ids(btf), worklist \in Seq(Ids(btf)), cap \in Nat, Push(id)
  PROVE  /\ worklist' \in Seq(Ids(btf))
         /\ Len(worklist) \in Nat
         /\ Len(worklist') = Len(worklist) + 1
         /\ worklist'[Len(worklist) + 1] = id
         /\ \A k \in 1 .. Len(worklist) : worklist'[k] = worklist[k]
         /\ Entries' = Entries \cup {id}
         /\ Distinct /\ id \notin Entries => Distinct'
         /\ cap' \in Nat
<1>1. /\ worklist' = Append(worklist, id)
      /\ cap' \in Nat
  BY DEF Push
<1>2. /\ worklist' \in Seq(Ids(btf))
      /\ Len(worklist) \in Nat
      /\ Len(worklist') = Len(worklist) + 1
      /\ worklist'[Len(worklist) + 1] = id
      /\ \A k \in 1 .. Len(worklist) : worklist'[k] = worklist[k]
  BY <1>1
<1>3. Entries' = Entries \cup {id}
  <2>1. 1 .. Len(worklist') = (1 .. Len(worklist)) \cup {Len(worklist) + 1}
    BY <1>2
  <2> QED BY <1>2, <2>1 DEF Entries
<1>4. ASSUME Distinct, id \notin Entries PROVE Distinct'
  <2> SUFFICES ASSUME NEW j \in 1 .. Len(worklist'), NEW k \in 1 .. Len(worklist'),
                      worklist'[j] = worklist'[k]
               PROVE  j = k
    BY DEF Distinct
  <2>1. \A n \in 1 .. Len(worklist) : worklist[n] # id
    BY <1>4 DEF Entries
  <2>2. CASE j \in 1 .. Len(worklist) /\ k \in 1 .. Len(worklist)
    BY <1>2, <1>4, <2>2 DEF Distinct
  <2>3. CASE j = Len(worklist) + 1 \/ k = Len(worklist) + 1
    BY <1>2, <2>1, <2>3
  <2> QED BY <1>2, <2>2, <2>3
<1> QED BY <1>1, <1>2, <1>3, <1>4

LEMMA FillPreserves == ASSUME Inv, Fill PROVE Inv'
<1> USE DEF Fill
<1>1. UNCHANGED inputs  OBVIOUS
<1>2. TypeOK /\ btf \in BaseBtf /\ Len(btf) \in Nat
  BY BaseFacts DEF Inv
<1>3. PICK id \in required : /\ id >= cursor
                            /\ \A other \in required : other >= cursor => id <= other
                            /\ Push(id)
                            /\ cursor' = id + 1
  OBVIOUS
<1>4. id \in Ids(btf) /\ id \in Nat /\ cursor \in Nat
  BY <1>2, <1>3 DEF TypeOK, Ids, TypeCnt
<1>5. required = seeds /\ next = 0 /\ Entries = {i \in required : i < cursor}
  BY DEF Inv, FillInv
<1>6. id \notin Entries
  BY <1>3, <1>4, <1>5
<1>7. /\ worklist' \in Seq(Ids(btf)) /\ cap' \in Nat /\ Len(worklist') \in Nat
      /\ Entries' = Entries \cup {id} /\ Distinct'
  BY <1>2, <1>3, <1>4, <1>6, PushEntries DEF Inv, TypeOK
<1>8. TypeOK'
  <2>1. cursor' \in 1 .. TypeCnt(btf) /\ next' \in 0 .. Len(worklist')
    BY <1>2, <1>3, <1>4, <1>5, <1>7 DEF Ids, TypeCnt
  <2> QED BY <1>1, <1>2, <1>7, <2>1, GraphFixed DEF TypeOK
<1>9. FillInv'
  <2>1. Entries' = {i \in required : i < id + 1}
    <3>1. \A i \in required : i \in Nat
      BY <1>2 DEF TypeOK, Ids
    <3>2. \A i \in required : i < id + 1 <=> (i < cursor \/ i = id)
      BY <1>3, <1>4, <3>1
    <3> QED BY <1>3, <1>5, <1>7, <3>2
  <2> QED BY <1>1, <1>3, <2>1, GraphFixed DEF Inv, FillInv
<1>10. TakenInv' /\ OnlyNeeded' /\ (seeds \subseteq required)'
  BY <1>1, <1>5, GraphFixed DEF Inv, TakenInv, OnlyNeeded
<1> QED BY <1>7, <1>8, <1>9, <1>10 DEF Inv

LEMMA FilledInv == ASSUME Inv, Filled PROVE Inv'
<1> USE DEF Filled
<1>1. UNCHANGED inputs  OBVIOUS
<1>2. TypeOK /\ Len(btf) \in Nat
  BY BaseFacts DEF Inv
<1>3. TypeOK'
  BY <1>1, <1>2, GraphFixed DEF TypeOK, TypeCnt, Stages
<1>4. Distinct' /\ FillInv' /\ OnlyNeeded' /\ (seeds \subseteq required)'
  BY <1>1, GraphFixed DEF Inv, Distinct, FillInv, OnlyNeeded
<1>5. Entries' = Entries /\ Entries = required /\ next = 0
  BY DEF Inv, FillInv, Entries
<1>6. TakenInv'
  BY <1>1, <1>5, GraphFixed DEF TakenInv
<1> QED BY <1>3, <1>4, <1>6 DEF Inv

LEMMA TakePreserves == ASSUME Inv, Take PROVE Inv'
<1>1. UNCHANGED inputs
  BY DEF Take
<1>2. /\ TypeOK /\ btf \in BaseBtf /\ Len(btf) \in Nat
      /\ worklist \in Seq(Ids(btf)) /\ Len(worklist) \in Nat /\ next \in Nat
  <2>1. TypeOK /\ worklist \in Seq(Ids(btf)) /\ next \in 0 .. Len(worklist)
    BY DEF Inv, TypeOK
  <2> QED BY <2>1, BaseFacts
<1>3. next + 1 \in 1 .. Len(worklist) /\ next' = next + 1 /\ dep' = 0
  <2>1. next < Len(worklist) /\ next' = next + 1 /\ dep' = 0
    BY DEF Take
  <2> QED BY <1>2, <2>1
<1>4. worklist[next + 1] \in Ids(btf)
  BY <1>2, <1>3
<1>5. pc' = "deps" /\ UNCHANGED <<err, required, worklist, cap, cursor, added>>
  BY <1>4 DEF Take
<1>6. TypeOK'
  BY <1>1, <1>2, <1>3, <1>5, GraphFixed DEF TypeOK, Stages
<1>7. Distinct' /\ FillInv' /\ OnlyNeeded' /\ (seeds \subseteq required)'
  BY <1>1, <1>5, GraphFixed DEF Inv, Distinct, FillInv, OnlyNeeded
<1>8. TakenInv'
  <2>1. Entries' = Entries /\ Entries = required
    BY <1>5 DEF Inv, Take, TakenInv, Entries
  <2>2. Len(Deps(Current)') \in Nat
    <3>1. Current' \in Ids(btf)
      BY <1>3, <1>4, <1>5 DEF Current
    <3>2. Deps(Current') \in Seq(Nat)
      BY <1>2, <3>1, DepsType
    <3>3. Deps(Current)' = Deps(Current')
      BY <1>1, DepsOfNext
    <3> QED BY <3>2, <3>3
  <2>3. ASSUME NEW k \in 1 .. next', k < next' PROVE (Edges[worklist[k]] \subseteq required)'
    <3>1. k \in 1 .. next
      BY <1>2, <1>3, <2>3
    <3>2. Edges[worklist[k]] \subseteq required
      BY <3>1 DEF Inv, Take, TakenInv
    <3> QED BY <1>1, <1>5, <3>2, GraphFixed
  <2> QED BY <1>1, <1>3, <1>5, <2>1, <2>2, <2>3, GraphFixed DEF TakenInv
<1> QED BY <1>6, <1>7, <1>8 DEF Inv

\* While the dependencies of a type are added, the type is in the set and its
\* dependencies are its needs and void.
LEMMA CurrentFacts ==
  ASSUME Inv, pc = "deps"
  PROVE  /\ btf \in BaseBtf /\ Len(btf) \in Nat
         /\ next \in 1 .. Len(worklist) /\ Len(worklist) \in Nat
         /\ Current \in required /\ Current \in Ids(btf)
         /\ Deps(Current) \in Seq(Nat) /\ Len(Deps(Current)) \in Nat
         /\ Edges[Current] = {Deps(Current)[k] : k \in 1 .. Len(Deps(Current))} \ {Void}
         /\ dep < Len(Deps(Current)) =>
              /\ dep + 1 \in 1 .. Len(Deps(Current))
              /\ NextDep \in Nat
              /\ NextDep # Void => NextDep \in Edges[Current]
<1>1. btf \in BaseBtf /\ Len(btf) \in Nat
  BY BaseFacts DEF Inv
<1>2. next \in 1 .. Len(worklist) /\ Len(worklist) \in Nat /\ dep \in Nat
  BY DEF Inv, TypeOK, TakenInv
<1>3. Current \in required /\ Current \in Ids(btf)
  BY <1>2 DEF Inv, TypeOK, TakenInv, Entries, Current
<1>4. Deps(Current) \in Seq(Nat) /\ Len(Deps(Current)) \in Nat
  <2>1. Deps(Current) \in Seq(Nat)
    BY <1>1, <1>3, DepsType
  <2> QED BY <2>1
<1>5. Edges[Current] = {Deps(Current)[k] : k \in 1 .. Len(Deps(Current))} \ {Void}
  <2>1. Edges[Current] = Needs(Current)
    BY <1>3 DEF Edges
  <2> QED BY <1>1, <1>3, <2>1, DepsAreNeeds
<1>6. ASSUME dep < Len(Deps(Current))
      PROVE  /\ dep + 1 \in 1 .. Len(Deps(Current))
             /\ NextDep \in Nat
             /\ NextDep # Void => NextDep \in Edges[Current]
  <2>1. dep + 1 \in 1 .. Len(Deps(Current))
    BY <1>2, <1>4, <1>6
  <2>2. NextDep \in Nat
    BY <1>4, <2>1 DEF NextDep
  <2>3. NextDep # Void => NextDep \in Edges[Current]
    BY <1>5, <2>1 DEF NextDep
  <2> QED BY <2>1, <2>2, <2>3
<1> QED BY <1>1, <1>2, <1>3, <1>4, <1>5, <1>6

LEMMA SkipDepInv == ASSUME Inv, SkipDep PROVE Inv'
<1> USE DEF SkipDep
<1>1. UNCHANGED inputs /\ UNCHANGED Current
  BY DEF Current
<1>2. Deps(Current)' = Deps(Current)
  BY <1>1, SameDeps
<1>3. TypeOK'
  BY <1>1, GraphFixed DEF Inv, TypeOK
<1>4. Distinct' /\ FillInv' /\ OnlyNeeded' /\ (seeds \subseteq required)'
  BY <1>1, GraphFixed DEF Inv, Distinct, FillInv, OnlyNeeded
<1>5. TakenInv'
  <2>1. dep \in Nat /\ dep + 1 \in 1 .. Len(Deps(Current))
    BY CurrentFacts DEF Inv, TypeOK
  <2>2. \A j \in 1 .. dep + 1 : Deps(Current)[j] \in required \cup {Void}
    <3>1. \A j \in 1 .. dep + 1 : j \in 1 .. dep \/ j = dep + 1
      BY <2>1
    <3> QED BY <3>1 DEF Inv, TakenInv, NextDep
  <2>3. Entries' = Entries
    BY DEF Entries
  <2> QED BY <1>1, <1>2, <2>1, <2>2, <2>3, CurrentFacts, GraphFixed DEF Inv, TakenInv
<1> QED BY <1>3, <1>4, <1>5 DEF Inv

LEMMA RejectDepInv == ASSUME Inv, RejectDep PROVE Inv'
<1> USE DEF RejectDep, Fail
<1>1. UNCHANGED inputs  OBVIOUS
<1>2. TypeOK'
  BY <1>1, GraphFixed DEF Inv, TypeOK, Stages, Errors
<1>3. Distinct' /\ FillInv' /\ OnlyNeeded' /\ (seeds \subseteq required)'
  BY <1>1, GraphFixed DEF Inv, Distinct, FillInv, OnlyNeeded
<1>4. TakenInv'
  BY <1>1, GraphFixed DEF Inv, TakenInv
<1> QED BY <1>2, <1>3, <1>4 DEF Inv

LEMMA AddDepInv == ASSUME Inv, AddDep PROVE Inv'
<1> DEFINE d == NextDep
<1>1. /\ UNCHANGED inputs
      /\ pc = "deps" /\ dep < Len(Deps(Current))
      /\ d \in Ids(btf) \ required
      /\ required' = required \cup {d}
      /\ UNCHANGED <<cursor, next>>
  BY DEF AddDep
<1>2. /\ TypeOK /\ worklist \in Seq(Ids(btf)) /\ Len(worklist) \in Nat /\ cap \in Nat
      /\ Entries = required
  BY <1>1 DEF Inv, TypeOK, TakenInv
<1>3. d \in Edges[Current] /\ Current \in required
  BY <1>1, CurrentFacts DEF Void, Ids
<1>4. OnlyNeeded'
  <2> SUFFICES ASSUME NEW S \in SUBSET Ids(btf), seeds \subseteq S, Closed(S)
               PROVE  required' \subseteq S
    BY <1>1, GraphFixed DEF OnlyNeeded
  <2>1. required \subseteq S
    BY DEF Inv, OnlyNeeded
  <2>2. d \in S
    BY <1>3, <2>1 DEF Closed
  <2> QED BY <1>1, <2>1, <2>2
<1>5. (seeds \subseteq required)' /\ required' \subseteq Ids(btf)
  BY <1>1, <1>2, GraphFixed DEF Inv, TypeOK
<1>6. CASE Push(d) /\ added' = added + 1 /\ dep' = dep + 1 /\ UNCHANGED <<pc, err>>
  <2>1. d \in Ids(btf)
    BY <1>1
  <2>2. /\ worklist' \in Seq(Ids(btf)) /\ cap' \in Nat
        /\ Len(worklist') = Len(worklist) + 1
        /\ \A k \in 1 .. Len(worklist) : worklist'[k] = worklist[k]
        /\ Entries' = Entries \cup {d}
        /\ Distinct'
    BY <1>1, <1>2, <1>6, <2>1, PushEntries DEF Inv
  <2>3. next \in 1 .. Len(worklist) /\ dep \in Nat /\ added \in Nat
    BY <1>1, CurrentFacts DEF Inv, TypeOK
  <2>4. next' \in 0 .. Len(worklist')
    BY <1>1, <1>2, <2>2, <2>3
  <2>5. TypeOK'
    BY <1>1, <1>2, <1>5, <1>6, <2>2, <2>3, <2>4, GraphFixed DEF TypeOK
  <2>6. FillInv'
    BY <1>1, <1>6 DEF FillInv
  <2>7. Current' = Current
    BY <1>1, <2>2, <2>3 DEF Current
  <2>8. Deps(Current)' = Deps(Current)
    BY <1>1, <2>7, SameDeps
  <2>9. dep' \in 0 .. Len(Deps(Current))
    BY <1>1, <1>6, <2>3, CurrentFacts
  <2>10. ASSUME NEW j \in 1 .. dep'
         PROVE  Deps(Current)[j] \in required' \cup {Void}
    <3>1. j \in 1 .. dep \/ j = dep + 1
      BY <1>6, <2>3
    <3>2. CASE j \in 1 .. dep
      BY <1>1, <3>2 DEF Inv, TakenInv
    <3>3. CASE j = dep + 1
      BY <1>1, <3>3 DEF NextDep
    <3> QED BY <3>1, <3>2, <3>3
  <2>11. ASSUME NEW k \in 1 .. next', k < next'
         PROVE  (Edges[worklist[k]] \subseteq required)'
    <3>1. k \in 1 .. Len(worklist) /\ k \in 1 .. next /\ k < next
      BY <1>1, <1>2, <2>3, <2>11
    <3>2. Edges[worklist[k]] \subseteq required
      BY <3>1 DEF Inv, TakenInv
    <3> QED BY <1>1, <2>2, <3>1, <3>2, GraphFixed
  <2>12. next' \in 1 .. Len(worklist')
    BY <1>1, <1>2, <2>2, <2>3
  <2>13. TakenInv'
    BY <1>1, <1>2, <1>6, <2>2, <2>8, <2>9, <2>10, <2>11, <2>12 DEF TakenInv
  <2> QED BY <1>4, <1>5, <2>2, <2>5, <2>6, <2>13 DEF Inv
<1>7. CASE Fail("memory") /\ UNCHANGED <<worklist, cap, added, dep>>
  <2>1. TypeOK'
    BY <1>1, <1>2, <1>5, <1>7, GraphFixed DEF TypeOK, Fail, Stages, Errors
  <2>2. Distinct' /\ FillInv'
    BY <1>7 DEF Inv, Distinct, FillInv, Fail
  <2>3. ASSUME NEW k \in 1 .. next', k < next'
        PROVE  (Edges[worklist[k]] \subseteq required)'
    <3>1. Edges[worklist[k]] \subseteq required
      BY <1>1, <2>3 DEF Inv, TakenInv
    <3> QED BY <1>1, <1>7, <3>1, GraphFixed
  <2>4. TakenInv'
    BY <1>7, <2>3 DEF TakenInv, Fail
  <2> QED BY <1>4, <1>5, <2>1, <2>2, <2>4 DEF Inv
<1> QED BY <1>6, <1>7 DEF AddDep

LEMMA DepsDoneInv == ASSUME Inv, DepsDone PROVE Inv'
<1> USE DEF DepsDone
<1>1. UNCHANGED inputs  OBVIOUS
<1>2. TypeOK'
  BY <1>1, GraphFixed DEF Inv, TypeOK, Stages
<1>3. Distinct' /\ FillInv' /\ OnlyNeeded' /\ (seeds \subseteq required)'
  BY <1>1, GraphFixed DEF Inv, Distinct, FillInv, OnlyNeeded
<1>4. Entries' = Entries
  BY DEF Entries
<1>5. Edges[Current] \subseteq required
  <2>1. \A k \in 1 .. Len(Deps(Current)) : Deps(Current)[k] \in required \cup {Void}
    BY DEF Inv, TakenInv
  <2> QED BY <2>1, CurrentFacts
<1>6. ASSUME NEW k \in 1 .. next PROVE Edges[worklist[k]] \subseteq required
  <2>1. k < next \/ k = next
    BY CurrentFacts
  <2> QED BY <1>5, <2>1 DEF Inv, TakenInv, Current
<1>7. TakenInv'
  BY <1>1, <1>4, <1>6, GraphFixed DEF Inv, TakenInv
<1> QED BY <1>2, <1>3, <1>7 DEF Inv

LEMMA ReturnInv == ASSUME Inv, Return PROVE Inv'
<1> USE DEF Return
<1>1. UNCHANGED inputs  OBVIOUS
<1>2. TypeOK'
  BY <1>1, GraphFixed DEF Inv, TypeOK, Stages
<1>3. Distinct' /\ FillInv' /\ OnlyNeeded' /\ (seeds \subseteq required)'
  BY <1>1, GraphFixed DEF Inv, Distinct, FillInv, OnlyNeeded
<1>4. Entries' = Entries
  BY DEF Entries
<1>5. next = Len(worklist)
  BY DEF Inv, TypeOK
<1>6. TakenInv'
  BY <1>1, <1>4, <1>5, GraphFixed DEF Inv, TakenInv
<1> QED BY <1>2, <1>3, <1>6 DEF Inv

LEMMA StutterInv == ASSUME Inv, UNCHANGED vars PROVE Inv'
<1>1. UNCHANGED inputs /\ UNCHANGED <<required, worklist, cap, cursor, next, dep, added, pc, err>>
  BY DEF vars
<1>2. TypeOK' /\ Distinct' /\ OnlyNeeded' /\ (seeds \subseteq required)'
  BY <1>1, GraphFixed DEF Inv, TypeOK, Distinct, OnlyNeeded
<1>3. Entries' = Entries /\ Current' = Current
  BY <1>1 DEF Entries, Current
<1>4. Deps(Current)' = Deps(Current)
  BY <1>1, <1>3, SameDeps
<1>5. FillInv'
  BY <1>1, <1>3, GraphFixed DEF Inv, FillInv
<1>6. TakenInv'
  BY <1>1, <1>3, <1>4, GraphFixed DEF Inv, TakenInv
<1> QED BY <1>2, <1>5, <1>6 DEF Inv

\* The set, the worklist and the cursors stay in step (closure.c:20-215).
THEOREM Invariance == Spec => []Inv
<1>1. Init => Inv
  BY InitInv
<1>2. Inv /\ [Next]_vars => Inv'
  BY AllocateInv, FillPreserves, FilledInv, TakePreserves, SkipDepInv, RejectDepInv,
     AddDepInv, DepsDoneInv, ReturnInv, StutterInv DEF Next
<1> QED BY <1>1, <1>2, PTL DEF Spec

\* Every state of closure.c is of its type: ids stay below btf__type_cnt, the
\* worklist holds ids only, next never passes the last entry.
THEOREM TypeCorrect == Spec => []TypeOK
<1>1. Inv => TypeOK  BY DEF Inv
<1> QED BY <1>1, Invariance, PTL

\* A closure that returns success is closed: every id that the definition of a
\* required type needs is required (the loop of closure.c:197-211).
THEOREM SuccessIsClosed == Spec => []ClosedWhenOk
<1>1. Inv => ClosedWhenOk
  <2> SUFFICES ASSUME Inv, pc = "ok" PROVE Closed(required)
    BY DEF ClosedWhenOk, Inv
  <2>1. \A k \in 1 .. Len(worklist) : Edges[worklist[k]] \subseteq required
    BY DEF Inv, TakenInv
  <2>2. Entries = required
    BY DEF Inv, TakenInv
  <2> QED BY <2>1, <2>2 DEF Closed, Entries
<1> QED BY <1>1, Invariance, PTL

\* The closure holds nothing that some closed set around the seeds does without:
\* with SuccessIsClosed, the result is the least closed set around the seeds.
THEOREM NothingUnneeded == Spec => []OnlyNeeded
<1>1. Inv => OnlyNeeded  BY DEF Inv
<1> QED BY <1>1, Invariance, PTL

\* The worklist and the bit set, updated apart, always name the same ids.
THEOREM WorklistMatchesSet == Spec => []WorklistIsSet
<1>1. Inv => WorklistIsSet  BY DEF Inv, TakenInv, WorklistIsSet
<1> QED BY <1>1, Invariance, PTL

\* "invalid type id" comes from a required type, and the missing-type error of
\* closure.c:202-206 cannot happen.
THEOREM ReportedFailuresAreReal == Spec => []FailuresAreReal
<1> DEFINE Both == Inv /\ FailuresAreReal
<1>1. Init => Both
  BY InitInv DEF Init, FailuresAreReal
<1>2. Both /\ [Next]_vars => Both'
  <2> SUFFICES ASSUME Inv, FailuresAreReal, [Next]_vars PROVE FailuresAreReal'
    BY InitInv, AllocateInv, FillPreserves, FilledInv, TakePreserves, SkipDepInv,
       RejectDepInv, AddDepInv, DepsDoneInv, ReturnInv, StutterInv DEF Next
  <2>1. CASE RejectDep
    <3>1. NextDep \in Edges[Current] /\ Current \in required /\ NextDep \notin Ids(btf)
      <4>1. /\ pc = "deps" /\ dep < Len(Deps(Current))
            /\ NextDep >= Len(btf) + 1 /\ Len(btf) \in Nat
        BY <2>1, BaseFacts DEF RejectDep, TypeCnt, Inv
      <4>2. NextDep \in Nat /\ NextDep # Void /\ NextDep \notin Ids(btf)
        <5>1. NextDep \in Nat
          BY <4>1, CurrentFacts
        <5> QED BY <4>1, <5>1 DEF Void, Ids
      <4> QED BY <4>1, <4>2, CurrentFacts
    <3>2. UNCHANGED inputs /\ UNCHANGED required /\ err' = "invalid id"
      BY <2>1 DEF RejectDep, Fail
    <3> QED BY <3>1, <3>2, GraphFixed DEF FailuresAreReal
  <2>2. CASE Take
    <3>1. worklist[next + 1] \in Ids(btf) /\ UNCHANGED <<err, required, inputs>>
      <4>1. /\ worklist \in Seq(Ids(btf)) /\ Len(worklist) \in Nat
            /\ next \in Nat /\ next < Len(worklist)
        <5>1. worklist \in Seq(Ids(btf)) /\ next \in 0 .. Len(worklist) /\ next < Len(worklist)
          BY <2>2 DEF Inv, TypeOK, Take
        <5> QED BY <5>1
      <4>2. worklist[next + 1] \in Ids(btf)
        BY <4>1
      <4> QED BY <2>2, <4>2 DEF Take
    <3> QED BY <3>1, GraphFixed DEF FailuresAreReal
  <2>3. CASE Allocate \/ Fill \/ Filled \/ SkipDep \/ DepsDone \/ Return \/ UNCHANGED vars
    <3>1. UNCHANGED <<required, inputs>> /\ (UNCHANGED err \/ err' = "memory")
      BY <2>3 DEF Allocate, Fill, Filled, SkipDep, DepsDone, Return, vars, Fail
    <3> QED BY <3>1, GraphFixed DEF FailuresAreReal
  <2>4. CASE AddDep
    <3>1. required \subseteq required' /\ UNCHANGED inputs /\ (UNCHANGED err \/ err' = "memory")
      BY <2>4 DEF AddDep, Fail
    <3> QED BY <3>1, GraphFixed DEF FailuresAreReal
  <2> QED BY <2>1, <2>2, <2>3, <2>4 DEF Next
<1> QED BY <1>1, <1>2, PTL DEF Spec

(***************************************************************************)
(* The worklist implements the abstract closure: Take, Fill and the rest   *)
(* stutter, AddDep grows the set along an edge, Return finishes.           *)
(***************************************************************************)
LEMMA NodesAreIds == Abstract!Node = Ids(btf)
BY DEF Abstract!Node, Edges

THEOREM Refinement == Spec => ImplementsClosure
<1>1. Init => Abstract!Init
  BY InitInv, NodesAreIds DEF Init, Abstract!Init, Outcome
<1>2. Inv /\ [Next]_vars => [Abstract!Next]_Abstract!vars
  <2> SUFFICES ASSUME Inv, [Next]_vars PROVE [Abstract!Next]_Abstract!vars
    OBVIOUS
  <2>1. CASE Allocate
    <3>1. UNCHANGED inputs /\ UNCHANGED required /\ Outcome = "running"
      BY <2>1 DEF Allocate, Outcome
    <3>2. Outcome' = "running" \/ Outcome' = "error"
      BY <2>1 DEF Allocate, Outcome, Fail
    <3> QED BY <3>1, <3>2, GraphFixed DEF Abstract!vars, Abstract!Next, Abstract!GiveUp
  <2>2. CASE Fill \/ Filled \/ SkipDep \/ DepsDone \/ UNCHANGED vars
    <3>1. UNCHANGED inputs /\ UNCHANGED required /\ UNCHANGED Outcome
      BY <2>2 DEF Fill, Filled, SkipDep, DepsDone, vars, Outcome
    <3> QED BY <3>1, GraphFixed DEF Abstract!vars
  <2>3. CASE Take \/ RejectDep
    <3>1. UNCHANGED inputs /\ UNCHANGED required /\ Outcome = "running"
      BY <2>3 DEF Take, RejectDep, Outcome
    <3>2. Outcome' = "running" \/ Outcome' = "error"
      BY <2>3 DEF Take, RejectDep, Outcome, Fail
    <3> QED BY <3>1, <3>2, GraphFixed DEF Abstract!vars, Abstract!Next, Abstract!GiveUp
  <2>4. CASE AddDep
    <3>1. /\ UNCHANGED inputs /\ Outcome = "running"
          /\ NextDep \in Ids(btf) \ required
          /\ required' = required \cup {NextDep}
      BY <2>4 DEF AddDep, Outcome
    <3>2. NextDep \in Edges[Current] /\ Current \in required
      BY <2>4, CurrentFacts DEF AddDep, Void, Ids
    <3>3. Outcome' = "running" \/ Outcome' = "error"
      BY <2>4 DEF AddDep, Outcome, Fail
    <3> QED BY <3>1, <3>2, <3>3, NodesAreIds, GraphFixed
            DEF Abstract!vars, Abstract!Next, Abstract!GiveUp, Abstract!Grow
  <2>5. CASE Return
    <3>1. UNCHANGED inputs /\ UNCHANGED required /\ Outcome = "running" /\ Outcome' = "ok"
      BY <2>5 DEF Return, Outcome
    <3>2. Closed(required)
      <4>1. Inv' /\ pc' = "ok"
        BY <2>5, ReturnInv DEF Return
      <4>2. \A k \in 1 .. Len(worklist) : Edges[worklist[k]] \subseteq required
        <5>1. next = Len(worklist)
          BY <2>5 DEF Inv, TypeOK, Return
        <5> QED BY <2>5, <5>1 DEF Inv, TakenInv, Return
      <4>3. Entries = required
        BY <2>5 DEF Inv, TakenInv, Return
      <4> QED BY <4>2, <4>3 DEF Closed, Entries
    <3> QED BY <3>1, <3>2, GraphFixed
            DEF Closed, Abstract!vars, Abstract!Next, Abstract!Finish, Abstract!ClosedUnder
  <2> QED BY <2>1, <2>2, <2>3, <2>4, <2>5 DEF Next
<1> QED BY <1>1, <1>2, Invariance, PTL DEF Spec, ImplementsClosure, Abstract!Spec

(***************************************************************************)
(* The counters.  Until the function fails, required has added ids more    *)
(* than the seeds; the worklist fits its array because the array starts    *)
(* with room for the whole set and doubles before it overflows.            *)
(***************************************************************************)
CountInv ==
  /\ pc # "error" => Cardinality(required) = Cardinality(seeds) + added
  /\ Len(worklist) <= cap
  /\ pc \in {"fill", "take", "deps"} => cap >= 1
  /\ pc = "fill" => /\ Len(worklist) = Cardinality(Entries)
                    /\ Cardinality(required) <= cap

LEMMA Finiteness ==
  ASSUME TypeOK
  PROVE  /\ IsFiniteSet(required) /\ Cardinality(required) \in Nat
         /\ IsFiniteSet(seeds) /\ Cardinality(seeds) \in Nat
<1>1. Len(btf) \in Nat
  BY BaseFacts
<1>2. IsFiniteSet(1 .. Len(btf))
  BY <1>1, FS_Interval
<1>3. IsFiniteSet(required) /\ IsFiniteSet(seeds)
  BY <1>2, FS_Subset DEF TypeOK, Ids
<1> QED BY <1>3, FS_CardinalityType

LEMMA InitCount == Init => CountInv
<1> SUFFICES ASSUME Init PROVE CountInv
  OBVIOUS
<1>1. Cardinality(seeds) \in Nat
  BY InitInv, Finiteness DEF Inv
<1> QED BY <1>1 DEF Init, CountInv

LEMMA FillCount == ASSUME Inv, CountInv, Fill PROVE CountInv'
<1>1. PICK id \in required : id >= cursor /\ Push(id)
  BY DEF Fill
<1>2. /\ pc = "fill" /\ UNCHANGED inputs
      /\ UNCHANGED <<required, next, dep, added, pc, err>>
  BY DEF Fill
<1>3. TypeOK /\ worklist \in Seq(Ids(btf)) /\ cap \in Nat /\ id \in Ids(btf) /\ id \in Nat
      /\ cursor \in Nat
  <2>1. TypeOK /\ worklist \in Seq(Ids(btf)) /\ cap \in Nat /\ id \in Ids(btf)
    BY DEF Inv, TypeOK
  <2>2. id \in Nat /\ cursor \in Nat
    BY <2>1 DEF Ids, TypeOK
  <2> QED BY <2>1, <2>2
<1>4. Len(worklist') = Len(worklist) + 1 /\ Entries' = Entries \cup {id} /\ Len(worklist) \in Nat
  BY <1>1, <1>3, PushEntries
<1>5. Entries = {i \in required : i < cursor}
  BY <1>2 DEF Inv, FillInv
<1>6. id \notin Entries /\ Entries \subseteq required
  BY <1>1, <1>3, <1>5
<1>7. IsFiniteSet(Entries) /\ IsFiniteSet(required)
  BY <1>3, <1>6, Finiteness, FS_Subset
<1>8. Cardinality(Entries') = Cardinality(Entries) + 1
  BY <1>4, <1>6, <1>7, FS_AddElement
<1>9. Cardinality(Entries') <= Cardinality(required)
  <2>1. Entries' \subseteq required
    BY <1>4, <1>6
  <2> QED BY <1>7, <2>1, FS_Subset
<1>10. Len(worklist) = Cardinality(Entries) /\ Cardinality(required) <= cap
  BY <1>2 DEF CountInv
<1>11. cap' = cap
  <2>1. Cardinality(required) \in Nat
    BY <1>3, Finiteness
  <2>2. Len(worklist) # cap
    BY <1>3, <1>4, <1>8, <1>9, <1>10, <2>1
  <2> QED BY <1>1, <2>2 DEF Push
<1>12. Len(worklist') <= cap'
  <2>1. Cardinality(required) \in Nat
    BY <1>3, Finiteness
  <2> QED BY <1>3, <1>4, <1>8, <1>9, <1>10, <1>11, <2>1
<1> QED BY <1>2, <1>4, <1>8, <1>10, <1>11, <1>12, GraphFixed DEF CountInv

LEMMA AllocateCount == ASSUME Inv, CountInv, Allocate PROVE CountInv'
<1>1. UNCHANGED inputs /\ UNCHANGED <<required, worklist, added>> /\ pc = "init"
  BY DEF Allocate
<1>2. worklist = <<>> /\ Len(worklist) = 0
  BY <1>1 DEF Inv, FillInv
<1>3. Cardinality(required) \in Nat
  BY Finiteness DEF Inv
<1>4. Entries' = {}
  <2>1. worklist' = <<>> /\ Len(worklist') = 0
    BY <1>1, <1>2
  <2> QED BY <2>1 DEF Entries
<1>5. CASE cap' = Maximum(MinCap, Cardinality(required)) /\ pc' = "fill"
  <2>1. cap' >= 1 /\ Cardinality(required) <= cap' /\ 0 <= cap'
    BY <1>3, <1>5, MinCapAssumption DEF Maximum
  <2>2. Cardinality(Entries') = 0
    BY <1>4, FS_EmptySet
  <2> QED BY <1>1, <1>2, <1>5, <2>1, <2>2, GraphFixed DEF CountInv
<1>6. CASE Fail("memory") /\ UNCHANGED cap
  BY <1>1, <1>6 DEF CountInv, Fail
<1> QED BY <1>5, <1>6 DEF Allocate

LEMMA AddDepCount == ASSUME Inv, CountInv, AddDep PROVE CountInv'
<1>1. /\ UNCHANGED inputs /\ pc = "deps" /\ NextDep \in Ids(btf) \ required
      /\ required' = required \cup {NextDep}
  BY DEF AddDep
<1>2. TypeOK /\ worklist \in Seq(Ids(btf)) /\ cap \in Nat /\ added \in Nat
  BY DEF Inv, TypeOK
<1>3. Cardinality(required') = Cardinality(required) + 1
  BY <1>1, <1>2, Finiteness, FS_AddElement
<1>4. CASE Push(NextDep) /\ added' = added + 1 /\ UNCHANGED <<pc, err>>
  <2>1. Len(worklist') = Len(worklist) + 1 /\ Len(worklist) \in Nat
    BY <1>1, <1>2, <1>4, PushEntries
  <2>2. cap >= 1 /\ Len(worklist) <= cap
    BY <1>1 DEF CountInv
  <2>3. cap' = IF Len(worklist) = cap THEN 2 * cap ELSE cap
    BY <1>4 DEF Push
  <2>4. cap' >= 1 /\ Len(worklist') <= cap'
    BY <1>2, <2>1, <2>2, <2>3
  <2>5. Cardinality(required') = Cardinality(seeds) + added'
    <3>1. Cardinality(required) = Cardinality(seeds) + added /\ Cardinality(seeds) \in Nat
      BY <1>1, <1>2, Finiteness DEF CountInv
    <3> QED BY <1>2, <1>3, <1>4, <3>1
  <2> QED BY <1>1, <1>4, <2>4, <2>5, GraphFixed DEF CountInv
<1>5. CASE Fail("memory") /\ UNCHANGED <<worklist, cap, added, dep>>
  BY <1>5 DEF CountInv, Fail
<1> QED BY <1>4, <1>5 DEF AddDep

LEMMA OtherCount ==
  ASSUME Inv, CountInv,
         Filled \/ Take \/ SkipDep \/ RejectDep \/ DepsDone \/ Return \/ UNCHANGED vars
  PROVE  CountInv'
<1>1. UNCHANGED inputs /\ UNCHANGED <<required, worklist, cap, added>> /\ Entries' = Entries
  BY DEF Filled, Take, SkipDep, RejectDep, DepsDone, Return, vars, Entries
<1>2. \/ UNCHANGED pc
      \/ pc \in {"fill", "take", "deps"} /\ pc' \in {"take", "deps", "ok", "error"}
  BY DEF Filled, Take, SkipDep, RejectDep, DepsDone, Return, vars, Fail
<1> QED BY <1>1, <1>2, GraphFixed DEF CountInv

LEMMA Counting == Spec => []CountInv
<1>1. Init => CountInv
  BY InitCount
<1>2. Inv /\ CountInv /\ [Next]_vars => CountInv'
  BY AllocateCount, FillCount, AddDepCount, OtherCount DEF Next
<1> QED BY <1>1, <1>2, Invariance, PTL DEF Spec

\* closure additions and required types, as --stats prints them, agree
\* (closure.c:81, type_set.c:67).
THEOREM StatsAreExact == Spec => []CountsAreExact
<1>1. CountInv => CountsAreExact  BY DEF CountInv, CountsAreExact
<1> QED BY <1>1, Counting, PTL

\* No entry is ever stored past the end of the worklist's array, and filling it
\* from the set never needs the array to grow (closure.c:44-64, 186-195).
THEOREM WorklistFits == Spec => []FitsCapacity
<1>1. Inv /\ CountInv => FitsCapacity
  <2> SUFFICES ASSUME Inv, CountInv, pc = "fill", NEW id \in required, id >= cursor
               PROVE  Len(worklist) < cap
    BY DEF CountInv, FitsCapacity
  <2>1. TypeOK /\ cap \in Nat /\ id \in Nat /\ cursor \in Nat
    BY DEF Inv, TypeOK, Ids, TypeCnt
  <2>2. Entries = {i \in required : i < cursor}
    BY DEF Inv, FillInv
  <2>3. Entries \subseteq required /\ Entries # required
    BY <2>1, <2>2
  <2>4. IsFiniteSet(required) /\ Cardinality(required) \in Nat
    BY <2>1, Finiteness
  <2>5. Cardinality(Entries) \in Nat /\ Cardinality(Entries) < Cardinality(required)
    BY <2>3, <2>4, FS_Subset, FS_CardinalityType
  <2> QED BY <2>1, <2>4, <2>5 DEF CountInv
<1> QED BY <1>1, Counting, Invariance, PTL
=============================================================================
