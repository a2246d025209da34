-------------------------- MODULE EmitterProofs --------------------------
(***************************************************************************)
(* Proofs about Emitter and Generate for any BTF: whatever way the         *)
(* recursion comes back to a type, it is defined once, every required      *)
(* definition is printed before success is reported, a cycle is reported   *)
(* only where C has no order of the declarations either, the printing      *)
(* changes nothing of what the closure has left, and the whole run is a    *)
(* run of Header: every declaration is printed behind all that it needs.   *)
(***************************************************************************)
EXTENDS Generate, RecursionProofs, SequenceTheorems

\* The entries that print a text, which stand for an active call each.
Marks == {"define record", "define typedef"}

Once(calls) == \A j, k \in DOMAIN calls : calls[j] = calls[k] /\ calls[j][1] \in Marks => j = k

\* A call is made for a type of its kind only.
WellCalled(c) ==
  /\ c \in Calls \X Nat
  /\ c[1] \in {"soft", "hard"} \/ c[2] \in Ids(btf)
  /\ c[1] = "forward" => btf[c[2]].kind \in TaggedKinds
  /\ c[1] = "enum" => btf[c[2]].kind \in EnumKinds
  /\ c[1] \in {"record", "define record"} => IsNamedRecord(c[2])
  /\ c[1] \in {"typedef", "define typedef"} => btf[c[2]].kind = "TYPEDEF"
  /\ c[1] = "define typedef" => IsNamed(c[2])

\* The loop has come past the id.
Passed(l, id) == l < loop \/ (l = loop /\ id < cursor)

\* What has become of a required id that its loop has come past.
Reached(call, id) ==
  \/ <<call, id>> \in ToSet(todo)
  \/ call = "forward" /\ fwdState[id] = 1
  \/ call = "enum" /\ <<"enum", id>> \in Printed
  \/ call = "record" /\ recordState[id] # 0
  \/ call = "typedef" /\ (typedefState[id] # 0 \/ ~ IsNamed(id))

Data == /\ btf \in BaseBtf /\ name \in [Ids(btf) -> Nat]
        /\ pc = "allocate" => loop = 1 /\ cursor = 1
        /\ pc \in {"emit", "ok"} => required \subseteq Ids(btf)
        /\ loop > Len(Loops) => todo = <<>>
        /\ pc = "ok" => loop > Len(Loops)

\* A definition is active exactly while the entry that prints it is to come.
Active ==
  /\ \A c \in ToSet(todo) : WellCalled(c)
  /\ Once(todo)
  /\ \A id \in Ids(btf) :
       /\ recordState[id] = 1 <=> <<"define record", id>> \in ToSet(todo)
       /\ typedefState[id] = 1 <=> <<"define typedef", id>> \in ToSet(todo)

\* The states tell what is printed; the enums, that have none, are printed by their loop.
StatesMatch ==
  \A id \in Ids(btf) :
    /\ fwdState[id] = 1 <=> <<"tag", id>> \in Printed
    /\ recordState[id] = 2 <=> <<"record", id>> \in Printed
    /\ typedefState[id] = 2 <=> <<"typedef", id>> \in Printed
    /\ <<"enum", id>> \in Printed => Passed(2, id)
    /\ <<"enum", id>> \in ToSet(todo) => /\ todo = <<<<"enum", id>>>>
                                         /\ Passed(2, id) /\ <<"enum", id>> \notin Printed

RootsReached == \A l \in DOMAIN Loops : \A id \in Group(Loops[l]) :
                  Passed(l, id) => Reached(Loops[l], id)

Inv == /\ TypeOK /\ Data /\ Active /\ StatesMatch /\ DefinedOnce
       /\ pc \in {"emit", "ok"} => RootsReached

\* Success means that every definition the required types call for is printed
\* (emitter.c:771-830, the four loops).
GoalIsPrinted == pc = "ok" => CGoal \subseteq Printed

-----------------------------------------------------------------------------
\* The sequence of calls

LEMMA Concatenation ==
  ASSUME NEW E, NEW c \in Seq(E), NEW t \in Seq(E)
  PROVE  c \o t \in Seq(E) /\ ToSet(c \o t) = ToSet(c) \cup ToSet(t)
<1> DEFINE r == c \o t
<1>1. r \in Seq(E) /\ Len(c) \in Nat /\ Len(t) \in Nat
  OBVIOUS
<1>2. /\ \A i \in DOMAIN c : i \in DOMAIN r /\ r[i] = c[i]
      /\ \A i \in DOMAIN r : i \notin DOMAIN c => i - Len(c) \in DOMAIN t /\ r[i] = t[i - Len(c)]
  OBVIOUS
<1>3. \A i \in DOMAIN t : i + Len(c) \in DOMAIN r /\ r[i + Len(c)] = t[i]
  OBVIOUS
<1> HIDE DEF r
<1>4. \A i \in DOMAIN r : r[i] \in ToSet(c) \cup ToSet(t)
  BY <1>2 DEF ToSet
<1>5. (\A i \in DOMAIN c : c[i] \in ToSet(r)) /\ (\A i \in DOMAIN t : t[i] \in ToSet(r))
  BY <1>2, <1>3 DEF ToSet
<1>6. ToSet(r) = ToSet(c) \cup ToSet(t)
  BY <1>4, <1>5 DEF ToSet
<1> QED BY <1>1, <1>6 DEF r

\* A sequence whose first entry is replaced by others.
LEMMA Replacing ==
  ASSUME NEW E, NEW s \in Seq(E), s # <<>>, NEW c \in Seq(E)
  PROVE  /\ Tail(s) \in Seq(E) /\ c \o Tail(s) \in Seq(E) /\ Head(s) \in E
         /\ ToSet(s) = {Head(s)} \cup ToSet(Tail(s))
         /\ ToSet(c \o Tail(s)) = ToSet(c) \cup ToSet(Tail(s))
<1> DEFINE t == Tail(s)
<1>1. /\ t \in Seq(E) /\ Len(s) \in Nat \ {0} /\ Len(t) = Len(s) - 1 /\ Head(s) = s[1]
      /\ DOMAIN s = 1 .. Len(s) /\ DOMAIN t = 1 .. Len(t) /\ s[1] \in E
      /\ \A i \in DOMAIN t : t[i] = s[i + 1]
  OBVIOUS
<1>2. ToSet(s) = {s[1]} \cup ToSet(t)
  <2>1. ASSUME NEW i \in DOMAIN s PROVE s[i] \in {s[1]} \cup ToSet(t)
    <3>1. CASE i = 1
      BY <3>1
    <3>2. CASE i # 1
      <4>1. i - 1 \in DOMAIN t /\ t[i - 1] = s[i]
        BY <1>1, <3>2
      <4> QED BY <4>1 DEF ToSet
    <3> QED BY <3>1, <3>2
  <2>2. \A i \in DOMAIN t : t[i] \in ToSet(s)
    BY <1>1 DEF ToSet
  <2>3. s[1] \in ToSet(s)
    BY <1>1 DEF ToSet
  <2> QED BY <2>1, <2>2, <2>3 DEF ToSet
<1> HIDE DEF t
<1>3. c \o t \in Seq(E) /\ ToSet(c \o t) = ToSet(c) \cup ToSet(t)
  BY <1>1, Concatenation
<1> QED BY <1>1, <1>2, <1>3 DEF t

LEMMA OnceTail ==
  ASSUME NEW E, NEW s \in Seq(E), s # <<>>, Once(s)
  PROVE  Once(Tail(s)) /\ (Head(s)[1] \in Marks => Head(s) \notin ToSet(Tail(s)))
<1> DEFINE t == Tail(s)
<1>1. /\ Len(s) \in Nat \ {0} /\ Head(s) = s[1] /\ DOMAIN s = 1 .. Len(s) /\ 1 \in DOMAIN s
      /\ \A i \in DOMAIN t : t[i] = s[i + 1] /\ i + 1 \in DOMAIN s /\ i \in Nat \ {0}
  OBVIOUS
<1> HIDE DEF t
<1>2. Once(t)
  BY <1>1 DEF Once
<1>3. ASSUME s[1][1] \in Marks, NEW i \in DOMAIN t, t[i] = s[1] PROVE FALSE
  BY <1>1, <1>3 DEF Once
<1> QED BY <1>1, <1>2, <1>3 DEF ToSet, t

LEMMA OnceConcat ==
  ASSUME NEW E, NEW c \in Seq(E), NEW t \in Seq(E), Once(c), Once(t),
         \A x \in ToSet(c) : x[1] \in Marks => x \notin ToSet(t)
  PROVE  Once(c \o t)
<1> DEFINE r == c \o t
<1>1. /\ Len(c) \in Nat /\ DOMAIN c = 1 .. Len(c) /\ DOMAIN t = 1 .. Len(t)
      /\ \A i \in DOMAIN r : i \in Nat
      /\ \A i \in DOMAIN r : i \in DOMAIN c => r[i] = c[i]
      /\ \A i \in DOMAIN r : i \notin DOMAIN c => i - Len(c) \in DOMAIN t /\ r[i] = t[i - Len(c)]
  OBVIOUS
<1> HIDE DEF r
<1> SUFFICES ASSUME NEW j \in DOMAIN r, NEW k \in DOMAIN r, r[j] = r[k], r[j][1] \in Marks
             PROVE  j = k
  BY DEF Once, r
<1>2. CASE j \in DOMAIN c /\ k \in DOMAIN c
  BY <1>1, <1>2 DEF Once
<1>3. CASE j \notin DOMAIN c /\ k \notin DOMAIN c
  <2>1. j - Len(c) = k - Len(c)
    BY <1>1, <1>3 DEF Once
  <2> QED BY <1>1, <2>1
<1>4. CASE j \in DOMAIN c /\ k \notin DOMAIN c
  <2>1. r[j] \in ToSet(c) /\ r[k] \in ToSet(t)
    BY <1>1, <1>4 DEF ToSet
  <2> QED BY <2>1
<1>5. CASE j \notin DOMAIN c /\ k \in DOMAIN c
  <2>1. r[k] \in ToSet(c) /\ r[j] \in ToSet(t)
    BY <1>1, <1>5 DEF ToSet
  <2> QED BY <2>1
<1> QED BY <1>2, <1>3, <1>4, <1>5

\* Calls that print nothing of their own may occur any number of times.
LEMMA OnceUnmarked ==
  ASSUME NEW c, \A i \in DOMAIN c : c[i][1] \notin Marks
  PROVE  Once(c)
BY DEF Once

LEMMA OnceSingle == ASSUME NEW x PROVE Once(<<x>>) /\ ToSet(<<x>>) = {x}
BY DEF Once, ToSet

LEMMA Appending ==
  ASSUME NEW E, NEW s \in Seq(E), NEW x
  PROVE  /\ ToSet(Append(s, x)) = ToSet(s) \cup {x}
         /\ x \in E => Append(s, x) \in Seq(E)
         /\ x \notin ToSet(s) /\ (\A j, k \in DOMAIN s : s[j] = s[k] => j = k) =>
              \A j, k \in DOMAIN Append(s, x) : Append(s, x)[j] = Append(s, x)[k] => j = k
<1> DEFINE r == Append(s, x)   n == Len(s) + 1
<1>1. /\ DOMAIN s = 1 .. Len(s) /\ DOMAIN r = DOMAIN s \cup {n} /\ n \notin DOMAIN s
      /\ r[n] = x /\ \A i \in DOMAIN s : r[i] = s[i]
  OBVIOUS
<1>2. x \in E => r \in Seq(E)
  OBVIOUS
<1> HIDE DEF r, n
<1>3. ToSet(r) = ToSet(s) \cup {x}
  BY <1>1 DEF ToSet
<1>4. ASSUME x \notin ToSet(s), \A j, k \in DOMAIN s : s[j] = s[k] => j = k
      PROVE  \A j, k \in DOMAIN r : r[j] = r[k] => j = k
  <2>1. \A i \in DOMAIN s : s[i] # x
    BY <1>4 DEF ToSet
  <2> QED BY <1>1, <1>4, <2>1
<1> QED BY <1>2, <1>3, <1>4 DEF r

-----------------------------------------------------------------------------
\* What the calls make

LEMMA BtfFields ==
  ASSUME btf \in BaseBtf, NEW id \in Ids(btf)
  PROVE  btf[id].kind \in Kinds /\ btf[id].type \in Nat /\ btf[id].parts \in Seq(Nat)
<1>1. btf[id] \in BtfType
  BY DEF BaseBtf, Ids
<1> QED BY <1>1 DEF BtfType

LEMMA LoopNames ==
  /\ DOMAIN Loops = 1 .. 4 /\ Len(Loops) = 4
  /\ Loops[1] = "forward" /\ Loops[2] = "enum" /\ Loops[3] = "typedef" /\ Loops[4] = "record"
  /\ \A l \in DOMAIN Loops : Loops[l] \in {"forward", "enum", "typedef", "record"}
BY DEF Loops

\* The calls that a dependency leads to print nothing of their own.
Quiet(calls) == /\ calls \in Seq(Calls \X Nat)
                /\ \A c \in ToSet(calls) : WellCalled(c) /\ c[1] \notin Marks \cup {"enum"}

LEMMA QuietEach ==
  ASSUME NEW call \in {"soft", "hard"}, NEW ids \in Seq(Nat)
  PROVE  Quiet(Each(call, ids))
<1> DEFINE calls == Each(call, ids)
<1>1. calls \in Seq(Calls \X Nat) /\ DOMAIN calls = DOMAIN ids
      /\ \A i \in DOMAIN calls : calls[i] = <<call, ids[i]>> /\ ids[i] \in Nat
  <2>1. DOMAIN ids = 1 .. Len(ids) /\ Len(ids) \in Nat /\ \A i \in DOMAIN ids : ids[i] \in Nat
    OBVIOUS
  <2>2. calls = [i \in 1 .. Len(ids) |-> <<call, ids[i]>>]
    BY <2>1 DEF Each
  <2>3. \A i \in 1 .. Len(ids) : <<call, ids[i]>> \in Calls \X Nat
    BY <2>1 DEF Calls
  <2>4. calls \in Seq(Calls \X Nat)
    BY <2>1, <2>2, <2>3
  <2> QED BY <2>1, <2>2, <2>4
<1> HIDE DEF calls
<1>2. \A c \in ToSet(calls) : \E n \in Nat : c = <<call, n>>
  BY <1>1 DEF ToSet
<1>3. \A n \in Nat : WellCalled(<<call, n>>) /\ call \notin Marks \cup {"enum"}
  BY DEF WellCalled, Marks, Calls
<1>4. \A c \in ToSet(calls) : WellCalled(c) /\ c[1] \notin Marks \cup {"enum"}
  BY <1>2, <1>3
<1> QED BY <1>1, <1>4 DEF Quiet, calls

LEMMA QuietOne ==
  ASSUME NEW c, WellCalled(c), c[1] \notin Marks \cup {"enum"}
  PROVE  Quiet(<<c>>)
<1>1. c \in Calls \X Nat
  BY DEF WellCalled
<1>2. <<c>> \in Seq(Calls \X Nat)
  BY <1>1
<1> QED BY <1>2, OnceSingle DEF Quiet

LEMMA QuietNone == Quiet(<<>>)
BY DEF Quiet, ToSet

LEMMA QuietBoth ==
  ASSUME NEW c, NEW d, Quiet(c), Quiet(d)
  PROVE  Quiet(c \o d)
BY Concatenation DEF Quiet

LEMMA KeptTypesAreIds ==
  ASSUME btf \in BaseBtf, NEW id \in Ids(btf)
  PROVE  KeptTypes(id) \in Seq(Nat)
<1>1. btf[id].parts \in Seq(Nat)
  BY BtfFields
<1> QED BY <1>1 DEF KeptTypes, Void

LEMMA SoftDepsQuiet ==
  ASSUME btf \in BaseBtf, NEW id \in 0 .. Len(btf)
  PROVE  Quiet(SoftDeps(id))
<1> DEFINE kind == KindOf(id)
<1>1. CASE id = 0
  <2>1. SoftDeps(id) = <<>>
    BY <1>1 DEF KindOf, Void, SoftDeps, QualifierKinds, TaggedKinds, RecordKinds
  <2> QED BY <2>1, QuietNone
<1>2. CASE id # 0
  <2>1. id \in Ids(btf) /\ id \in Nat /\ kind = btf[id].kind
    BY <1>2 DEF Ids, KindOf, Void, BaseBtf
  <2>2. btf[id].type \in Nat /\ btf[id].parts \in Seq(Nat)
    BY <2>1, BtfFields
  <2>3. CASE kind = "TYPEDEF"
    <3>1. SoftDeps(id) = <<<<"typedef", id>>>>
      BY <2>3 DEF SoftDeps, QualifierKinds, TaggedKinds, RecordKinds
    <3>2. WellCalled(<<"typedef", id>>)
      BY <2>1, <2>3 DEF WellCalled, Calls
    <3> QED BY <3>1, <3>2, QuietOne DEF Marks
  <2>4. CASE kind \in QualifierKinds \cup {"PTR", "ARRAY"}
    <3>1. SoftDeps(id) = <<<<"soft", btf[id].type>>>>
      BY <2>4 DEF SoftDeps, QualifierKinds, TaggedKinds, RecordKinds
    <3>2. WellCalled(<<"soft", btf[id].type>>)
      BY <2>2 DEF WellCalled, Calls
    <3> QED BY <3>1, <3>2, QuietOne DEF Marks
  <2>5. CASE kind = "FUNC_PROTO"
    <3>1. SoftDeps(id) = Each("soft", <<btf[id].type>> \o btf[id].parts)
      BY <2>5 DEF SoftDeps, QualifierKinds, TaggedKinds, RecordKinds
    <3>2. <<btf[id].type>> \o btf[id].parts \in Seq(Nat)
      BY <2>2
    <3> QED BY <3>1, <3>2, QuietEach
  <2>6. CASE kind \in TaggedKinds
    <3>1. SoftDeps(id) = <<<<"forward", id>>>>
      BY <2>6 DEF SoftDeps, QualifierKinds, TaggedKinds, RecordKinds
    <3>2. WellCalled(<<"forward", id>>)
      BY <2>1, <2>6 DEF WellCalled, Calls
    <3> QED BY <3>1, <3>2, QuietOne DEF Marks
  <2>7. CASE ~ (kind \in {"TYPEDEF", "PTR", "ARRAY", "FUNC_PROTO"} \cup QualifierKinds \cup TaggedKinds)
    <3>1. SoftDeps(id) = <<>>
      BY <2>7 DEF SoftDeps, QualifierKinds, TaggedKinds, RecordKinds
    <3> QED BY <3>1, QuietNone
  <2> QED BY <2>3, <2>4, <2>5, <2>6, <2>7
<1> QED BY <1>1, <1>2

LEMMA HardDepsQuiet ==
  ASSUME btf \in BaseBtf, NEW id \in 0 .. Len(btf)
  PROVE  Quiet(HardDeps(id))
<1> DEFINE kind == KindOf(id)
<1>1. CASE id = 0
  <2>1. HardDeps(id) = <<>>
    BY <1>1 DEF KindOf, Void, HardDeps, QualifierKinds, RecordKinds
  <2> QED BY <2>1, QuietNone
<1>2. CASE id # 0
  <2>1. id \in Ids(btf) /\ id \in Nat /\ kind = btf[id].kind
    BY <1>2 DEF Ids, KindOf, Void, BaseBtf
  <2>2. btf[id].type \in Nat /\ WellCalled(<<"hard", btf[id].type>>) /\ WellCalled(<<"soft", id>>)
    BY <2>1, BtfFields DEF WellCalled, Calls
  <2>3. CASE kind \in {"PTR", "FUNC_PROTO"}
    <3>1. HardDeps(id) = <<<<"soft", id>>>>
      BY <2>3 DEF HardDeps, QualifierKinds, RecordKinds
    <3> QED BY <2>2, <3>1, QuietOne DEF Marks
  <2>4. CASE kind = "FWD"
    <3>1. HardDeps(id) = <<<<"forward", id>>>>
      BY <2>4 DEF HardDeps, QualifierKinds, RecordKinds
    <3>2. WellCalled(<<"forward", id>>)
      BY <2>1, <2>4 DEF WellCalled, Calls, TaggedKinds
    <3> QED BY <3>1, <3>2, QuietOne DEF Marks
  <2>5. CASE kind = "TYPEDEF"
    <3>1. HardDeps(id) = <<<<"hard", btf[id].type>>, <<"typedef", id>>>>
      BY <2>5 DEF HardDeps, QualifierKinds, RecordKinds
    <3>2. WellCalled(<<"typedef", id>>)
      BY <2>1, <2>5 DEF WellCalled, Calls
    <3>3. Quiet(<<<<"hard", btf[id].type>>>>) /\ Quiet(<<<<"typedef", id>>>>)
      BY <2>2, <3>2, QuietOne DEF Marks
    <3>4. HardDeps(id) = <<<<"hard", btf[id].type>>>> \o <<<<"typedef", id>>>>
      BY <3>1
    <3> QED BY <3>3, <3>4, QuietBoth
  <2>6. CASE kind \in QualifierKinds \cup {"ARRAY"}
    <3>1. HardDeps(id) = <<<<"hard", btf[id].type>>>>
      BY <2>6 DEF HardDeps, QualifierKinds, RecordKinds
    <3> QED BY <2>2, <3>1, QuietOne DEF Marks
  <2>7. CASE kind \in RecordKinds
    <3>1. HardDeps(id) = IF IsNamed(id) THEN <<<<"record", id>>>> ELSE Each("hard", KeptTypes(id))
      BY <2>7 DEF HardDeps, QualifierKinds, RecordKinds
    <3>2. IsNamed(id) => WellCalled(<<"record", id>>)
      BY <2>1, <2>7 DEF WellCalled, Calls, IsNamedRecord
    <3>3. Quiet(Each("hard", KeptTypes(id)))
      BY <2>1, KeptTypesAreIds, QuietEach
    <3> QED BY <3>1, <3>2, <3>3, QuietOne DEF Marks
  <2>8. CASE ~ (kind \in {"TYPEDEF", "PTR", "ARRAY", "FUNC_PROTO", "FWD"} \cup QualifierKinds \cup RecordKinds)
    <3>1. HardDeps(id) = <<>>
      BY <2>8 DEF HardDeps, QualifierKinds, RecordKinds
    <3> QED BY <3>1, QuietNone
  <2> QED BY <2>3, <2>4, <2>5, <2>6, <2>7, <2>8
<1> QED BY <1>1, <1>2

-----------------------------------------------------------------------------
\* One call is carried out

\* What can be declared depends on the BTF alone.
LEMMA DeclarationsFixed ==
  ASSUME UNCHANGED <<btf, name>>
  PROVE  Ids(btf)' = Ids(btf) /\ Declarations' = Declarations
<1>1. btf' = btf /\ name' = name
  OBVIOUS
<1>2. \A d : d \in Declarations <=> \E id \in Ids(btf) : d \in Introduces(id) \X {id}
  BY DEF Declarations
<1>3. \A d : d \in Declarations' <=> \E id \in Ids(btf)' : d \in Introduces(id)' \X {id}
  BY DEF Declarations
<1>4. \A id : Introduces(id)' = Introduces(id)
  BY <1>1 DEF Introduces, IsNamed
<1>5. Ids(btf)' = Ids(btf)
  BY <1>1
<1>6. \A d : d \in Declarations' <=> d \in Declarations
  BY <1>2, <1>3, <1>4, <1>5
<1> QED BY <1>5, <1>6

\* What any call leaves, whatever it prints.
LEMMA CallStep ==
  ASSUME Inv, pc = "emit", todo # <<>>, UNCHANGED <<given, progress, pc>>,
         NEW calls \in Seq(Calls \X Nat), Replace(calls), Once(calls),
         \A c \in ToSet(calls) : /\ WellCalled(c) /\ c[1] # "enum"
                                 /\ c[1] \in Marks => c \notin ToSet(Tail(todo))
  PROVE  /\ Data' /\ Once(todo)' /\ (\A c \in ToSet(todo) : WellCalled(c))'
         /\ todo' \in Seq(Calls \X Nat)
         /\ ToSet(todo') = ToSet(calls) \cup ToSet(Tail(todo))
         /\ ToSet(todo) = {<<Call, Id>>} \cup ToSet(Tail(todo))
         /\ WellCalled(<<Call, Id>>) /\ Call \in Calls /\ Id \in Nat
         /\ Call \in Marks => <<Call, Id>> \notin ToSet(Tail(todo))
         /\ \A id : <<"enum", id>> \notin ToSet(todo')
<1>1. todo \in Seq(Calls \X Nat) /\ todo' = calls \o Tail(todo)
  BY DEF Inv, TypeOK, Replace
<1>2. /\ Tail(todo) \in Seq(Calls \X Nat) /\ todo' \in Seq(Calls \X Nat)
      /\ Head(todo) \in Calls \X Nat
      /\ ToSet(todo) = {Head(todo)} \cup ToSet(Tail(todo))
      /\ ToSet(todo') = ToSet(calls) \cup ToSet(Tail(todo))
  BY <1>1, Replacing
<1>3. Head(todo) = <<Call, Id>> /\ Call \in Calls /\ Id \in Nat
  BY <1>2 DEF Call, Id
<1>4. Once(Tail(todo)) /\ (Call \in Marks => <<Call, Id>> \notin ToSet(Tail(todo)))
  <2>1. Once(todo)
    BY DEF Inv, Active
  <2>2. Once(Tail(todo)) /\ (Head(todo)[1] \in Marks => Head(todo) \notin ToSet(Tail(todo)))
    BY <1>1, <2>1, OnceTail
  <2>3. Call = Head(todo)[1]
    BY DEF Call
  <2> QED BY <1>3, <2>2, <2>3
<1>5. Once(todo')
  BY <1>1, <1>2, <1>4, OnceConcat
<1>6. \A c \in ToSet(todo) : WellCalled(c)
  BY DEF Inv, Active
<1>7. \A c : WellCalled(c)' <=> WellCalled(c)
  BY DEF WellCalled, given, IsNamedRecord, IsNamed
<1>8. \A c \in ToSet(todo') : WellCalled(c)'
  BY <1>2, <1>6, <1>7
<1>9. Data'
  BY DEF Inv, Data, given, progress
<1>10. ASSUME NEW id, <<"enum", id>> \in ToSet(todo') PROVE FALSE
  <2>1. <<"enum", id>> \in ToSet(Tail(todo))
    BY <1>2, <1>10
  <2>2. <<"enum", id>> \in ToSet(todo) /\ id \in Ids(btf)
    <3>1. <<"enum", id>> \in ToSet(todo)
      BY <1>2, <2>1
    <3> QED BY <1>6, <3>1 DEF WellCalled
  <2>3. todo = <<<<"enum", id>>>>
    BY <2>2 DEF Inv, StatesMatch
  <2>4. Tail(todo) = <<>>
    BY <2>3
  <2> QED BY <2>1, <2>4 DEF ToSet
<1>11. Once(todo)' /\ (\A c \in ToSet(todo) : WellCalled(c))'
  BY <1>5, <1>8 DEF Once, ToSet
<1> QED BY <1>2, <1>3, <1>4, <1>6, <1>9, <1>10, <1>11

\* The roots that were reached stay reached if the one carried out is.
LEMMA RootsKept ==
  ASSUME Inv, pc = "emit", UNCHANGED <<given, progress>>,
         NEW done, \A c \in ToSet(todo) : c = done \/ c \in ToSet(todo'),
         \A id \in Ids(btf) : /\ fwdState[id] = 1 => fwdState'[id] = 1
                              /\ recordState[id] # 0 => recordState'[id] # 0
                              /\ typedefState[id] # 0 => typedefState'[id] # 0,
         Printed \subseteq Printed',
         \A l \in DOMAIN Loops : \A id \in Group(Loops[l]) :
           done = <<Loops[l], id>> => Reached(Loops[l], id)'
  PROVE  RootsReached'
<1> SUFFICES ASSUME NEW l \in DOMAIN Loops, NEW id \in Group(Loops[l]), Passed(l, id)
             PROVE  Reached(Loops[l], id)'
  BY DEF RootsReached, Group, Passed, given, progress, IsNamed, IsNamedRecord
<1>1. Reached(Loops[l], id)
  BY DEF Inv, RootsReached
<1>2. id \in Ids(btf)
  BY DEF Inv, Data, Group
<1>3. CASE <<Loops[l], id>> \in ToSet(todo)
  <2>1. CASE <<Loops[l], id>> = done
    BY <2>1
  <2>2. CASE <<Loops[l], id>> # done
    BY <1>3, <2>2 DEF Reached
  <2> QED BY <2>1, <2>2
<1>4. CASE <<Loops[l], id>> \notin ToSet(todo)
  BY <1>1, <1>2, <1>4 DEF Reached, IsNamed, given
<1> QED BY <1>3, <1>4

\* How the states of a type go on when later is what is left to do.
StatesFollow(id, later) ==
  /\ fwdState[id] = 1 => fwdState'[id] = 1
  /\ recordState[id] # 0 => recordState'[id] # 0
  /\ typedefState[id] # 0 => typedefState'[id] # 0
  /\ recordState'[id] = 1 <=> <<"define record", id>> \in later
  /\ typedefState'[id] = 1 <=> <<"define typedef", id>> \in later
  /\ fwdState'[id] = 1 <=> <<"tag", id>> \in Printed'
  /\ recordState'[id] = 2 <=> <<"record", id>> \in Printed'
  /\ typedefState'[id] = 2 <=> <<"typedef", id>> \in Printed'
  /\ <<"enum", id>> \in Printed' => Passed(2, id)

LEMMA CallStepInv ==
  ASSUME Inv, pc = "emit", todo # <<>>, UNCHANGED <<given, progress, pc, err>>,
         NEW calls \in Seq(Calls \X Nat), Replace(calls), Once(calls),
         \A c \in ToSet(calls) : /\ WellCalled(c) /\ c[1] # "enum"
                                 /\ c[1] \in Marks => c \notin ToSet(Tail(todo)),
         recordState' \in [Ids(btf) -> 0 .. 2], fwdState' \in [Ids(btf) -> 0 .. 1],
         typedefState' \in [Ids(btf) -> 0 .. 2], out' \in Seq(Declarations), DefinedOnce',
         Printed \subseteq Printed',
         \A id \in Ids(btf) : StatesFollow(id, ToSet(calls) \cup ToSet(Tail(todo))),
         \A l \in DOMAIN Loops : \A id \in Group(Loops[l]) :
           <<Call, Id>> = <<Loops[l], id>> => Reached(Loops[l], id)'
  PROVE  Inv'
<1>1. UNCHANGED <<given, progress, pc>>
  OBVIOUS
<1>2. /\ Data' /\ Once(todo)' /\ (\A c \in ToSet(todo) : WellCalled(c))'
      /\ todo' \in Seq(Calls \X Nat)
      /\ ToSet(todo') = ToSet(calls) \cup ToSet(Tail(todo))
      /\ ToSet(todo) = {<<Call, Id>>} \cup ToSet(Tail(todo))
      /\ \A id : <<"enum", id>> \notin ToSet(todo')
  BY <1>1, CallStep
<1>3. TypeOK'
  <2>1. Ids(btf)' = Ids(btf) /\ Declarations' = Declarations
    BY DeclarationsFixed DEF given
  <2>2. TypeOK
    BY DEF Inv
  <2> QED BY <1>2, <2>1, <2>2 DEF TypeOK, given, progress
<1>4. Active'
  BY <1>2 DEF Active, given, StatesFollow
<1>5. StatesMatch'
  BY <1>2 DEF StatesMatch, given, Passed, progress, StatesFollow
<1>6. RootsReached'
  <2>1. \A c \in ToSet(todo) : c = <<Call, Id>> \/ c \in ToSet(todo')
    BY <1>2
  <2> DEFINE done == <<Call, Id>>
  <2>2. /\ \A c \in ToSet(todo) : c = done \/ c \in ToSet(todo')
        /\ \A l \in DOMAIN Loops : \A id \in Group(Loops[l]) :
             done = <<Loops[l], id>> => Reached(Loops[l], id)'
    BY <2>1
  <2> HIDE DEF done
  <2>3. \A id \in Ids(btf) : /\ fwdState[id] = 1 => fwdState'[id] = 1
                             /\ recordState[id] # 0 => recordState'[id] # 0
                             /\ typedefState[id] # 0 => typedefState'[id] # 0
    BY DEF StatesFollow
  <2> QED BY <1>1, <2>2, <2>3, RootsKept
<1> QED BY <1>2, <1>3, <1>4, <1>5, <1>6 DEF Inv

LEMMA AtCall ==
  ASSUME Inv, pc = "emit", todo # <<>>
  PROVE  /\ WellCalled(<<Call, Id>>) /\ Call \in Calls /\ Id \in Nat
         /\ ToSet(todo) = {<<Call, Id>>} \cup ToSet(Tail(todo))
         /\ Call \in Marks => <<Call, Id>> \notin ToSet(Tail(todo))
         /\ Tail(todo) = <<>> \o Tail(todo)
         /\ btf \in BaseBtf
<1>1. todo \in Seq(Calls \X Nat) /\ Once(todo) /\ \A c \in ToSet(todo) : WellCalled(c)
  BY DEF Inv, TypeOK, Active
<1>2. /\ Tail(todo) \in Seq(Calls \X Nat) /\ Head(todo) \in Calls \X Nat
      /\ ToSet(todo) = {Head(todo)} \cup ToSet(Tail(todo))
  <2>1. <<>> \in Seq(Calls \X Nat)
    OBVIOUS
  <2> QED BY <1>1, <2>1, Replacing
<1>3. Head(todo) = <<Call, Id>> /\ Call = Head(todo)[1] /\ Call \in Calls /\ Id \in Nat
  BY <1>2 DEF Call, Id
<1>4. Head(todo)[1] \in Marks => Head(todo) \notin ToSet(Tail(todo))
  BY <1>1, OnceTail
<1>5. Tail(todo) = <<>> \o Tail(todo)
  BY <1>2
<1> QED BY <1>1, <1>2, <1>3, <1>4, <1>5 DEF Inv, Data

\* A call that prints nothing and begins no definition.
LEMMA QuietCallInv ==
  ASSUME Inv, pc = "emit", todo # <<>>, UNCHANGED <<given, progress, states, out, pc, err>>,
         NEW calls, Quiet(calls), Replace(calls), Call \notin Marks,
         \A l \in DOMAIN Loops : \A id \in Group(Loops[l]) :
           <<Call, Id>> = <<Loops[l], id>> => Reached(Loops[l], id)'
  PROVE  Inv'
<1>1. /\ calls \in Seq(Calls \X Nat)
      /\ \A c \in ToSet(calls) : WellCalled(c) /\ c[1] # "enum" /\ c[1] \notin Marks
  BY DEF Quiet
<1>2. Once(calls)
  BY <1>1, OnceUnmarked DEF ToSet
<1>3. UNCHANGED <<given, progress, pc, err>> /\ UNCHANGED <<recordState, fwdState, typedefState, out>>
  BY DEF states
<1>4. /\ recordState' \in [Ids(btf) -> 0 .. 2] /\ fwdState' \in [Ids(btf) -> 0 .. 1]
      /\ typedefState' \in [Ids(btf) -> 0 .. 2] /\ out' \in Seq(Declarations) /\ DefinedOnce'
  BY <1>3 DEF Inv, TypeOK, DefinedOnce
<1>5. Printed' = Printed
  BY <1>3 DEF Printed
<1>6. ASSUME NEW id \in Ids(btf)
      PROVE  StatesFollow(id, ToSet(calls) \cup ToSet(Tail(todo)))
  <2>1. /\ recordState[id] = 1 <=> <<"define record", id>> \in ToSet(todo)
        /\ typedefState[id] = 1 <=> <<"define typedef", id>> \in ToSet(todo)
    BY DEF Inv, Active
  <2>2. \A mark \in Marks : /\ <<mark, id>> \notin ToSet(calls)
                            /\ <<mark, id>> \in ToSet(todo) <=> <<mark, id>> \in ToSet(Tail(todo))
    BY <1>1, AtCall
  <2>3. /\ fwdState[id] = 1 <=> <<"tag", id>> \in Printed
        /\ recordState[id] = 2 <=> <<"record", id>> \in Printed
        /\ typedefState[id] = 2 <=> <<"typedef", id>> \in Printed
        /\ <<"enum", id>> \in Printed => Passed(2, id)
    BY DEF Inv, StatesMatch
  <2> QED BY <1>3, <1>5, <2>1, <2>2, <2>3 DEF Marks, StatesFollow
<1> QED BY <1>1, <1>2, <1>3, <1>4, <1>5, <1>6, CallStepInv

LEMMA FollowInv == Inv /\ (FollowSoftDeps \/ FollowHardDeps) => Inv'
<1> SUFFICES ASSUME Inv, FollowSoftDeps \/ FollowHardDeps PROVE Inv'
  OBVIOUS
<1>1. /\ pc = "emit" /\ todo # <<>> /\ UNCHANGED <<given, progress, states, out, pc, err>>
      /\ Call \in {"soft", "hard"} /\ Id \in 0 .. Len(btf) /\ btf \in BaseBtf
  BY AtCall DEF FollowSoftDeps, FollowHardDeps, Doing
<1>2. \A l \in DOMAIN Loops : Call # Loops[l]
  BY <1>1, LoopNames
<1>3. Call \notin Marks
  BY <1>1 DEF Marks
<1>4. PICK calls : Quiet(calls) /\ Replace(calls)
  BY <1>1, SoftDepsQuiet, HardDepsQuiet DEF FollowSoftDeps, FollowHardDeps
<1> QED BY <1>1, <1>2, <1>3, <1>4, QuietCallInv

LEMMA SkipInv == Inv /\ (SkipRecord \/ SkipTypedef) => Inv'
<1> SUFFICES ASSUME Inv, SkipRecord \/ SkipTypedef PROVE Inv'
  OBVIOUS
<1>1. /\ pc = "emit" /\ todo # <<>> /\ UNCHANGED <<given, progress, states, out, pc, err>>
      /\ Call \in {"record", "typedef"} /\ todo' = Tail(todo)
  BY DEF SkipRecord, SkipTypedef, Doing, Return
<1>2. Replace(<<>>) /\ Quiet(<<>>) /\ Call \notin Marks
  BY <1>1, AtCall, QuietNone DEF Replace, Marks
<1>3. ASSUME NEW l \in DOMAIN Loops, NEW id \in Group(Loops[l]), <<Call, Id>> = <<Loops[l], id>>
      PROVE  Reached(Loops[l], id)'
  <2>1. recordState' = recordState /\ typedefState' = typedefState /\ name' = name
    BY <1>1 DEF states, given
  <2>2. Call = Loops[l] /\ Id = id
    BY <1>3
  <2>3. CASE SkipRecord
    <3>1. Call = "record" /\ recordState[Id] # 0
      <4>1. Call = "record" /\ (~ IsNamedRecord(Id) \/ recordState[Id] # 0)
        BY <2>3 DEF SkipRecord, Doing
      <4>2. WellCalled(<<Call, Id>>)
        BY <1>1, AtCall
      <4> QED BY <4>1, <4>2 DEF WellCalled
    <3> QED BY <2>1, <2>2, <3>1 DEF Reached
  <2>4. CASE SkipTypedef
    <3>1. Call = "typedef" /\ (typedefState[Id] = 2 \/ ~ IsNamed(Id))
      BY <2>4 DEF SkipTypedef, Doing
    <3> QED BY <2>1, <2>2, <3>1 DEF Reached, IsNamed
  <2> QED BY <2>3, <2>4
<1> QED BY <1>1, <1>2, <1>3, QuietCallInv

LEMMA Declaring ==
  ASSUME NEW id \in Ids(btf), NEW what \in Introduces(id)
  PROVE  <<what, id>> \in Declarations
<1>1. <<what, id>> \in Introduces(id) \X {id}
  OBVIOUS
<1> QED BY <1>1 DEF Declarations

\* A state that is set to 2.
LEMMA SetToDefined ==
  ASSUME NEW f \in [Ids(btf) -> 0 .. 2], NEW id \in Ids(btf), NEW g, g = [f EXCEPT ![id] = 2]
  PROVE  /\ g \in [Ids(btf) -> 0 .. 2] /\ g[id] = 2 /\ g[id] # 0 /\ g[id] # 1
         /\ \A other \in Ids(btf) \ {id} : g[other] = f[other]
OBVIOUS

LEMMA PrintsNew ==
  ASSUME Inv, NEW d \in Declarations, d \notin Printed, out' = Append(out, d)
  PROVE  out' \in Seq(Declarations) /\ Printed' = Printed \cup {d} /\ DefinedOnce'
<1>1. out \in Seq(Declarations) /\ \A j, k \in DOMAIN out : out[j] = out[k] => j = k
  BY DEF Inv, TypeOK, DefinedOnce
<1> DEFINE more == Append(out, d)
<1>2. /\ ToSet(more) = ToSet(out) \cup {d} /\ more \in Seq(Declarations)
      /\ \A j, k \in DOMAIN more : more[j] = more[k] => j = k
  BY <1>1, Appending DEF Printed
<1>3. out' = more
  OBVIOUS
<1> HIDE DEF more
<1> QED BY <1>2, <1>3 DEF Printed, DefinedOnce

\* What the invariant says of one type, with the calls that are left to do.
LEMMA StatesOf ==
  ASSUME Inv, pc = "emit", todo # <<>>, NEW id \in Ids(btf)
  PROVE  /\ recordState \in [Ids(btf) -> 0 .. 2] /\ fwdState \in [Ids(btf) -> 0 .. 1]
         /\ typedefState \in [Ids(btf) -> 0 .. 2]
         /\ recordState[id] = 1 <=>
              <<Call, Id>> = <<"define record", id>> \/ <<"define record", id>> \in ToSet(Tail(todo))
         /\ typedefState[id] = 1 <=>
              <<Call, Id>> = <<"define typedef", id>> \/ <<"define typedef", id>> \in ToSet(Tail(todo))
         /\ fwdState[id] = 1 <=> <<"tag", id>> \in Printed
         /\ recordState[id] = 2 <=> <<"record", id>> \in Printed
         /\ typedefState[id] = 2 <=> <<"typedef", id>> \in Printed
         /\ <<"enum", id>> \in Printed => Passed(2, id)
<1>1. ToSet(todo) = {<<Call, Id>>} \cup ToSet(Tail(todo))
  BY AtCall
<1> QED BY <1>1 DEF Inv, TypeOK, Active, StatesMatch

\* A call that makes no calls.
LEMMA ReturnInv ==
  ASSUME Inv, pc = "emit", todo # <<>>, UNCHANGED <<given, progress, pc, err>>, Return,
         recordState' \in [Ids(btf) -> 0 .. 2], fwdState' \in [Ids(btf) -> 0 .. 1],
         typedefState' \in [Ids(btf) -> 0 .. 2], out' \in Seq(Declarations), DefinedOnce',
         Printed \subseteq Printed', \A id \in Ids(btf) : StatesFollow(id, ToSet(Tail(todo))),
         \A l \in DOMAIN Loops : \A id \in Group(Loops[l]) :
           <<Call, Id>> = <<Loops[l], id>> => Reached(Loops[l], id)'
  PROVE  Inv'
<1> DEFINE none == <<>>
<1>1. none \in Seq(Calls \X Nat) /\ Once(none) /\ (\A c \in ToSet(none) : FALSE)
  BY DEF Once, ToSet
<1>2. Replace(none)
  BY AtCall DEF Replace, Return
<1>3. ToSet(none) \cup ToSet(Tail(todo)) = ToSet(Tail(todo))
  BY <1>1
<1> HIDE DEF none
<1> QED BY <1>1, <1>2, <1>3, CallStepInv

LEMMA EmitForwardDeclInv == Inv /\ EmitForwardDecl => Inv'
<1> SUFFICES ASSUME Inv, EmitForwardDecl PROVE Inv'
  OBVIOUS
<1>1. /\ pc = "emit" /\ todo # <<>> /\ UNCHANGED <<given, progress, pc, err>>
      /\ UNCHANGED <<recordState, typedefState>>
      /\ Call = "forward" /\ todo' = Tail(todo)
      /\ IF IsNamed(Id) /\ fwdState[Id] = 0
           THEN out' = Append(out, <<"tag", Id>>) /\ fwdState' = [fwdState EXCEPT ![Id] = 1]
           ELSE UNCHANGED <<out, fwdState>>
  BY DEF EmitForwardDecl, Doing, Return, Emit
<1>2. Replace(<<>>) /\ Id \in Ids(btf) /\ btf[Id].kind \in TaggedKinds
  BY <1>1, AtCall DEF Replace, WellCalled
<1>3. \A id \in Ids(btf) : fwdState[id] = 1 <=> <<"tag", id>> \in Printed
  BY DEF Inv, StatesMatch
<1>4. fwdState \in [Ids(btf) -> 0 .. 1]
  BY DEF Inv, TypeOK
<1>5. /\ out' \in Seq(Declarations) /\ DefinedOnce' /\ fwdState' \in [Ids(btf) -> 0 .. 1]
      /\ Printed \subseteq Printed' /\ (\A d \in Printed' : d \in Printed \/ d = <<"tag", Id>>)
      /\ \A id \in Ids(btf) : /\ fwdState'[id] = 1 <=> <<"tag", id>> \in Printed'
                              /\ fwdState[id] = 1 => fwdState'[id] = 1
      /\ IsNamed(Id) => fwdState'[Id] = 1
  <2>1. CASE IsNamed(Id) /\ fwdState[Id] = 0
    <3>1. <<"tag", Id>> \in Declarations
      <4>1. "tag" \in Introduces(Id)
        BY <1>2, <2>1 DEF Introduces, TaggedKinds, RecordKinds, EnumKinds
      <4> QED BY <1>2, <4>1 DEF Declarations
    <3>2. <<"tag", Id>> \notin Printed
      BY <1>2, <1>3, <2>1
    <3>3. out' \in Seq(Declarations) /\ Printed' = Printed \cup {<<"tag", Id>>} /\ DefinedOnce'
      BY <1>1, <2>1, <3>1, <3>2, PrintsNew
    <3> QED BY <1>1, <1>2, <1>3, <1>4, <2>1, <3>3
  <2>2. CASE ~ (IsNamed(Id) /\ fwdState[Id] = 0)
    <3>1. UNCHANGED <<out, fwdState>>
      BY <1>1, <2>2
    <3> QED BY <1>2, <1>3, <1>4, <2>2, <3>1 DEF Inv, TypeOK, DefinedOnce, Printed
  <2> QED BY <2>1, <2>2
<1>6. ASSUME NEW l \in DOMAIN Loops, NEW id \in Group(Loops[l]), <<Call, Id>> = <<Loops[l], id>>
      PROVE  Reached(Loops[l], id)'
  <2>1. Loops[l] = "forward" /\ Id = id /\ id \in Group("forward")
    BY <1>1, <1>6
  <2>2. IsNamed(id)
    BY <2>1 DEF Group
  <2> QED BY <1>5, <2>1, <2>2 DEF Reached
<1>7. ASSUME NEW id \in Ids(btf) PROVE StatesFollow(id, ToSet(Tail(todo)))
  BY <1>1, <1>5, StatesOf DEF StatesFollow
<1>8. recordState' \in [Ids(btf) -> 0 .. 2] /\ typedefState' \in [Ids(btf) -> 0 .. 2] /\ Return
  BY <1>1 DEF Inv, TypeOK, Return
<1> QED BY <1>1, <1>5, <1>6, <1>7, <1>8, ReturnInv

LEMMA EmitEnumDefinitionInv == Inv /\ EmitEnumDefinition => Inv'
<1> SUFFICES ASSUME Inv, EmitEnumDefinition PROVE Inv'
  OBVIOUS
<1>1. /\ pc = "emit" /\ todo # <<>> /\ UNCHANGED <<given, progress, pc, err>>
      /\ UNCHANGED <<recordState, fwdState, typedefState>>
      /\ Call = "enum" /\ Return /\ out' = Append(out, <<"enum", Id>>)
  BY DEF EmitEnumDefinition, Doing, Emit, states
<1>2. Id \in Ids(btf) /\ btf[Id].kind \in EnumKinds /\ <<"enum", Id>> \in ToSet(todo)
  BY <1>1, AtCall DEF WellCalled
<1>3. Passed(2, Id) /\ <<"enum", Id>> \notin Printed
  BY <1>2 DEF Inv, StatesMatch
<1>4. <<"enum", Id>> \in Declarations
  <2>1. Introduces(Id) = {"enum"}
    BY <1>2 DEF Introduces, EnumKinds, RecordKinds
  <2> QED BY <1>2, <2>1 DEF Declarations
<1>5. out' \in Seq(Declarations) /\ Printed' = Printed \cup {<<"enum", Id>>} /\ DefinedOnce'
  BY <1>1, <1>3, <1>4, PrintsNew
<1>6. ASSUME NEW l \in DOMAIN Loops, NEW id \in Group(Loops[l]), <<Call, Id>> = <<Loops[l], id>>
      PROVE  Reached(Loops[l], id)'
  BY <1>1, <1>5, <1>6 DEF Reached
<1>7. ASSUME NEW id \in Ids(btf) PROVE StatesFollow(id, ToSet(Tail(todo)))
  BY <1>1, <1>3, <1>5, StatesOf DEF StatesFollow
<1>8. /\ recordState' \in [Ids(btf) -> 0 .. 2] /\ typedefState' \in [Ids(btf) -> 0 .. 2]
      /\ fwdState' \in [Ids(btf) -> 0 .. 1]
  BY <1>1 DEF Inv, TypeOK
<1> QED BY <1>1, <1>5, <1>6, <1>7, <1>8, ReturnInv

\* The definition is printed while its call is active, so it was not printed before.
LEMMA DefineRecordInv == Inv /\ DefineRecord => Inv'
<1> SUFFICES ASSUME Inv, DefineRecord PROVE Inv'
  OBVIOUS
<1>1. /\ pc = "emit" /\ todo # <<>> /\ UNCHANGED <<given, progress, pc, err>>
      /\ Call = "define record" /\ Return /\ out' = Append(out, <<"record", Id>>)
  BY DEF DefineRecord, Doing, Emit
<1>2. UNCHANGED <<fwdState, typedefState>> /\ recordState' = [recordState EXCEPT ![Id] = 2]
  BY DEF DefineRecord
<1>3. /\ Id \in Ids(btf) /\ IsNamedRecord(Id)
      /\ <<"define record", Id>> \notin ToSet(Tail(todo))
  BY <1>1, AtCall DEF WellCalled, Marks
<1>4. recordState[Id] = 1 /\ <<"record", Id>> \notin Printed
  <2>1. <<Call, Id>> = <<"define record", Id>> /\ pc = "emit" /\ todo # <<>>
    BY <1>1
  <2>2. recordState[Id] = 1 /\ (recordState[Id] = 2 <=> <<"record", Id>> \in Printed)
    BY <1>3, <2>1, StatesOf
  <2> QED BY <2>2
<1>5. <<"record", Id>> \in Declarations
  <2>1. "record" \in Introduces(Id)
    BY <1>3 DEF Introduces, EnumKinds, RecordKinds, IsNamedRecord
  <2> QED BY <1>3, <2>1, Declaring
<1>6. out' \in Seq(Declarations) /\ Printed' = Printed \cup {<<"record", Id>>} /\ DefinedOnce'
  BY <1>1, <1>4, <1>5, PrintsNew
<1>7. ASSUME NEW l \in DOMAIN Loops, NEW id \in Group(Loops[l]), <<Call, Id>> = <<Loops[l], id>>
      PROVE  FALSE
  BY <1>1, <1>7, LoopNames
<1>8. /\ recordState' \in [Ids(btf) -> 0 .. 2]
      /\ recordState'[Id] = 2 /\ recordState'[Id] # 0 /\ recordState'[Id] # 1
      /\ \A id \in Ids(btf) \ {Id} : recordState'[id] = recordState[id]
      /\ fwdState' \in [Ids(btf) -> 0 .. 1] /\ typedefState' \in [Ids(btf) -> 0 .. 2]
  <2>1. /\ recordState \in [Ids(btf) -> 0 .. 2] /\ typedefState \in [Ids(btf) -> 0 .. 2]
        /\ fwdState \in [Ids(btf) -> 0 .. 1]
    BY DEF Inv, TypeOK
  <2>2. fwdState' = fwdState /\ typedefState' = typedefState
    BY <1>2
  <2>3. /\ recordState' \in [Ids(btf) -> 0 .. 2]
        /\ recordState'[Id] = 2 /\ recordState'[Id] # 0 /\ recordState'[Id] # 1
        /\ \A id \in Ids(btf) \ {Id} : recordState'[id] = recordState[id]
    BY <1>2, <1>3, <2>1, SetToDefined
  <2> QED BY <2>1, <2>2, <2>3
<1>9. ASSUME NEW id \in Ids(btf) PROVE StatesFollow(id, ToSet(Tail(todo)))
  <2>1. pc = "emit" /\ todo # <<>> /\ Call = "define record"
    BY <1>1
  <2>2. fwdState' = fwdState /\ typedefState' = typedefState
    BY <1>2
  <2>3. CASE id = Id
    <3>1. /\ typedefState[Id] = 1 <=> <<"define typedef", Id>> \in ToSet(Tail(todo))
          /\ fwdState[Id] = 1 <=> <<"tag", Id>> \in Printed
          /\ typedefState[Id] = 2 <=> <<"typedef", Id>> \in Printed
          /\ <<"enum", Id>> \in Printed => Passed(2, Id)
      BY <1>3, <2>1, StatesOf
    <3>2. /\ <<"record", Id>> \in Printed'
          /\ \A what \in {"tag", "typedef", "enum"} : <<what, Id>> \in Printed' <=> <<what, Id>> \in Printed
      BY <1>6
    <3>3. /\ recordState'[Id] = 2 /\ recordState'[Id] # 0 /\ recordState'[Id] # 1
          /\ <<"define record", Id>> \notin ToSet(Tail(todo))
      BY <1>3, <1>8
    <3>4. StatesFollow(Id, ToSet(Tail(todo)))
      BY <2>2, <3>1, <3>2, <3>3 DEF StatesFollow
    <3> QED BY <2>3, <3>4
  <2>4. CASE id # Id
    BY <1>6, <1>8, <2>1, <2>2, <2>4, StatesOf DEF StatesFollow
  <2> QED BY <2>3, <2>4
<1> QED BY <1>1, <1>6, <1>7, <1>8, <1>9, ReturnInv

LEMMA DefineTypedefInv == Inv /\ DefineTypedef => Inv'
<1> SUFFICES ASSUME Inv, DefineTypedef PROVE Inv'
  OBVIOUS
<1>1. /\ pc = "emit" /\ todo # <<>> /\ UNCHANGED <<given, progress, pc, err>>
      /\ Call = "define typedef" /\ Return /\ out' = Append(out, <<"typedef", Id>>)
  BY DEF DefineTypedef, Doing, Emit
<1>2. UNCHANGED <<fwdState, recordState>> /\ typedefState' = [typedefState EXCEPT ![Id] = 2]
  BY DEF DefineTypedef
<1>3. /\ Id \in Ids(btf) /\ btf[Id].kind = "TYPEDEF" /\ IsNamed(Id)
      /\ <<"define typedef", Id>> \notin ToSet(Tail(todo))
  BY <1>1, AtCall DEF WellCalled, Marks
<1>4. typedefState[Id] = 1 /\ <<"typedef", Id>> \notin Printed
  <2>1. <<Call, Id>> = <<"define typedef", Id>> /\ pc = "emit" /\ todo # <<>>
    BY <1>1
  <2>2. typedefState[Id] = 1 /\ (typedefState[Id] = 2 <=> <<"typedef", Id>> \in Printed)
    BY <1>3, <2>1, StatesOf
  <2> QED BY <2>2
<1>5. <<"typedef", Id>> \in Declarations
  <2>1. "typedef" \in Introduces(Id)
    BY <1>3 DEF Introduces, EnumKinds, RecordKinds, IsNamedRecord
  <2> QED BY <1>3, <2>1, Declaring
<1>6. out' \in Seq(Declarations) /\ Printed' = Printed \cup {<<"typedef", Id>>} /\ DefinedOnce'
  BY <1>1, <1>4, <1>5, PrintsNew
<1>7. ASSUME NEW l \in DOMAIN Loops, NEW id \in Group(Loops[l]), <<Call, Id>> = <<Loops[l], id>>
      PROVE  FALSE
  BY <1>1, <1>7, LoopNames
<1>8. /\ typedefState' \in [Ids(btf) -> 0 .. 2]
      /\ typedefState'[Id] = 2 /\ typedefState'[Id] # 0 /\ typedefState'[Id] # 1
      /\ \A id \in Ids(btf) \ {Id} : typedefState'[id] = typedefState[id]
      /\ fwdState' \in [Ids(btf) -> 0 .. 1] /\ recordState' \in [Ids(btf) -> 0 .. 2]
  <2>1. /\ recordState \in [Ids(btf) -> 0 .. 2] /\ typedefState \in [Ids(btf) -> 0 .. 2]
        /\ fwdState \in [Ids(btf) -> 0 .. 1]
    BY DEF Inv, TypeOK
  <2>2. fwdState' = fwdState /\ recordState' = recordState
    BY <1>2
  <2>3. /\ typedefState' \in [Ids(btf) -> 0 .. 2]
        /\ typedefState'[Id] = 2 /\ typedefState'[Id] # 0 /\ typedefState'[Id] # 1
        /\ \A id \in Ids(btf) \ {Id} : typedefState'[id] = typedefState[id]
    BY <1>2, <1>3, <2>1, SetToDefined
  <2> QED BY <2>1, <2>2, <2>3
<1>9. ASSUME NEW id \in Ids(btf) PROVE StatesFollow(id, ToSet(Tail(todo)))
  <2>1. pc = "emit" /\ todo # <<>> /\ Call = "define typedef"
    BY <1>1
  <2>2. fwdState' = fwdState /\ recordState' = recordState
    BY <1>2
  <2>3. CASE id = Id
    <3>1. /\ recordState[Id] = 1 <=> <<"define record", Id>> \in ToSet(Tail(todo))
          /\ fwdState[Id] = 1 <=> <<"tag", Id>> \in Printed
          /\ recordState[Id] = 2 <=> <<"record", Id>> \in Printed
          /\ <<"enum", Id>> \in Printed => Passed(2, Id)
      BY <1>3, <2>1, StatesOf
    <3>2. /\ <<"typedef", Id>> \in Printed'
          /\ \A what \in {"tag", "record", "enum"} : <<what, Id>> \in Printed' <=> <<what, Id>> \in Printed
      BY <1>6
    <3>3. /\ typedefState'[Id] = 2 /\ typedefState'[Id] # 0 /\ typedefState'[Id] # 1
          /\ <<"define typedef", Id>> \notin ToSet(Tail(todo))
      BY <1>3, <1>8
    <3>4. StatesFollow(Id, ToSet(Tail(todo)))
      BY <2>2, <3>1, <3>2, <3>3 DEF StatesFollow
    <3> QED BY <2>3, <3>4
  <2>4. CASE id # Id
    BY <1>6, <1>8, <2>1, <2>2, <2>4, StatesOf DEF StatesFollow
  <2> QED BY <2>3, <2>4
<1> QED BY <1>1, <1>6, <1>7, <1>8, <1>9, ReturnInv

\* A definition begins: the calls for what it needs, then the entry that prints it.
LEMMA BeginsDefinition ==
  ASSUME NEW q, Quiet(q), NEW d, WellCalled(d), d[1] \in Marks, d \notin ToSet(Tail(todo))
  PROVE  LET calls == q \o <<d>>
         IN /\ calls \in Seq(Calls \X Nat) /\ Once(calls)
            /\ \A c \in ToSet(calls) : /\ WellCalled(c) /\ c[1] # "enum"
                                       /\ c[1] \in Marks => c \notin ToSet(Tail(todo))
            /\ \A m \in Marks, id \in Nat : <<m, id>> \in ToSet(calls) <=> <<m, id>> = d
<1> DEFINE last == <<d>>   calls == q \o last
<1>1. q \in Seq(Calls \X Nat) /\ \A c \in ToSet(q) : WellCalled(c) /\ c[1] \notin Marks /\ c[1] # "enum"
  BY DEF Quiet
<1>2. last \in Seq(Calls \X Nat) /\ ToSet(last) = {d} /\ Once(last)
  <2>1. d \in Calls \X Nat
    BY DEF WellCalled
  <2>2. last \in Seq(Calls \X Nat)
    BY <2>1
  <2> QED BY <2>2, OnceSingle
<1> HIDE DEF last
<1>3. calls \in Seq(Calls \X Nat) /\ ToSet(calls) = ToSet(q) \cup {d}
  BY <1>1, <1>2, Concatenation
<1>4. Once(calls)
  <2>1. Once(q)
    BY <1>1, OnceUnmarked DEF ToSet
  <2>2. \A x \in ToSet(q) : x[1] \in Marks => x \notin ToSet(last)
    BY <1>1
  <2> QED BY <1>1, <1>2, <2>1, <2>2, OnceConcat
<1> HIDE DEF calls
<1>5. d[1] # "enum"
  BY DEF Marks
<1>6. \A c \in ToSet(calls) : /\ WellCalled(c) /\ c[1] # "enum"
                              /\ c[1] \in Marks => c \notin ToSet(Tail(todo))
  BY <1>1, <1>3, <1>5
<1>7. \A m \in Marks, id \in Nat : <<m, id>> \in ToSet(calls) <=> <<m, id>> = d
  BY <1>1, <1>3
<1> QED BY <1>3, <1>4, <1>6, <1>7 DEF calls, last

\* A state that is set to 1.
LEMMA SetToActive ==
  ASSUME NEW f \in [Ids(btf) -> 0 .. 2], NEW id \in Ids(btf), NEW g, g = [f EXCEPT ![id] = 1]
  PROVE  /\ g \in [Ids(btf) -> 0 .. 2] /\ g[id] = 1 /\ g[id] # 0 /\ g[id] # 2
         /\ \A other \in Ids(btf) \ {id} : g[other] = f[other]
OBVIOUS

LEMMA EnterRecordInv == Inv /\ EnterRecord => Inv'
<1> SUFFICES ASSUME Inv, EnterRecord PROVE Inv'
  OBVIOUS
<1> DEFINE d == <<"define record", Id>>   q == Each("hard", KeptTypes(Id))   calls == q \o <<d>>
<1>1. /\ pc = "emit" /\ todo # <<>> /\ UNCHANGED <<given, progress, pc, err>> /\ Call = "record"
      /\ recordState[Id] = 0 /\ Replace(calls)
  BY DEF EnterRecord, Doing
<1>2. UNCHANGED <<fwdState, typedefState, out>> /\ recordState' = [recordState EXCEPT ![Id] = 1]
  BY DEF EnterRecord
<1>3. Id \in Ids(btf) /\ IsNamedRecord(Id) /\ Id \in Nat /\ btf \in BaseBtf
  BY <1>1, AtCall DEF WellCalled
<1>4. /\ recordState[Id] # 1 /\ recordState[Id] # 2
      /\ d \notin ToSet(Tail(todo)) /\ <<"record", Id>> \notin Printed
  <2>1. pc = "emit" /\ todo # <<>> /\ recordState[Id] = 0
    BY <1>1
  <2>2. recordState[Id] # 1 /\ recordState[Id] # 2
    BY <2>1
  <2> QED BY <1>3, <2>1, <2>2, StatesOf
<1>5. Quiet(q) /\ WellCalled(d) /\ d[1] \in Marks
  <2>1. Quiet(q)
    BY <1>3, KeptTypesAreIds, QuietEach
  <2>2. WellCalled(d) /\ d[1] \in Marks
    BY <1>3 DEF WellCalled, Calls, Marks
  <2> QED BY <2>1, <2>2
<1> HIDE DEF q
<1>6. /\ calls \in Seq(Calls \X Nat) /\ Once(calls)
      /\ \A c \in ToSet(calls) : /\ WellCalled(c) /\ c[1] # "enum"
                                 /\ c[1] \in Marks => c \notin ToSet(Tail(todo))
      /\ \A m \in Marks, id \in Nat : <<m, id>> \in ToSet(calls) <=> <<m, id>> = d
  <2> HIDE DEF d
  <2> QED BY <1>4, <1>5, BeginsDefinition
<1> HIDE DEF calls
<1>7. /\ recordState' \in [Ids(btf) -> 0 .. 2]
      /\ recordState'[Id] = 1 /\ recordState'[Id] # 0 /\ recordState'[Id] # 2
      /\ \A id \in Ids(btf) \ {Id} : recordState'[id] = recordState[id]
      /\ fwdState' \in [Ids(btf) -> 0 .. 1] /\ typedefState' \in [Ids(btf) -> 0 .. 2]
      /\ out' \in Seq(Declarations) /\ DefinedOnce' /\ Printed' = Printed
  <2>1. /\ recordState \in [Ids(btf) -> 0 .. 2] /\ typedefState \in [Ids(btf) -> 0 .. 2]
        /\ fwdState \in [Ids(btf) -> 0 .. 1] /\ out \in Seq(Declarations) /\ DefinedOnce
    BY DEF Inv, TypeOK
  <2>2. fwdState' = fwdState /\ typedefState' = typedefState /\ out' = out
    BY <1>2
  <2>3. /\ recordState' \in [Ids(btf) -> 0 .. 2]
        /\ recordState'[Id] = 1 /\ recordState'[Id] # 0 /\ recordState'[Id] # 2
        /\ \A id \in Ids(btf) \ {Id} : recordState'[id] = recordState[id]
    BY <1>2, <1>3, <2>1, SetToActive
  <2>4. DefinedOnce' /\ Printed' = Printed
    BY <2>1, <2>2 DEF DefinedOnce, Printed
  <2> QED BY <2>1, <2>2, <2>3, <2>4
<1>8. ASSUME NEW id \in Ids(btf) PROVE StatesFollow(id, ToSet(calls) \cup ToSet(Tail(todo)))
  <2>1. pc = "emit" /\ todo # <<>> /\ Call = "record" /\ id \in Nat
    BY <1>1 DEF Ids
  <2>2. fwdState' = fwdState /\ typedefState' = typedefState
    BY <1>2
  <2>3. /\ <<"define typedef", id>> \notin ToSet(calls)
        /\ <<"define record", id>> \in ToSet(calls) <=> id = Id
    BY <1>6, <2>1 DEF Marks
  <2>4. CASE id = Id
    <3>1. <<"record", id>> \notin Printed' /\ recordState'[id] = 1 /\ recordState'[id] # 0 /\ recordState'[id] # 2
      BY <1>4, <1>7, <2>4
    <3> QED BY <1>7, <2>1, <2>2, <2>3, <2>4, <3>1, StatesOf DEF StatesFollow
  <2>5. CASE id # Id
    BY <1>7, <2>1, <2>2, <2>3, <2>5, StatesOf DEF StatesFollow
  <2> QED BY <2>4, <2>5
<1>9. ASSUME NEW l \in DOMAIN Loops, NEW id \in Group(Loops[l]), <<Call, Id>> = <<Loops[l], id>>
      PROVE  Reached(Loops[l], id)'
  BY <1>1, <1>7, <1>9 DEF Reached
<1> QED BY <1>1, <1>6, <1>7, <1>8, <1>9, CallStepInv

LEMMA EnterTypedefInv == Inv /\ EnterTypedef => Inv'
<1> SUFFICES ASSUME Inv, EnterTypedef PROVE Inv'
  OBVIOUS
<1> DEFINE d == <<"define typedef", Id>>
           target == <<IF NeedsHardDeps(btf[Id].type) THEN "hard" ELSE "soft", btf[Id].type>>
           q == <<target>>   calls == q \o <<d>>
<1>1. /\ pc = "emit" /\ todo # <<>> /\ UNCHANGED <<given, progress, pc, err>> /\ Call = "typedef"
      /\ typedefState[Id] = 0 /\ IsNamed(Id) /\ Replace(<<target, d>>)
  BY DEF EnterTypedef, Doing
<1>2. UNCHANGED <<fwdState, recordState, out>> /\ typedefState' = [typedefState EXCEPT ![Id] = 1]
  BY DEF EnterTypedef
<1>3. Id \in Ids(btf) /\ btf[Id].kind = "TYPEDEF" /\ Id \in Nat /\ btf \in BaseBtf
  BY <1>1, AtCall DEF WellCalled
<1>4. /\ typedefState[Id] # 1 /\ typedefState[Id] # 2
      /\ d \notin ToSet(Tail(todo)) /\ <<"typedef", Id>> \notin Printed
  <2>1. pc = "emit" /\ todo # <<>> /\ typedefState[Id] = 0
    BY <1>1
  <2>2. typedefState[Id] # 1 /\ typedefState[Id] # 2
    BY <2>1
  <2> QED BY <1>3, <2>1, <2>2, StatesOf
<1>5. Quiet(q) /\ WellCalled(d) /\ d[1] \in Marks
  <2>1. btf[Id].type \in Nat
    BY <1>3, BtfFields
  <2>2. WellCalled(target) /\ target[1] \notin Marks \cup {"enum"}
    BY <2>1 DEF WellCalled, Calls, Marks
  <2> HIDE DEF target
  <2>3. Quiet(q)
    BY <2>2, QuietOne
  <2>4. WellCalled(d) /\ d[1] \in Marks
    BY <1>1, <1>3 DEF WellCalled, Calls, Marks
  <2> QED BY <2>3, <2>4
<1>6. /\ calls \in Seq(Calls \X Nat) /\ Once(calls) /\ Replace(calls)
      /\ \A c \in ToSet(calls) : /\ WellCalled(c) /\ c[1] # "enum"
                                 /\ c[1] \in Marks => c \notin ToSet(Tail(todo))
      /\ \A m \in Marks, id \in Nat : <<m, id>> \in ToSet(calls) <=> <<m, id>> = d
  <2> HIDE DEF d, target
  <2>1. <<target, d>> = calls
    OBVIOUS
  <2>2. Replace(calls)
    <3> HIDE DEF calls
    <3> QED BY <1>1, <2>1, Zenon
  <2> HIDE DEF q
  <2>3. /\ calls \in Seq(Calls \X Nat) /\ Once(calls)
        /\ \A c \in ToSet(calls) : /\ WellCalled(c) /\ c[1] # "enum"
                                   /\ c[1] \in Marks => c \notin ToSet(Tail(todo))
        /\ \A m \in Marks, id \in Nat : <<m, id>> \in ToSet(calls) <=> <<m, id>> = d
    BY <1>4, <1>5, BeginsDefinition
  <2> QED BY <2>2, <2>3
<1> HIDE DEF calls, q, target
<1>7. /\ typedefState' \in [Ids(btf) -> 0 .. 2]
      /\ typedefState'[Id] = 1 /\ typedefState'[Id] # 0 /\ typedefState'[Id] # 2
      /\ \A id \in Ids(btf) \ {Id} : typedefState'[id] = typedefState[id]
      /\ fwdState' \in [Ids(btf) -> 0 .. 1] /\ recordState' \in [Ids(btf) -> 0 .. 2]
      /\ out' \in Seq(Declarations) /\ DefinedOnce' /\ Printed' = Printed
  <2>1. /\ recordState \in [Ids(btf) -> 0 .. 2] /\ typedefState \in [Ids(btf) -> 0 .. 2]
        /\ fwdState \in [Ids(btf) -> 0 .. 1] /\ out \in Seq(Declarations) /\ DefinedOnce
    BY DEF Inv, TypeOK
  <2>2. fwdState' = fwdState /\ recordState' = recordState /\ out' = out
    BY <1>2
  <2>3. /\ typedefState' \in [Ids(btf) -> 0 .. 2]
        /\ typedefState'[Id] = 1 /\ typedefState'[Id] # 0 /\ typedefState'[Id] # 2
        /\ \A id \in Ids(btf) \ {Id} : typedefState'[id] = typedefState[id]
    BY <1>2, <1>3, <2>1, SetToActive
  <2>4. DefinedOnce' /\ Printed' = Printed
    BY <2>1, <2>2 DEF DefinedOnce, Printed
  <2> QED BY <2>1, <2>2, <2>3, <2>4
<1>8. ASSUME NEW id \in Ids(btf) PROVE StatesFollow(id, ToSet(calls) \cup ToSet(Tail(todo)))
  <2>0. id \in Nat
    BY DEF Ids
  <2>1. pc = "emit" /\ todo # <<>> /\ Call = "typedef" /\ id \in Nat
    BY <1>1, <2>0
  <2>2. fwdState' = fwdState /\ recordState' = recordState
    BY <1>2
  <2>3. /\ <<"define record", id>> \notin ToSet(calls)
        /\ <<"define typedef", id>> \in ToSet(calls) <=> id = Id
    BY <1>6, <2>1 DEF Marks
  <2>4. CASE id = Id
    <3>1. <<"typedef", id>> \notin Printed' /\ typedefState'[id] = 1 /\ typedefState'[id] # 0 /\ typedefState'[id] # 2
      BY <1>4, <1>7, <2>4
    <3> QED BY <1>7, <2>1, <2>2, <2>3, <2>4, <3>1, StatesOf DEF StatesFollow
  <2>5. CASE id # Id
    BY <1>7, <2>1, <2>2, <2>3, <2>5, StatesOf DEF StatesFollow
  <2> QED BY <2>4, <2>5
<1>9. ASSUME NEW l \in DOMAIN Loops, NEW id \in Group(Loops[l]), <<Call, Id>> = <<Loops[l], id>>
      PROVE  Reached(Loops[l], id)'
  BY <1>1, <1>7, <1>9 DEF Reached
<1> QED BY <1>1, <1>6, <1>7, <1>8, <1>9, CallStepInv

-----------------------------------------------------------------------------
\* The loops, and the ends of the function

LEMMA BeginInv ==
  ASSUME btf \in BaseBtf, name \in [Ids(btf) -> Nat], required \subseteq Nat, Begin
  PROVE  Inv
<1> USE DEF Begin
<1>1. TypeOK
  BY LoopNames DEF TypeOK, Stages, Errors
<1>2. Data
  BY LoopNames DEF Data
<1>3. ToSet(todo) = {} /\ Printed = {}
  BY DEF ToSet, Printed
<1>4. \A id \in Ids(btf) : /\ recordState[id] # 1 /\ recordState[id] # 2
                           /\ typedefState[id] # 1 /\ typedefState[id] # 2 /\ fwdState[id] # 1
  OBVIOUS
<1>5. Active /\ StatesMatch /\ DefinedOnce
  <2>1. Once(todo) /\ DefinedOnce
    BY DEF Once, DefinedOnce
  <2> HIDE DEF Begin
  <2>2. Active
    BY <1>3, <1>4, <2>1 DEF Active
  <2>3. StatesMatch
    BY <1>3, <1>4 DEF StatesMatch
  <2> QED BY <2>1, <2>2, <2>3
<1> QED BY <1>1, <1>2, <1>5 DEF Inv

LEMMA GroupsAreIds ==
  ASSUME Inv, pc \in {"emit", "ok"}
  PROVE  (\A c : Group(c) \subseteq Ids(btf)) /\ Ids(btf) \subseteq Nat \ {0} /\ cursor \in Nat
<1>1. required \subseteq Ids(btf) /\ cursor \in Nat
  BY DEF Inv, Data, TypeOK
<1>2. \A c : Group(c) \subseteq required
  BY DEF Group
<1>3. Ids(btf) \subseteq Nat \ {0}
  BY DEF Ids
<1> QED BY <1>1, <1>2, <1>3

LEMMA AllocateInv == Inv /\ Allocate => Inv'
<1> SUFFICES ASSUME Inv, Allocate PROVE Inv'
  OBVIOUS
<1>1. /\ UNCHANGED <<given, progress, todo, states, out>> /\ pc = "allocate"
      /\ pc' \in {"emit", "error"} /\ err' \in Errors /\ (pc' = "emit" => required \subseteq Ids(btf))
  BY DEF Allocate, Fail, Inv, TypeOK, Errors
<1>2. /\ UNCHANGED <<btf, name, members, required, loop, cursor, todo, out>>
      /\ UNCHANGED <<recordState, fwdState, typedefState>>
  BY <1>1 DEF given, progress, states
<1>3. Declarations' = Declarations
  BY <1>2, DeclarationsFixed
<1>4. TypeOK'
  BY <1>1, <1>2, <1>3 DEF Inv, TypeOK, Stages
<1>5. Data'
  BY <1>1, <1>2 DEF Inv, Data
<1>6. Active' /\ StatesMatch' /\ DefinedOnce'
  BY <1>2 DEF Inv, Active, StatesMatch, DefinedOnce, WellCalled, Once, Printed, Passed, IsNamed,
              IsNamedRecord
<1>7. pc' = "emit" => RootsReached'
  <2> SUFFICES ASSUME pc' = "emit", NEW l \in DOMAIN Loops, NEW id \in Group(Loops[l])',
                      Passed(l, id)'
               PROVE  FALSE
    BY DEF RootsReached
  <2>1. id \in Ids(btf)
    BY <1>1, <1>2 DEF Group
  <2>2. loop' = 1 /\ cursor' = 1
    BY <1>1, <1>2 DEF Inv, Data
  <2>3. id \in Nat /\ id >= 1 /\ l \in 1 .. 4
    BY <2>1, LoopNames DEF Ids
  <2> QED BY <2>2, <2>3 DEF Passed
<1> QED BY <1>1, <1>4, <1>5, <1>6, <1>7 DEF Inv

\* The ends change nothing that was printed.
LEMMA EndInv == Inv /\ (InvalidId \/ CannotDefine \/ TypedefCycle \/ Finish) => Inv'
<1> SUFFICES ASSUME Inv, InvalidId \/ CannotDefine \/ TypedefCycle \/ Finish PROVE Inv'
  OBVIOUS
<1>1. /\ UNCHANGED <<given, progress, todo, states, out>> /\ pc = "emit"
      /\ pc' \in {"ok", "error"} /\ err' \in Errors
  BY DEF InvalidId, CannotDefine, TypedefCycle, Finish, Doing, Fail, Inv, TypeOK, Errors
<1>2. /\ UNCHANGED <<btf, name, members, required, loop, cursor, todo, out>>
      /\ UNCHANGED <<recordState, fwdState, typedefState>>
  BY <1>1 DEF given, progress, states
<1>3. Declarations' = Declarations
  BY <1>2, DeclarationsFixed
<1>4. TypeOK'
  BY <1>1, <1>2, <1>3 DEF Inv, TypeOK, Stages
<1>5. Data'
  <2>1. pc' = "ok" => loop > Len(Loops)
    BY DEF InvalidId, CannotDefine, TypedefCycle, Finish, Fail
  <2> QED BY <1>1, <1>2, <2>1 DEF Inv, Data
<1>6. Active' /\ StatesMatch' /\ DefinedOnce'
  BY <1>2 DEF Inv, Active, StatesMatch, DefinedOnce, WellCalled, Once, Printed, Passed, IsNamed,
              IsNamedRecord
<1>7. RootsReached' <=> RootsReached
  BY <1>2 DEF RootsReached, Reached, Passed, Group, Printed, IsNamed, IsNamedRecord
<1> QED BY <1>1, <1>4, <1>5, <1>6, <1>7 DEF Inv

LEMMA TakeRootInv == Inv /\ TakeRoot => Inv'
<1> SUFFICES ASSUME Inv, TakeRoot PROVE Inv'
  OBVIOUS
<1> DEFINE call == Loops[loop]
<1>1. PICK id \in Group(call) :
        /\ id >= cursor /\ \A other \in Group(call) : other >= cursor => id <= other
        /\ todo' = <<<<call, id>>>> /\ cursor' = id + 1
  BY DEF TakeRoot
<1>2. /\ UNCHANGED <<btf, name, members, required, loop, out, pc, err>>
      /\ UNCHANGED <<recordState, fwdState, typedefState>> /\ pc = "emit" /\ todo = <<>>
      /\ loop \in 1 .. 4 /\ call \in {"forward", "enum", "typedef", "record"}
  BY LoopNames DEF TakeRoot, given, states
<1>3. /\ id \in Ids(btf) /\ id \in Nat /\ cursor \in Nat /\ Ids(btf) \subseteq Nat
      /\ \A c : Group(c) \subseteq Ids(btf)
  <2>1. (\A c : Group(c) \subseteq Ids(btf)) /\ Ids(btf) \subseteq Nat \ {0} /\ cursor \in Nat
    BY <1>2, GroupsAreIds
  <2>2. id \in Group(call)
    OBVIOUS
  <2> HIDE DEF call
  <2> QED BY <2>1, <2>2
<1>4. ToSet(todo) = {} /\ ToSet(todo') = {<<call, id>>} /\ Once(todo')
  BY <1>1, <1>2, OnceSingle DEF ToSet
<1>5. WellCalled(<<call, id>>)
  BY <1>1, <1>2, <1>3 DEF WellCalled, Group, Calls
<1>6. Declarations' = Declarations
  BY <1>2, DeclarationsFixed
<1>7. TypeOK'
  <2>0. <<call, id>> \in Calls \X Nat
    BY <1>5 DEF WellCalled
  <2>1. todo' \in Seq(Calls \X Nat) /\ cursor' \in Nat
    <3>1. cursor' \in Nat
      BY <1>1, <1>3
    <3>2. <<<<call, id>>>> \in Seq(Calls \X Nat)
      BY <2>0
    <3> QED BY <1>1, <3>1, <3>2
  <2> QED BY <1>2, <1>6, <2>1 DEF Inv, TypeOK
<1>8. Data'
  BY <1>2, LoopNames DEF Inv, Data
<1>9. Active'
  <2>1. \A c : WellCalled(c)' <=> WellCalled(c)
    BY <1>2 DEF WellCalled, IsNamed, IsNamedRecord
  <2>2. \A c \in ToSet(todo') : WellCalled(c)'
    BY <1>4, <1>5, <2>1
  <2>3. \A other \in Ids(btf) : recordState[other] # 1 /\ typedefState[other] # 1
    BY <1>4 DEF Inv, Active
  <2>4. call # "define record" /\ call # "define typedef"
    BY <1>2
  <2> HIDE DEF call
  <2> QED BY <1>2, <1>4, <2>2, <2>3, <2>4 DEF Active, Once
<1>10. \A l \in 1 .. 4, other \in Nat : Passed(l, other) => Passed(l, other)'
  BY <1>1, <1>2, <1>3 DEF Passed
<1>11. StatesMatch'
  <2>1. \A other \in Ids(btf) :
           /\ fwdState[other] = 1 <=> <<"tag", other>> \in Printed
           /\ recordState[other] = 2 <=> <<"record", other>> \in Printed
           /\ typedefState[other] = 2 <=> <<"typedef", other>> \in Printed
           /\ <<"enum", other>> \in Printed => Passed(2, other)
    BY DEF Inv, StatesMatch
  <2>2. Printed' = Printed
    BY <1>2 DEF Printed
  <2>3. \A other \in Ids(btf) : <<"enum", other>> \in Printed' => Passed(2, other)'
    <3>1. \A other \in Nat : Passed(2, other) => Passed(2, other)'
      BY <1>10
    <3> QED BY <1>3, <2>1, <2>2, <3>1
  <2>4. ASSUME call = "enum"
        PROVE  Passed(2, id)' /\ <<"enum", id>> \notin Printed
    <3>1. loop = 2
      BY <1>2, <2>4, LoopNames
    <3>2. ~ Passed(2, id)
      BY <1>1, <1>3, <3>1 DEF Passed
    <3>3. Passed(2, id)'
      BY <1>1, <1>2, <1>3, <3>1 DEF Passed
    <3> QED BY <1>3, <2>1, <3>2, <3>3
  <2>5. \A other : <<"enum", other>> \in ToSet(todo') => call = "enum" /\ other = id
    BY <1>4
  <2>6. todo' = <<<<call, id>>>>
    BY <1>1
  <2>7. ASSUME NEW other \in Ids(btf), <<"enum", other>> \in ToSet(todo')
        PROVE  todo' = <<<<"enum", other>>>> /\ Passed(2, other)' /\ <<"enum", other>> \notin Printed'
    <3> HIDE DEF call
    <3>1. call = "enum" /\ other = id
      BY <2>5, <2>7
    <3> QED BY <2>2, <2>4, <2>6, <3>1
  <2>8. Ids(btf)' = Ids(btf) /\ UNCHANGED <<recordState, fwdState, typedefState>>
    BY <1>2
  <2> QED BY <2>1, <2>2, <2>3, <2>7, <2>8 DEF StatesMatch
<1>12. DefinedOnce'
  BY <1>2 DEF Inv, DefinedOnce
<1>13. RootsReached'
  <2> SUFFICES ASSUME NEW l \in DOMAIN Loops, NEW other \in Group(Loops[l])', Passed(l, other)'
               PROVE  Reached(Loops[l], other)'
    BY DEF RootsReached
  <2>1. l \in 1 .. 4 /\ other \in Group(Loops[l]) /\ other \in Nat
    BY <1>2, <1>3, LoopNames DEF Group, IsNamed, IsNamedRecord
  <2>2. CASE Passed(l, other)
    <3>1. Reached(Loops[l], other)
      BY <1>2, <2>1, <2>2 DEF Inv, RootsReached
    <3> QED BY <1>2, <1>4, <3>1 DEF Reached, Printed, IsNamed
  <2>3. CASE ~ Passed(l, other)
    <3>1. l = loop /\ other >= cursor /\ other < id + 1
      BY <1>1, <1>2, <1>3, <2>1, <2>3 DEF Passed
    <3>2. other = id
      BY <1>1, <1>3, <2>1, <3>1
    <3> QED BY <1>4, <3>1, <3>2 DEF Reached
  <2> QED BY <2>2, <2>3
<1> QED BY <1>7, <1>8, <1>9, <1>11, <1>12, <1>13 DEF Inv

LEMMA NextLoopInv == Inv /\ NextLoop => Inv'
<1> SUFFICES ASSUME Inv, NextLoop PROVE Inv'
  OBVIOUS
<1>1. /\ UNCHANGED <<btf, name, members, required, todo, out, pc, err>>
      /\ UNCHANGED <<recordState, fwdState, typedefState>> /\ pc = "emit" /\ todo = <<>>
      /\ loop \in 1 .. 4 /\ loop' = loop + 1 /\ cursor' = 1
      /\ \A id \in Group(Loops[loop]) : id < cursor
  BY LoopNames DEF NextLoop, given, states
<1>2. Declarations' = Declarations
  BY <1>1, DeclarationsFixed
<1>3. TypeOK'
  BY <1>1, <1>2, LoopNames DEF Inv, TypeOK
<1>4. Data'
  BY <1>1 DEF Inv, Data
<1>5. /\ cursor \in Nat /\ Ids(btf) \subseteq Nat \ {0} /\ \A c : Group(c) \subseteq Ids(btf)
  BY <1>1, GroupsAreIds
<1>6. \A l \in 1 .. 4, id \in Nat : Passed(l, id) => Passed(l, id)'
  BY <1>1, <1>5 DEF Passed
<1>7. Active' /\ DefinedOnce'
  BY <1>1 DEF Inv, Active, DefinedOnce, WellCalled, Once, IsNamed, IsNamedRecord
<1>8. StatesMatch'
  <2>1. Printed' = Printed /\ ToSet(todo') = {}
    BY <1>1 DEF Printed, ToSet
  <2>2. \A id \in Ids(btf) :
           /\ fwdState[id] = 1 <=> <<"tag", id>> \in Printed
           /\ recordState[id] = 2 <=> <<"record", id>> \in Printed
           /\ typedefState[id] = 2 <=> <<"typedef", id>> \in Printed
           /\ <<"enum", id>> \in Printed => Passed(2, id)
    BY DEF Inv, StatesMatch
  <2>3. \A id \in Nat : Passed(2, id) => Passed(2, id)'
    BY <1>6
  <2> QED BY <1>1, <1>5, <2>1, <2>2, <2>3 DEF StatesMatch
<1>9. RootsReached'
  <2> SUFFICES ASSUME NEW l \in DOMAIN Loops, NEW id \in Group(Loops[l])', Passed(l, id)'
               PROVE  Reached(Loops[l], id)'
    BY DEF RootsReached
  <2>1. l \in 1 .. 4 /\ id \in Group(Loops[l]) /\ id \in Nat \ {0}
    BY <1>1, <1>5, LoopNames DEF Group, IsNamed, IsNamedRecord
  <2>2. Passed(l, id)
    BY <1>1, <1>5, <2>1 DEF Passed
  <2>3. Reached(Loops[l], id)
    BY <1>1, <2>1, <2>2 DEF Inv, RootsReached
  <2> QED BY <1>1, <2>3 DEF Reached, Printed, IsNamed
<1> QED BY <1>3, <1>4, <1>7, <1>8, <1>9 DEF Inv

LEMMA NextInv == Inv /\ Next => Inv'
BY AllocateInv, TakeRootInv, NextLoopInv, EndInv, FollowInv, SkipInv, EmitForwardDeclInv,
   EmitEnumDefinitionInv, EnterRecordInv, DefineRecordInv, EnterTypedefInv, DefineTypedefInv
   DEF Next

LEMMA StutterInv == Inv /\ UNCHANGED vars => Inv'
<1> SUFFICES ASSUME Inv, UNCHANGED vars PROVE Inv'
  OBVIOUS
<1>1. /\ UNCHANGED <<btf, name, members, required, loop, cursor, todo, out, pc, err>>
      /\ UNCHANGED <<recordState, fwdState, typedefState>>
  BY DEF vars, given, progress, states
<1>2. Declarations' = Declarations
  BY <1>1, DeclarationsFixed
<1>3. TypeOK'
  BY <1>1, <1>2 DEF Inv, TypeOK
<1>4. Data'
  BY <1>1 DEF Inv, Data
<1>5. Active' /\ StatesMatch' /\ DefinedOnce'
  BY <1>1 DEF Inv, Active, StatesMatch, DefinedOnce, WellCalled, Once, Printed, Passed, IsNamed,
              IsNamedRecord
<1>6. RootsReached' <=> RootsReached
  BY <1>1 DEF RootsReached, Reached, Passed, Group, Printed, IsNamed, IsNamedRecord
<1> QED BY <1>1, <1>3, <1>4, <1>5, <1>6 DEF Inv

-----------------------------------------------------------------------------
\* The emitter behind the closure, which grows the set before the emitter begins

BehindClosure == Inv /\ (closing # "ok" => pc = "allocate")

LEMMA GenerateInitInv == GenerateInit => BehindClosure
<1> SUFFICES ASSUME GenerateInit PROVE BehindClosure
  OBVIOUS
<1>1. Begin /\ closing = "init" /\ seeds \in SUBSET Ids(btf) /\ required = seeds
  BY DEF GenerateInit, Called, C!Init, C!Ids, Ids
<1>2. PICK base \in NamedBases : base.btf = btf /\ name = base.name
  BY DEF GenerateInit, Called
<1>3. btf \in BaseBtf /\ name \in [Ids(btf) -> Nat]
  BY <1>2, NamedBasesAssumption
<1>4. required \subseteq Nat
  BY <1>1 DEF Ids
<1>5. Inv
  BY <1>1, <1>3, <1>4, BeginInv
<1> QED BY <1>1, <1>5 DEF BehindClosure, Begin

\* A step of the closure changes the BTF and the members never, and the set only
\* before it returns.
LEMMA ClosureStep ==
  ASSUME C!Next
  PROVE  /\ closing # "ok" /\ btf' = btf /\ members' = members
         /\ required' = required \/ \E id \in Ids(btf) : required' = required \cup {id}
<1> USE DEF C!inputs
<1>1. CASE C!Allocate
  BY <1>1 DEF C!Allocate
<1>2. CASE C!Fill
  BY <1>2 DEF C!Fill
<1>3. CASE C!Filled
  BY <1>3 DEF C!Filled
<1>4. CASE C!Take
  BY <1>4 DEF C!Take
<1>5. CASE C!SkipDep
  BY <1>5 DEF C!SkipDep
<1>6. CASE C!RejectDep
  BY <1>6 DEF C!RejectDep
<1>7. CASE C!AddDep
  BY <1>7 DEF C!AddDep, C!Ids, Ids
<1>8. CASE C!DepsDone
  BY <1>8 DEF C!DepsDone
<1>9. CASE C!Return
  BY <1>9 DEF C!Return
<1> QED BY <1>1, <1>2, <1>3, <1>4, <1>5, <1>6, <1>7, <1>8, <1>9 DEF C!Next

LEMMA ClosureStepInv == BehindClosure /\ C!Next /\ UNCHANGED <<printing, asked>> => BehindClosure'
<1> SUFFICES ASSUME BehindClosure, C!Next, UNCHANGED <<printing, asked>> PROVE BehindClosure'
  OBVIOUS
<1>1. pc = "allocate" /\ Inv /\ btf' = btf /\ members' = members
  BY ClosureStep DEF BehindClosure
<1>2. /\ UNCHANGED <<name, loop, cursor, todo, out, pc, err, recordState, fwdState, typedefState>>
  BY DEF printing, progress, states
<1>3. required' \subseteq Nat
  <2>1. required \subseteq Nat /\ Ids(btf) \subseteq Nat
    BY <1>1 DEF Inv, TypeOK, Ids
  <2>2. required' = required \/ \E id \in Ids(btf) : required' = required \cup {id}
    BY ClosureStep
  <2> QED BY <2>1, <2>2
<1>4. Declarations' = Declarations
  BY <1>1, <1>2, DeclarationsFixed
<1>5. TypeOK'
  BY <1>1, <1>2, <1>3, <1>4 DEF Inv, TypeOK
<1>6. Data'
  BY <1>1, <1>2 DEF Inv, Data
<1>7. Active' /\ StatesMatch' /\ DefinedOnce'
  BY <1>1, <1>2 DEF Inv, Active, StatesMatch, DefinedOnce, WellCalled, Once, Printed, Passed,
                    IsNamed, IsNamedRecord
<1> QED BY <1>1, <1>2, <1>5, <1>6, <1>7 DEF Inv, BehindClosure

LEMMA GenerateNextInv == BehindClosure /\ [GenerateNext]_<<vars, closure>> => BehindClosure'
<1> SUFFICES ASSUME BehindClosure, [GenerateNext]_<<vars, closure>> PROVE BehindClosure'
  OBVIOUS
<1>1. CASE C!Next /\ UNCHANGED <<printing, asked>>
  BY <1>1, ClosureStepInv
<1>2. CASE closing = "ok" /\ Next /\ UNCHANGED closure
  <2>1. Inv' /\ closing' = "ok"
    BY <1>2, NextInv DEF BehindClosure, closure
  <2> QED BY <2>1 DEF BehindClosure
<1>3. CASE UNCHANGED <<vars, closure>>
  <2>1. UNCHANGED vars /\ UNCHANGED <<closing, pc>>
    BY <1>3 DEF closure, vars
  <2>2. Inv'
    BY <2>1, StutterInv DEF BehindClosure
  <2> QED BY <2>1, <2>2 DEF BehindClosure
<1> QED BY <1>1, <1>2, <1>3 DEF GenerateNext

\* The closure and the emitter keep their invariant together (main.c:200-211).
THEOREM Invariance == GenerateSpec => []BehindClosure
BY GenerateInitInv, GenerateNextInv, PTL DEF GenerateSpec

\* The states, the calls left to do and the declarations printed are of their types,
\* for any BTF (emitter.c:490-876).
THEOREM TypeCorrect == GenerateSpec => []TypeOK
<1>1. BehindClosure => TypeOK
  BY DEF BehindClosure, Inv
<1> QED BY <1>1, Invariance, PTL

\* One definition of each type, for any graph of records, typedefs and members and any
\* set of required ids (emitter.c:557-564, 696-709).
THEOREM OneDefinition == GenerateSpec => []DefinedOnce
<1>1. BehindClosure => DefinedOnce
  BY DEF BehindClosure, Inv
<1> QED BY <1>1, Invariance, PTL

\* A header reported as good holds every definition that the required types call for
\* (emitter.c:771-876).
THEOREM NothingForgotten == GenerateSpec => []GoalIsPrinted
<1>1. BehindClosure => GoalIsPrinted
  <2> SUFFICES ASSUME Inv, pc = "ok", NEW d \in CGoal PROVE d \in Printed
    BY DEF BehindClosure, GoalIsPrinted
  <2>1. loop > 4 /\ todo = <<>> /\ loop \in Nat
    BY LoopNames DEF Inv, Data, TypeOK
  <2>2. PICK id \in Ids(btf) : d \in Introduces(id) \X {id}
    BY DEF CGoal, Declarations
  <2>3. /\ d = <<d[1], id>> /\ d[1] \in Introduces(id) /\ id \in required
        /\ d[1] = "tag" => btf[id].kind = "FWD"
    BY <2>2 DEF CGoal
  <2>4. ASSUME NEW l \in 1 .. 4, id \in Group(Loops[l]) PROVE Reached(Loops[l], id)
    <3>1. Passed(l, id)
      BY <2>1 DEF Passed
    <3> QED BY <2>4, <3>1, LoopNames DEF Inv, RootsReached
  <2>5. ToSet(todo) = {}
    BY <2>1 DEF ToSet
  <2>6. /\ recordState[id] # 0 => <<"record", id>> \in Printed
        /\ typedefState[id] # 0 => <<"typedef", id>> \in Printed
        /\ fwdState[id] = 1 => <<"tag", id>> \in Printed
    <3>1. recordState[id] \in 0 .. 2 /\ typedefState[id] \in 0 .. 2
      BY DEF Inv, TypeOK
    <3>2. recordState[id] # 1 /\ typedefState[id] # 1
      BY <2>5 DEF Inv, Active
    <3>3. /\ recordState[id] # 0 => recordState[id] = 2
          /\ typedefState[id] # 0 => typedefState[id] = 2
      BY <3>1, <3>2
    <3> QED BY <3>3 DEF Inv, StatesMatch
  <2>7. CASE btf[id].kind \in EnumKinds
    <3>1. d[1] = "enum"
      BY <2>3, <2>7 DEF Introduces, EnumKinds, RecordKinds
    <3>2. id \in Group("enum")
      BY <2>3, <2>7 DEF Group
    <3>3. Reached("enum", id)
      BY <2>4, <3>2, LoopNames
    <3> QED BY <2>3, <2>5, <3>1, <3>3 DEF Reached
  <2>8. CASE btf[id].kind = "TYPEDEF"
    <3>1. d[1] = "typedef" /\ IsNamed(id)
      BY <2>3, <2>8 DEF Introduces, EnumKinds, RecordKinds
    <3>2. id \in Group("typedef")
      BY <2>3, <2>8 DEF Group
    <3>3. Reached("typedef", id)
      BY <2>4, <3>2, LoopNames
    <3> QED BY <2>3, <2>5, <2>6, <3>1, <3>3 DEF Reached
  <2>9. CASE btf[id].kind = "FWD"
    <3>1. d[1] = "tag" /\ IsNamed(id)
      BY <2>3, <2>9 DEF Introduces, EnumKinds, RecordKinds
    <3>2. id \in Group("forward")
      BY <2>3, <2>9, <3>1 DEF Group, TaggedKinds
    <3>3. Reached("forward", id)
      BY <2>4, <3>2, LoopNames
    <3> QED BY <2>3, <2>5, <2>6, <3>1, <3>3 DEF Reached
  <2>10. CASE btf[id].kind \in RecordKinds
    <3>1. d[1] = "record" /\ IsNamed(id)
      BY <2>3, <2>10 DEF Introduces, EnumKinds, RecordKinds
    <3>2. id \in Group("record")
      BY <2>3, <2>10, <3>1 DEF Group, IsNamedRecord
    <3>3. Reached("record", id)
      BY <2>4, <3>2, LoopNames
    <3> QED BY <2>3, <2>5, <2>6, <3>1, <3>3 DEF Reached
  <2>11. btf[id].kind \in EnumKinds \cup {"TYPEDEF", "FWD"} \cup RecordKinds
    BY <2>3 DEF Introduces
  <2> QED BY <2>7, <2>8, <2>9, <2>10, <2>11
<1> QED BY <1>1, Invariance, PTL

\* Printing changes nothing of what the closure has left: run with the emitter behind
\* it, the closure is the closure of its own module (main.c:200-211).
THEOREM ClosureUndisturbed == GenerateSpec => C!Spec
<1>1. GenerateInit => C!Init
  BY DEF GenerateInit, Called
<1>2. [GenerateNext]_<<vars, closure>> => [C!Next]_C!vars
  <2> SUFFICES ASSUME [GenerateNext]_<<vars, closure>> PROVE C!Next \/ UNCHANGED C!vars
    OBVIOUS
  <2>1. CASE closing = "ok" /\ Next /\ UNCHANGED closure
    <3>1. UNCHANGED <<btf, members, required>>
      BY <2>1 DEF Next, Allocate, TakeRoot, NextLoop, InvalidId, FollowSoftDeps, FollowHardDeps,
                  EmitForwardDecl, EmitEnumDefinition, EnterRecord, SkipRecord, DefineRecord,
                  EnterTypedef, SkipTypedef, TypedefCycle, DefineTypedef, CannotDefine, Finish, given
    <3>2. UNCHANGED closure
      BY <2>1
    <3> QED BY <3>1, <3>2 DEF closure, C!vars, C!inputs
  <2>2. CASE UNCHANGED <<vars, closure>>
    BY <2>2 DEF vars, given, closure, C!vars, C!inputs
  <2> QED BY <2>1, <2>2 DEF GenerateNext
<1> QED BY <1>1, <1>2, PTL DEF GenerateSpec, C!Spec

-----------------------------------------------------------------------------
(***************************************************************************)
(* Cycles.  Where C has an order of the declarations, a declaration has a  *)
(* rank that is greater than those of all that it needs.  The definitions  *)
(* in progress then have ranks that fall with the depth of the recursion,  *)
(* and so the recursion never comes back to one of them.                   *)
(***************************************************************************)
\* No type is qualified so often that NeedsHardDeps gives up.
Peelable == \A id \in Ids(btf) :
              Peeled(id) \in Ids(btf) => btf[Peeled(id)].kind \notin QualifierKinds

\* What the mention of any id demands, along paths of k types at most.
Demand(k, id, complete) == IF id \in Ids(btf) THEN DemandsWithin[k][<<id, complete>>] ELSE {}

\* All but the tags comes before the n-th place.
Below(S, rank, n) == \A d \in S : d[1] # "tag" => d \in Declarations /\ rank[d] < n

Ranked(rank) == \A d \in Declarations : Below(CNeeds[d], rank, rank[d])

\* The declaration that a mark prints, or a call leads to.
Printing(c) == <<IF c[1] \in {"record", "define record"} THEN "record" ELSE "typedef", c[2]>>

\* What a call leads to comes before the n-th place.
Fits(c, rank, n) ==
  /\ c[1] = "soft" => \E k \in 0 .. 2 * Len(btf), complete \in BOOLEAN :
                         Below(Demand(k, c[2], complete), rank, n)
  /\ c[1] = "hard" => \E k \in 0 .. 2 * Len(btf) :
                         \/ Below(Demand(k, c[2], TRUE), rank, n)
                         \/ NeedsHardDeps(c[2]) /\ Below(Demand(k, c[2], FALSE), rank, n)
  /\ c[1] \in {"record", "typedef"} \cup Marks => Below({Printing(c)}, rank, n)

\* All calls that are made for a definition in progress come before it.
Descends(s, rank) ==
  \A p, q \in DOMAIN s : p < q /\ s[q][1] \in Marks => Fits(s[p], rank, rank[Printing(s[q])])

\* The calls left to do, where the ranks are as given.
Descending(rank) == {calls \in Seq(Calls \X Nat) : Descends(calls, rank)}

Ranks == [Declarations -> Nat]

Orderly == Peelable => \A rank \in Ranks : Ranked(rank) =>
                         todo \in Descending(rank) /\ err # "typedef cycle"

-----------------------------------------------------------------------------
\* What a mention demands

MentionType == [Mentions -> SUBSET Demandable]

LEMMA AsksType ==
  ASSUME NEW m \in Mentions, NEW answers \in MentionType
  PROVE  Asks(m, answers) \in SUBSET Demandable
<1> DEFINE id == m[1]   t == btf[id]   kind == t.kind
           Of(S, c) == UNION {answers[<<i, c>>] : i \in S \cap Ids(btf)}
<1>1. id \in Ids(btf) /\ m[2] \in BOOLEAN
  BY DEF Mentions
<1>2. \A S : \A c \in BOOLEAN : Of(S, c) \in SUBSET Demandable
  <2> SUFFICES ASSUME NEW S, NEW c \in BOOLEAN, NEW i \in S \cap Ids(btf)
               PROVE  answers[<<i, c>>] \in SUBSET Demandable
    OBVIOUS
  <2>1. <<i, c>> \in Mentions
    BY DEF Mentions
  <2> QED BY <2>1 DEF MentionType
<1>3. \A what \in {"endless", "typedef", "record", "tag", "enum"} :
        {<<what, id>>} \in SUBSET Demandable
  BY <1>1 DEF Demandable
<1> DEFINE complete == m[2]
           record == IF ~ IsNamed(id) THEN Of(ToSet(KeptTypes(id)), TRUE)
                                      ELSE {<<IF complete THEN "record" ELSE "tag", id>>}
           enum == IF complete /\ IsNamed(id) THEN {<<"enum", id>>} ELSE {}
           typedef == {<<"typedef", id>>} \cup Of(IF complete THEN {t.type} ELSE {}, TRUE)
<1>4. /\ record \in SUBSET Demandable /\ enum \in SUBSET Demandable
      /\ typedef \in SUBSET Demandable
  <2>1. Of(ToSet(KeptTypes(id)), TRUE) \in SUBSET Demandable
    BY <1>2
  <2>2. Of(IF complete THEN {t.type} ELSE {}, TRUE) \in SUBSET Demandable
    BY <1>2
  <2> HIDE DEF Of
  <2> QED BY <1>3, <2>1, <2>2
<1>5. Asks(m, answers) = CASE kind = "PTR"            -> Of({t.type}, FALSE)
                           [] kind = "FUNC_PROTO"     -> Of({t.type} \cup ToSet(t.parts), FALSE)
                           [] kind \in QualifierKinds -> Of({t.type}, complete)
                           [] kind = "ARRAY"          -> Of({t.type}, TRUE)
                           [] kind = "TYPEDEF"        -> typedef
                           [] kind \in RecordKinds    -> record
                           [] kind = "FWD"            -> {<<"tag", id>>}
                           [] kind \in EnumKinds      -> enum
                           [] OTHER -> {}
  BY DEF Asks
<1>6. /\ Of({t.type}, FALSE) \in SUBSET Demandable /\ Of({t.type}, TRUE) \in SUBSET Demandable
      /\ Of({t.type} \cup ToSet(t.parts), FALSE) \in SUBSET Demandable
      /\ Of({t.type}, complete) \in SUBSET Demandable
  BY <1>1, <1>2
<1> HIDE DEF Of, record, enum, typedef
<1> QED BY <1>3, <1>4, <1>5, <1>6 DEF QualifierKinds, RecordKinds, EnumKinds

LEMMA WithinIterates ==
  ASSUME btf \in BaseBtf
  PROVE  /\ \A k \in 0 .. 2 * Len(btf) : DemandsWithin[k] \in MentionType
         /\ \A m \in Mentions : DemandsWithin[0][m] = {<<"endless", m[1]>>}
         /\ \A k \in 1 .. 2 * Len(btf) : \A m \in Mentions :
              DemandsWithin[k][m] = Asks(m, DemandsWithin[k - 1])
<1> DEFINE F == [answers \in MentionType |-> [m \in Mentions |-> Asks(m, answers)]]
           c == [m \in Mentions |-> {<<"endless", m[1]>>}]
           max == 2 * Len(btf)
<1>1. max \in Nat
  BY DEF BaseBtf
<1>2. c \in MentionType
  BY DEF MentionType, Mentions, Demandable
<1>3. F \in [MentionType -> MentionType]
  <2>1. \A answers \in MentionType : [m \in Mentions |-> Asks(m, answers)] \in MentionType
    BY AsksType DEF MentionType
  <2> QED BY <2>1
<1>4. DemandsWithin = Iterate(F, c, max)
  BY DEF DemandsWithin, MentionType
<1>5. \A answers \in MentionType : \A m \in Mentions : F[answers][m] = Asks(m, answers)
  OBVIOUS
<1>6. \A m \in Mentions : c[m] = {<<"endless", m[1]>>}
  OBVIOUS
<1> HIDE DEF F, c, max
<1>7. Iterates(DemandsWithin, F, c, max, MentionType)
  BY <1>1, <1>2, <1>3, <1>4, Iteration, Zenon
<1>8. \A k \in 1 .. max : k - 1 \in 0 .. max
  BY <1>1
<1> QED BY <1>5, <1>6, <1>7, <1>8 DEF Iterates, max

LEMMA DemandAtEnd ==
  ASSUME btf \in BaseBtf, NEW id \in Ids(btf), NEW complete \in BOOLEAN
  PROVE  Demand(0, id, complete) = {<<"endless", id>>}
<1>1. <<id, complete>> \in Mentions
  BY DEF Mentions
<1> QED BY <1>1, WithinIterates DEF Demand

\* What all mentions of the ids demand.
DemandAll(k, ids, complete) == UNION {Demand(k, id, complete) : id \in ids}

\* What a type demands, by its kind; the types behind it are followed one type less far.
LEMMA DemandByKind ==
  ASSUME btf \in BaseBtf, NEW k \in 1 .. 2 * Len(btf), NEW id \in Ids(btf), NEW c \in BOOLEAN
  PROVE  /\ btf[id].kind = "PTR" => Demand(k, id, c) = DemandAll(k - 1, {btf[id].type}, FALSE)
         /\ btf[id].kind = "FUNC_PROTO" =>
              Demand(k, id, c) = DemandAll(k - 1, {btf[id].type} \cup ToSet(btf[id].parts), FALSE)
         /\ btf[id].kind \in QualifierKinds =>
              Demand(k, id, c) = DemandAll(k - 1, {btf[id].type}, c)
         /\ btf[id].kind = "ARRAY" => Demand(k, id, c) = DemandAll(k - 1, {btf[id].type}, TRUE)
         /\ btf[id].kind = "TYPEDEF" => <<"typedef", id>> \in Demand(k, id, c)
         /\ btf[id].kind = "TYPEDEF" /\ c =>
              DemandAll(k - 1, {btf[id].type}, TRUE) \subseteq Demand(k, id, c)
         /\ btf[id].kind \in RecordKinds /\ ~ IsNamed(id) =>
              Demand(k, id, c) = DemandAll(k - 1, ToSet(KeptTypes(id)), TRUE)
         /\ btf[id].kind \in RecordKinds /\ IsNamed(id) /\ c => <<"record", id>> \in Demand(k, id, c)
<1> DEFINE t == btf[id]   kind == t.kind   m == <<id, c>>   answers == DemandsWithin[k - 1]
           Of(S, d) == UNION {answers[<<i, d>>] : i \in S \cap Ids(btf)}
           OfAll(S, d) == DemandAll(k - 1, S, d)
<1>1. m \in Mentions /\ m[1] = id /\ m[2] = c
  BY DEF Mentions
<1>2. Demand(k, id, c) = Asks(m, answers)
  BY <1>1, WithinIterates DEF Demand
<1>3. \A S : \A d \in BOOLEAN : Of(S, d) = OfAll(S, d)
  BY DEF Demand, DemandAll
<1>4. Asks(m, answers) = CASE kind = "PTR"            -> Of({t.type}, FALSE)
                           [] kind = "FUNC_PROTO"     -> Of({t.type} \cup ToSet(t.parts), FALSE)
                           [] kind \in QualifierKinds -> Of({t.type}, c)
                           [] kind = "ARRAY"          -> Of({t.type}, TRUE)
                           [] kind = "TYPEDEF"        ->
                                {<<"typedef", id>>} \cup Of(IF c THEN {t.type} ELSE {}, TRUE)
                           [] kind \in RecordKinds    ->
                                IF ~ IsNamed(id) THEN Of(ToSet(KeptTypes(id)), TRUE)
                                ELSE {<<IF c THEN "record" ELSE "tag", id>>}
                           [] kind = "FWD"            -> {<<"tag", id>>}
                           [] kind \in EnumKinds      ->
                                IF c /\ IsNamed(id) THEN {<<"enum", id>>} ELSE {}
                           [] OTHER -> {}
  BY <1>1 DEF Asks
<1> HIDE DEF Of, OfAll, answers, m
<1>5. /\ kind = "PTR" => Demand(k, id, c) = OfAll({t.type}, FALSE)
      /\ kind = "FUNC_PROTO" => Demand(k, id, c) = OfAll({t.type} \cup ToSet(t.parts), FALSE)
      /\ kind = "ARRAY" => Demand(k, id, c) = OfAll({t.type}, TRUE)
  BY <1>2, <1>3, <1>4 DEF QualifierKinds, RecordKinds, EnumKinds
<1>6. kind \in QualifierKinds => Demand(k, id, c) = OfAll({t.type}, c)
  BY <1>2, <1>3, <1>4 DEF QualifierKinds, RecordKinds, EnumKinds
<1>7. kind = "TYPEDEF" => Demand(k, id, c) = {<<"typedef", id>>} \cup
                            OfAll(IF c THEN {t.type} ELSE {}, TRUE)
  BY <1>2, <1>3, <1>4 DEF QualifierKinds, RecordKinds, EnumKinds
<1>8. kind \in RecordKinds => Demand(k, id, c) = IF ~ IsNamed(id) THEN OfAll(ToSet(KeptTypes(id)), TRUE)
                                                 ELSE {<<IF c THEN "record" ELSE "tag", id>>}
  BY <1>2, <1>3, <1>4 DEF QualifierKinds, RecordKinds, EnumKinds
<1>9. kind = "TYPEDEF" => /\ <<"typedef", id>> \in Demand(k, id, c)
                          /\ c => OfAll({t.type}, TRUE) \subseteq Demand(k, id, c)
  BY <1>7
<1>10. kind \in RecordKinds /\ IsNamed(id) /\ c => <<"record", id>> \in Demand(k, id, c)
  BY <1>8
<1> QED BY <1>5, <1>6, <1>8, <1>9, <1>10 DEF OfAll

LEMMA DemandOne ==
  ASSUME NEW k, NEW ids, NEW id \in ids, NEW c
  PROVE  Demand(k, id, c) \subseteq DemandAll(k, ids, c)
BY DEF DemandAll

LEMMA BelowParts ==
  ASSUME NEW S, NEW rank, NEW n
  PROVE  /\ \A T : T \subseteq S /\ Below(S, rank, n) => Below(T, rank, n)
         /\ Below({}, rank, n)
BY DEF Below

\* Nothing comes after what no declaration can meet.
LEMMA NotEndless ==
  ASSUME btf \in BaseBtf, NEW k \in 0 .. 2 * Len(btf), NEW id \in Ids(btf), NEW c \in BOOLEAN,
         NEW rank, NEW n, Below(Demand(k, id, c), rank, n)
  PROVE  k \in 1 .. 2 * Len(btf)
<1>1. SUFFICES ASSUME k = 0 PROVE FALSE
  BY DEF BaseBtf
<1>2. <<"endless", id>> \in Declarations
  BY <1>1, DemandAtEnd DEF Below
<1>3. PICK i \in Ids(btf) : <<"endless", id>> \in Introduces(i) \X {i}
  BY <1>2 DEF Declarations
<1>4. "endless" \in Introduces(i)
  BY <1>3
<1> QED BY <1>4 DEF Introduces

-----------------------------------------------------------------------------
\* Qualifiers

\* One qualifier less leads to the same type.
LEMMA PeeledNext ==
  ASSUME btf \in BaseBtf, Peelable, NEW id \in Ids(btf)
  PROVE  /\ btf[id].kind \in QualifierKinds => Peeled(btf[id].type) = Peeled(id)
         /\ btf[id].kind \notin QualifierKinds => Peeled(id) = id
<1> DEFINE peel == [i \in Nat |-> IF i \in Ids(btf) /\ btf[i].kind \in QualifierKinds
                                    THEN btf[i].type ELSE i]
           max == PeelLimit - 1
           At(i) == Iterate(peel, i, max)
<1>1. max \in Nat /\ max = 31
  BY DEF PeelLimit
<1>2. \A i \in Ids(btf) : i \in Nat /\ btf[i].type \in Nat
  BY BtfFields DEF Ids
<1>3. peel \in [Nat -> Nat]
  BY <1>2
<1>4. \A i \in Nat : Peeled(i) = At(i)[max]
  BY DEF Peeled
<1>5. \A i \in Nat : peel[i] = IF i \in Ids(btf) /\ btf[i].kind \in QualifierKinds
                                 THEN btf[i].type ELSE i
  OBVIOUS
<1> HIDE DEF peel, max
<1>6. ASSUME NEW i \in Nat PROVE Iterates(At(i), peel, i, max, Nat)
  BY <1>1, <1>3, Iteration, Zenon
<1> HIDE DEF At
<1>7. ASSUME btf[id].kind \notin QualifierKinds PROVE Peeled(id) = id
  <2> DEFINE S == {n \in Nat : n <= max => At(id)[n] = id}
  <2>1. 0 \in S
    BY <1>1, <1>2, <1>6 DEF Iterates
  <2>2. ASSUME NEW n \in S, n + 1 <= max PROVE At(id)[n + 1] = id
    <3>1. n + 1 \in 1 .. max /\ n + 1 - 1 = n /\ At(id)[n] = id
      BY <2>2, <1>1
    <3>2. At(id)[n + 1] = peel[At(id)[n + 1 - 1]]
      BY <3>1, <1>2, <1>6 DEF Iterates
    <3> QED BY <3>1, <3>2, <1>2, <1>5, <1>7
  <2>3. \A n \in S : n + 1 \in S
    BY <2>2
  <2>4. S \in SUBSET Nat
    OBVIOUS
  <2> HIDE DEF S
  <2>5. max \in S
    BY <1>1, <2>1, <2>3, <2>4, Induction
  <2> QED BY <1>1, <1>2, <1>4, <2>5 DEF S
<1>8. ASSUME btf[id].kind \in QualifierKinds PROVE Peeled(btf[id].type) = Peeled(id)
  <2> DEFINE to == btf[id].type
             S == {n \in Nat : n + 1 <= max => At(to)[n] = At(id)[n + 1]}
  <2>1. to \in Nat /\ id \in Nat /\ peel[id] = to
    BY <1>2, <1>5, <1>8
  <2> HIDE DEF to
  <2>2. \A n \in 1 .. max : At(to)[n] = peel[At(to)[n - 1]] /\ At(id)[n] = peel[At(id)[n - 1]]
    BY <1>6, <2>1 DEF Iterates
  <2>3. 0 \in S
    <3>1. 1 \in 1 .. max /\ 1 - 1 = 0
      BY <1>1
    <3>2. At(to)[0] = to /\ At(id)[0] = id
      BY <1>6, <2>1 DEF Iterates
    <3>3. At(id)[1] = to
      BY <2>1, <2>2, <3>1, <3>2
    <3> QED BY <3>2, <3>3
  <2>4. ASSUME NEW n \in S, n + 1 + 1 <= max PROVE At(to)[n + 1] = At(id)[n + 1 + 1]
    <3>1. n + 1 \in 1 .. max /\ n + 1 + 1 \in 1 .. max /\ n + 1 - 1 = n /\ n + 1 + 1 - 1 = n + 1
      BY <2>4, <1>1
    <3>2. At(to)[n] = At(id)[n + 1]
      BY <3>1, <2>4
    <3>3. At(to)[n + 1] = peel[At(to)[n]] /\ At(id)[n + 1 + 1] = peel[At(id)[n + 1]]
      BY <2>2, <3>1
    <3> QED BY <3>2, <3>3
  <2>5. \A n \in S : n + 1 \in S
    BY <2>4
  <2>6. S \in SUBSET Nat
    OBVIOUS
  <2> HIDE DEF S
  <2>7. 30 \in S
    BY <2>3, <2>5, <2>6, Induction
  <2>8. At(to)[30] = At(id)[max]
    BY <1>1, <2>7 DEF S
  <2>9. At(to)[max] = peel[At(to)[30]]
    BY <1>1, <2>2
  <2>10. peel[Peeled(id)] = Peeled(id)
    <3>1. Peeled(id) \in Nat
      <4>1. Iterates(At(id), peel, id, max, Nat) /\ max \in 0 .. max /\ Peeled(id) = At(id)[max]
        BY <1>1, <1>4, <1>6, <2>1
      <4> QED BY <4>1 DEF Iterates
    <3>2. Peeled(id) \in Ids(btf) => btf[Peeled(id)].kind \notin QualifierKinds
      BY DEF Peelable
    <3> QED BY <1>5, <3>1, <3>2
  <2> QED BY <1>4, <2>1, <2>8, <2>9, <2>10 DEF to
<1> QED BY <1>7, <1>8

\* A target that needs hard dependencies is qualified, an array or a record without a name.
LEMMA NeedsHardDepsStep ==
  ASSUME btf \in BaseBtf, Peelable, NEW id \in Ids(btf), NeedsHardDeps(id)
  PROVE  \/ btf[id].kind \in QualifierKinds /\ NeedsHardDeps(btf[id].type)
         \/ btf[id].kind = "ARRAY"
         \/ btf[id].kind \in RecordKinds /\ ~ IsNamed(id)
<1>1. CASE btf[id].kind \in QualifierKinds
  BY <1>1, PeeledNext DEF NeedsHardDeps
<1>2. CASE btf[id].kind \notin QualifierKinds
  <2>1. Peeled(id) = id /\ KindOf(id) = btf[id].kind
    BY <1>2, PeeledNext DEF KindOf, Ids, Void
  <2> QED BY <1>2, <2>1 DEF NeedsHardDeps
<1> QED BY <1>1, <1>2

-----------------------------------------------------------------------------
\* What a call leads to fits where the call does.

LEMMA EachSet ==
  ASSUME NEW call, NEW ids \in Seq(Nat), NEW c \in ToSet(Each(call, ids))
  PROVE  \E i \in ToSet(ids) : c = <<call, i>>
BY DEF Each, ToSet

LEMMA FirstAndOthers ==
  ASSUME NEW x \in Nat, NEW s \in Seq(Nat)
  PROVE  <<x>> \o s \in Seq(Nat) /\ ToSet(<<x>> \o s) = {x} \cup ToSet(s)
<1> DEFINE c == <<x>>
<1>1. c \in Seq(Nat)
  OBVIOUS
<1>2. ToSet(c) = {x}
  BY OnceSingle
<1> HIDE DEF c
<1>3. c \o s \in Seq(Nat) /\ ToSet(c \o s) = ToSet(c) \cup ToSet(s)
  BY <1>1, Concatenation
<1> QED BY <1>2, <1>3 DEF c

LEMMA FitsLater ==
  ASSUME NEW c, NEW rank \in Ranks, NEW n \in Nat, NEW m \in Nat, n <= m, Fits(c, rank, n)
  PROVE  Fits(c, rank, m)
<1>1. \A S : Below(S, rank, n) => Below(S, rank, m)
  <2> SUFFICES ASSUME NEW S, Below(S, rank, n), NEW d \in S, d[1] # "tag"
               PROVE  d \in Declarations /\ rank[d] < m
    BY DEF Below
  <2>1. d \in Declarations /\ rank[d] < n
    BY DEF Below
  <2>2. rank[d] \in Nat
    BY <2>1 DEF Ranks
  <2> QED BY <2>1, <2>2
<1> QED BY <1>1 DEF Fits

LEMMA SoftFits ==
  ASSUME btf \in BaseBtf, NEW id \in 0 .. Len(btf), NEW rank, NEW n,
         Fits(<<"soft", id>>, rank, n), NEW c \in ToSet(SoftDeps(id))
  PROVE  Fits(c, rank, n)
<1> DEFINE kind == KindOf(id)
<1>1. CASE id = 0
  <2>1. SoftDeps(id) = <<>>
    BY <1>1 DEF KindOf, Void, SoftDeps, QualifierKinds, TaggedKinds, RecordKinds
  <2> QED BY <2>1 DEF ToSet
<1>2. CASE id # 0
  <2>1. id \in Ids(btf) /\ kind = btf[id].kind
    BY <1>2 DEF Ids, KindOf, Void, BaseBtf
  <2>2. btf[id].type \in Nat /\ btf[id].parts \in Seq(Nat)
    BY <2>1, BtfFields
  <2>3. PICK k \in 0 .. 2 * Len(btf), complete \in BOOLEAN : Below(Demand(k, id, complete), rank, n)
    BY DEF Fits
  <2>4. k \in 1 .. 2 * Len(btf) /\ k - 1 \in 0 .. 2 * Len(btf)
    <3>1. k \in 1 .. 2 * Len(btf)
      BY <2>1, <2>3, NotEndless
    <3> QED BY <3>1
  <2>5. ASSUME NEW i, NEW d \in BOOLEAN, Demand(k - 1, i, d) \subseteq Demand(k, id, complete)
        PROVE  Fits(<<"soft", i>>, rank, n)
    <3>1. Below(Demand(k - 1, i, d), rank, n)
      BY <2>3, <2>5, BelowParts
    <3> QED BY <2>4, <3>1 DEF Fits, Marks
  <2>6. CASE kind = "TYPEDEF"
    <3>1. SoftDeps(id) = <<<<"typedef", id>>>>
      BY <2>6 DEF SoftDeps, QualifierKinds, TaggedKinds, RecordKinds
    <3>2. c = <<"typedef", id>>
      BY <3>1, OnceSingle
    <3>3. <<"typedef", id>> \in Demand(k, id, complete)
      BY <2>1, <2>4, <2>6, DemandByKind
    <3>4. Below({<<"typedef", id>>}, rank, n)
      BY <2>3, <3>3 DEF Below
    <3> QED BY <3>2, <3>4 DEF Fits, Printing
  <2>7. CASE kind \in QualifierKinds \cup {"PTR", "ARRAY"}
    <3>1. SoftDeps(id) = <<<<"soft", btf[id].type>>>>
      BY <2>7 DEF SoftDeps, QualifierKinds, TaggedKinds, RecordKinds
    <3>2. c = <<"soft", btf[id].type>>
      BY <3>1, OnceSingle
    <3>3. \E d \in BOOLEAN : Demand(k, id, complete) = DemandAll(k - 1, {btf[id].type}, d)
      BY <2>1, <2>4, <2>7, DemandByKind
    <3>4. \E d \in BOOLEAN : Demand(k - 1, btf[id].type, d) \subseteq Demand(k, id, complete)
      BY <3>3, DemandOne
    <3> QED BY <2>5, <3>2, <3>4
  <2>8. CASE kind = "FUNC_PROTO"
    <3> DEFINE ids == <<btf[id].type>> \o btf[id].parts
    <3>1. SoftDeps(id) = Each("soft", ids)
      BY <2>8 DEF SoftDeps, QualifierKinds, TaggedKinds, RecordKinds
    <3>2. ids \in Seq(Nat) /\ ToSet(ids) = {btf[id].type} \cup ToSet(btf[id].parts)
      BY <2>2, FirstAndOthers
    <3> HIDE DEF ids
    <3>3. PICK i \in ToSet(ids) : c = <<"soft", i>>
      BY <3>1, <3>2, EachSet
    <3>4. Demand(k, id, complete) = DemandAll(k - 1, {btf[id].type} \cup ToSet(btf[id].parts), FALSE)
      BY <2>1, <2>4, <2>8, DemandByKind
    <3>5. Demand(k - 1, i, FALSE) \subseteq Demand(k, id, complete)
      <4>1. i \in {btf[id].type} \cup ToSet(btf[id].parts)
        BY <3>2
      <4> QED BY <4>1, <3>4, DemandOne
    <3> QED BY <2>5, <3>3, <3>5
  <2>9. CASE kind \in TaggedKinds
    <3>1. SoftDeps(id) = <<<<"forward", id>>>>
      BY <2>9 DEF SoftDeps, QualifierKinds, TaggedKinds, RecordKinds
    <3>2. c = <<"forward", id>>
      BY <3>1, OnceSingle
    <3> QED BY <3>2 DEF Fits, Marks
  <2>10. CASE ~ (kind \in {"TYPEDEF", "PTR", "ARRAY", "FUNC_PROTO"} \cup QualifierKinds \cup TaggedKinds)
    <3>1. SoftDeps(id) = <<>>
      BY <2>10 DEF SoftDeps, QualifierKinds, TaggedKinds, RecordKinds
    <3> QED BY <3>1 DEF ToSet
  <2> QED BY <2>6, <2>7, <2>8, <2>9, <2>10
<1> QED BY <1>1, <1>2

LEMMA HardFits ==
  ASSUME btf \in BaseBtf, Peelable, NEW id \in 0 .. Len(btf), NEW rank, NEW n,
         Fits(<<"hard", id>>, rank, n), NEW c \in ToSet(HardDeps(id))
  PROVE  Fits(c, rank, n)
<1> DEFINE kind == KindOf(id)
<1>1. CASE id = 0
  <2>1. HardDeps(id) = <<>>
    BY <1>1 DEF KindOf, Void, HardDeps, QualifierKinds, RecordKinds
  <2> QED BY <2>1 DEF ToSet
<1>2. CASE id # 0
  <2>1. id \in Ids(btf) /\ kind = btf[id].kind
    BY <1>2 DEF Ids, KindOf, Void, BaseBtf
  <2>2. btf[id].type \in Nat
    BY <2>1, BtfFields
  <2>3. PICK k \in 0 .. 2 * Len(btf), complete \in BOOLEAN :
          Below(Demand(k, id, complete), rank, n) /\ (complete \/ NeedsHardDeps(id))
    BY DEF Fits
  <2>4. k \in 1 .. 2 * Len(btf) /\ k - 1 \in 0 .. 2 * Len(btf)
    <3>1. k \in 1 .. 2 * Len(btf)
      BY <2>1, <2>3, NotEndless
    <3> QED BY <3>1
  <2>5. ASSUME NEW i, NEW d \in BOOLEAN, Demand(k - 1, i, d) \subseteq Demand(k, id, complete),
               d \/ NeedsHardDeps(i)
        PROVE  Fits(<<"hard", i>>, rank, n)
    <3>1. Below(Demand(k - 1, i, d), rank, n)
      BY <2>3, <2>5, BelowParts
    <3> QED BY <2>4, <2>5, <3>1 DEF Fits, Marks
  <2>6. complete \/ kind \in QualifierKinds \cup {"ARRAY"} \/ (kind \in RecordKinds /\ ~ IsNamed(id))
    BY <2>1, <2>3, NeedsHardDepsStep
  <2>7. CASE kind \in {"PTR", "FUNC_PROTO"}
    <3>1. HardDeps(id) = <<<<"soft", id>>>>
      BY <2>7 DEF HardDeps, QualifierKinds, RecordKinds
    <3>2. c = <<"soft", id>>
      BY <3>1, OnceSingle
    <3> QED BY <2>3, <3>2 DEF Fits, Marks
  <2>8. CASE kind = "FWD"
    <3>1. HardDeps(id) = <<<<"forward", id>>>>
      BY <2>8 DEF HardDeps, QualifierKinds, RecordKinds
    <3>2. c = <<"forward", id>>
      BY <3>1, OnceSingle
    <3> QED BY <3>2 DEF Fits, Marks
  <2>9. CASE kind = "TYPEDEF"
    <3>1. HardDeps(id) = <<<<"hard", btf[id].type>>, <<"typedef", id>>>>
      BY <2>9 DEF HardDeps, QualifierKinds, RecordKinds
    <3>2. c = <<"hard", btf[id].type>> \/ c = <<"typedef", id>>
      BY <3>1 DEF ToSet
    <3>3. complete
      BY <2>6, <2>9 DEF QualifierKinds, RecordKinds
    <3>4. /\ <<"typedef", id>> \in Demand(k, id, complete)
          /\ DemandAll(k - 1, {btf[id].type}, TRUE) \subseteq Demand(k, id, complete)
      BY <2>1, <2>4, <2>9, <3>3, DemandByKind
    <3>5. Below({<<"typedef", id>>}, rank, n)
      BY <2>3, <3>4 DEF Below
    <3>6. Demand(k - 1, btf[id].type, TRUE) \subseteq Demand(k, id, complete)
      BY <3>4, DemandOne
    <3>7. Fits(<<"hard", btf[id].type>>, rank, n)
      BY <2>5, <3>6
    <3>8. Fits(<<"typedef", id>>, rank, n)
      BY <3>5 DEF Fits, Printing
    <3> QED BY <3>2, <3>7, <3>8
  <2>10. CASE kind \in QualifierKinds \cup {"ARRAY"}
    <3>1. HardDeps(id) = <<<<"hard", btf[id].type>>>>
      BY <2>10 DEF HardDeps, QualifierKinds, RecordKinds
    <3>2. c = <<"hard", btf[id].type>>
      BY <3>1, OnceSingle
    <3>3. \E d \in BOOLEAN : /\ Demand(k, id, complete) = DemandAll(k - 1, {btf[id].type}, d)
                             /\ d \/ NeedsHardDeps(btf[id].type)
      <4>1. CASE kind = "ARRAY"
        BY <2>1, <2>4, <4>1, DemandByKind
      <4>2. CASE kind \in QualifierKinds
        <5>1. Demand(k, id, complete) = DemandAll(k - 1, {btf[id].type}, complete)
          BY <2>1, <2>4, <4>2, DemandByKind
        <5>2. complete \/ NeedsHardDeps(btf[id].type)
          BY <2>1, <2>3, <4>2, NeedsHardDepsStep DEF QualifierKinds, RecordKinds
        <5> QED BY <5>1, <5>2
      <4> QED BY <2>10, <4>1, <4>2
    <3>4. \E d \in BOOLEAN : /\ Demand(k - 1, btf[id].type, d) \subseteq Demand(k, id, complete)
                             /\ d \/ NeedsHardDeps(btf[id].type)
      BY <3>3, DemandOne
    <3> QED BY <2>5, <3>2, <3>4
  <2>11. CASE kind \in RecordKinds /\ ~ IsNamed(id)
    <3>1. HardDeps(id) = Each("hard", KeptTypes(id))
      BY <2>11 DEF HardDeps, QualifierKinds, RecordKinds
    <3>2. PICK i \in ToSet(KeptTypes(id)) : c = <<"hard", i>>
      BY <2>1, <3>1, KeptTypesAreIds, EachSet
    <3>3. Demand(k, id, complete) = DemandAll(k - 1, ToSet(KeptTypes(id)), TRUE)
      BY <2>1, <2>4, <2>11, DemandByKind
    <3>4. Demand(k - 1, i, TRUE) \subseteq Demand(k, id, complete)
      BY <3>2, <3>3, DemandOne
    <3> QED BY <2>5, <3>2, <3>4
  <2>12. CASE kind \in RecordKinds /\ IsNamed(id)
    <3>1. HardDeps(id) = <<<<"record", id>>>>
      BY <2>12 DEF HardDeps, QualifierKinds, RecordKinds
    <3>2. c = <<"record", id>>
      BY <3>1, OnceSingle
    <3>3. complete
      BY <2>6, <2>12 DEF QualifierKinds, RecordKinds
    <3>4. <<"record", id>> \in Demand(k, id, complete)
      BY <2>1, <2>4, <2>12, <3>3, DemandByKind
    <3>5. Below({<<"record", id>>}, rank, n)
      BY <2>3, <3>4 DEF Below
    <3> QED BY <3>2, <3>5 DEF Fits, Printing
  <2>13. CASE ~ (kind \in {"TYPEDEF", "PTR", "ARRAY", "FUNC_PROTO", "FWD"} \cup QualifierKinds
                          \cup RecordKinds)
    <3>1. HardDeps(id) = <<>>
      BY <2>13 DEF HardDeps, QualifierKinds, RecordKinds
    <3> QED BY <3>1 DEF ToSet
  <2> QED BY <2>7, <2>8, <2>9, <2>10, <2>11, <2>12, <2>13
<1> QED BY <1>1, <1>2

-----------------------------------------------------------------------------
\* What a definition needs comes before it.

LEMMA NeedsByKind ==
  ASSUME btf \in BaseBtf, NEW d \in Declarations
  PROVE  /\ d[1] = "typedef" => CNeeds[d] = DemandAll(2 * Len(btf), {btf[d[2]].type}, FALSE)
         /\ d[1] = "record" => CNeeds[d] = DemandAll(2 * Len(btf), ToSet(KeptTypes(d[2])), TRUE)
                                             \ {<<"tag", d[2]>>}
<1> DEFINE demands == DemandsWithin[2 * Len(btf)]
           Of(S, c) == UNION {demands[<<i, c>>] : i \in S \cap Ids(btf)}
<1>1. \A S, c : Of(S, c) = DemandAll(2 * Len(btf), S, c)
  BY DEF Demand, DemandAll
<1>2. CNeeds[d] = CASE d[1] = "typedef" -> Of({btf[d[2]].type}, FALSE)
                    [] d[1] = "record"  -> Of(ToSet(KeptTypes(d[2])), TRUE) \ {<<"tag", d[2]>>}
                    [] OTHER -> {}
  BY DEF CNeeds
<1> HIDE DEF Of
<1>3. d[1] = "typedef" => CNeeds[d] = Of({btf[d[2]].type}, FALSE)
  BY <1>2
<1>4. d[1] = "record" => CNeeds[d] = Of(ToSet(KeptTypes(d[2])), TRUE) \ {<<"tag", d[2]>>}
  BY <1>2
<1> QED BY <1>1, <1>3, <1>4

LEMMA DefinitionDeclared ==
  ASSUME NEW id \in Ids(btf)
  PROVE  /\ IsNamedRecord(id) => <<"record", id>> \in Declarations
         /\ btf[id].kind = "TYPEDEF" /\ IsNamed(id) => <<"typedef", id>> \in Declarations
BY DEF Declarations, Introduces, IsNamedRecord, EnumKinds, RecordKinds

LEMMA RecordNeeds ==
  ASSUME btf \in BaseBtf, NEW rank, Ranked(rank), NEW id \in Ids(btf), IsNamedRecord(id),
         NEW m \in ToSet(KeptTypes(id))
  PROVE  Fits(<<"hard", m>>, rank, rank[<<"record", id>>])
<1> DEFINE d == <<"record", id>>   max == 2 * Len(btf)
<1>1. d \in Declarations /\ d[1] = "record" /\ d[2] = id
  BY DefinitionDeclared
<1>2. CNeeds[d] = DemandAll(max, ToSet(KeptTypes(id)), TRUE) \ {<<"tag", id>>}
  BY <1>1, NeedsByKind
<1>3. Below(CNeeds[d], rank, rank[d])
  BY <1>1 DEF Ranked
<1>4. Demand(max, m, TRUE) \subseteq DemandAll(max, ToSet(KeptTypes(id)), TRUE)
  BY DemandOne
<1> HIDE DEF d, max
<1>5. Below(Demand(max, m, TRUE), rank, rank[d])
  <2> SUFFICES ASSUME NEW e \in Demand(max, m, TRUE), e[1] # "tag"
               PROVE  e \in Declarations /\ rank[e] < rank[d]
    BY DEF Below
  <2>1. e # <<"tag", id>>
    OBVIOUS
  <2>2. e \in CNeeds[d]
    BY <1>2, <1>4, <2>1
  <2> QED BY <1>3, <2>2 DEF Below
<1>6. max \in 0 .. 2 * Len(btf)
  BY DEF max, BaseBtf
<1> QED BY <1>5, <1>6 DEF Fits, Marks, d, max

LEMMA TypedefNeeds ==
  ASSUME btf \in BaseBtf, NEW rank, Ranked(rank), NEW id \in Ids(btf), btf[id].kind = "TYPEDEF",
         IsNamed(id)
  PROVE  Fits(<<IF NeedsHardDeps(btf[id].type) THEN "hard" ELSE "soft", btf[id].type>>, rank,
              rank[<<"typedef", id>>])
<1> DEFINE d == <<"typedef", id>>   max == 2 * Len(btf)   to == btf[id].type
<1>1. d \in Declarations /\ d[1] = "typedef" /\ d[2] = id
  BY DefinitionDeclared
<1>2. CNeeds[d] = DemandAll(max, {to}, FALSE)
  BY <1>1, NeedsByKind
<1>3. Below(CNeeds[d], rank, rank[d])
  BY <1>1 DEF Ranked
<1>4. Demand(max, to, FALSE) \subseteq DemandAll(max, {to}, FALSE)
  BY DemandOne
<1> HIDE DEF d, max, to
<1>5. Below(Demand(max, to, FALSE), rank, rank[d])
  BY <1>2, <1>3, <1>4, BelowParts
<1>6. max \in 0 .. 2 * Len(btf)
  BY DEF max, BaseBtf
<1>7. CASE NeedsHardDeps(to)
  <2>1. Fits(<<"hard", to>>, rank, rank[d])
    BY <1>5, <1>6, <1>7 DEF Fits, Marks
  <2> QED BY <1>7, <2>1 DEF d, to
<1>8. CASE ~ NeedsHardDeps(to)
  <2>1. Fits(<<"soft", to>>, rank, rank[d])
    BY <1>5, <1>6 DEF Fits, Marks
  <2> QED BY <1>8, <2>1 DEF d, to
<1> QED BY <1>7, <1>8

-----------------------------------------------------------------------------
\* The calls left to do

\* Calls that lead no further than the one they replace.
LEMMA ReplaceDescends ==
  ASSUME NEW E, NEW s \in Seq(E), s # <<>>, NEW c \in Seq(E), NEW rank,
         Descends(s, rank), Descends(c, rank),
         \A q \in ToSet(s) : q[1] \in Marks => rank[Printing(q)] \in Nat,
         \A n \in Nat : Fits(Head(s), rank, n) => \A x \in ToSet(c) : Fits(x, rank, n)
  PROVE  Descends(c \o Tail(s), rank)
<1> DEFINE r == c \o Tail(s)   At(i) == i - Len(c) + 1
<1>1. /\ Len(c) \in Nat /\ DOMAIN c = 1 .. Len(c) /\ DOMAIN s = 1 .. Len(s) /\ Len(s) \in Nat
      /\ \A i \in DOMAIN r : i \in Nat
      /\ \A i \in DOMAIN r : i \in DOMAIN c => r[i] = c[i]
      /\ \A i \in DOMAIN r : i \notin DOMAIN c =>
           /\ i > Len(c) /\ At(i) \in DOMAIN s /\ At(i) > 1 /\ r[i] = s[At(i)]
      /\ 1 \in DOMAIN s /\ Head(s) = s[1]
  <2> DEFINE t == Tail(s)
  <2>1. /\ t \in Seq(E) /\ Len(s) \in Nat \ {0} /\ Len(t) = Len(s) - 1 /\ Head(s) = s[1]
        /\ DOMAIN s = 1 .. Len(s) /\ DOMAIN t = 1 .. Len(t)
        /\ \A i \in DOMAIN t : t[i] = s[i + 1]
    OBVIOUS
  <2> HIDE DEF t
  <2>2. /\ Len(c) \in Nat /\ DOMAIN c = 1 .. Len(c) /\ DOMAIN (c \o t) = 1 .. Len(c) + Len(t)
        /\ \A i \in DOMAIN (c \o t) : i \in DOMAIN c => (c \o t)[i] = c[i]
        /\ \A i \in DOMAIN (c \o t) : i \notin DOMAIN c => /\ i - Len(c) \in DOMAIN t
                                                           /\ (c \o t)[i] = t[i - Len(c)]
    BY <2>1
  <2> QED BY <2>1, <2>2 DEF t
<1> HIDE DEF r
<1> SUFFICES ASSUME NEW p \in DOMAIN r, NEW q \in DOMAIN r, p < q, r[q][1] \in Marks
             PROVE  Fits(r[p], rank, rank[Printing(r[q])])
  BY DEF Descends, r
<1>2. CASE q \in DOMAIN c
  <2>1. p \in DOMAIN c
    BY <1>1, <1>2
  <2> QED BY <1>1, <1>2, <2>1 DEF Descends
<1>3. CASE p \in DOMAIN c /\ q \notin DOMAIN c
  <2>1. At(q) \in DOMAIN s /\ 1 < At(q) /\ r[q] = s[At(q)]
    BY <1>1, <1>3
  <2> HIDE DEF At
  <2>2. Fits(Head(s), rank, rank[Printing(r[q])])
    BY <1>1, <2>1 DEF Descends
  <2>3. rank[Printing(r[q])] \in Nat
    BY <2>1 DEF ToSet
  <2>4. r[p] \in ToSet(c)
    BY <1>1, <1>3 DEF ToSet
  <2> QED BY <2>2, <2>3, <2>4
<1>4. CASE p \notin DOMAIN c /\ q \notin DOMAIN c
  <2>1. At(p) \in DOMAIN s /\ At(q) \in DOMAIN s /\ At(p) < At(q) /\ r[p] = s[At(p)] /\ r[q] = s[At(q)]
    BY <1>1, <1>4
  <2> HIDE DEF At
  <2> QED BY <2>1 DEF Descends
<1> QED BY <1>2, <1>3, <1>4

LEMMA UnmarkedDescends ==
  ASSUME NEW c, NEW rank, \A x \in ToSet(c) : x[1] \notin Marks
  PROVE  Descends(c, rank)
BY DEF Descends, ToSet

\* The calls that a definition begins with, and the entry that prints it behind them.
LEMMA BeginDescends ==
  ASSUME NEW E, NEW u \in Seq(E), NEW x \in E, NEW rank,
         \A y \in ToSet(u) : y[1] \notin Marks /\ Fits(y, rank, rank[Printing(x)])
  PROVE  Descends(u \o <<x>>, rank)
<1> DEFINE r == u \o <<x>>
<1>1. /\ Len(u) \in Nat /\ DOMAIN u = 1 .. Len(u) /\ DOMAIN r = 1 .. Len(u) + 1
      /\ \A i \in DOMAIN u : r[i] = u[i]
      /\ r[Len(u) + 1] = x
  OBVIOUS
<1> HIDE DEF r
<1> SUFFICES ASSUME NEW p \in DOMAIN r, NEW q \in DOMAIN r, p < q, r[q][1] \in Marks
             PROVE  Fits(r[p], rank, rank[Printing(r[q])])
  BY DEF Descends, r
<1>2. \A i \in DOMAIN u : u[i][1] \notin Marks /\ Fits(u[i], rank, rank[Printing(x)])
  BY DEF ToSet
<1>3. q = Len(u) + 1 /\ p \in DOMAIN u
  BY <1>1, <1>2
<1> QED BY <1>1, <1>2, <1>3

-----------------------------------------------------------------------------
\* The steps

LEMMA PairParts == ASSUME NEW a, NEW b, NEW c, c = <<a, b>> PROVE c[1] = a /\ c[2] = b
OBVIOUS

LEMMA OneAndOne ==
  ASSUME NEW E, NEW a \in E, NEW b \in E
  PROVE  <<a>> \o <<b>> = <<a, b>>
<1> DEFINE r == <<a>> \o <<b>>   t == <<a, b>>
<1>1. r \in Seq(E) /\ t \in Seq(E) /\ Len(r) = 2 /\ Len(t) = 2
  OBVIOUS
<1>2. r[1] = a /\ r[2] = b /\ t[1] = a /\ t[2] = b
  OBVIOUS
<1> HIDE DEF r, t
<1>3. \A i \in 1 .. Len(r) : r[i] = t[i]
  <2>1. \A i \in 1 .. 2 : i = 1 \/ i = 2
    OBVIOUS
  <2> QED BY <1>1, <1>2, <2>1
<1>4. r = t
  BY <1>1, <1>3, SeqEqual
<1> QED BY <1>4 DEF r, t

LEMMA OneDescends == ASSUME NEW x, NEW rank PROVE Descends(<<x>>, rank)
<1>1. \A i \in DOMAIN <<x>> : i = 1
  OBVIOUS
<1>2. ~ (1 < 1)
  OBVIOUS
<1> QED BY <1>1, <1>2, Zenon DEF Descends

LEMMA MarksRanked ==
  ASSUME Inv, NEW rank \in Ranks, NEW q \in ToSet(todo), q[1] \in Marks
  PROVE  Printing(q) \in Declarations /\ rank[Printing(q)] \in Nat
<1>1. WellCalled(q)
  BY DEF Inv, Active
<1>2. Printing(q) \in Declarations
  BY <1>1, DefinitionDeclared DEF WellCalled, Printing, Marks
<1> QED BY <1>2 DEF Ranks

LEMMA CallDescends ==
  ASSUME Inv, pc = "emit", todo # <<>>, NEW rank \in Ranks, Descends(todo, rank),
         NEW calls \in Seq(Calls \X Nat), Replace(calls), Descends(calls, rank),
         \A n \in Nat : Fits(<<Call, Id>>, rank, n) => \A x \in ToSet(calls) : Fits(x, rank, n)
  PROVE  Descends(todo', rank)
<1>1. todo \in Seq(Calls \X Nat) /\ todo' = calls \o Tail(todo)
  BY DEF Inv, TypeOK, Replace
<1>2. Head(todo) \in Calls \X Nat
  BY <1>1, Replacing
<1>3. Head(todo) = <<Call, Id>>
  BY <1>2 DEF Call, Id
<1>4. \A q \in ToSet(todo) : q[1] \in Marks => rank[Printing(q)] \in Nat
  BY MarksRanked
<1> QED BY <1>1, <1>3, <1>4, ReplaceDescends

LEMMA ReturnDescends ==
  ASSUME Inv, pc = "emit", todo # <<>>, NEW rank \in Ranks, Descends(todo, rank), Return
  PROVE  Descends(todo', rank)
<1>1. Replace(<<>>)
  BY AtCall DEF Replace, Return
<1>2. ToSet(<<>>) = {} /\ <<>> \in Seq(Calls \X Nat)
  BY DEF ToSet
<1>3. Descends(<<>>, rank)
  BY DEF Descends
<1> QED BY <1>1, <1>2, <1>3, CallDescends

LEMMA FollowDescends ==
  ASSUME Inv, Peelable, NEW rank \in Ranks, Descends(todo, rank), FollowSoftDeps \/ FollowHardDeps
  PROVE  Descends(todo', rank)
<1>1. /\ pc = "emit" /\ todo # <<>> /\ Id \in 0 .. Len(btf) /\ btf \in BaseBtf
  BY AtCall DEF FollowSoftDeps, FollowHardDeps, Doing
<1>2. ASSUME NEW calls, Quiet(calls)
      PROVE  calls \in Seq(Calls \X Nat) /\ Descends(calls, rank)
  BY <1>2, UnmarkedDescends DEF Quiet
<1>3. CASE FollowSoftDeps
  <2>1. Call = "soft" /\ Replace(SoftDeps(Id))
    BY <1>3 DEF FollowSoftDeps, Doing
  <2>2. SoftDeps(Id) \in Seq(Calls \X Nat) /\ Descends(SoftDeps(Id), rank)
    BY <1>1, <1>2, SoftDepsQuiet
  <2>3. \A n \in Nat : Fits(<<Call, Id>>, rank, n) =>
          \A x \in ToSet(SoftDeps(Id)) : Fits(x, rank, n)
    BY <1>1, <2>1, SoftFits
  <2> QED BY <1>1, <2>1, <2>2, <2>3, CallDescends
<1>4. CASE FollowHardDeps
  <2>1. Call = "hard" /\ Replace(HardDeps(Id))
    BY <1>4 DEF FollowHardDeps, Doing
  <2>2. HardDeps(Id) \in Seq(Calls \X Nat) /\ Descends(HardDeps(Id), rank)
    BY <1>1, <1>2, HardDepsQuiet
  <2>3. \A n \in Nat : Fits(<<Call, Id>>, rank, n) =>
          \A x \in ToSet(HardDeps(Id)) : Fits(x, rank, n)
    BY <1>1, <2>1, HardFits
  <2> QED BY <1>1, <2>1, <2>2, <2>3, CallDescends
<1> QED BY <1>3, <1>4

\* A definition that begins: its own calls fit before it, and so wherever it does.
LEMMA EnterDescends ==
  ASSUME Inv, pc = "emit", todo # <<>>, NEW rank \in Ranks, Descends(todo, rank),
         Call \in {"record", "typedef"},
         NEW q \in Seq(Calls \X Nat), NEW mark \in Calls \X Nat, Replace(q \o <<mark>>),
         mark[1] \in Marks, Printing(mark) = Printing(<<Call, Id>>),
         \A y \in ToSet(q) : y[1] \notin Marks /\ Fits(y, rank, rank[Printing(mark)])
  PROVE  Descends(todo', rank)
<1> DEFINE one == <<mark>>   calls == q \o one
<1>1. one \in Seq(Calls \X Nat) /\ ToSet(one) = {mark}
  BY OnceSingle
<1> HIDE DEF one
<1>2. calls \in Seq(Calls \X Nat) /\ ToSet(calls) = ToSet(q) \cup {mark}
  BY <1>1, Concatenation
<1>3. Descends(calls, rank)
  BY BeginDescends DEF one
<1>4. Replace(calls)
  BY DEF one
<1> HIDE DEF calls
<1>5. ASSUME NEW n \in Nat, Fits(<<Call, Id>>, rank, n), NEW x \in ToSet(calls)
      PROVE  Fits(x, rank, n)
  <2>1. Below({Printing(mark)}, rank, n)
    BY <1>5 DEF Fits
  <2>2. Printing(mark)[1] # "tag"
    BY DEF Printing
  <2>3. Printing(mark) \in Declarations /\ rank[Printing(mark)] < n
    BY <2>1, <2>2 DEF Below
  <2>4. CASE x = mark
    BY <2>1, <2>4 DEF Fits, Marks
  <2>5. CASE x \in ToSet(q)
    <3>1. rank[Printing(mark)] \in Nat /\ rank[Printing(mark)] <= n
      BY <2>3 DEF Ranks
    <3> QED BY <2>5, <3>1, FitsLater
  <2> QED BY <1>2, <1>5, <2>4, <2>5
<1> QED BY <1>2, <1>3, <1>4, <1>5, CallDescends

LEMMA EnterRecordDescends ==
  ASSUME Inv, NEW rank \in Ranks, Ranked(rank), Descends(todo, rank), EnterRecord
  PROVE  Descends(todo', rank)
<1> DEFINE q == Each("hard", KeptTypes(Id))   mark == <<"define record", Id>>
<1>1. pc = "emit" /\ todo # <<>> /\ Call = "record" /\ Replace(q \o <<mark>>)
  BY DEF EnterRecord, Doing
<1>2. Id \in Ids(btf) /\ IsNamedRecord(Id) /\ Id \in Nat /\ btf \in BaseBtf
  BY <1>1, AtCall DEF WellCalled
<1>3. KeptTypes(Id) \in Seq(Nat) /\ Quiet(q)
  BY <1>2, KeptTypesAreIds, QuietEach
<1>4. /\ mark \in Calls \X Nat /\ mark[1] \in Marks /\ Printing(mark) = <<"record", Id>>
      /\ Printing(<<Call, Id>>) = <<"record", Id>>
  BY <1>1, <1>2 DEF Calls, Marks, Printing
<1>5. ASSUME NEW y \in ToSet(q)
      PROVE  y[1] \notin Marks /\ Fits(y, rank, rank[<<"record", Id>>])
  <2>1. PICK m \in ToSet(KeptTypes(Id)) : y = <<"hard", m>>
    BY <1>3, EachSet
  <2> QED BY <1>2, <2>1, RecordNeeds DEF Marks
<1>6. q \in Seq(Calls \X Nat)
  BY <1>3 DEF Quiet
<1> HIDE DEF q, mark
<1> QED BY <1>1, <1>4, <1>5, <1>6, EnterDescends

LEMMA EnterTypedefDescends ==
  ASSUME Inv, NEW rank \in Ranks, Ranked(rank), Descends(todo, rank), EnterTypedef
  PROVE  Descends(todo', rank)
<1> DEFINE call == <<IF NeedsHardDeps(btf[Id].type) THEN "hard" ELSE "soft", btf[Id].type>>
           mark == <<"define typedef", Id>>
           q == <<call>>
<1>1. pc = "emit" /\ todo # <<>> /\ Call = "typedef" /\ IsNamed(Id) /\ Replace(<<call, mark>>)
  BY DEF EnterTypedef, Doing
<1>2. Id \in Ids(btf) /\ btf[Id].kind = "TYPEDEF" /\ Id \in Nat /\ btf \in BaseBtf
  BY <1>1, AtCall DEF WellCalled
<1>3. btf[Id].type \in Nat
  BY <1>2, BtfFields
<1>4. call \in Calls \X Nat /\ call[1] \notin Marks
  BY <1>3 DEF Calls, Marks
<1>5. /\ mark \in Calls \X Nat /\ mark[1] \in Marks /\ Printing(mark) = <<"typedef", Id>>
      /\ Printing(<<Call, Id>>) = <<"typedef", Id>>
  BY <1>1, <1>2 DEF Calls, Marks, Printing
<1>6. Fits(call, rank, rank[<<"typedef", Id>>])
  BY <1>1, <1>2, TypedefNeeds
<1> HIDE DEF call, mark
<1>7. q \in Seq(Calls \X Nat) /\ ToSet(q) = {call} /\ q \o <<mark>> = <<call, mark>>
  <2>1. q \in Seq(Calls \X Nat)
    BY <1>4
  <2>2. ToSet(q) = {call}
    BY OnceSingle
  <2>3. q \o <<mark>> = <<call, mark>>
    BY <1>4, <1>5, OneAndOne
  <2> QED BY <2>1, <2>2, <2>3
<1> HIDE DEF q
<1> QED BY <1>1, <1>4, <1>5, <1>6, <1>7, EnterDescends

\* An active definition is deeper in the recursion than the call that comes back to it.
LEMMA NoCycle ==
  ASSUME Inv, NEW rank \in Ranks, Descends(todo, rank), TypedefCycle
  PROVE  FALSE
<1> DEFINE d == <<"typedef", Id>>
<1>1. pc = "emit" /\ todo # <<>> /\ Call = "typedef" /\ typedefState[Id] = 1
  BY DEF TypedefCycle, Doing
<1>2. Id \in Ids(btf) /\ <<"define typedef", Id>> \in ToSet(todo)
  BY <1>1, AtCall DEF WellCalled, Inv, Active
<1>3. PICK q \in DOMAIN todo : todo[q] = <<"define typedef", Id>>
  BY <1>2 DEF ToSet
<1>4. /\ todo \in Seq(Calls \X Nat) /\ 1 \in DOMAIN todo /\ todo[1] = Head(todo) /\ q \in Nat \ {0}
      /\ Head(todo) \in Calls \X Nat
  <2>1. todo \in Seq(Calls \X Nat)
    BY DEF Inv, TypeOK
  <2> QED BY <1>1, <2>1
<1>5. todo[1] = <<"typedef", Id>>
  BY <1>1, <1>4 DEF Call, Id
<1>6. todo[q][1] = "define typedef" /\ todo[q][2] = Id
  BY <1>3, PairParts
<1>7. todo[1][1] = "typedef" /\ todo[1][2] = Id
  BY <1>5
<1>8. 1 < q
  <2>1. q # 1
    BY <1>6, <1>7
  <2> QED BY <1>4, <2>1
<1>9. Fits(todo[1], rank, rank[Printing(todo[q])])
  <2>1. todo[q][1] \in Marks
    BY <1>6 DEF Marks
  <2> QED BY <1>4, <1>8, <2>1 DEF Descends
<1>10. Printing(todo[q]) = d /\ Printing(todo[1]) = d
  BY <1>6, <1>7 DEF Printing
<1>11. d \in Declarations /\ rank[d] < rank[d]
  <2>1. Below({d}, rank, rank[d])
    BY <1>7, <1>9, <1>10 DEF Fits
  <2> QED BY <2>1 DEF Below
<1> QED BY <1>11 DEF Ranks

LEMMA StepDescends ==
  ASSUME Inv, Peelable, NEW rank \in Ranks, Ranked(rank), Descends(todo, rank),
         err # "typedef cycle", Next
  PROVE  Descends(todo', rank) /\ err' # "typedef cycle"
<1>1. CASE Allocate \/ NextLoop \/ InvalidId \/ CannotDefine \/ Finish
  <2>1. todo' = todo /\ err' # "typedef cycle"
    BY <1>1 DEF Allocate, NextLoop, InvalidId, CannotDefine, Finish, Fail
  <2> QED BY <2>1
<1>2. CASE TakeRoot
  <2>1. err' = err /\ \E id : todo' = <<<<Loops[loop], id>>>>
    BY <1>2 DEF TakeRoot
  <2> QED BY <2>1, OneDescends
<1>3. CASE EmitForwardDecl \/ EmitEnumDefinition \/ SkipRecord \/ DefineRecord \/ SkipTypedef
           \/ DefineTypedef
  <2>1. err' = err /\ pc = "emit" /\ todo # <<>> /\ Return
    BY <1>3 DEF EmitForwardDecl, EmitEnumDefinition, SkipRecord, DefineRecord, SkipTypedef,
                DefineTypedef, Doing
  <2> QED BY <2>1, ReturnDescends
<1>4. CASE FollowSoftDeps \/ FollowHardDeps
  <2>1. err' = err
    BY <1>4 DEF FollowSoftDeps, FollowHardDeps
  <2> QED BY <1>4, <2>1, FollowDescends
<1>5. CASE EnterRecord
  <2>1. err' = err
    BY <1>5 DEF EnterRecord
  <2> QED BY <1>5, <2>1, EnterRecordDescends
<1>6. CASE EnterTypedef
  <2>1. err' = err
    BY <1>6 DEF EnterTypedef
  <2> QED BY <1>6, <2>1, EnterTypedefDescends
<1>7. CASE TypedefCycle
  BY <1>7, NoCycle
<1> QED BY <1>1, <1>2, <1>3, <1>4, <1>5, <1>6, <1>7 DEF Next

-----------------------------------------------------------------------------
\* The judgement depends on the BTF, the names and the members alone, which no step changes.

LEMMA AsksFixed ==
  ASSUME UNCHANGED <<btf, name, members>>, NEW m, NEW answers
  PROVE  Asks(m, answers)' = Asks(m, answers)
BY DEF Asks, IsNamed, KeptTypes, Kept

LEMMA WithinFixed ==
  ASSUME UNCHANGED <<btf, name, members>>
  PROVE  DemandsWithin' = DemandsWithin
<1> DEFINE F == [answers \in [Mentions -> SUBSET Demandable] |-> [m \in Mentions |-> Asks(m, answers)]]
           c == [m \in Mentions |-> {<<"endless", m[1]>>}]
<1>1. btf' = btf /\ Mentions' = Mentions /\ Demandable' = Demandable
  BY DEF Mentions, Demandable
<1>2. \A m, answers : Asks(m, answers)' = Asks(m, answers)
  BY AsksFixed
<1>3. F' = F
  BY <1>1, <1>2
<1>4. c' = c
  BY <1>1
<1>5. DemandsWithin = Iterate(F, c, 2 * Len(btf))
  BY DEF DemandsWithin
<1>6. DemandsWithin' = Iterate(F', c', 2 * Len(btf'))
  BY DEF DemandsWithin
<1> HIDE DEF F, c
<1> QED BY <1>1, <1>3, <1>4, <1>5, <1>6

LEMMA RanksFixed ==
  ASSUME UNCHANGED <<btf, name, members>>
  PROVE  /\ Peelable' = Peelable /\ Ranks' = Ranks
         /\ \A rank : Ranked(rank)' <=> Ranked(rank)
         /\ \A c, rank, n : Fits(c, rank, n)' <=> Fits(c, rank, n)
         /\ CNeeds' = CNeeds
         /\ \A k, i, c : Demand(k, i, c)' = Demand(k, i, c)
         /\ \A i : Peeled(i)' = Peeled(i)
<1>1. btf' = btf /\ Declarations' = Declarations /\ DemandsWithin' = DemandsWithin
  BY DeclarationsFixed, WithinFixed
<1>2. \A k, i, c : Demand(k, i, c)' = Demand(k, i, c)
  BY <1>1 DEF Demand
<1>3. \A S, rank, n : Below(S, rank, n)' <=> Below(S, rank, n)
  BY <1>1 DEF Below
<1>4. \A i : /\ Peeled(i)' = Peeled(i)
             /\ NeedsHardDeps(i)' <=> NeedsHardDeps(i)
  <2>1. \A i : Peeled(i)' = Peeled(i)
    BY <1>1 DEF Peeled
  <2>2. \A i : KindOf(i)' = KindOf(i) /\ (IsNamed(i)' <=> IsNamed(i))
    BY DEF KindOf, IsNamed
  <2> QED BY <1>1, <2>1, <2>2 DEF NeedsHardDeps
<1>5. \A c, rank, n : Fits(c, rank, n)' <=> Fits(c, rank, n)
  <2> SUFFICES ASSUME NEW c, NEW rank, NEW n PROVE Fits(c, rank, n)' <=> Fits(c, rank, n)
    OBVIOUS
  <2> QED BY <1>1, <1>2, <1>4 DEF Fits, Printing, Below
<1>6. CNeeds' = CNeeds
  <2>1. \A i : KeptTypes(i)' = KeptTypes(i)
    BY DEF KeptTypes, Kept
  <2> QED BY <1>1, <2>1 DEF CNeeds
<1>7. \A rank : Ranked(rank)' <=> Ranked(rank)
  BY <1>1, <1>3, <1>6 DEF Ranked
<1>8. Peelable' = Peelable
  BY <1>1, <1>4 DEF Peelable
<1> QED BY <1>1, <1>2, <1>4, <1>5, <1>6, <1>7, <1>8 DEF Ranks

LEMMA DescendingFixed ==
  ASSUME UNCHANGED <<btf, name, members>>, NEW rank
  PROVE  Descending(rank)' = Descending(rank)
<1>1. \A c, n : Fits(c, rank, n)' <=> Fits(c, rank, n)
  BY RanksFixed
<1>2. \A s : Descends(s, rank)' <=> Descends(s, rank)
  BY <1>1 DEF Descends
<1> QED BY <1>2 DEF Descending

LEMMA OrderlyStep ==
  ASSUME Inv, Orderly, UNCHANGED <<btf, name, members>>,
         Next \/ UNCHANGED <<todo, err>>, Inv'
  PROVE  Orderly'
<1> SUFFICES ASSUME Peelable', NEW rank \in Ranks', Ranked(rank)'
             PROVE  (todo \in Descending(rank) /\ err # "typedef cycle")'
  BY DEF Orderly
<1>1. Peelable /\ rank \in Ranks /\ Ranked(rank)
  BY RanksFixed
<1>2. todo \in Descending(rank) /\ err # "typedef cycle"
  BY <1>1 DEF Orderly
<1>3. Descending(rank)' = Descending(rank)
  BY DescendingFixed
<1>4. CASE Next
  <2>1. Descends(todo', rank) /\ err' # "typedef cycle"
    BY <1>1, <1>2, <1>4, StepDescends DEF Descending
  <2>2. todo' \in Seq(Calls \X Nat)
    BY DEF Inv, TypeOK
  <2> QED BY <1>3, <2>1, <2>2 DEF Descending
<1>5. CASE UNCHANGED <<todo, err>>
  BY <1>2, <1>3, <1>5
<1> QED BY <1>4, <1>5

-----------------------------------------------------------------------------
\* An order of the declarations gives ranks: the number of rounds before each is ready.

LEMMA OrderHasRanks ==
  ASSUME btf \in BaseBtf, Orderable
  PROVE  /\ \E rank \in Ranks : Ranked(rank)
         /\ \A d \in Declarations : CNeeds[d] \subseteq Declarations
<1> DEFINE needs == CNeeds
           max == Len(btf) + 1
           F == [before \in SUBSET Declarations |-> {d \in Declarations : needs[d] \subseteq before}]
           f == Iterate(F, {}, max)
           IsReady(g) == g = [n \in 0 .. max |->
                                IF n = 0 THEN {}
                                ELSE LET before == g[n - 1]
                                     IN {d \in Declarations : needs[d] \subseteq before}]
           ready == CHOOSE g : IsReady(g)
<1>1. max \in Nat /\ max \in 0 .. max
  BY DEF BaseBtf
<1>2. ready[max] = Declarations
  BY DEF Orderable, InSomeOrder
<1>3. F \in [SUBSET Declarations -> SUBSET Declarations] /\ {} \in SUBSET Declarations
  OBVIOUS
<1>4. \A S \in SUBSET Declarations : F[S] = {d \in Declarations : needs[d] \subseteq S}
  OBVIOUS
<1> HIDE DEF F, needs, max
<1>5. Iterates(f, F, {}, max, SUBSET Declarations)
  BY <1>1, <1>3, Iteration, Zenon
<1>6. \A n \in 1 .. max : n - 1 \in 0 .. max
  BY <1>1
<1> HIDE DEF f
<1>7. \A n \in 1 .. max : f[n] = {d \in Declarations : needs[d] \subseteq f[n - 1]}
  BY <1>4, <1>5, <1>6 DEF Iterates
<1>8. \E g : IsReady(g)
  <2> DEFINE g == [n \in 0 .. max |-> f[n]]
  <2>1. \A n \in 0 .. max : g[n] = f[n]
    OBVIOUS
  <2>2. \A n \in 0 .. max : f[n] = IF n = 0 THEN {}
                                  ELSE {d \in Declarations : needs[d] \subseteq g[n - 1]}
    <3> SUFFICES ASSUME NEW n \in 0 .. max
                 PROVE  f[n] = IF n = 0 THEN {}
                               ELSE {d \in Declarations : needs[d] \subseteq g[n - 1]}
      OBVIOUS
    <3>1. CASE n = 0
      BY <1>5, <3>1 DEF Iterates
    <3>2. CASE n # 0
      <4>1. n \in 1 .. max
        BY <3>2, <1>1
      <4>2. g[n - 1] = f[n - 1]
        BY <1>6, <2>1, <4>1
      <4> HIDE DEF g
      <4> QED BY <1>7, <3>2, <4>1, <4>2
    <3> QED BY <3>1, <3>2
  <2>3. IsReady(g)
    BY <2>2
  <2> QED BY <2>3
<1>9. IsReady(ready)
  BY <1>8
<1> HIDE DEF ready
<1>10. /\ ready[0] = {}
       /\ \A n \in 1 .. max : ready[n] = {d \in Declarations : needs[d] \subseteq ready[n - 1]}
  <2>1. \A n \in 0 .. max : ready[n] = IF n = 0 THEN {}
                                ELSE {d \in Declarations : needs[d] \subseteq ready[n - 1]}
    BY <1>9
  <2> HIDE DEF IsReady
  <2>2. 0 \in 0 .. max /\ \A n \in 1 .. max : n \in 0 .. max /\ n # 0
    BY <1>1
  <2> QED BY <2>1, <2>2
<1> HIDE DEF IsReady
<1> DEFINE Rounds(d) == {n \in 0 .. max : d \in ready[n]}
           IsFirst(d, n) == n \in Rounds(d) /\ \A k \in Rounds(d) : n <= k
           rank == [d \in Declarations |-> CHOOSE n \in Nat : IsFirst(d, n)]
<1>11. ASSUME NEW d \in Declarations
       PROVE  rank[d] \in Nat /\ IsFirst(d, rank[d])
  <2>1. max \in Rounds(d) /\ Rounds(d) \in SUBSET Nat /\ Rounds(d) # {}
    BY <1>1, <1>2
  <2> HIDE DEF Rounds
  <2>2. \E n \in Nat : IsFirst(d, n)
    BY <2>1, LeastExists
  <2> HIDE DEF IsFirst
  <2> QED BY <2>2
<1>12. rank \in Ranks
  <2>1. \A d \in Declarations : rank[d] \in Nat
    BY <1>11
  <2>2. rank = [d \in Declarations |-> rank[d]]
    OBVIOUS
  <2> HIDE DEF rank
  <2> QED BY <2>1, <2>2 DEF Ranks
<1> HIDE DEF rank
<1>13. ASSUME NEW d \in Declarations, NEW e \in needs[d]
       PROVE  e \in Declarations /\ rank[e] < rank[d]
  <2>1. rank[d] \in 0 .. max /\ d \in ready[rank[d]]
    BY <1>11
  <2>2. rank[d] # 0
    BY <1>10, <2>1
  <2>3. rank[d] \in 1 .. max /\ rank[d] - 1 \in 0 .. max
    BY <1>1, <2>1, <2>2
  <2>4. e \in ready[rank[d] - 1]
    BY <1>10, <2>1, <2>3
  <2>5. e \in Declarations
    <3>1. CASE rank[d] - 1 = 0
      BY <1>10, <2>4, <3>1
    <3>2. CASE rank[d] - 1 # 0
      <4>1. rank[d] - 1 \in 1 .. max
        BY <2>3, <3>2
      <4> QED BY <1>10, <2>4, <4>1
    <3> QED BY <3>1, <3>2
  <2>6. rank[d] - 1 \in Rounds(e)
    BY <2>3, <2>4
  <2>7. rank[e] <= rank[d] - 1 /\ rank[e] \in Nat
    BY <1>11, <2>5, <2>6
  <2> QED BY <2>3, <2>5, <2>7
<1>14. Ranked(rank)
  BY <1>13 DEF Ranked, Below, needs
<1>15. \A d \in Declarations : CNeeds[d] \subseteq Declarations
  BY <1>13 DEF needs
<1> QED BY <1>12, <1>14, <1>15

LEMMA OrderlyAlways == GenerateSpec => []Orderly
<1>1. GenerateInit => Orderly
  <2> SUFFICES ASSUME GenerateInit, NEW rank \in Ranks PROVE todo \in Descending(rank) /\ err = "none"
    BY DEF Orderly
  <2>1. todo = <<>> /\ err = "none"
    BY DEF GenerateInit, Called, Begin
  <2>2. <<>> \in Seq(Calls \X Nat) /\ Descends(<<>>, rank)
    BY DEF Descends
  <2> QED BY <2>1, <2>2 DEF Descending
<1>2. BehindClosure /\ BehindClosure' /\ Orderly /\ [GenerateNext]_<<vars, closure>> => Orderly'
  <2> SUFFICES ASSUME BehindClosure, BehindClosure', Orderly, [GenerateNext]_<<vars, closure>>
               PROVE  Orderly'
    OBVIOUS
  <2>1. Inv /\ Inv'
    BY DEF BehindClosure
  <2>2. CASE C!Next /\ UNCHANGED <<printing, asked>>
    <3>1. UNCHANGED <<btf, name, members>> /\ UNCHANGED <<todo, err>>
      BY <2>2, ClosureStep DEF printing
    <3> QED BY <2>1, <3>1, OrderlyStep
  <2>3. CASE closing = "ok" /\ Next /\ UNCHANGED closure
    <3>1. UNCHANGED <<btf, name, members>>
      BY <2>3 DEF Next, Allocate, TakeRoot, NextLoop, InvalidId, FollowSoftDeps, FollowHardDeps,
                  EmitForwardDecl, EmitEnumDefinition, EnterRecord, SkipRecord, DefineRecord,
                  EnterTypedef, SkipTypedef, TypedefCycle, DefineTypedef, CannotDefine, Finish, given
    <3> QED BY <2>1, <2>3, <3>1, OrderlyStep
  <2>4. CASE UNCHANGED <<vars, closure>>
    <3>1. UNCHANGED <<btf, name, members>> /\ UNCHANGED <<todo, err>>
      BY <2>4 DEF vars, given
    <3> QED BY <2>1, <3>1, OrderlyStep
  <2> QED BY <2>2, <2>3, <2>4 DEF GenerateNext
<1> QED BY <1>1, <1>2, Invariance, PTL DEF GenerateSpec

\* Where no type is qualified more than PeelLimit - 1 times, the typedef cycle is
\* reported only for types that C could not declare in any order, whatever else the
\* BTF holds and the seeds are (emitter.c:432-461, 698-703).
THEOREM CyclesReal == GenerateSpec => [](Peelable => CyclesAreReal)
<1>1. BehindClosure /\ Orderly => (Peelable => CyclesAreReal)
  <2> SUFFICES ASSUME BehindClosure, Orderly, Peelable, err = "typedef cycle", Orderable PROVE FALSE
    BY DEF CyclesAreReal
  <2>1. btf \in BaseBtf
    BY DEF BehindClosure, Inv, Data
  <2>2. PICK rank \in Ranks : Ranked(rank)
    BY <2>1, OrderHasRanks
  <2> QED BY <2>2 DEF Orderly
<1> QED BY <1>1, Invariance, OrderlyAlways, PTL

(***************************************************************************)
(* The header that C accepts (HeaderGenerated).  Each call has a promise:  *)
(* the declarations that are there when it returns.  The calls left to do  *)
(* cover what the definitions in progress wait for, at every step.         *)
(***************************************************************************)
\* What a call prints, or finds printed, before it returns.
Leads(c, d) ==
  LET id == c[2]   paths == 0 .. 2 * Len(btf)
  IN \/ c[1] = "soft" /\ \E k \in paths : d \in Demand(k, id, FALSE)
     \/ c[1] = "hard" /\ \E k \in paths, complete \in BOOLEAN : d \in Demand(k, id, complete)
     \/ c[1] = "forward" /\ d = <<"tag", id>>
     \/ c[1] \in {"record", "define record"} /\ d \in {<<"record", id>>, <<"tag", id>>}
     \/ c[1] \in {"typedef", "define typedef"} /\ d = <<"typedef", id>>

Promise(c) == {d \in Declarations : Leads(c, d)}

-----------------------------------------------------------------------------
LEMMA DemandNamed ==
  ASSUME btf \in BaseBtf, NEW k \in 1 .. 2 * Len(btf), NEW id \in Ids(btf), NEW c \in BOOLEAN
  PROVE  /\ btf[id].kind = "TYPEDEF" =>
              Demand(k, id, c) \subseteq {<<"typedef", id>>} \cup
                                           IF c THEN DemandAll(k - 1, {btf[id].type}, TRUE) ELSE {}
         /\ btf[id].kind \in RecordKinds /\ IsNamed(id) /\ c => Demand(k, id, c) = {<<"record", id>>}
         /\ btf[id].kind \in RecordKinds /\ IsNamed(id) /\ ~ c => Demand(k, id, c) = {<<"tag", id>>}
         /\ btf[id].kind = "FWD" => Demand(k, id, c) = {<<"tag", id>>}
         /\ btf[id].kind \in EnumKinds => Demand(k, id, c) \subseteq IF c THEN {<<"enum", id>>} ELSE {}
         /\ btf[id].kind \notin QualifierKinds \cup TaggedKinds \cup EnumKinds
                                  \cup {"PTR", "FUNC_PROTO", "ARRAY", "TYPEDEF"} =>
              Demand(k, id, c) = {}
<1> DEFINE t == btf[id]   kind == t.kind   m == <<id, c>>   answers == DemandsWithin[k - 1]
           Of(S, d) == UNION {answers[<<i, d>>] : i \in S \cap Ids(btf)}
           OfAll(S, d) == DemandAll(k - 1, S, d)
<1>1. m \in Mentions /\ m[1] = id /\ m[2] = c
  BY DEF Mentions
<1>2. Demand(k, id, c) = Asks(m, answers)
  BY <1>1, WithinIterates DEF Demand
<1>3. \A S : \A d \in BOOLEAN : Of(S, d) = OfAll(S, d)
  BY DEF Demand, DemandAll
<1>4. Asks(m, answers) = CASE kind = "PTR"            -> Of({t.type}, FALSE)
                           [] kind = "FUNC_PROTO"     -> Of({t.type} \cup ToSet(t.parts), FALSE)
                           [] kind \in QualifierKinds -> Of({t.type}, c)
                           [] kind = "ARRAY"          -> Of({t.type}, TRUE)
                           [] kind = "TYPEDEF"        ->
                                {<<"typedef", id>>} \cup Of(IF c THEN {t.type} ELSE {}, TRUE)
                           [] kind \in RecordKinds    ->
                                IF ~ IsNamed(id) THEN Of(ToSet(KeptTypes(id)), TRUE)
                                ELSE {<<IF c THEN "record" ELSE "tag", id>>}
                           [] kind = "FWD"            -> {<<"tag", id>>}
                           [] kind \in EnumKinds      ->
                                IF c /\ IsNamed(id) THEN {<<"enum", id>>} ELSE {}
                           [] OTHER -> {}
  BY <1>1 DEF Asks
<1>5. Of({}, TRUE) = {}
  OBVIOUS
<1> HIDE DEF Of, OfAll, answers, m
<1>6. kind = "TYPEDEF" => Demand(k, id, c) \subseteq {<<"typedef", id>>} \cup IF c THEN OfAll({t.type}, TRUE) ELSE {}
  BY <1>2, <1>3, <1>4, <1>5 DEF QualifierKinds, RecordKinds, EnumKinds
<1>7. /\ kind \in RecordKinds /\ IsNamed(id) /\ c => Demand(k, id, c) = {<<"record", id>>}
      /\ kind \in RecordKinds /\ IsNamed(id) /\ ~ c => Demand(k, id, c) = {<<"tag", id>>}
  BY <1>2, <1>3, <1>4 DEF QualifierKinds, RecordKinds, EnumKinds
<1>8. kind = "FWD" => Demand(k, id, c) = {<<"tag", id>>}
  BY <1>2, <1>3, <1>4 DEF QualifierKinds, RecordKinds, EnumKinds
<1>9. kind \in EnumKinds => Demand(k, id, c) \subseteq IF c THEN {<<"enum", id>>} ELSE {}
  BY <1>2, <1>3, <1>4 DEF QualifierKinds, RecordKinds, EnumKinds
<1>10. kind \notin QualifierKinds \cup TaggedKinds \cup EnumKinds
                                  \cup {"PTR", "FUNC_PROTO", "ARRAY", "TYPEDEF"} => Demand(k, id, c) = {}
  BY <1>2, <1>3, <1>4 DEF QualifierKinds, RecordKinds, EnumKinds, TaggedKinds
<1> QED BY <1>6, <1>7, <1>8, <1>9, <1>10 DEF OfAll

LEMMA EachHas ==
  ASSUME NEW call, NEW ids, NEW i \in ToSet(ids)
  PROVE  <<call, i>> \in ToSet(Each(call, ids))
BY DEF Each, ToSet

\* What a call leads to, and what leads to it.
LEMMA LeadsTo ==
  /\ \A i : \A d \in Promise(<<"soft", i>>) :
       d \in Declarations /\ \E k \in 0 .. 2 * Len(btf) : d \in Demand(k, i, FALSE)
  /\ \A i : \A d \in Promise(<<"hard", i>>) :
       d \in Declarations /\ \E k \in 0 .. 2 * Len(btf), c \in BOOLEAN : d \in Demand(k, i, c)
  /\ \A i : \A k \in 0 .. 2 * Len(btf) : \A d \in Demand(k, i, FALSE) \cap Declarations : d \in Promise(<<"soft", i>>)
  /\ \A i : \A k \in 0 .. 2 * Len(btf) : \A c \in BOOLEAN :
       \A d \in Demand(k, i, c) \cap Declarations : d \in Promise(<<"hard", i>>)
  /\ \A i : Promise(<<"forward", i>>) = {<<"tag", i>>} \cap Declarations
  /\ \A i : \A m \in {"record", "define record"} : Promise(<<m, i>>) = {<<"record", i>>, <<"tag", i>>} \cap Declarations
  /\ \A i : \A m \in {"typedef", "define typedef"} : Promise(<<m, i>>) = {<<"typedef", i>>} \cap Declarations
  /\ \A i : Promise(<<"enum", i>>) = {}
<1>1. \A c : \A d : d \in Promise(c) <=> d \in Declarations /\ Leads(c, d)
  BY DEF Promise
<1>2. ASSUME NEW i, NEW d
      PROVE  /\ Leads(<<"soft", i>>, d) <=> \E k \in 0 .. 2 * Len(btf) : d \in Demand(k, i, FALSE)
             /\ Leads(<<"hard", i>>, d) <=>
                  \E k \in 0 .. 2 * Len(btf), c \in BOOLEAN : d \in Demand(k, i, c)
             /\ Leads(<<"forward", i>>, d) <=> d = <<"tag", i>>
             /\ \A m \in {"record", "define record"} :
                  Leads(<<m, i>>, d) <=> d \in {<<"record", i>>, <<"tag", i>>}
             /\ \A m \in {"typedef", "define typedef"} : Leads(<<m, i>>, d) <=> d = <<"typedef", i>>
             /\ ~ Leads(<<"enum", i>>, d)
  BY DEF Leads
<1> QED BY <1>1, <1>2

LEMMA NeverEndless ==
  ASSUME btf \in BaseBtf, NEW k \in 0 .. 2 * Len(btf), NEW id \in Ids(btf), NEW c \in BOOLEAN,
         NEW d \in Demand(k, id, c) \cap Declarations
  PROVE  k \in 1 .. 2 * Len(btf) /\ k - 1 \in 0 .. 2 * Len(btf)
<1>1. SUFFICES ASSUME k = 0 PROVE FALSE
  BY DEF BaseBtf
<1>2. <<"endless", id>> \in Declarations
  BY <1>1, DemandAtEnd
<1>3. PICK i \in Ids(btf) : <<"endless", id>> \in Introduces(i) \X {i}
  BY <1>2 DEF Declarations
<1>4. "endless" \in Introduces(i)
  BY <1>3
<1> QED BY <1>4 DEF Introduces

\* What emit_soft_deps leads to, the calls it makes lead to (emitter.c:490-531).
LEMMA SoftKeepsPromise ==
  ASSUME btf \in BaseBtf, Peelable, NEW id \in 0 .. Len(btf), ~ InPlace(id),
         NEW d \in Promise(<<"soft", id>>)
  PROVE  \E c \in ToSet(SoftDeps(id)) : d \in Promise(c)
<1> DEFINE kind == KindOf(id)   max == 2 * Len(btf)
<1>1. PICK k \in 0 .. max : d \in Demand(k, id, FALSE)
  BY LeadsTo
<1>2. d \in Declarations
  BY LeadsTo
<1>3. id \in Ids(btf) /\ kind = btf[id].kind
  BY <1>1 DEF Demand, KindOf, Void, Ids
<1>4. btf[id].type \in Nat /\ btf[id].parts \in Seq(Nat)
  BY <1>3, BtfFields
<1>5. k \in 1 .. max /\ k - 1 \in 0 .. max
  BY <1>1, <1>2, <1>3, NeverEndless
<1> HIDE DEF max
<1>6. ASSUME NEW i, d \in Demand(k - 1, i, FALSE) PROVE d \in Promise(<<"soft", i>>)
  BY <1>2, <1>5, <1>6, LeadsTo DEF max
<1>7. kind \notin QualifierKinds => Peeled(id) = id
  BY <1>3, PeeledNext
<1>8. CASE kind = "TYPEDEF"
  <2>1. SoftDeps(id) = <<<<"typedef", id>>>>
    BY <1>8 DEF SoftDeps, QualifierKinds, TaggedKinds, RecordKinds
  <2>2. d = <<"typedef", id>>
    BY <1>1, <1>3, <1>5, <1>8, DemandNamed DEF max
  <2>3. d \in Promise(<<"typedef", id>>)
    BY <1>2, <2>2, LeadsTo
  <2>4. <<"typedef", id>> \in ToSet(SoftDeps(id))
    BY <2>1, OnceSingle
  <2> QED BY <2>3, <2>4
<1>9. CASE kind \in QualifierKinds \cup {"PTR"}
  <2>1. SoftDeps(id) = <<<<"soft", btf[id].type>>>>
    BY <1>9 DEF SoftDeps, QualifierKinds, TaggedKinds, RecordKinds
  <2>2. Demand(k, id, FALSE) = DemandAll(k - 1, {btf[id].type}, FALSE)
    BY <1>3, <1>5, <1>9, DemandByKind DEF max
  <2>3. d \in Demand(k - 1, btf[id].type, FALSE)
    BY <1>1, <2>2 DEF DemandAll
  <2>4. <<"soft", btf[id].type>> \in ToSet(SoftDeps(id))
    BY <2>1, OnceSingle
  <2> QED BY <1>6, <2>3, <2>4
<1>10. CASE kind = "FUNC_PROTO"
  <2> DEFINE ids == <<btf[id].type>> \o btf[id].parts
  <2>1. SoftDeps(id) = Each("soft", ids)
    BY <1>10 DEF SoftDeps, QualifierKinds, TaggedKinds, RecordKinds
  <2>2. ToSet(ids) = {btf[id].type} \cup ToSet(btf[id].parts)
    BY <1>4, FirstAndOthers
  <2> HIDE DEF ids
  <2>3. Demand(k, id, FALSE) = DemandAll(k - 1, ToSet(ids), FALSE)
    BY <1>3, <1>5, <1>10, <2>2, DemandByKind DEF max
  <2>4. PICK i \in ToSet(ids) : d \in Demand(k - 1, i, FALSE)
    BY <1>1, <2>3 DEF DemandAll
  <2> QED BY <1>6, <2>1, <2>4, EachHas
<1>11. CASE kind \in TaggedKinds
  <2>1. SoftDeps(id) = <<<<"forward", id>>>>
    BY <1>11 DEF SoftDeps, QualifierKinds, TaggedKinds, RecordKinds
  <2>2. kind \in RecordKinds => IsNamed(id)
    BY <1>3, <1>7 DEF InPlace, QualifierKinds, RecordKinds
  <2>3. d = <<"tag", id>>
    <3>1. CASE kind = "FWD"
      <4>1. Demand(k, id, FALSE) = {<<"tag", id>>}
        BY <1>3, <1>5, <3>1, DemandNamed DEF max
      <4> QED BY <1>1, <4>1
    <3>2. CASE kind \in RecordKinds
      <4>1. Demand(k, id, FALSE) = {<<"tag", id>>}
        BY <1>3, <1>5, <2>2, <3>2, DemandNamed DEF max
      <4> QED BY <1>1, <4>1
    <3> QED BY <1>11, <3>1, <3>2 DEF TaggedKinds
  <2>4. d \in Promise(<<"forward", id>>)
    BY <1>2, <2>3, LeadsTo
  <2>5. <<"forward", id>> \in ToSet(SoftDeps(id))
    BY <2>1, OnceSingle
  <2> QED BY <2>4, <2>5
<1>12. kind # "ARRAY"
  BY <1>3, <1>7 DEF InPlace, QualifierKinds
<1>13. CASE kind \notin QualifierKinds \cup TaggedKinds \cup {"PTR", "FUNC_PROTO", "ARRAY", "TYPEDEF"}
  <2>1. Demand(k, id, FALSE) = {}
    <3>1. CASE kind \in EnumKinds
      BY <1>3, <1>5, <3>1, DemandNamed DEF max
    <3>2. CASE kind \notin EnumKinds
      BY <1>3, <1>5, <1>13, <3>2, DemandNamed DEF max
    <3> QED BY <3>1, <3>2
  <2> QED BY <1>1, <2>1
<1> QED BY <1>8, <1>9, <1>10, <1>11, <1>12, <1>13

\* What emit_hard_deps leads to, the calls it makes lead to, but for the enums, for
\* which it does nothing (emitter.c:533-586).
LEMMA HardKeepsPromise ==
  ASSUME btf \in BaseBtf, NEW id \in 0 .. Len(btf), NEW d \in Promise(<<"hard", id>>)
  PROVE  \/ \E c \in ToSet(HardDeps(id)) : d \in Promise(c)
         \/ id \in Ids(btf) /\ btf[id].kind \in EnumKinds /\ d = <<"enum", id>>
<1> DEFINE kind == KindOf(id)   max == 2 * Len(btf)
<1>1. PICK k \in 0 .. max, complete \in BOOLEAN : d \in Demand(k, id, complete)
  BY LeadsTo
<1>2. d \in Declarations
  BY LeadsTo
<1>3. id \in Ids(btf) /\ kind = btf[id].kind
  BY <1>1 DEF Demand, KindOf, Void, Ids
<1>4. btf[id].type \in Nat /\ btf[id].parts \in Seq(Nat)
  BY <1>3, BtfFields
<1>5. k \in 1 .. max /\ k - 1 \in 0 .. max
  BY <1>1, <1>2, <1>3, NeverEndless
<1> HIDE DEF max
<1>6. ASSUME NEW i, NEW c \in BOOLEAN, d \in Demand(k - 1, i, c) PROVE d \in Promise(<<"hard", i>>)
  BY <1>2, <1>5, <1>6, LeadsTo DEF max
<1>7. CASE kind \in {"PTR", "FUNC_PROTO"}
  <2>1. HardDeps(id) = <<<<"soft", id>>>>
    BY <1>7 DEF HardDeps, QualifierKinds, RecordKinds
  <2>2. Demand(k, id, complete) = Demand(k, id, FALSE)
    BY <1>3, <1>5, <1>7, DemandByKind DEF max
  <2>3. d \in Promise(<<"soft", id>>)
    BY <1>1, <1>2, <2>2, LeadsTo DEF max
  <2>4. <<"soft", id>> \in ToSet(HardDeps(id))
    BY <2>1, OnceSingle
  <2> QED BY <2>3, <2>4
<1>8. CASE kind = "FWD"
  <2>1. HardDeps(id) = <<<<"forward", id>>>>
    BY <1>8 DEF HardDeps, QualifierKinds, RecordKinds
  <2>2. d = <<"tag", id>>
    <3>1. Demand(k, id, complete) = {<<"tag", id>>}
      BY <1>3, <1>5, <1>8, DemandNamed DEF max
    <3> QED BY <1>1, <3>1
  <2>3. d \in Promise(<<"forward", id>>)
    BY <1>2, <2>2, LeadsTo
  <2>4. <<"forward", id>> \in ToSet(HardDeps(id))
    BY <2>1, OnceSingle
  <2> QED BY <2>3, <2>4
<1>9. CASE kind = "TYPEDEF"
  <2>1. HardDeps(id) = <<<<"hard", btf[id].type>>, <<"typedef", id>>>>
    BY <1>9 DEF HardDeps, QualifierKinds, RecordKinds
  <2>2. <<"hard", btf[id].type>> \in ToSet(HardDeps(id)) /\ <<"typedef", id>> \in ToSet(HardDeps(id))
    <3> DEFINE s == <<<<"hard", btf[id].type>>, <<"typedef", id>>>>
    <3>1. 1 \in DOMAIN s /\ 2 \in DOMAIN s /\ s[1] = <<"hard", btf[id].type>> /\ s[2] = <<"typedef", id>>
      OBVIOUS
    <3> HIDE DEF s
    <3>2. s[1] \in ToSet(s) /\ s[2] \in ToSet(s)
      BY <3>1 DEF ToSet
    <3>3. HardDeps(id) = s
      BY <2>1 DEF s
    <3> QED BY <3>1, <3>2, <3>3
  <2>3. d = <<"typedef", id>> \/ d \in DemandAll(k - 1, {btf[id].type}, TRUE)
    BY <1>1, <1>3, <1>5, <1>9, DemandNamed DEF max
  <2>4. CASE d = <<"typedef", id>>
    BY <1>2, <2>2, <2>4, LeadsTo
  <2>5. CASE d \in DemandAll(k - 1, {btf[id].type}, TRUE)
    <3>1. d \in Demand(k - 1, btf[id].type, TRUE)
      BY <2>5 DEF DemandAll
    <3> QED BY <1>6, <2>2, <3>1
  <2> QED BY <2>3, <2>4, <2>5
<1>10. CASE kind \in QualifierKinds \cup {"ARRAY"}
  <2>1. HardDeps(id) = <<<<"hard", btf[id].type>>>>
    BY <1>10 DEF HardDeps, QualifierKinds, RecordKinds
  <2>2. \E c \in BOOLEAN : Demand(k, id, complete) = DemandAll(k - 1, {btf[id].type}, c)
    BY <1>3, <1>5, <1>10, DemandByKind DEF max
  <2>3. \E c \in BOOLEAN : d \in Demand(k - 1, btf[id].type, c)
    BY <1>1, <2>2 DEF DemandAll
  <2>4. <<"hard", btf[id].type>> \in ToSet(HardDeps(id))
    BY <2>1, OnceSingle
  <2> QED BY <1>6, <2>3, <2>4
<1>11. CASE kind \in RecordKinds /\ ~ IsNamed(id)
  <2>1. HardDeps(id) = Each("hard", KeptTypes(id))
    BY <1>11 DEF HardDeps, QualifierKinds, RecordKinds
  <2>2. Demand(k, id, complete) = DemandAll(k - 1, ToSet(KeptTypes(id)), TRUE)
    BY <1>3, <1>5, <1>11, DemandByKind DEF max
  <2>3. PICK i \in ToSet(KeptTypes(id)) : d \in Demand(k - 1, i, TRUE)
    BY <1>1, <2>2 DEF DemandAll
  <2> QED BY <1>6, <2>1, <2>3, EachHas
<1>12. CASE kind \in RecordKinds /\ IsNamed(id)
  <2>1. HardDeps(id) = <<<<"record", id>>>>
    BY <1>12 DEF HardDeps, QualifierKinds, RecordKinds
  <2>2. d \in {<<"record", id>>, <<"tag", id>>}
    <3>1. CASE complete = TRUE
      <4>1. Demand(k, id, TRUE) = {<<"record", id>>}
        <5>1. btf[id].kind \in RecordKinds /\ IsNamed(id)
          BY <1>3, <1>12
        <5>2. k \in 1 .. 2 * Len(btf) /\ TRUE \in BOOLEAN
          BY <1>5 DEF max
        <5> HIDE DEF kind
        <5> QED BY <1>3, <5>1, <5>2, DemandNamed
      <4> QED BY <1>1, <3>1, <4>1
    <3>2. CASE complete = FALSE
      <4>1. Demand(k, id, FALSE) = {<<"tag", id>>}
        BY <1>3, <1>5, <1>12, DemandNamed DEF max
      <4> QED BY <1>1, <3>2, <4>1
    <3> QED BY <3>1, <3>2
  <2>3. d \in Promise(<<"record", id>>)
    BY <1>2, <2>2, LeadsTo
  <2>4. <<"record", id>> \in ToSet(HardDeps(id))
    BY <2>1, OnceSingle
  <2> QED BY <2>3, <2>4
<1>13. CASE kind \in EnumKinds
  BY <1>1, <1>3, <1>5, <1>13, DemandNamed DEF max
<1>14. CASE kind \notin QualifierKinds \cup TaggedKinds \cup EnumKinds
                           \cup {"PTR", "FUNC_PROTO", "ARRAY", "TYPEDEF"}
  <2>1. Demand(k, id, complete) = {}
    BY <1>3, <1>5, <1>14, DemandNamed DEF max
  <2> QED BY <1>1, <2>1
<1> QED BY <1>7, <1>8, <1>9, <1>10, <1>11, <1>12, <1>13, <1>14 DEF TaggedKinds

-----------------------------------------------------------------------------
\* The calls left to do, and what is declared by the time each of them ends.

\* Whatever a definition in progress needs is declared, or a call before it leads to it.
Covers(s, D) ==
  \A q \in DOMAIN s : s[q][1] \in Marks =>
    \A d \in CNeeds[Printing(s[q])] : d \in D \/ \E p \in DOMAIN s : p < q /\ d \in Promise(s[p])

\* Calls that lead, with what they declare, to all that the one they replace led to.
LEMMA ReplaceCovers ==
  ASSUME NEW E, NEW s \in Seq(E), s # <<>>, NEW c \in Seq(E), NEW D, NEW D1, D \subseteq D1,
         Covers(s, D), Covers(c, D1),
         \A d \in Promise(Head(s)) : d \in D1 \/ \E x \in ToSet(c) : d \in Promise(x)
  PROVE  Covers(c \o Tail(s), D1)
<1> DEFINE r == c \o Tail(s)   At(i) == i - Len(c) + 1   To(i) == i + Len(c) - 1
<1>1. /\ Len(c) \in Nat /\ DOMAIN c = 1 .. Len(c) /\ DOMAIN s = 1 .. Len(s) /\ Len(s) \in Nat
      /\ \A i \in DOMAIN r : i \in Nat
      /\ \A i \in DOMAIN c : i \in DOMAIN r /\ r[i] = c[i]
      /\ \A i \in DOMAIN r : i \notin DOMAIN c =>
           /\ i > Len(c) /\ At(i) \in DOMAIN s /\ At(i) > 1 /\ r[i] = s[At(i)]
      /\ \A i \in DOMAIN s : i > 1 =>
           /\ To(i) \in DOMAIN r /\ r[To(i)] = s[i]
      /\ 1 \in DOMAIN s /\ Head(s) = s[1]
  <2> DEFINE t == Tail(s)
  <2>1. /\ t \in Seq(E) /\ Len(s) \in Nat \ {0} /\ Len(t) = Len(s) - 1 /\ Head(s) = s[1]
        /\ DOMAIN s = 1 .. Len(s) /\ DOMAIN t = 1 .. Len(t)
        /\ \A i \in DOMAIN t : t[i] = s[i + 1]
    OBVIOUS
  <2> HIDE DEF t
  <2>2. /\ Len(c) \in Nat /\ DOMAIN c = 1 .. Len(c) /\ DOMAIN (c \o t) = 1 .. Len(c) + Len(t)
        /\ \A i \in DOMAIN (c \o t) : i \in DOMAIN c => (c \o t)[i] = c[i]
        /\ \A i \in DOMAIN (c \o t) : i \notin DOMAIN c => /\ i - Len(c) \in DOMAIN t
                                                           /\ (c \o t)[i] = t[i - Len(c)]
    BY <2>1
  <2>3. ASSUME NEW i \in DOMAIN s, i > 1
        PROVE  To(i) \in DOMAIN (c \o t) /\ (c \o t)[To(i)] = s[i]
    <3>1. To(i) \in DOMAIN (c \o t) /\ To(i) \notin DOMAIN c /\ To(i) - Len(c) = i - 1
      BY <2>1, <2>2, <2>3
    <3>2. i - 1 \in DOMAIN t /\ t[i - 1] = s[i - 1 + 1] /\ i - 1 + 1 = i
      BY <2>1, <2>3
    <3> HIDE DEF To
    <3> QED BY <2>2, <3>1, <3>2
  <2>4. \A i \in DOMAIN c : i \in DOMAIN (c \o t)
    BY <2>1, <2>2
  <2> QED BY <2>1, <2>2, <2>3, <2>4 DEF t
<1> HIDE DEF r
<1> SUFFICES ASSUME NEW q \in DOMAIN r, r[q][1] \in Marks, NEW d \in CNeeds[Printing(r[q])], d \notin D1
             PROVE  \E p \in DOMAIN r : p < q /\ d \in Promise(r[p])
  BY DEF Covers, r
<1>2. CASE q \in DOMAIN c
  <2>1. PICK p \in DOMAIN c : p < q /\ d \in Promise(c[p])
    BY <1>1, <1>2 DEF Covers
  <2> QED BY <1>1, <2>1
<1>3. CASE q \notin DOMAIN c
  <2>1. At(q) \in DOMAIN s /\ At(q) > 1 /\ r[q] = s[At(q)] /\ q > Len(c)
    BY <1>1, <1>3
  <2> DEFINE k == At(q)
  <2>2. k \in DOMAIN s /\ r[q] = s[k] /\ k = q - Len(c) + 1
    BY <2>1
  <2> HIDE DEF k
  <2>3. PICK p \in DOMAIN s : p < k /\ d \in Promise(s[p])
    BY <2>2 DEF Covers
  <2>4. CASE p = 1
    <3>1. PICK x \in ToSet(c) : d \in Promise(x)
      BY <1>1, <2>3, <2>4
    <3>2. PICK i \in DOMAIN c : c[i] = x
      BY DEF ToSet
    <3>3. i \in DOMAIN r /\ r[i] = x /\ i < q
      BY <1>1, <2>1, <3>2
    <3> QED BY <3>1, <3>3
  <2>5. CASE p # 1
    <3>1. p \in Nat /\ p > 1
      BY <1>1, <2>5
    <3>2. To(p) \in DOMAIN r /\ r[To(p)] = s[p]
      BY <1>1, <3>1
    <3>3. To(p) < q
      BY <1>1, <2>2, <2>3, <3>1
    <3> QED BY <2>3, <3>2, <3>3
  <2> QED BY <2>4, <2>5
<1> QED BY <1>2, <1>3

LEMMA UnmarkedCovers ==
  ASSUME NEW c, NEW D, \A x \in ToSet(c) : x[1] \notin Marks
  PROVE  Covers(c, D)
BY DEF Covers, ToSet

\* The calls that a definition begins with lead to all that it needs.
LEMMA BeginCovers ==
  ASSUME NEW E, NEW u \in Seq(E), NEW x \in E, NEW D, \A y \in ToSet(u) : y[1] \notin Marks,
         \A d \in CNeeds[Printing(x)] : \E y \in ToSet(u) : d \in Promise(y)
  PROVE  Covers(u \o <<x>>, D)
<1> DEFINE r == u \o <<x>>
<1>1. /\ Len(u) \in Nat /\ DOMAIN u = 1 .. Len(u) /\ DOMAIN r = 1 .. Len(u) + 1
      /\ \A i \in DOMAIN u : r[i] = u[i]
      /\ r[Len(u) + 1] = x
  OBVIOUS
<1> HIDE DEF r
<1> SUFFICES ASSUME NEW q \in DOMAIN r, r[q][1] \in Marks, NEW d \in CNeeds[Printing(r[q])]
             PROVE  \E p \in DOMAIN r : p < q /\ d \in Promise(r[p])
  BY DEF Covers, r
<1>2. \A i \in DOMAIN u : u[i][1] \notin Marks
  BY DEF ToSet
<1>3. q = Len(u) + 1 /\ r[q] = x
  BY <1>1, <1>2
<1>4. PICK y \in ToSet(u) : d \in Promise(y)
  BY <1>3
<1>5. PICK i \in DOMAIN u : u[i] = y
  BY DEF ToSet
<1>6. i \in DOMAIN r /\ i < q /\ r[i] = y
  BY <1>1, <1>3, <1>5
<1> QED BY <1>4, <1>6

-----------------------------------------------------------------------------
\* What a call may be made for: nothing is only named that is printed in place, and an
\* enum that has to be complete is required.

EnumsAreSeeds == \A id \in Ids(btf) : btf[id].kind \in EnumKinds => id \in seeds

Settled(c) ==
  /\ c[1] = "soft" => ~ InPlace(c[2])
  /\ \/ EnumsAreSeeds
     \/ c[1] \in {"forward", "enum"}
     \/ c[2] \in required \cup {Void}
     \/ c[1] = "soft" /\ ~ OfTypedef(c[2]) /\ \A id \in Pointees : ~ OfTypedef(id)

\* What the closure has left leads out of the set only behind a pointer.
LEMMA ClosedRefs ==
  ASSUME btf \in BaseBtf, required \subseteq Ids(btf), C!Closed(required), NEW id \in required
  PROVE  /\ btf[id].kind \in QualifierKinds \cup {"TYPEDEF", "ARRAY", "FUNC_PROTO"} =>
              btf[id].type \in required \cup {Void}
         /\ btf[id].kind = "PTR" /\ expand => btf[id].type \in required \cup {Void}
         /\ btf[id].kind = "FUNC_PROTO" => ToSet(btf[id].parts) \subseteq required \cup {Void}
         /\ btf[id].kind \in RecordKinds => ToSet(KeptTypes(id)) \subseteq required \cup {Void}
<1> DEFINE t == btf[id]
<1>1. C!Needs(id) \subseteq required
  BY DEF C!Closed, C!Edges, C!Ids, Ids
<1>2. t.kind \in QualifierKinds \cup {"TYPEDEF", "ARRAY", "FUNC_PROTO"} \/ (t.kind = "PTR" /\ expand) =>
        C!NeedsType(t)
  BY DEF C!NeedsType, C!ReferenceKinds, QualifierKinds
<1>3. C!NeedsType(t) => t.type \in required \cup {Void}
  BY <1>1 DEF C!Needs, C!Void, Void
<1>4. \A i \in DOMAIN t.parts : C!NeedsPart(id, i) => t.parts[i] \in required \cup {Void}
  BY <1>1 DEF C!Needs, C!Void, Void
<1>5. t.kind = "FUNC_PROTO" => ToSet(t.parts) \subseteq required \cup {Void}
  BY <1>4 DEF C!NeedsPart, ToSet
<1>6. ASSUME t.kind \in RecordKinds, NEW m \in ToSet(KeptTypes(id)) PROVE m \in required \cup {Void}
  <2>1. PICK i \in DOMAIN t.parts : m = IF i \in Kept(id) THEN t.parts[i] ELSE Void
    BY DEF KeptTypes, ToSet
  <2>2. i \in Kept(id) => C!NeedsPart(id, i)
    BY <1>6 DEF Kept, C!NeedsPart, C!RecordKinds, RecordKinds
  <2> QED BY <1>4, <2>1, <2>2
<1> QED BY <1>2, <1>3, <1>5, <1>6

LEMMA PointeesOf ==
  ASSUME NEW id \in Ids(btf), btf[id].kind \in {"PTR", "FUNC_PROTO"}
  PROVE  {btf[id].type} \cup ToSet(btf[id].parts) \subseteq Pointees
BY DEF Pointees

\* The calls that emit_soft_deps and emit_hard_deps make are settled where theirs is
\* (emitter.c:490-586).
LEMMA SoftSettled ==
  ASSUME btf \in BaseBtf, Peelable, Plain, required \subseteq Ids(btf), C!Closed(required),
         NEW id \in 0 .. Len(btf), Settled(<<"soft", id>>), NEW c \in ToSet(SoftDeps(id))
  PROVE  Settled(c)
<1> DEFINE kind == KindOf(id)
<1>1. CASE id = 0
  <2>1. SoftDeps(id) = <<>>
    BY <1>1 DEF KindOf, Void, SoftDeps, QualifierKinds, TaggedKinds, RecordKinds
  <2> QED BY <2>1 DEF ToSet
<1>2. CASE id # 0
  <2>1. id \in Ids(btf) /\ kind = btf[id].kind /\ id # Void
    BY <1>2 DEF Ids, KindOf, Void, BaseBtf
  <2>2. btf[id].type \in Nat /\ btf[id].parts \in Seq(Nat)
    BY <2>1, BtfFields
  <2>3. /\ ~ InPlace(id)
        /\ EnumsAreSeeds \/ id \in required \/ (~ OfTypedef(id) /\ \A i \in Pointees : ~ OfTypedef(i))
    BY <2>1 DEF Settled
  <2>4. kind \notin QualifierKinds => Peeled(id) = id
    BY <2>1, PeeledNext
  <2>5. CASE kind = "TYPEDEF"
    <3>1. SoftDeps(id) = <<<<"typedef", id>>>>
      BY <2>5 DEF SoftDeps, QualifierKinds, TaggedKinds, RecordKinds
    <3>2. c = <<"typedef", id>>
      BY <3>1, OnceSingle
    <3>3. OfTypedef(id)
      BY <2>1, <2>4, <2>5 DEF OfTypedef, QualifierKinds
    <3> QED BY <2>3, <3>2, <3>3 DEF Settled
  <2>6. CASE kind \in QualifierKinds
    <3>1. SoftDeps(id) = <<<<"soft", btf[id].type>>>>
      BY <2>6 DEF SoftDeps, QualifierKinds, TaggedKinds, RecordKinds
    <3>2. c = <<"soft", btf[id].type>>
      BY <3>1, OnceSingle
    <3>3. Peeled(btf[id].type) = Peeled(id)
      BY <2>1, <2>6, PeeledNext
    <3>4. ~ InPlace(btf[id].type) /\ (OfTypedef(btf[id].type) <=> OfTypedef(id))
      BY <2>3, <3>3 DEF InPlace, OfTypedef
    <3>5. id \in required => btf[id].type \in required \cup {Void}
      BY <2>1, <2>6, ClosedRefs
    <3> QED BY <2>3, <3>2, <3>4, <3>5 DEF Settled
  <2>7. CASE kind \in {"PTR", "FUNC_PROTO"}
    <3>1. PICK i \in {btf[id].type} \cup ToSet(btf[id].parts) :
            /\ c = <<"soft", i>>
            /\ kind = "PTR" => i = btf[id].type
      <4>1. CASE kind = "PTR"
        <5>1. SoftDeps(id) = <<<<"soft", btf[id].type>>>>
          BY <4>1 DEF SoftDeps, QualifierKinds, TaggedKinds, RecordKinds
        <5> QED BY <5>1, OnceSingle
      <4>2. CASE kind = "FUNC_PROTO"
        <5> DEFINE ids == <<btf[id].type>> \o btf[id].parts
        <5>1. SoftDeps(id) = Each("soft", ids)
          BY <4>2 DEF SoftDeps, QualifierKinds, TaggedKinds, RecordKinds
        <5>2. ids \in Seq(Nat) /\ ToSet(ids) = {btf[id].type} \cup ToSet(btf[id].parts)
          BY <2>2, FirstAndOthers
        <5> HIDE DEF ids
        <5>3. PICK i \in ToSet(ids) : c = <<"soft", i>>
          BY <5>1, <5>2, EachSet
        <5> QED BY <4>2, <5>2, <5>3
      <4> QED BY <2>7, <4>1, <4>2
    <3>2. i \in Pointees
      BY <2>1, <2>7, PointeesOf
    <3>3. ~ InPlace(i)
      BY <3>2 DEF Plain
    <3>4. id \in required /\ (expand \/ kind = "FUNC_PROTO") => i \in required \cup {Void}
      BY <2>1, <2>7, <3>1, ClosedRefs
    <3>5. EnumsAreSeeds \/ i \in required \cup {Void} \/ \A j \in Pointees : ~ OfTypedef(j)
      BY <2>3, <2>7, <3>4 DEF Plain, EnumsAreSeeds
    <3> QED BY <3>1, <3>2, <3>3, <3>5 DEF Settled
  <2>8. CASE kind \in TaggedKinds
    <3>1. SoftDeps(id) = <<<<"forward", id>>>>
      BY <2>8 DEF SoftDeps, QualifierKinds, TaggedKinds, RecordKinds
    <3>2. c = <<"forward", id>>
      BY <3>1, OnceSingle
    <3> QED BY <3>2 DEF Settled
  <2>9. kind # "ARRAY"
    BY <2>1, <2>3, <2>4 DEF InPlace, QualifierKinds
  <2>10. CASE kind \notin {"TYPEDEF", "PTR", "FUNC_PROTO", "ARRAY"} \cup QualifierKinds \cup TaggedKinds
    <3>1. SoftDeps(id) = <<>>
      BY <2>10 DEF SoftDeps, QualifierKinds, TaggedKinds, RecordKinds
    <3> QED BY <3>1 DEF ToSet
  <2> QED BY <2>5, <2>6, <2>7, <2>8, <2>9, <2>10
<1> QED BY <1>1, <1>2

LEMMA HardSettled ==
  ASSUME btf \in BaseBtf, Peelable, required \subseteq Ids(btf), C!Closed(required),
         NEW id \in 0 .. Len(btf), Settled(<<"hard", id>>), NEW c \in ToSet(HardDeps(id))
  PROVE  Settled(c)
<1> DEFINE kind == KindOf(id)
<1>1. CASE id = 0
  <2>1. HardDeps(id) = <<>>
    BY <1>1 DEF KindOf, Void, HardDeps, QualifierKinds, RecordKinds
  <2> QED BY <2>1 DEF ToSet
<1>2. CASE id # 0
  <2>1. id \in Ids(btf) /\ kind = btf[id].kind /\ id # Void
    BY <1>2 DEF Ids, KindOf, Void, BaseBtf
  <2>2. btf[id].type \in Nat /\ btf[id].parts \in Seq(Nat)
    BY <2>1, BtfFields
  <2>3. EnumsAreSeeds \/ id \in required
    BY <2>1 DEF Settled
  <2>4. ASSUME NEW i, i \in required \cup {Void} \/ EnumsAreSeeds, NEW m \in Calls, m # "soft"
        PROVE  Settled(<<m, i>>)
    BY <2>4 DEF Settled
  <2>5. CASE kind \in {"PTR", "FUNC_PROTO"}
    <3>1. HardDeps(id) = <<<<"soft", id>>>>
      BY <2>5 DEF HardDeps, QualifierKinds, RecordKinds
    <3>2. c = <<"soft", id>>
      BY <3>1, OnceSingle
    <3>3. Peeled(id) = id
      BY <2>1, <2>5, PeeledNext DEF QualifierKinds
    <3>4. ~ InPlace(id)
      BY <2>1, <2>5, <3>3 DEF InPlace, RecordKinds
    <3> QED BY <2>3, <3>2, <3>4 DEF Settled
  <2>6. CASE kind = "FWD"
    <3>1. HardDeps(id) = <<<<"forward", id>>>>
      BY <2>6 DEF HardDeps, QualifierKinds, RecordKinds
    <3>2. c = <<"forward", id>>
      BY <3>1, OnceSingle
    <3> QED BY <3>2 DEF Settled
  <2>7. CASE kind \in QualifierKinds \cup {"ARRAY", "TYPEDEF"}
    <3>1. c = <<"hard", btf[id].type>> \/ c = <<"typedef", id>>
      <4>1. CASE kind = "TYPEDEF"
        <5> DEFINE s == <<<<"hard", btf[id].type>>, <<"typedef", id>>>>
        <5>1. HardDeps(id) = s
          BY <4>1 DEF HardDeps, QualifierKinds, RecordKinds
        <5>2. DOMAIN s = 1 .. 2 /\ s[1] = <<"hard", btf[id].type>> /\ s[2] = <<"typedef", id>>
          OBVIOUS
        <5> HIDE DEF s
        <5>3. \A i \in 1 .. 2 : i = 1 \/ i = 2
          OBVIOUS
        <5>4. ToSet(s) = {s[1], s[2]}
          BY <5>2, <5>3 DEF ToSet
        <5> QED BY <5>1, <5>2, <5>4
      <4>2. CASE kind # "TYPEDEF"
        <5>1. HardDeps(id) = <<<<"hard", btf[id].type>>>>
          BY <2>7, <4>2 DEF HardDeps, QualifierKinds, RecordKinds
        <5> QED BY <5>1, OnceSingle
      <4> QED BY <4>1, <4>2
    <3>2. id \in required => btf[id].type \in required \cup {Void}
      BY <2>1, <2>7, ClosedRefs
    <3> QED BY <2>3, <2>4, <3>1, <3>2 DEF Calls
  <2>8. CASE kind \in RecordKinds /\ IsNamed(id)
    <3>1. HardDeps(id) = <<<<"record", id>>>>
      BY <2>8 DEF HardDeps, QualifierKinds, RecordKinds
    <3>2. c = <<"record", id>>
      BY <3>1, OnceSingle
    <3> QED BY <2>3, <2>4, <3>2 DEF Calls
  <2>9. CASE kind \in RecordKinds /\ ~ IsNamed(id)
    <3>1. HardDeps(id) = Each("hard", KeptTypes(id))
      BY <2>9 DEF HardDeps, QualifierKinds, RecordKinds
    <3>2. PICK i \in ToSet(KeptTypes(id)) : c = <<"hard", i>>
      BY <2>1, <3>1, KeptTypesAreIds, EachSet
    <3>3. id \in required => i \in required \cup {Void}
      BY <2>1, <2>9, ClosedRefs
    <3> QED BY <2>3, <2>4, <3>2, <3>3 DEF Calls
  <2>10. CASE kind \notin {"PTR", "FUNC_PROTO", "FWD", "ARRAY", "TYPEDEF"} \cup QualifierKinds \cup RecordKinds
    <3>1. HardDeps(id) = <<>>
      BY <2>10 DEF HardDeps, QualifierKinds, RecordKinds
    <3> QED BY <3>1 DEF ToSet
  <2> QED BY <2>5, <2>6, <2>7, <2>8, <2>9, <2>10
<1> QED BY <1>1, <1>2

-----------------------------------------------------------------------------
\* What the emitter keeps, for types that C has an order for.

Covering == {x \in Seq(Calls \X Nat) \X SUBSET Declarations : Covers(x[1], x[2])}

SettledCalls == {c \in Calls \X Nat : Settled(c)}

\* The first two loops make no calls but their own.
Early == /\ pc = "allocate" => todo = <<>>
         /\ loop < 3 => \A c \in ToSet(todo) : c[1] \in {"forward", "enum"}

Judged == Orderable /\ Plain /\ Peelable

\* Where the emitter stands when it runs.
Given == /\ Inv /\ Orderly /\ Early /\ Judged
         /\ required \subseteq Ids(btf) /\ seeds \subseteq required /\ C!Closed(required)
         /\ Covers(todo, Declared) /\ ToSet(todo) \subseteq SettledCalls

Keeps == Covers(todo', Declared') /\ ToSet(todo') \subseteq SettledCalls

LEMMA DeclaredFixed == UNCHANGED out => Declared' = Declared
BY DEF Declared, Printed

LEMMA DeclaredOne ==
  ASSUME NEW d, out \in Seq(Declarations), out' = Append(out, d)
  PROVE  Declared' = Declared \cup H!WithTag(d) /\ Printed' = Printed \cup {d}
<1>1. ToSet(out') = ToSet(out) \cup {d}
  BY Appending
<1> QED BY <1>1 DEF Declared, Printed, H!WithTag

LEMMA DeclaredAreDeclarations == BehindClosure => Declared \subseteq Declarations
<1> SUFFICES ASSUME out \in Seq(Declarations) PROVE Declared \subseteq Declarations
  BY DEF BehindClosure, Inv, TypeOK
<1>1. Printed \subseteq Declarations
  BY DEF Printed, ToSet
<1>2. ASSUME NEW d \in Declarations, d[1] = "record" PROVE <<"tag", d[2]>> \in Declarations
  <2>1. PICK id \in Ids(btf) : d \in Introduces(id) \X {id}
    BY DEF Declarations
  <2>2. d[1] \in Introduces(id) /\ d[2] = id
    BY <2>1
  <2>3. "tag" \in Introduces(id)
    BY <1>2, <2>2 DEF Introduces
  <2> QED BY <2>2, <2>3 DEF Declarations
<1> QED BY <1>1, <1>2 DEF Declared

LEMMA CallKeeps ==
  ASSUME Given, pc = "emit", todo # <<>>, NEW calls \in Seq(Calls \X Nat), Replace(calls),
         Declared \subseteq Declared', Covers(calls, Declared'), \A x \in ToSet(calls) : Settled(x),
         \A d \in Promise(<<Call, Id>>) : d \in Declared' \/ \E x \in ToSet(calls) : d \in Promise(x)
  PROVE  Keeps
<1>1. todo \in Seq(Calls \X Nat) /\ todo' = calls \o Tail(todo)
  BY DEF Given, Inv, TypeOK, Replace
<1>2. /\ Head(todo) \in Calls \X Nat /\ ToSet(todo) = {Head(todo)} \cup ToSet(Tail(todo))
      /\ ToSet(todo') = ToSet(calls) \cup ToSet(Tail(todo))
  BY <1>1, Replacing
<1>3. Head(todo) = <<Call, Id>>
  BY <1>2 DEF Call, Id
<1>4. Covers(todo, Declared) /\ ToSet(todo) \subseteq SettledCalls
  BY DEF Given
<1>5. Covers(todo', Declared')
  BY <1>1, <1>3, <1>4, ReplaceCovers
<1>6. ToSet(calls) \subseteq Calls \X Nat
  BY DEF ToSet
<1>7. ToSet(todo') \subseteq SettledCalls
  BY <1>2, <1>4, <1>6 DEF SettledCalls
<1> QED BY <1>5, <1>7 DEF Keeps

LEMMA AtGiven ==
  ASSUME Given, pc = "emit", todo # <<>>
  PROVE  /\ Settled(<<Call, Id>>) /\ WellCalled(<<Call, Id>>) /\ Call \in Calls /\ Id \in Nat
         /\ btf \in BaseBtf
         /\ Call \notin {"forward", "enum"} => loop >= 3
<1>1. /\ ToSet(todo) = {<<Call, Id>>} \cup ToSet(Tail(todo)) /\ WellCalled(<<Call, Id>>)
      /\ Call \in Calls /\ Id \in Nat /\ btf \in BaseBtf
  BY AtCall DEF Given
<1>2. <<Call, Id>> \in SettledCalls
  BY <1>1 DEF Given
<1>3. loop < 3 => Call \in {"forward", "enum"}
  BY <1>1 DEF Given, Early
<1>4. loop \in Nat
  BY LoopNames DEF Given, Inv, TypeOK
<1> QED BY <1>1, <1>2, <1>3, <1>4 DEF SettledCalls

\* A call that makes no further ones.
LEMMA ReturnKeeps ==
  ASSUME Given, pc = "emit", todo # <<>>, Return, Declared \subseteq Declared',
         \A d \in Promise(<<Call, Id>>) : d \in Declared'
  PROVE  Keeps
<1>1. Replace(<<>>)
  BY AtCall DEF Given, Replace, Return
<1>2. ToSet(<<>>) = {} /\ <<>> \in Seq(Calls \X Nat)
  BY DEF ToSet
<1>3. Covers(<<>>, Declared')
  BY DEF Covers
<1> QED BY <1>1, <1>2, <1>3, CallKeeps

LEMMA SoftKeeps == Given /\ FollowSoftDeps => Keeps
<1> SUFFICES ASSUME Given, FollowSoftDeps PROVE Keeps
  OBVIOUS
<1>1. /\ pc = "emit" /\ todo # <<>> /\ Id \in 0 .. Len(btf) /\ Call = "soft" /\ Replace(SoftDeps(Id))
      /\ UNCHANGED out
  BY DEF FollowSoftDeps, Doing
<1>2. Settled(<<"soft", Id>>) /\ btf \in BaseBtf
  BY <1>1, AtGiven
<1>3. ~ InPlace(Id)
  BY <1>2 DEF Settled
<1>4. \A d \in Promise(<<"soft", Id>>) : \E c \in ToSet(SoftDeps(Id)) : d \in Promise(c)
  BY <1>1, <1>2, <1>3, SoftKeepsPromise DEF Given, Judged
<1>5. \A c \in ToSet(SoftDeps(Id)) : Settled(c)
  BY <1>1, <1>2, SoftSettled DEF Given, Judged
<1>6. /\ SoftDeps(Id) \in Seq(Calls \X Nat)
      /\ \A c \in ToSet(SoftDeps(Id)) : c[1] \notin Marks
  BY <1>1, <1>2, SoftDepsQuiet DEF Quiet
<1>7. Declared' = Declared
  BY <1>1, DeclaredFixed
<1>8. Covers(SoftDeps(Id), Declared')
  BY <1>6, UnmarkedCovers
<1> QED BY <1>1, <1>4, <1>5, <1>6, <1>7, <1>8, CallKeeps

\* An enum that has to be complete is required, and the loop over the enums is over.
LEMMA EnumIsPrinted ==
  ASSUME Given, pc = "emit", todo # <<>>, Call = "hard", Id \in Ids(btf), btf[Id].kind \in EnumKinds
  PROVE  <<"enum", Id>> \in Declared
<1>1. Settled(<<"hard", Id>>) /\ loop >= 3
  BY AtGiven
<1>2. Id \in required
  BY <1>1 DEF Settled, EnumsAreSeeds, Given, Void, Ids
<1>3. Id \in Group(Loops[2]) /\ 2 \in DOMAIN Loops /\ Loops[2] = "enum"
  BY <1>2, LoopNames DEF Group
<1>4. loop \in Nat
  BY LoopNames DEF Given, Inv, TypeOK
<1>5. Passed(2, Id)
  BY <1>1, <1>4 DEF Passed
<1>6. Reached("enum", Id)
  BY <1>3, <1>5 DEF Given, Inv, RootsReached
<1>7. <<"enum", Id>> \notin ToSet(todo)
  <2>1. SUFFICES ASSUME <<"enum", Id>> \in ToSet(todo) PROVE FALSE
    OBVIOUS
  <2>2. todo = <<<<"enum", Id>>>>
    BY <2>1 DEF Given, Inv, StatesMatch
  <2>3. Call = "enum"
    BY <2>2 DEF Call
  <2> QED BY <2>3
<1>8. <<"enum", Id>> \in Printed
  BY <1>6, <1>7 DEF Reached
<1> QED BY <1>8 DEF Declared

LEMMA HardKeeps == Given /\ FollowHardDeps => Keeps
<1> SUFFICES ASSUME Given, FollowHardDeps PROVE Keeps
  OBVIOUS
<1>1. /\ pc = "emit" /\ todo # <<>> /\ Id \in 0 .. Len(btf) /\ Call = "hard" /\ Replace(HardDeps(Id))
      /\ UNCHANGED out
  BY DEF FollowHardDeps, Doing
<1>2. Settled(<<"hard", Id>>) /\ btf \in BaseBtf
  BY <1>1, AtGiven
<1>3. Declared' = Declared
  BY <1>1, DeclaredFixed
<1>4. \A d \in Promise(<<"hard", Id>>) :
        d \in Declared' \/ \E c \in ToSet(HardDeps(Id)) : d \in Promise(c)
  BY <1>1, <1>2, <1>3, HardKeepsPromise, EnumIsPrinted
<1>5. \A c \in ToSet(HardDeps(Id)) : Settled(c)
  BY <1>1, <1>2, HardSettled DEF Given, Judged
<1>6. /\ HardDeps(Id) \in Seq(Calls \X Nat)
      /\ \A c \in ToSet(HardDeps(Id)) : c[1] \notin Marks
  BY <1>1, <1>2, HardDepsQuiet DEF Quiet
<1>7. Covers(HardDeps(Id), Declared')
  BY <1>6, UnmarkedCovers
<1> QED BY <1>1, <1>3, <1>4, <1>5, <1>6, <1>7, CallKeeps

LEMMA ForwardKeeps == Given /\ EmitForwardDecl => Keeps
<1> SUFFICES ASSUME Given, EmitForwardDecl PROVE Keeps
  OBVIOUS
<1> DEFINE d == <<"tag", Id>>
<1>1. pc = "emit" /\ todo # <<>> /\ Call = "forward" /\ Return
  BY DEF EmitForwardDecl, Doing
<1>2. Id \in Ids(btf) /\ btf[Id].kind \in TaggedKinds /\ out \in Seq(Declarations)
  BY <1>1, AtGiven DEF WellCalled, Given, Inv, TypeOK
<1>3. Promise(<<Call, Id>>) \subseteq {d} \cap Declarations
  BY <1>1, LeadsTo
<1>4. d \in Declarations => IsNamed(Id)
  <2>1. ASSUME d \in Declarations PROVE "tag" \in Introduces(Id)
    BY <2>1 DEF Declarations
  <2>2. "tag" \in Introduces(Id) => IsNamed(Id)
    BY DEF Introduces
  <2> QED BY <2>1, <2>2
<1>5. CASE IsNamed(Id) /\ fwdState[Id] = 0
  <2>1. out' = Append(out, d)
    BY <1>5 DEF EmitForwardDecl, Emit
  <2>2. Declared' = Declared \cup H!WithTag(d)
    BY <1>2, <2>1, DeclaredOne
  <2>3. d \in Declared' /\ Declared \subseteq Declared'
    BY <2>2 DEF H!WithTag
  <2> QED BY <1>1, <1>3, <2>3, ReturnKeeps
<1>6. CASE ~ (IsNamed(Id) /\ fwdState[Id] = 0)
  <2>1. Declared' = Declared
    BY <1>6, DeclaredFixed DEF EmitForwardDecl
  <2>2. IsNamed(Id) => d \in Printed
    <3>1. fwdState[Id] \in 0 .. 1
      BY <1>2 DEF Given, Inv, TypeOK
    <3>2. IsNamed(Id) => fwdState[Id] = 1
      BY <1>6, <3>1
    <3> QED BY <1>2, <3>2 DEF Given, Inv, StatesMatch
  <2>3. \A e \in Promise(<<Call, Id>>) : e \in Declared'
    BY <1>3, <1>4, <2>1, <2>2 DEF Declared
  <2> QED BY <1>1, <2>1, <2>3, ReturnKeeps
<1> QED BY <1>5, <1>6

LEMMA EnumKeeps == Given /\ EmitEnumDefinition => Keeps
<1> SUFFICES ASSUME Given, EmitEnumDefinition PROVE Keeps
  OBVIOUS
<1>1. pc = "emit" /\ todo # <<>> /\ Call = "enum" /\ Return /\ out' = Append(out, <<"enum", Id>>)
  BY DEF EmitEnumDefinition, Doing, Emit
<1>2. out \in Seq(Declarations)
  BY DEF Given, Inv, TypeOK
<1>3. Declared \subseteq Declared'
  BY <1>1, <1>2, DeclaredOne
<1>4. Promise(<<Call, Id>>) = {}
  BY <1>1, LeadsTo
<1> QED BY <1>1, <1>3, <1>4, ReturnKeeps

\* What a definition begins with, and the entry that prints it behind.
LEMMA EnterKeeps ==
  ASSUME Given, pc = "emit", todo # <<>>, UNCHANGED out,
         NEW q \in Seq(Calls \X Nat), NEW mark \in Calls \X Nat, Replace(q \o <<mark>>),
         Settled(mark), \A y \in ToSet(q) : y[1] \notin Marks /\ Settled(y),
         Promise(<<Call, Id>>) \subseteq Promise(mark),
         \A d \in CNeeds[Printing(mark)] : \E y \in ToSet(q) : d \in Promise(y)
  PROVE  Keeps
<1> DEFINE one == <<mark>>   calls == q \o one
<1>1. one \in Seq(Calls \X Nat) /\ ToSet(one) = {mark}
  BY OnceSingle
<1>2. Covers(calls, Declared')
  BY BeginCovers
<1>3. Replace(calls)
  OBVIOUS
<1> HIDE DEF one
<1>4. calls \in Seq(Calls \X Nat) /\ ToSet(calls) = ToSet(q) \cup {mark}
  BY <1>1, Concatenation
<1> HIDE DEF calls
<1>5. Declared' = Declared
  BY DeclaredFixed
<1> QED BY <1>2, <1>3, <1>4, <1>5, CallKeeps

LEMMA EnterRecordKeeps == Given /\ EnterRecord => Keeps
<1> SUFFICES ASSUME Given, EnterRecord PROVE Keeps
  OBVIOUS
<1> DEFINE q == Each("hard", KeptTypes(Id))   mark == <<"define record", Id>>   d == <<"record", Id>>
           max == 2 * Len(btf)
<1>1. pc = "emit" /\ todo # <<>> /\ Call = "record" /\ Replace(q \o <<mark>>) /\ UNCHANGED out
  BY DEF EnterRecord, Doing
<1>2. Id \in Ids(btf) /\ IsNamedRecord(Id) /\ Id \in Nat /\ btf \in BaseBtf
  BY <1>1, AtGiven DEF WellCalled
<1>3. KeptTypes(Id) \in Seq(Nat) /\ Quiet(q)
  BY <1>2, KeptTypesAreIds, QuietEach
<1>4. mark \in Calls \X Nat /\ Printing(mark) = d /\ d[1] = "record" /\ d[2] = Id
  BY <1>2 DEF Calls, Printing
<1>5. EnumsAreSeeds \/ Id \in required
  <2>1. Settled(<<"record", Id>>)
    BY <1>1, AtGiven
  <2>2. Id # Void
    BY <1>2 DEF Void, Ids
  <2> QED BY <2>1, <2>2 DEF Settled
<1>6. Settled(mark)
  BY <1>5 DEF Settled
<1>7. ASSUME NEW y \in ToSet(q) PROVE y[1] \notin Marks /\ Settled(y)
  <2>1. PICK m \in ToSet(KeptTypes(Id)) : y = <<"hard", m>>
    BY <1>3, EachSet
  <2>2. Id \in required => m \in required \cup {Void}
    BY <1>2, ClosedRefs DEF Given, IsNamedRecord
  <2> QED BY <1>5, <2>1, <2>2 DEF Settled, Marks
<1>8. Promise(<<Call, Id>>) \subseteq Promise(mark)
  BY <1>1, LeadsTo
<1>9. ASSUME NEW e \in CNeeds[d] PROVE \E y \in ToSet(q) : e \in Promise(y)
  <2>1. d \in Declarations
    BY <1>2, DefinitionDeclared
  <2>2. e \in Declarations
    BY <1>2, <2>1, OrderHasRanks DEF Given, Judged
  <2>3. CNeeds[d] \subseteq DemandAll(max, ToSet(KeptTypes(Id)), TRUE)
    BY <1>2, <1>4, <2>1, NeedsByKind
  <2>4. PICK m \in ToSet(KeptTypes(Id)) : e \in Demand(max, m, TRUE)
    BY <2>3 DEF DemandAll
  <2>5. max \in 0 .. max
    BY <1>2 DEF BaseBtf
  <2>6. e \in Promise(<<"hard", m>>)
    BY <2>2, <2>4, <2>5, LeadsTo
  <2>7. <<"hard", m>> \in ToSet(q)
    BY EachHas
  <2> QED BY <2>6, <2>7
<1>10. q \in Seq(Calls \X Nat)
  BY <1>3 DEF Quiet
<1> HIDE DEF q, mark, d
<1> QED BY <1>1, <1>4, <1>6, <1>7, <1>8, <1>9, <1>10, EnterKeeps

LEMMA EnterTypedefKeeps == Given /\ EnterTypedef => Keeps
<1> SUFFICES ASSUME Given, EnterTypedef PROVE Keeps
  OBVIOUS
<1> DEFINE to == btf[Id].type   mark == <<"define typedef", Id>>   d == <<"typedef", Id>>
           call == <<IF NeedsHardDeps(to) THEN "hard" ELSE "soft", to>>   q == <<call>>
           max == 2 * Len(btf)
<1>1. /\ pc = "emit" /\ todo # <<>> /\ Call = "typedef" /\ IsNamed(Id) /\ Replace(<<call, mark>>)
      /\ UNCHANGED out
  BY DEF EnterTypedef, Doing
<1>2. Id \in Ids(btf) /\ btf[Id].kind = "TYPEDEF" /\ Id \in Nat /\ btf \in BaseBtf
  BY <1>1, AtGiven DEF WellCalled
<1>3. to \in Nat
  BY <1>2, BtfFields
<1>4. mark \in Calls \X Nat /\ Printing(mark) = d /\ d[1] = "typedef" /\ d[2] = Id
  BY <1>2 DEF Calls, Printing
<1>5. EnumsAreSeeds \/ Id \in required
  <2>1. Settled(<<"typedef", Id>>)
    BY <1>1, AtGiven
  <2>2. Id # Void
    BY <1>2 DEF Void, Ids
  <2> QED BY <2>1, <2>2 DEF Settled
<1>6. Settled(mark)
  BY <1>5 DEF Settled
<1>7. EnumsAreSeeds \/ to \in required \cup {Void}
  BY <1>2, <1>5, ClosedRefs DEF Given
<1>8. InPlace(to) => NeedsHardDeps(to)
  BY DEF InPlace, NeedsHardDeps, KindOf, Ids, Void
<1>9. call \in Calls \X Nat /\ call[1] \notin Marks /\ call[1] \in {"hard", "soft"} /\ call[2] = to
  BY <1>3 DEF Calls, Marks
<1>10. Settled(call)
  BY <1>7, <1>8 DEF Settled
<1>11. Promise(<<Call, Id>>) \subseteq Promise(mark)
  BY <1>1, LeadsTo
<1>12. ASSUME NEW e \in CNeeds[d] PROVE e \in Promise(call)
  <2>1. d \in Declarations
    BY <1>1, <1>2, DefinitionDeclared
  <2>2. e \in Declarations
    BY <1>2, <2>1, OrderHasRanks DEF Given, Judged
  <2>3. CNeeds[d] = DemandAll(max, {to}, FALSE)
    BY <1>2, <1>4, <2>1, NeedsByKind
  <2>4. e \in Demand(max, to, FALSE)
    BY <2>3 DEF DemandAll
  <2>5. max \in 0 .. max
    BY <1>2 DEF BaseBtf
  <2>6. e \in Promise(<<"hard", to>>) /\ e \in Promise(<<"soft", to>>)
    BY <2>2, <2>4, <2>5, LeadsTo
  <2>7. call = <<"hard", to>> \/ call = <<"soft", to>>
    OBVIOUS
  <2> QED BY <2>6, <2>7
<1> HIDE DEF call, mark
<1>13. q \in Seq(Calls \X Nat) /\ ToSet(q) = {call} /\ q \o <<mark>> = <<call, mark>>
  <2>1. q \in Seq(Calls \X Nat)
    BY <1>9
  <2>2. ToSet(q) = {call}
    BY OnceSingle
  <2>3. q \o <<mark>> = <<call, mark>>
    BY <1>4, <1>9, OneAndOne
  <2> QED BY <2>1, <2>2, <2>3
<1> HIDE DEF q, d
<1> QED BY <1>1, <1>4, <1>6, <1>9, <1>10, <1>11, <1>12, <1>13, EnterKeeps

\* An active definition is deeper in the recursion than the call that comes back to it.
LEMMA NoWayBack == Given /\ SkipRecord => recordState[Id] # 1
<1> DEFINE d == <<"record", Id>>
<1>1. SUFFICES ASSUME Given, SkipRecord, recordState[Id] = 1 PROVE FALSE
  OBVIOUS
<1>2. pc = "emit" /\ todo # <<>> /\ Call = "record"
  BY <1>1 DEF SkipRecord, Doing
<1>3. PICK rank \in Ranks : Ranked(rank)
  BY <1>1, <1>2, OrderHasRanks, AtGiven DEF Given, Judged
<1>4. Descends(todo, rank)
  BY <1>1, <1>3 DEF Given, Judged, Orderly, Descending
<1>5. <<"define record", Id>> \in ToSet(todo)
  BY <1>1, <1>2, AtGiven DEF WellCalled, Given, Inv, Active
<1>6. PICK n \in DOMAIN todo : todo[n] = <<"define record", Id>>
  BY <1>5 DEF ToSet
<1>7. /\ todo \in Seq(Calls \X Nat) /\ 1 \in DOMAIN todo /\ todo[1] = Head(todo) /\ n \in Nat \ {0}
      /\ Head(todo) \in Calls \X Nat
  <2>1. todo \in Seq(Calls \X Nat)
    BY <1>1 DEF Given, Inv, TypeOK
  <2> QED BY <1>2, <2>1
<1>8. todo[1] = <<"record", Id>>
  BY <1>2, <1>7 DEF Call, Id
<1>9. todo[1][1] = "record" /\ todo[1][2] = Id /\ todo[n][1] = "define record" /\ todo[n][2] = Id
  <2>1. todo[n][1] = "define record" /\ todo[n][2] = Id
    BY <1>6, PairParts
  <2>2. todo[1][1] = "record" /\ todo[1][2] = Id
    BY <1>8
  <2> QED BY <2>1, <2>2
<1>10. 1 < n
  <2>1. n # 1
    BY <1>9
  <2> QED BY <1>7, <2>1
<1>11. Fits(todo[1], rank, rank[Printing(todo[n])])
  <2>1. todo[n][1] \in Marks
    BY <1>9 DEF Marks
  <2> QED BY <1>4, <1>7, <1>10, <2>1 DEF Descends
<1>12. Printing(todo[n]) = d /\ Printing(todo[1]) = d
  BY <1>9 DEF Printing
<1>13. d \in Declarations /\ rank[d] < rank[d]
  <2>1. Below({d}, rank, rank[d])
    BY <1>9, <1>11, <1>12 DEF Fits
  <2> QED BY <2>1 DEF Below
<1> QED BY <1>13 DEF Ranks

LEMMA SkipRecordKeeps == Given /\ SkipRecord => Keeps
<1> SUFFICES ASSUME Given, SkipRecord PROVE Keeps
  OBVIOUS
<1>1. pc = "emit" /\ todo # <<>> /\ Call = "record" /\ Return /\ UNCHANGED out
  BY DEF SkipRecord, Doing
<1>2. Id \in Ids(btf) /\ IsNamedRecord(Id)
  BY <1>1, AtGiven DEF WellCalled
<1>3. recordState[Id] \in 1 .. 2
  <2>1. recordState[Id] \in 0 .. 2
    BY <1>2 DEF Given, Inv, TypeOK
  <2>2. recordState[Id] # 0
    BY <1>2 DEF SkipRecord
  <2> QED BY <2>1, <2>2
<1>4. recordState[Id] # 1
  BY NoWayBack
<1>5. <<"record", Id>> \in Printed
  <2>1. recordState[Id] = 2
    BY <1>3, <1>4
  <2> QED BY <1>2, <2>1 DEF Given, Inv, StatesMatch
<1>6. {<<"record", Id>>, <<"tag", Id>>} \subseteq Declared
  BY <1>5 DEF Declared
<1>7. Promise(<<Call, Id>>) \subseteq {<<"record", Id>>, <<"tag", Id>>}
  BY <1>1, LeadsTo
<1>8. Declared' = Declared
  BY <1>1, DeclaredFixed
<1> QED BY <1>1, <1>6, <1>7, <1>8, ReturnKeeps

LEMMA SkipTypedefKeeps == Given /\ SkipTypedef => Keeps
<1> SUFFICES ASSUME Given, SkipTypedef PROVE Keeps
  OBVIOUS
<1> DEFINE d == <<"typedef", Id>>
<1>1. pc = "emit" /\ todo # <<>> /\ Call = "typedef" /\ Return /\ UNCHANGED out
  BY DEF SkipTypedef, Doing
<1>2. Id \in Ids(btf)
  BY <1>1, AtGiven DEF WellCalled
<1>3. Promise(<<Call, Id>>) = {d} \cap Declarations
  BY <1>1, LeadsTo
<1>4. Declared' = Declared
  BY <1>1, DeclaredFixed
<1>5. CASE typedefState[Id] = 2
  <2>1. d \in Declared
    BY <1>2, <1>5 DEF Given, Inv, StatesMatch, Declared
  <2> QED BY <1>1, <1>3, <1>4, <2>1, ReturnKeeps
<1>6. CASE ~ IsNamed(Id)
  <2>1. d \notin Declarations
    <3>1. ASSUME d \in Declarations PROVE "typedef" \in Introduces(Id)
      BY <3>1 DEF Declarations
    <3>2. "typedef" \notin Introduces(Id)
      BY <1>6 DEF Introduces
    <3> QED BY <3>1, <3>2
  <2> QED BY <1>1, <1>3, <1>4, <2>1, ReturnKeeps
<1> QED BY <1>5, <1>6 DEF SkipTypedef

LEMMA DefineKeeps == Given /\ (DefineRecord \/ DefineTypedef) => Keeps
<1> SUFFICES ASSUME Given, DefineRecord \/ DefineTypedef PROVE Keeps
  OBVIOUS
<1>1. pc = "emit" /\ todo # <<>> /\ Return /\ out \in Seq(Declarations)
  BY DEF DefineRecord, DefineTypedef, Doing, Given, Inv, TypeOK
<1>2. CASE DefineRecord
  <2> DEFINE d == <<"record", Id>>
  <2>1. Call = "define record" /\ out' = Append(out, d)
    BY <1>2 DEF DefineRecord, Doing, Emit
  <2>2. Declared' = Declared \cup H!WithTag(d)
    BY <1>1, <2>1, DeclaredOne
  <2>3. H!WithTag(d) = {<<"record", Id>>, <<"tag", Id>>}
    BY DEF H!WithTag
  <2>4. Promise(<<Call, Id>>) \subseteq {<<"record", Id>>, <<"tag", Id>>}
    BY <2>1, LeadsTo
  <2> QED BY <1>1, <2>2, <2>3, <2>4, ReturnKeeps
<1>3. CASE DefineTypedef
  <2> DEFINE d == <<"typedef", Id>>
  <2>1. Call = "define typedef" /\ out' = Append(out, d)
    BY <1>3 DEF DefineTypedef, Doing, Emit
  <2>2. Declared' = Declared \cup H!WithTag(d)
    BY <1>1, <2>1, DeclaredOne
  <2>3. d \in H!WithTag(d)
    BY DEF H!WithTag
  <2>4. Promise(<<Call, Id>>) \subseteq {d}
    BY <2>1, LeadsTo
  <2> QED BY <1>1, <2>2, <2>3, <2>4, ReturnKeeps
<1> QED BY <1>2, <1>3

LEMMA TakeRootKeeps == Given /\ TakeRoot => Keeps
<1> SUFFICES ASSUME Given, TakeRoot PROVE Keeps
  OBVIOUS
<1>1. loop \in DOMAIN Loops /\ UNCHANGED out
  BY DEF TakeRoot
<1>2. PICK id \in Group(Loops[loop]) : todo' = <<<<Loops[loop], id>>>>
  BY DEF TakeRoot
<1> DEFINE c == <<Loops[loop], id>>
<1>3. id \in required /\ id \in Nat /\ Loops[loop] \in {"forward", "enum", "typedef", "record"}
  BY <1>1, LoopNames DEF Group, Given, Inv, TypeOK
<1>4. c \in Calls \X Nat /\ c[1] \notin Marks /\ c[1] # "soft" /\ c[2] = id
  BY <1>3 DEF Calls, Marks
<1>5. Settled(c)
  BY <1>3, <1>4 DEF Settled
<1> HIDE DEF c
<1>6. ToSet(todo') = {c}
  BY <1>2, OnceSingle DEF c
<1>7. Covers(todo', Declared')
  BY <1>4, <1>6, UnmarkedCovers
<1> QED BY <1>4, <1>5, <1>6, <1>7 DEF Keeps, SettledCalls

LEMMA StepKeeps == Given /\ Next => Keeps
<1>1. Given /\ (Allocate \/ NextLoop \/ InvalidId \/ CannotDefine \/ TypedefCycle \/ Finish) => Keeps
  <2> SUFFICES ASSUME Given, Allocate \/ NextLoop \/ InvalidId \/ CannotDefine \/ TypedefCycle \/ Finish
               PROVE  Keeps
    OBVIOUS
  <2>1. todo' = todo /\ UNCHANGED out
    BY DEF Allocate, NextLoop, InvalidId, CannotDefine, TypedefCycle, Finish
  <2>2. Declared' = Declared
    BY <2>1, DeclaredFixed
  <2> QED BY <2>1, <2>2 DEF Given, Keeps
<1> QED BY <1>1, TakeRootKeeps, SoftKeeps, HardKeeps, ForwardKeeps, EnumKeeps, EnterRecordKeeps,
           SkipRecordKeeps, DefineKeeps, EnterTypedefKeeps, SkipTypedefKeeps DEF Next

-----------------------------------------------------------------------------
\* What the judgement rests on stays the same.

LEMMA JudgedFixed ==
  ASSUME UNCHANGED <<btf, name, members, seeds, expand>>
  PROVE  /\ (Orderable' <=> Orderable) /\ (Plain' <=> Plain) /\ (Peelable' <=> Peelable)
         /\ Judged' <=> Judged
         /\ asked' = asked => (Asking' <=> Asking)
         /\ Covering' = Covering
         /\ required' = required => SettledCalls' = SettledCalls
<1>1. /\ btf' = btf /\ name' = name /\ seeds' = seeds /\ expand' = expand
      /\ Declarations' = Declarations /\ CNeeds' = CNeeds /\ (Peelable' <=> Peelable)
      /\ \A k, i, c : Demand(k, i, c)' = Demand(k, i, c)
      /\ \A i : Peeled(i)' = Peeled(i)
  BY DeclarationsFixed, RanksFixed
<1>2. Orderable' <=> Orderable
  BY <1>1 DEF Orderable, InSomeOrder
<1>3. Pointees' = Pointees
  BY <1>1 DEF Pointees
<1>4. \A i : (InPlace(i)' <=> InPlace(i)) /\ (OfTypedef(i)' <=> OfTypedef(i))
  BY <1>1 DEF InPlace, OfTypedef, IsNamed
<1>5. Plain' <=> Plain
  BY <1>1, <1>3, <1>4 DEF Plain
<1>6. asked' = asked => (Asking' <=> Asking)
  BY <1>1 DEF Asking, InSomeOrder
<1>7. \A c, d : Leads(c, d)' <=> Leads(c, d)
  BY <1>1 DEF Leads
<1>8. \A c : Promise(c)' = Promise(c)
  BY <1>1, <1>7 DEF Promise
<1>9. \A s, D : Covers(s, D)' <=> Covers(s, D)
  BY <1>1, <1>8 DEF Covers, Printing
<1>10. Covering' = Covering
  BY <1>1, <1>9 DEF Covering
<1>11. ASSUME required' = required PROVE SettledCalls' = SettledCalls
  <2>1. EnumsAreSeeds' <=> EnumsAreSeeds
    BY <1>1 DEF EnumsAreSeeds
  <2>2. \A c : Settled(c)' <=> Settled(c)
    BY <1>1, <1>3, <1>4, <1>11, <2>1 DEF Settled
  <2> QED BY <2>2 DEF SettledCalls
<1> QED BY <1>1, <1>2, <1>5, <1>6, <1>10, <1>11 DEF Judged

-----------------------------------------------------------------------------
\* The closure keeps in this composition what it keeps alone.

CP == INSTANCE ClosureProofs WITH cursor <- filled, pc <- closing, err <- failure

LEMMA BasesAreBtf == Bases \subseteq CP!BaseBtf
BY NamedBasesAssumption DEF Bases, CP!BaseBtf, BaseBtf, CP!BtfType, BtfType, CP!Kinds, Kinds,
    CP!ReferenceKinds, CP!RecordKinds, CP!LeafKinds, ReferenceKinds, RecordKinds, LeafKinds

LEMMA SameSpec == C!Spec => CP!Spec
<1>1. C!Init => CP!Init
  BY DEF C!Init, CP!Init, C!Ids, CP!Ids, C!MemberChoices, CP!MemberChoices, C!MemberIndexes,
      CP!MemberIndexes, C!RecordKinds, CP!RecordKinds
<1>2. C!vars = CP!vars /\ C!inputs = CP!inputs
  BY DEF C!vars, C!inputs, CP!vars, CP!inputs
<1>3. \A id : C!Deps(id) = CP!Deps(id)
  BY DEF C!Deps, C!TypeThenParts, C!Pruned, C!Void, C!ReferenceKinds, C!RecordKinds, C!LeafKinds,
         CP!Deps, CP!TypeThenParts, CP!Pruned, CP!Void, CP!ReferenceKinds, CP!RecordKinds, CP!LeafKinds
<1>4. C!Current = CP!Current /\ C!NextDep = CP!NextDep
  BY <1>3 DEF C!Current, C!NextDep, CP!Current, CP!NextDep
<1> USE <1>2, <1>3, <1>4 DEF C!Push, CP!Push, C!Fail, CP!Fail, C!CannotGrow, CP!CannotGrow,
    C!Ids, CP!Ids, C!TypeCnt, CP!TypeCnt, C!Void, CP!Void, C!Maximum, CP!Maximum, C!inputs, CP!inputs
<1>5. C!Allocate => CP!Allocate
  BY DEF C!Allocate, CP!Allocate, C!Cardinality, CP!Cardinality
<1>6. C!Fill => CP!Fill
  BY DEF C!Fill, CP!Fill
<1>7. C!Filled => CP!Filled
  BY DEF C!Filled, CP!Filled
<1>8. C!Take => CP!Take
  BY DEF C!Take, CP!Take
<1>9. C!SkipDep => CP!SkipDep
  BY DEF C!SkipDep, CP!SkipDep
<1>10. C!RejectDep => CP!RejectDep
  BY DEF C!RejectDep, CP!RejectDep
<1>11. C!AddDep => CP!AddDep
  BY DEF C!AddDep, CP!AddDep
<1>12. C!DepsDone => CP!DepsDone
  BY DEF C!DepsDone, CP!DepsDone
<1>13. C!Return => CP!Return
  BY DEF C!Return, CP!Return
<1>20. [C!Next]_C!vars => [CP!Next]_CP!vars
  BY <1>2, <1>5, <1>6, <1>7, <1>8, <1>9, <1>10, <1>11, <1>12, <1>13 DEF C!Next, CP!Next,
      C!vars, CP!vars
<1> QED BY <1>1, <1>20, PTL DEF C!Spec, CP!Spec

\* What the emitter starts from: the set the closure returned holds all that the
\* definitions of its types need (closure.c:197-211, main.c:200-211).
THEOREM ClosedUnderNeeds == GenerateSpec => []C!ClosedWhenOk
<1>0. Bases \subseteq CP!BaseBtf /\ MinCap \in Nat \ {0}
  BY BasesAreBtf, MinCapPositive
<1>1. CP!Spec => []CP!ClosedWhenOk
  BY <1>0, CP!SuccessIsClosed
<1>2. CP!ClosedWhenOk => C!ClosedWhenOk
  BY DEF C!ClosedWhenOk, CP!ClosedWhenOk, C!Closed, CP!Closed, C!Edges, CP!Edges, C!Needs,
      CP!Needs, C!NeedsType, CP!NeedsType,
   C!NeedsPart, CP!NeedsPart, C!Ids, CP!Ids, C!Void, CP!Void, C!RecordKinds, CP!RecordKinds, C!ReferenceKinds, CP!ReferenceKinds
<1> QED BY <1>1, <1>2, ClosureUndisturbed, SameSpec, PTL

\* What the emitter reads of the closure.
Closing == /\ seeds \subseteq required /\ required \subseteq Ids(btf)
           /\ closing = "ok" => C!Closed(required)

LEMMA ClosingAlways == GenerateSpec => []Closing
<1>0. Bases \subseteq CP!BaseBtf /\ MinCap \in Nat \ {0}
  BY BasesAreBtf, MinCapPositive
<1>1. CP!Spec => []CP!Inv
  BY <1>0, CP!Invariance
<1>2. CP!Inv /\ C!ClosedWhenOk => Closing
  BY DEF CP!Inv, CP!TypeOK, CP!Ids, Ids, C!ClosedWhenOk, Closing
<1> QED BY <1>1, <1>2, ClosureUndisturbed, ClosedUnderNeeds, SameSpec, PTL

LEMMA EmitterFixes == Next => UNCHANGED <<btf, name, members, required>>
BY DEF Next, Allocate, TakeRoot, NextLoop, InvalidId, FollowSoftDeps, FollowHardDeps,
       EmitForwardDecl, EmitEnumDefinition, EnterRecord, SkipRecord, DefineRecord,
       EnterTypedef, SkipTypedef, TypedefCycle, DefineTypedef, CannotDefine, Finish, given

LEMMA ClosureFixes == C!Next => UNCHANGED <<btf, members, seeds, expand>>
BY DEF C!inputs, C!Next, C!Allocate, C!Fill, C!Filled, C!Take, C!SkipDep, C!RejectDep,
    C!AddDep, C!DepsDone, C!Return

LEMMA EarlyStep == Inv /\ Early /\ Next => Early'
<1> SUFFICES ASSUME Inv, Early, Next PROVE Early'
  OBVIOUS
<1>1. pc' # "allocate"
  BY DEF Next, Allocate, TakeRoot, NextLoop, InvalidId, FollowSoftDeps, FollowHardDeps, Doing,
      Fail,
         EmitForwardDecl, EmitEnumDefinition, EnterRecord, SkipRecord, DefineRecord,
         EnterTypedef, SkipTypedef, TypedefCycle, DefineTypedef, CannotDefine, Finish
<1> SUFFICES ASSUME loop' < 3, NEW c \in ToSet(todo') PROVE c[1] \in {"forward", "enum"}
  BY <1>1 DEF Early
<1>2. CASE UNCHANGED <<todo, loop>>
  BY <1>2 DEF Early
<1>3. CASE TakeRoot
  <2>1. PICK id : todo' = <<<<Loops[loop], id>>>>
    BY <1>3 DEF TakeRoot
  <2>2. c = <<Loops[loop], id>>
    BY <2>1, OnceSingle
  <2>3. loop \in 1 .. 2
    BY <1>3, LoopNames DEF TakeRoot
  <2>4. loop = 1 \/ loop = 2
    BY <2>3
  <2> QED BY <2>2, <2>4, LoopNames
<1>4. CASE NextLoop
  BY <1>4 DEF NextLoop, ToSet
<1>5. CASE EmitForwardDecl \/ EmitEnumDefinition \/ SkipRecord \/ DefineRecord \/ SkipTypedef
           \/ DefineTypedef
  <2>1. pc = "emit" /\ todo # <<>> /\ Return /\ loop' = loop
    BY <1>5 DEF EmitForwardDecl, EmitEnumDefinition, SkipRecord, DefineRecord, SkipTypedef,
                DefineTypedef, Doing, progress
  <2>2. ToSet(todo') \subseteq ToSet(todo)
    BY <2>1, AtCall DEF Return
  <2> QED BY <2>1, <2>2 DEF Early
<1>6. CASE FollowSoftDeps \/ FollowHardDeps \/ EnterRecord \/ EnterTypedef
  <2>1. pc = "emit" /\ todo # <<>> /\ Call \notin {"forward", "enum"} /\ loop' = loop
    BY <1>6 DEF FollowSoftDeps, FollowHardDeps, EnterRecord, EnterTypedef, Doing, progress
  <2>2. <<Call, Id>> \in ToSet(todo)
    BY <2>1, AtCall
  <2> QED BY <2>1, <2>2 DEF Early
<1>7. Allocate \/ InvalidId \/ CannotDefine \/ TypedefCycle \/ Finish => UNCHANGED <<todo, loop>>
  BY DEF Allocate, InvalidId, CannotDefine, TypedefCycle, Finish, progress
<1> QED BY <1>2, <1>3, <1>4, <1>5, <1>6, <1>7 DEF Next

\* Where C has an order, all that a definition in progress needs is on its way.
OnItsWay == Judged => <<todo, Declared>> \in Covering /\ ToSet(todo) \subseteq SettledCalls

Steady == Early /\ OnItsWay

LEMMA SteadyStep ==
  ASSUME BehindClosure, BehindClosure', Orderly, Closing, Steady, [GenerateNext]_<<vars, closure>>
  PROVE  Steady' /\ UNCHANGED <<btf, name, members, seeds, expand, asked>>
<1>1. CASE C!Next /\ UNCHANGED <<printing, asked>>
  <2>1. UNCHANGED <<btf, name, members, seeds, expand, asked>> /\ UNCHANGED <<todo, out, pc, loop>>
    BY <1>1, ClosureFixes DEF printing, progress
  <2>2. closing # "ok"
    BY <1>1, ClosureStep
  <2>3. pc = "allocate"
    BY <2>2 DEF BehindClosure
  <2>4. todo = <<>>
    BY <2>3 DEF Steady, Early
  <2>5. Early'
    BY <2>1 DEF Steady, Early
  <2>6. Judged' => Judged
    BY <2>1, JudgedFixed
  <2>7. Declared' = Declared /\ Covering' = Covering
    BY <2>1, DeclaredFixed, JudgedFixed
  <2>8. ToSet(todo') = {}
    BY <2>1, <2>4 DEF ToSet
  <2> QED BY <2>1, <2>5, <2>6, <2>7, <2>8 DEF Steady, OnItsWay
<1>2. CASE closing = "ok" /\ Next /\ UNCHANGED closure
  <2>1. UNCHANGED <<btf, name, members, seeds, expand, asked, required>>
    BY <1>2, EmitterFixes DEF closure
  <2>2. Early'
    BY <1>2, EarlyStep DEF BehindClosure, Steady
  <2>3. ASSUME Judged' PROVE <<todo', Declared'>> \in Covering /\ ToSet(todo') \subseteq SettledCalls
    <3>1. Judged
      BY <2>1, <2>3, JudgedFixed
    <3>2. <<todo, Declared>> \in Covering /\ ToSet(todo) \subseteq SettledCalls
      BY <3>1 DEF Steady, OnItsWay
    <3>3. Covers(todo, Declared)
      BY <3>2 DEF Covering
    <3>4. Given
      BY <1>2, <3>1, <3>2, <3>3 DEF Given, BehindClosure, Closing, Steady
    <3>5. Keeps
      BY <1>2, <3>4, StepKeeps
    <3>6. todo' \in Seq(Calls \X Nat)
      BY DEF BehindClosure, Inv, TypeOK
    <3>7. Declared' \subseteq Declarations
      <4>1. (Declared \subseteq Declarations)'
        BY DeclaredAreDeclarations, PTL
      <4>2. Declarations' = Declarations
        BY <2>1, DeclarationsFixed
      <4> QED BY <4>1, <4>2
    <3> QED BY <3>5, <3>6, <3>7 DEF Keeps, Covering
  <2>4. Covering' = Covering /\ SettledCalls' = SettledCalls
    BY <2>1, JudgedFixed
  <2> QED BY <2>1, <2>2, <2>3, <2>4 DEF Steady, OnItsWay
<1>3. CASE UNCHANGED <<vars, closure>>
  <2>1. /\ UNCHANGED <<btf, name, members, seeds, expand, asked, required>>
        /\ UNCHANGED <<todo, out, pc, loop>>
    BY <1>3 DEF vars, given, closure, progress
  <2>2. (Judged' => Judged) /\ Covering' = Covering /\ SettledCalls' = SettledCalls
    BY <2>1, JudgedFixed
  <2>3. Declared' = Declared
    BY <2>1, DeclaredFixed
  <2> QED BY <2>1, <2>2, <2>3 DEF Steady, Early, OnItsWay
<1> QED BY <1>1, <1>2, <1>3 DEF GenerateNext

LEMMA SteadyInit == GenerateInit => Steady
<1> SUFFICES ASSUME GenerateInit PROVE Steady
  OBVIOUS
<1>1. todo = <<>> /\ out = <<>> /\ ToSet(todo) = {}
  BY DEF GenerateInit, Called, Begin, ToSet
<1>2. Declared = {}
  BY <1>1 DEF Declared, Printed, ToSet
<1>3. Covers(todo, Declared) /\ todo \in Seq(Calls \X Nat)
  BY <1>1 DEF Covers
<1> QED BY <1>1, <1>2, <1>3 DEF Steady, Early, OnItsWay, Covering

LEMMA SteadyAlways == GenerateSpec => []Steady
BY SteadyInit, SteadyStep, Invariance, OrderlyAlways, ClosingAlways, PTL DEF GenerateSpec

-----------------------------------------------------------------------------
\* The refinement: a declaration printed is a declaration of Header, and every other
\* step ends the run or changes nothing of it.

LEMMA AskedIs ==
  ASSUME Asking
  PROVE  /\ DOMAIN asked = Declarations
         /\ \A d \in Declarations : IF Orderable THEN asked[d] = CNeeds[d] ELSE asked[d] = {}
<1>1. DOMAIN CNeeds = Declarations
  BY DEF CNeeds
<1> DEFINE needs == CNeeds
<1>2. asked = IF Orderable THEN needs ELSE [d \in Declarations |-> {}]
  BY DEF Asking, Orderable
<1> HIDE DEF needs
<1>3. CASE Orderable
  BY <1>1, <1>2, <1>3 DEF needs
<1>4. CASE ~ Orderable
  BY <1>2, <1>4
<1> QED BY <1>3, <1>4

LEMMA NeedsNothing ==
  ASSUME NEW d \in Declarations, d[1] \notin {"typedef", "record"}
  PROVE  CNeeds[d] = {}
<1> DEFINE demands == DemandsWithin[2 * Len(btf)]
           Of(S, c) == UNION {demands[<<i, c>>] : i \in S \cap Ids(btf)}
<1>1. CNeeds[d] = CASE d[1] = "typedef" -> Of({btf[d[2]].type}, FALSE)
                    [] d[1] = "record"  -> Of(ToSet(KeptTypes(d[2])), TRUE) \ {<<"tag", d[2]>>}
                    [] OTHER -> {}
  BY DEF CNeeds
<1> HIDE DEF Of
<1> QED BY <1>1

LEMMA SeedGoalFixed ==
  ASSUME Closing, Closing', UNCHANGED <<btf, name, seeds>>
  PROVE  SeedGoal' = SeedGoal /\ SeedGoal \subseteq CGoal'
<1>1. btf' = btf /\ seeds' = seeds /\ Declarations' = Declarations
  BY DeclarationsFixed
<1>2. seeds \subseteq required /\ seeds \subseteq required'
  BY <1>1 DEF Closing
<1> QED BY <1>1, <1>2 DEF SeedGoal, CGoal

\* What the mark in front prints, all that it needs is declared (emitter.c:583-643, 696-720).
LEMMA NeedsDeclared ==
  ASSUME BehindClosure, Steady, Judged, pc = "emit", todo # <<>>, Call \in Marks
  PROVE  CNeeds[Printing(<<Call, Id>>)] \subseteq Declared
<1>1. todo \in Seq(Calls \X Nat) /\ Covers(todo, Declared)
  BY DEF Steady, OnItsWay, Covering, BehindClosure, Inv, TypeOK
<1>2. 1 \in DOMAIN todo /\ todo[1] = <<Call, Id>> /\ \A p \in DOMAIN todo : ~ (p < 1)
  <2>1. todo[1] \in Calls \X Nat /\ todo[1] = Head(todo) /\ 1 \in DOMAIN todo
    BY <1>1
  <2>2. DOMAIN todo = 1 .. Len(todo)
    BY <1>1
  <2> QED BY <2>1, <2>2 DEF Call, Id
<1>3. todo[1][1] \in Marks
  BY <1>2
<1> QED BY <1>1, <1>2, <1>3 DEF Covers

LEMMA OneDeclared ==
  ASSUME BehindClosure, BehindClosure', NEW d, out' = Append(out, d), UNCHANGED <<btf, name>>
  PROVE  d \in Declarations /\ Declared' = Declared \cup H!WithTag(d)
<1>1. Declared' = Declared \cup H!WithTag(d) /\ Printed' = Printed \cup {d}
  BY DeclaredOne DEF BehindClosure, Inv, TypeOK
<1>2. (Declared \subseteq Declarations)'
  BY DeclaredAreDeclarations, PTL
<1>3. Declarations' = Declarations
  BY DeclarationsFixed
<1>4. d \in Declared'
  BY <1>1 DEF H!WithTag
<1> QED BY <1>1, <1>2, <1>3, <1>4

LEMMA DeclareOne ==
  ASSUME BehindClosure, BehindClosure', Asking, closing = "ok", pc = "emit", NEW d,
         out' = Append(out, d), Orderable => CNeeds[d] \subseteq Declared,
         UNCHANGED <<btf, name, asked, SeedGoal, pc, closing>>
  PROVE  H!Next
<1>1. d \in Declarations /\ Declared' = Declared \cup H!WithTag(d)
  BY OneDeclared
<1>2. asked[d] \subseteq Declared /\ d \in DOMAIN asked
  BY <1>1, AskedIs
<1>3. Result = "running" /\ Result' = Result
  BY DEF Result, Outcome
<1>4. H!Declare(d)
  BY <1>1, <1>2, <1>3 DEF H!Declare
<1> QED BY <1>2, <1>4 DEF H!Next

LEMMA EmitterRefines ==
  ASSUME BehindClosure, BehindClosure', Steady, Asking, Orderable => Plain /\ Peelable,
         GoalIsPrinted', closing = "ok", Next,
         UNCHANGED <<btf, name, asked, SeedGoal, closing>>, SeedGoal \subseteq CGoal'
  PROVE  H!Next \/ UNCHANGED <<asked, SeedGoal, Declared, Result>>
<1>1. Orderable => Judged
  BY DEF Judged
<1>2. ASSUME pc' = pc, UNCHANGED out PROVE UNCHANGED <<asked, SeedGoal, Declared, Result>>
  BY <1>2, DeclaredFixed DEF Result, Outcome
<1>3. CASE EmitForwardDecl
  <2> DEFINE d == <<"tag", Id>>
  <2>1. pc = "emit" /\ UNCHANGED pc
    BY <1>3 DEF EmitForwardDecl, Doing
  <2>2. CASE IsNamed(Id) /\ fwdState[Id] = 0
    <3>1. out' = Append(out, d) /\ d[1] = "tag"
      BY <1>3, <2>2 DEF EmitForwardDecl, Emit
    <3> HIDE DEF d
    <3>2. CNeeds[d] \subseteq Declared
      BY <3>1, OneDeclared, NeedsNothing
    <3> QED BY <2>1, <3>1, <3>2, DeclareOne
  <2>3. CASE ~ (IsNamed(Id) /\ fwdState[Id] = 0)
    <3>1. UNCHANGED out
      BY <1>3, <2>3 DEF EmitForwardDecl
    <3> QED BY <1>2, <2>1, <3>1
  <2> QED BY <2>2, <2>3
<1>4. CASE EmitEnumDefinition
  <2> DEFINE d == <<"enum", Id>>
  <2>1. pc = "emit" /\ UNCHANGED pc /\ out' = Append(out, d) /\ d[1] = "enum"
    BY <1>4 DEF EmitEnumDefinition, Doing, Emit
  <2> HIDE DEF d
  <2>2. CNeeds[d] \subseteq Declared
    BY <2>1, OneDeclared, NeedsNothing
  <2> QED BY <2>1, <2>2, DeclareOne
<1>5. CASE DefineRecord \/ DefineTypedef
  <2> DEFINE d == Printing(<<Call, Id>>)
  <2>1. /\ pc = "emit" /\ UNCHANGED pc /\ todo # <<>> /\ Call \in Marks
        /\ out' = Append(out, d)
    BY <1>5 DEF DefineRecord, DefineTypedef, Doing, Emit, Marks, Printing
  <2>2. Orderable => CNeeds[d] \subseteq Declared
    BY <1>1, <2>1, NeedsDeclared
  <2> HIDE DEF d
  <2> QED BY <2>1, <2>2, DeclareOne
<1>6. CASE TakeRoot \/ NextLoop \/ FollowSoftDeps \/ FollowHardDeps \/ EnterRecord \/ SkipRecord
           \/ EnterTypedef \/ SkipTypedef
  <2>1. pc' = pc /\ UNCHANGED out
    BY <1>6 DEF TakeRoot, NextLoop, FollowSoftDeps, FollowHardDeps, EnterRecord, SkipRecord,
                EnterTypedef, SkipTypedef
  <2> QED BY <1>2, <2>1
<1>7. CASE Allocate \/ InvalidId \/ TypedefCycle \/ CannotDefine \/ Finish
  <2>1. /\ pc \in {"allocate", "emit"} /\ UNCHANGED out
        /\ pc' \in {"emit", "error"} \/ (Finish /\ pc' = "ok")
    BY <1>7 DEF Allocate, InvalidId, TypedefCycle, CannotDefine, Finish, Fail, Doing
  <2>2. Declared' = Declared
    BY <2>1, DeclaredFixed
  <2>3. Result = "running"
    BY <2>1 DEF Result, Outcome
  <2>4. CASE pc' = "emit"
    <3>1. Result' = "running"
      BY <2>4 DEF Result, Outcome
    <3> QED BY <2>2, <2>3, <3>1
  <2>5. CASE pc' = "error"
    <3>1. Result' = "error"
      BY <2>5 DEF Result
    <3>2. H!GiveUp
      BY <2>2, <2>3, <3>1 DEF H!GiveUp
    <3> QED BY <3>2 DEF H!Next
  <2>6. CASE Finish /\ pc' = "ok"
    <3>1. Result' = "ok"
      BY <2>6 DEF Result, Outcome
    <3>2. SeedGoal \subseteq Printed'
      BY <2>6 DEF GoalIsPrinted
    <3>3. SeedGoal \subseteq Declared
      BY <2>2, <3>2 DEF Declared
    <3>4. H!Finish
      BY <2>2, <2>3, <3>1, <3>3 DEF H!Finish
    <3> QED BY <3>4 DEF H!Next
  <2> QED BY <2>1, <2>4, <2>5, <2>6
<1> QED BY <1>3, <1>4, <1>5, <1>6, <1>7 DEF Next

LEMMA ClosureRefines ==
  ASSUME BehindClosure, C!Next, UNCHANGED <<printing, asked, SeedGoal>>
  PROVE  H!Next \/ UNCHANGED <<asked, SeedGoal, Declared, Result>>
<1>1. closing \notin {"ok", "error"}
  BY DEF C!Next, C!Allocate, C!Fill, C!Filled, C!Take, C!SkipDep, C!RejectDep, C!AddDep,
      C!DepsDone, C!Return
<1>2. pc = "allocate" /\ pc' = pc /\ UNCHANGED out
  BY <1>1 DEF BehindClosure, printing
<1>3. Declared' = Declared
  BY <1>2, DeclaredFixed
<1>4. Result = "running"
  BY <1>1, <1>2 DEF Result, Outcome
<1>5. CASE closing' = "error"
  <2>1. Result' = "error"
    BY <1>5 DEF Result
  <2>2. H!GiveUp
    BY <1>3, <1>4, <2>1 DEF H!GiveUp
  <2> QED BY <2>2 DEF H!Next
<1>6. CASE closing' # "error"
  <2>1. Result' = "running"
    BY <1>2, <1>6 DEF Result, Outcome
  <2> QED BY <1>3, <1>4, <2>1
<1> QED BY <1>5, <1>6

\* What C asks is written down at the start, and the types stay what they are.
Asked == Asking /\ (Orderable => Plain /\ Peelable)

\* For any BTF, members and seeds: where C has an order for the declarations at all,
\* nothing behind a pointer has to be complete (Plain) and no type is qualified more
\* than PeelLimit - 1 times, a run from the seeds to the header is a run of Header:
\* each declaration is printed after all that C wants declared before it, and a header
\* that is reported as good holds every definition the seeds call for
\* (closure.c:86-211, emitter.c:490-876, main.c:200-211).
THEOREM HeaderGenerated == GenerateSpec /\ (Orderable => Plain /\ Peelable) => GeneratesHeader
<1>1. GenerateInit /\ (Orderable => Plain /\ Peelable) => H!Init /\ Asked
  <2> SUFFICES ASSUME GenerateInit, Orderable => Plain /\ Peelable PROVE H!Init /\ Asked
    OBVIOUS
  <2>1. out = <<>> /\ pc = "allocate" /\ closing = "init"
    BY DEF GenerateInit, Called, Begin, C!Init
  <2>2. Declared = {}
    BY <2>1 DEF Declared, Printed, ToSet
  <2>3. Result = "running"
    BY <2>1 DEF Result, Outcome
  <2> QED BY <2>2, <2>3 DEF H!Init, Asked, GenerateInit
<1>2. /\ BehindClosure /\ BehindClosure' /\ Orderly /\ Closing /\ Closing' /\ Steady /\ GoalIsPrinted'
      /\ Asked /\ [GenerateNext]_<<vars, closure>>
      => Asked' /\ [H!Next]_<<asked, SeedGoal, Declared, Result>>
  <2> SUFFICES ASSUME BehindClosure, BehindClosure', Orderly, Closing, Closing', Steady, GoalIsPrinted',
                      Asked, [GenerateNext]_<<vars, closure>>
               PROVE  Asked' /\ (H!Next \/ UNCHANGED <<asked, SeedGoal, Declared, Result>>)
    OBVIOUS
  <2>1. UNCHANGED <<btf, name, members, seeds, expand, asked>>
    BY SteadyStep
  <2>2. Asked'
    BY <2>1, JudgedFixed DEF Asked
  <2>3. SeedGoal' = SeedGoal /\ SeedGoal \subseteq CGoal'
    BY <2>1, SeedGoalFixed
  <2>4. CASE C!Next /\ UNCHANGED <<printing, asked>>
    BY <2>2, <2>3, <2>4, ClosureRefines
  <2>5. CASE closing = "ok" /\ Next /\ UNCHANGED closure
    <3>1. UNCHANGED closing
      BY <2>5 DEF closure
    <3> QED BY <2>1, <2>2, <2>3, <2>5, <3>1, EmitterRefines DEF Asked
  <2>6. CASE UNCHANGED <<vars, closure>>
    <3>1. UNCHANGED <<out, pc, closing>>
      BY <2>6 DEF vars, closure
    <3>2. UNCHANGED <<Declared, Result>>
      BY <3>1, DeclaredFixed DEF Result, Outcome
    <3> QED BY <2>1, <2>2, <2>3, <3>2
  <2> QED BY <2>2, <2>4, <2>5, <2>6 DEF GenerateNext
<1> QED BY <1>1, <1>2, Invariance, OrderlyAlways, ClosingAlways, SteadyAlways, NothingForgotten, PTL
        DEF GenerateSpec, GeneratesHeader, H!Spec
=============================================================================
