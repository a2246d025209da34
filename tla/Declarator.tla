---------------------------- MODULE Declarator ----------------------------
(***************************************************************************)
(* emitter.c: emit_decl_ex and the functions below it, which spell a type  *)
(* of the BTF as a C declaration.                                          *)
(*                                                                         *)
(* A declarator is built from the inside out: every pointer, array and     *)
(* prototype on the way to the base type wraps it.  Text is a sequence of  *)
(* tokens; "[]" stands for the brackets of an array with the number in     *)
(* them.  Bitfield widths and the layout of the text are left out, and the *)
(* parameter flexible_ok, which nothing reads.                             *)
(***************************************************************************)
EXTENDS Naturals, FiniteSets, SequencesExt

CONSTANTS
  Declarations,   \* the declarations considered: records [types, id, name]
  MaxDeclarator,  \* tokens that fit into a declarator buffer: 512 characters
  MaxMask         \* types that leading_qualifier_mask looks at: 32

(***************************************************************************)
(* A type is [kind, name, type, parts, size, form].  parts are the members *)
(* or parameters, [name, type]; members that are pruned are left out.      *)
(* size and form ("signed", "unsigned", "bool") are those of a number; the  *)
(* form of a forward declaration may be "union".                           *)
(***************************************************************************)
VARIABLES
  given,    \* the declaration asked for
  todo,     \* the calls to carry out, the innermost first
  out,      \* the tokens printed
  err

vars == <<given, todo, out, err>>

types == given.types
Ids   == DOMAIN types
Unnamed == ""

RecordKinds == {"STRUCT", "UNION"}
TagKinds    == {"TYPE_TAG", "DECL_TAG"}
Qualifiers  == <<"const", "volatile", "restrict">>
QualifierOf == [CONST |-> "const", VOLATILE |-> "volatile", RESTRICT |-> "restrict"]

IsQualifier(id) == id \in Ids /\ types[id].kind \in DOMAIN QualifierOf

Decl(id, declarator) == [do |-> "decl", id |-> id, tokens |-> declarator]
Text(tokens)         == [do |-> "text", id |-> 0, tokens |-> tokens]

Init == /\ given \in Declarations
        /\ todo = <<Decl(given.id, <<given.name>>)>>
        /\ out = <<>>
        /\ err = "none"

-----------------------------------------------------------------------------
(***************************************************************************)
(* What the functions print and build                                      *)
(***************************************************************************)
\* int_type_name and float_type_name: other sizes get the name of a common one.
IntName(t) ==
  CASE t.form = "bool"                          -> "_Bool"
    [] t.form = "signed" /\ t.size = 1          -> "signed char"
    [] t.form = "signed" /\ t.size = 2          -> "short"
    [] t.form = "signed" /\ t.size = 8          -> "long long"
    [] t.form = "signed"                        -> "int"
    [] t.form = "unsigned" /\ t.size = 1        -> "unsigned char"
    [] t.form = "unsigned" /\ t.size = 2        -> "unsigned short"
    [] t.form = "unsigned" /\ t.size = 8        -> "unsigned long long"
    [] t.form = "unsigned"                      -> "unsigned int"

FloatName(t) == CASE t.size = 4  -> "float"
                  [] t.size = 16 -> "long double"
                  [] OTHER       -> "double"

RecordWord(t) == IF t.kind = "UNION" \/ t.form = "union" THEN "union" ELSE "struct"

\* The types that are spelled by a word or two.
Spelled(t) == \/ t.kind \in {"INT", "FLOAT", "ENUM", "ENUM64", "FWD"}
              \/ t.kind \in RecordKinds \cup {"TYPEDEF"} /\ t.name # Unnamed

Words(t) ==
  CASE t.kind = "INT"     -> <<IntName(t)>>
    [] t.kind = "FLOAT"   -> <<FloatName(t)>>
    [] t.kind = "TYPEDEF" -> <<t.name>>
    [] t.kind \in {"ENUM", "ENUM64"} /\ t.name # Unnamed -> <<"enum", t.name>>
    [] t.kind = "ENUM"    -> <<"int">>
    [] t.kind = "ENUM64"  -> <<"unsigned long long">>
    [] OTHER              -> <<RecordWord(t), t.name>>

\* The qualifiers from id on, and the type behind them.
QualifiersFrom(id) ==
  LET Q[i \in Nat] == IF IsQualifier(i) THEN {QualifierOf[types[i].kind]} \cup Q[types[i].type] ELSE {}
  IN Q[id]
Unqualified(id) ==
  LET U[i \in Nat] == IF IsQualifier(i) THEN U[types[i].type] ELSE i
  IN U[id]

\* leading_qualifier_mask: the qualifiers from id on, those of MaxMask types at most.
LeadingMask(id) ==
  LET L[i \in Nat, depth \in 0 .. MaxMask] ==
        IF depth < MaxMask /\ IsQualifier(i)
          THEN {QualifierOf[types[i].kind]} \cup L[types[i].type, depth + 1] ELSE {}
  IN L[id, 0]

\* append_qualifier_mask
InOrder(mask) == SelectSeq(Qualifiers, LAMBDA q : q \in mask)

IsPointer(declarator) == declarator # <<>> /\ declarator[1] = "*"

NeverParenthesised(declarator) == declarator                       \* faulty variant

Parenthesised(declarator) ==
  IF IsPointer(declarator) THEN <<"(">> \o declarator \o <<")">> ELSE declarator

\* emit_params: a parameter of type 0 is printed as void, one without a name as arg<i>.
Param(p) == IF p.type = 0 THEN Text(<<"void">>)
            ELSE Decl(p.type, <<IF p.name = Unnamed THEN "arg" ELSE p.name>>)
Params(t) ==
  IF t.parts = <<>> THEN <<Text(<<"void">>)>>
  ELSE FlattenSeq([i \in DOMAIN t.parts |->
         (IF i = 1 THEN <<>> ELSE <<Text(<<",">>)>>) \o <<Param(t.parts[i])>>])

\* emit_record_body
NameTokens(n) == IF n = Unnamed THEN <<>> ELSE <<n>>
Body(t) ==
  <<Text(<<"{">>)>>
    \o FlattenSeq([i \in DOMAIN t.parts |->
         <<Decl(t.parts[i].type, NameTokens(t.parts[i].name)), Text(<<";">>)>>])
    \o <<Text(<<"}">>)>>

-----------------------------------------------------------------------------
(***************************************************************************)
(* The steps: one for each case of the switch of emit_decl_ex              *)
(***************************************************************************)
Fail(why) == err' = why /\ UNCHANGED <<given, todo, out>>

\* The next call is for a declaration of a type that type_by_id finds.
Declaring(kinds) == /\ err = "none" /\ todo # <<>>
                    /\ Head(todo).do = "decl"
                    /\ Head(todo).id \in Ids
                    /\ types[Head(todo).id].kind \in kinds

Type       == types[Head(todo).id]
Declarator == Head(todo).tokens

Replace(calls) == todo' = calls \o Tail(todo) /\ UNCHANGED <<given, err>>
PrintAnd(tokens, calls) == out' = out \o tokens /\ Replace(calls)

\* faulty variant: the declarator that does not fit is passed on
WrapUnchecked(declarator, target) == Replace(<<Decl(target, declarator)>>) /\ UNCHANGED out

\* The declarator of a pointer or an array goes into a buffer of its own.
Wrap(declarator, target) ==
  IF Len(declarator) < MaxDeclarator
    THEN Replace(<<Decl(target, declarator)>>) /\ UNCHANGED out
    ELSE Fail("too long")

EmitText == /\ err = "none" /\ todo # <<>>
            /\ Head(todo).do = "text"
            /\ PrintAnd(Head(todo).tokens, <<>>)

EmitVoid == /\ err = "none" /\ todo # <<>>
            /\ Head(todo).do = "decl" /\ Head(todo).id = 0
            /\ PrintAnd(<<"void">> \o Declarator, <<>>)

EmitWords == /\ Declaring({"INT", "FLOAT", "ENUM", "ENUM64", "FWD", "TYPEDEF"} \cup RecordKinds)
             /\ Spelled(Type)
             /\ PrintAnd(Words(Type) \o Declarator, <<>>)

EmitPointer == /\ Declaring({"PTR"})
               /\ Wrap(<<"*">> \o Declarator, Type.type)

EmitArray == /\ Declaring({"ARRAY"})
             /\ Wrap(Parenthesised(Declarator) \o <<"[]">>, Type.type)

EmitTransparent == /\ Declaring(TagKinds \cup {"TYPEDEF"})
                   /\ Type.kind = "TYPEDEF" => Type.name = Unnamed
                   /\ Replace(<<Decl(Type.type, Declarator)>>)
                   /\ UNCHANGED out

\* emit_qualified_decl: the qualifiers of a pointer belong to its declarator, those
\* of anything else are printed.  Qualifiers that an element repeats are dropped.
EmitQualified ==
  /\ Declaring(DOMAIN QualifierOf)
  /\ LET behind == Unqualified(Head(todo).id)
         mask   == QualifiersFrom(Head(todo).id)
     IN IF behind \notin Ids
          THEN IF behind = 0 THEN PrintAnd(InOrder(mask), <<Decl(0, Declarator)>>)
                             ELSE Fail("invalid id")
        ELSE IF types[behind].kind = "PTR"
          THEN Wrap(<<"*">> \o InOrder(mask) \o Declarator, types[behind].type)
        ELSE IF types[behind].kind = "ARRAY"
          THEN PrintAnd(InOrder(mask \ LeadingMask(types[behind].type)),
                        <<Decl(behind, Declarator)>>)
        ELSE PrintAnd(InOrder(mask), <<Decl(behind, Declarator)>>)

\* emit_func_decl: the return type is complete before the declarator is printed.
EmitFunc == /\ Declaring({"FUNC_PROTO"})
            /\ Replace(<<Decl(Type.type, <<>>), Text(Parenthesised(Declarator) \o <<"(">>)>>
                         \o Params(Type) \o <<Text(<<")">>)>>)
            /\ UNCHANGED out

EmitInlineRecord == /\ Declaring(RecordKinds)
                    /\ Type.name = Unnamed
                    /\ PrintAnd(<<RecordWord(Type)>>, Body(Type) \o <<Text(Declarator)>>)

Unsupported == /\ Declaring({"FUNC", "VAR", "DATASEC", "UNKN"})
               /\ Fail("unsupported kind")

InvalidId == /\ err = "none" /\ todo # <<>>
             /\ Head(todo).do = "decl" /\ Head(todo).id \notin Ids \cup {0}
             /\ Fail("invalid id")

Next == \/ EmitText \/ EmitVoid \/ EmitWords \/ EmitPointer \/ EmitArray \/ EmitTransparent
        \/ EmitQualified \/ EmitFunc \/ EmitInlineRecord \/ Unsupported \/ InvalidId

Spec == Init /\ [][Next]_vars

-----------------------------------------------------------------------------
(***************************************************************************)
(* The meaning of a type: what a name declared with it is.  chain goes     *)
(* from the name to the base, as in "array of pointer to".  C moves the    *)
(* qualifiers of an array to its elements.                                 *)
(***************************************************************************)
Variadic == [name |-> "...", quals |-> {}, base |-> <<"...">>, chain |-> <<>>]

Base(t) ==
  CASE t.kind = "INT"    -> <<"number", t.size, t.form>>
    [] t.kind = "FLOAT"  -> <<"float", t.size>>
    [] t.kind = "ENUM" /\ t.name = Unnamed   -> <<"number", 4, "signed">>
    [] t.kind = "ENUM64" /\ t.name = Unnamed -> <<"number", 8, "unsigned">>
    [] t.kind \in {"ENUM", "ENUM64"}         -> <<"enum", t.name>>
    [] t.kind = "TYPEDEF" -> <<"typedef", t.name>>
    [] OTHER             -> <<RecordWord(t), t.name>>

Meaning ==
  LET Named(n, m) == [name |-> n, quals |-> m.quals, base |-> m.base, chain |-> m.chain]
      M[i \in Nat, quals \in SUBSET ToSet(Qualifiers)] ==
        LET t     == types[i]
            Leaf(base) == [quals |-> quals, base |-> base, chain |-> <<>>]
            Chain(link, m) == [m EXCEPT !.chain = <<link>> \o @]
            Members  == [k \in DOMAIN t.parts |->
                           Named(t.parts[k].name, M[t.parts[k].type, {}])]
            Parameters == [k \in DOMAIN t.parts |->
                             IF t.parts[k].type = 0 THEN Variadic
                             ELSE Named(Param(t.parts[k]).tokens[1], M[t.parts[k].type, {}])]
        IN CASE i = 0            -> Leaf(<<"void">>)
             [] IsQualifier(i)   -> M[t.type, quals \cup {QualifierOf[t.kind]}]
             [] t.kind = "PTR"   -> Chain(<<"pointer", quals>>, M[t.type, {}])
             [] t.kind = "ARRAY" -> Chain(<<"array">>, M[t.type, quals])
             [] t.kind = "FUNC_PROTO" -> Chain(<<"function", Parameters>>, M[t.type, {}])
             [] t.kind \in TagKinds \/ (t.kind = "TYPEDEF" /\ t.name = Unnamed) -> M[t.type, quals]
             [] t.kind \in RecordKinds /\ t.name = Unnamed -> Leaf(<<RecordWord(t), "", Members>>)
             [] OTHER            -> Leaf(Base(t))
  IN Named(given.name, M[given.id, {}])

(***************************************************************************)
(* How a C compiler reads the tokens w[lo .. hi] as a declaration, as a    *)
(* declarator, or as a list of parameters or members.                      *)
(***************************************************************************)
Wrong    == [name |-> "", quals |-> {}, base |-> <<"wrong">>, chain |-> <<>>]
NotDeclarator == [name |-> "wrong", chain |-> <<>>]
Reserved == ToSet(Qualifiers) \cup {"*", "(", ")", "[]", "{", "}", ",", ";", "void"}

Numbers ==
  [w \in {"_Bool", "signed char", "short", "int", "long long", "unsigned char", "unsigned short",
          "unsigned int", "unsigned long long"} |->
     CHOOSE b \in {"number"} \X {1, 2, 4, 8} \X {"signed", "unsigned", "bool"} :
        w = IntName([size |-> b[2], form |-> b[3]]) /\ (b[3] = "bool" => b[2] = 1)]

Specifier(word) == CASE word \in DOMAIN Numbers -> Numbers[word]
                     [] word = "float"          -> <<"float", 4>>
                     [] word = "double"         -> <<"float", 8>>
                     [] word = "long double"    -> <<"float", 16>>
                     [] word = "void"           -> <<"void">>
                     [] word \in Reserved       -> <<"wrong">>
                     [] OTHER                   -> <<"typedef", word>>

Reading(w) ==
  LET Count(S, a, b) == Cardinality({i \in a .. b : w[i] \in S})
      Even(a, b)     == Count({"(", "{"}, a, b) = Count({")", "}"}, a, b)
      OpenerOf(hi)   == Max({m \in 1 .. hi : Even(m, hi)})
      CloserOf(lo)   == Min({m \in lo .. Len(w) : Even(lo, m)})
      Past(lo, hi)   == Min({i \in lo .. hi + 1 : i = hi + 1 \/ w[i] \notin ToSet(Qualifiers)})
      Separator(lo, hi) == Min({i \in lo .. hi + 1 :
                                  i = hi + 1 \/ (w[i] \in {",", ";"} /\ Even(lo, i))})
      R[what \in {"declaration", "declarator", "list"}, lo \in Nat, hi \in Nat] ==
        LET Link(link, inner, notAfter) ==
              IF inner.chain # <<>> /\ Last(inner.chain)[1] \in notAfter THEN NotDeclarator
              ELSE [inner EXCEPT !.chain = Append(@, link)]
            Declares(base, from) ==
              LET d == R["declarator", from, hi]
              IN IF d.name = "wrong" THEN Wrong
                 ELSE [name |-> d.name, chain |-> d.chain, base |-> base,
                       quals |-> {w[i] : i \in lo .. Past(lo, hi) - 1}]
        IN CASE what = "list" ->
                  IF lo > hi THEN <<>>
                  ELSE LET k == Separator(lo, hi)
                       IN <<R["declaration", lo, k - 1]>> \o R["list", k + 1, hi]
             [] what = "declaration" ->
                  LET b == Past(lo, hi)
                  IN IF b > hi THEN Wrong
                     ELSE IF w[b] \in {"struct", "union", "enum"} /\ b < hi
                     THEN IF w[b + 1] = "{"
                            THEN Declares(<<w[b], "", R["list", b + 2, CloserOf(b + 1) - 1]>>,
                                          CloserOf(b + 1) + 1)
                            ELSE Declares(<<w[b], w[b + 1]>>, b + 2)
                     ELSE Declares(Specifier(w[b]), b + 1)
             [] what = "declarator" ->
                  IF lo > hi THEN [name |-> "", chain |-> <<>>]
                  ELSE IF w[lo] = "*"
                  THEN LET b == Past(lo + 1, hi)
                       IN Link(<<"pointer", {w[i] : i \in lo + 1 .. b - 1}>>, R[what, b, hi], {})
                  ELSE IF w[hi] = "[]" THEN Link(<<"array">>, R[what, lo, hi - 1], {"function"})
                  ELSE IF w[hi] = ")"
                  THEN IF OpenerOf(hi) = lo /\ w[lo + 1] \in {"*", "("} THEN R[what, lo + 1, hi - 1]
                       ELSE LET m == OpenerOf(hi)
                                p == IF m + 2 = hi /\ w[m + 1] = "void" THEN <<>>
                                     ELSE R["list", m + 1, hi - 1]
                            IN IF \E k \in DOMAIN p : p[k].chain = <<>> /\ p[k].base \in {<<"wrong">>, <<"void">>}
                                 THEN NotDeclarator
                                 ELSE Link(<<"function", p>>, R[what, lo, m - 1], {"function", "array"})
                  ELSE IF lo = hi /\ w[lo] \notin Reserved THEN [name |-> w[lo], chain |-> <<>>]
                  ELSE NotDeclarator
  IN R["declaration", 1, Len(w)]

-----------------------------------------------------------------------------
\* The calls are for type ids, and every declarator fits into its buffer
\* (emitter.c:347-370, 202-209).
TypeOK ==
  /\ \A k \in DOMAIN todo : todo[k].do \in {"decl", "text"} /\ todo[k].id \in Nat
  /\ \A k \in DOMAIN todo : todo[k].do = "decl" => Len(todo[k].tokens) < MaxDeclarator
  /\ err \in {"none", "too long", "unsupported kind", "invalid id"}

\* Read as C, the text declares the name with the type it was printed for, inside
\* parameters and members too: no pointer, array or function changes places and no
\* qualifier lands on another type (emitter.c:167-274, 319-428).
ReadsBack == todo = <<>> => Reading(out) = Meaning
=============================================================================
