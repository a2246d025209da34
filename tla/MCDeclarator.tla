--------------------------- MODULE MCDeclarator ---------------------------
(***************************************************************************)
(* The declarations of a name with every type built from up to five        *)
(* pointers, arrays, qualifiers, tags and prototypes before int, up to     *)
(* four before void and up to three before any other base type.            *)
(***************************************************************************)
EXTENDS Declarator

T(k, n, t, p) == [kind |-> k, name |-> n, type |-> t, parts |-> p, size |-> 0, form |-> ""]
Number(k, s, f) == [kind |-> k, name |-> "", type |-> 0, parts |-> <<>>, size |-> s, form |-> f]
P(n, t) == [name |-> n, type |-> t]

\* The types of a declaration: a chain of links to a base type, and what its
\* parameters and members refer to.
Kinds == {"PTR", "ARRAY", "FUNC_PROTO", "CONST", "VOLATILE", "RESTRICT", "TYPE_TAG"}
Declared(kinds, base) ==
  LET n == Len(kinds)
      int == n + 2   inner == n + 3   pointer == n + 4
      link(i) == T(kinds[i], "", IF i = n /\ base.kind = "VOID" THEN 0 ELSE i + 1,
                   IF kinds[i] = "FUNC_PROTO" /\ i # 1 THEN <<P("a", pointer), P("", int)>> ELSE <<>>)
      members == IF base.kind = "UNION" THEN <<P("m", pointer), P("", inner), P("k", int)>> ELSE <<>>
  IN [types |-> [i \in 1 .. n |-> link(i)]
                  \o <<[base EXCEPT !.parts = members], Number("INT", 4, "signed"),
                       T("STRUCT", "", 0, <<P("x", int)>>), T("PTR", "", n + 5, <<>>),
                       T("CONST", "", n + 6, <<>>), T("STRUCT", "s", 0, <<>>)>>,
      id |-> 1, name |-> "f"]

\* What C has no declaration for: arrays of functions, functions that return
\* functions or arrays, qualified functions, void objects.  A tag comes right
\* after the pointer it belongs to, restrict belongs to pointers.
HasC(kinds, base) ==
  \A i \in DOMAIN kinds :
    LET next == IF i < Len(kinds) THEN kinds[i + 1] ELSE base.kind
    IN /\ kinds[i] = "ARRAY" => next \notin {"FUNC_PROTO", "VOID"}
       /\ kinds[i] = "FUNC_PROTO" => next \notin {"FUNC_PROTO", "ARRAY"}
       /\ kinds[i] \in DOMAIN QualifierOf =>
            next \notin {"FUNC_PROTO", "TYPE_TAG"} /\ (next = "VOID" => i > 1 /\ kinds[i - 1] = "PTR")
       /\ kinds[i] = "TYPE_TAG" => i > 1 /\ kinds[i - 1] \in {"PTR", "TYPE_TAG"}
       /\ kinds[i] = "RESTRICT" => next \in {"PTR"} \cup DOMAIN QualifierOf

\* Two shapes that the code does not spell (README, known divergences): an array of
\* pointers that has a qualifier of its own, and a function that returns a pointer
\* to a function or to an array.
Between(kinds, i, j, S) == i < j /\ \A k \in i + 1 .. j - 1 : kinds[k] \in S
Spellable(kinds) ==
  \A i, j \in DOMAIN kinds :
    /\ kinds[i] \in DOMAIN QualifierOf /\ kinds[j] = "ARRAY" /\ Between(kinds, i, j, DOMAIN QualifierOf)
         => \A k \in DOMAIN kinds : kinds[k] = "PTR" =>
              ~ Between(kinds, j, k, DOMAIN QualifierOf \cup {"ARRAY"}) \/ kinds[j + 1] = kinds[i]
    /\ kinds[i] = "FUNC_PROTO" /\ kinds[j] \in {"FUNC_PROTO", "ARRAY"}
         => ~ Between(kinds, i, j, DOMAIN QualifierOf \cup {"PTR", "TYPE_TAG"})

Chains(max, base) ==
  {Declared(k, base) : k \in {q \in UNION {[1 .. n -> Kinds] : n \in 1 .. max} :
                                HasC(q, base) /\ Spellable(q)}}

\* Type 99 is none.
BaseTypes ==
  {Number("INT", s, f) : s \in {1, 2, 4, 8}, f \in {"signed", "unsigned"}}
    \cup {Number("INT", 1, "bool"), Number("FLOAT", 4, ""), Number("FLOAT", 8, ""), Number("FLOAT", 16, "")}
    \cup {T(k, n, 0, <<>>) : k \in {"ENUM", "ENUM64", "UNION"}, n \in {"e", ""}}
    \cup {T("FWD", "w", 0, <<>>), [T("FWD", "w", 0, <<>>) EXCEPT !.form = "union"], T("TYPEDEF", "t", 0, <<>>), T("VAR", "v", 0, <<>>)}
    \cup {T(k, "", 99, <<>>) : k \in {"TYPEDEF", "CONST"}}
MCDeclarations == Chains(5, Number("INT", 4, "signed")) \cup Chains(4, T("VOID", "", 0, <<>>))
                    \cup UNION {Chains(3, b) : b \in BaseTypes}
=============================================================================
