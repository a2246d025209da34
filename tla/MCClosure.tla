---------------------------- MODULE MCClosure ----------------------------
(***************************************************************************)
(* Closure on small base BTFs: two types, the first of any shape, and      *)
(* three types with cycles, shared targets and diamonds through all three. *)
(* Ids run to one past the last type, so invalid references are included,  *)
(* and a type may refer to itself.                                         *)
(***************************************************************************)
EXTENDS Closure

T(k, t, p) == [kind |-> k, type |-> t, parts |-> p]

Leaf == T("INT", 0, <<>>)

\* Every shape over two types: 3 is the invalid id.
AnyType ==
  {T(k, t, <<>>) : k \in {"CONST", "PTR"}, t \in 0 .. 3}
    \cup {T("STRUCT", 0, <<p, q>>) : p, q \in 0 .. 3}
    \cup {T(k, t, <<p>>) : k \in {"FUNC_PROTO", "ARRAY"}, t, p \in {0, 2, 3}}
    \cup {T("DATASEC", 0, <<p>>) : p \in 1 .. 3}
SomeType == {Leaf, T("PTR", 1, <<>>), T("UNION", 0, <<1, 3>>), T("TYPEDEF", 2, <<>>)}
Pairs == {<<a, b>> : a \in AnyType, b \in SomeType}

\* A path through all three types, with the third closing a cycle or ending it.
Firsts  == {T("STRUCT", 0, <<2, 3>>), T("ARRAY", 3, <<2>>), T("FUNC_PROTO", 0, <<2, 3>>),
            T("PTR", 2, <<>>)}
Middles == {T("CONST", 3, <<>>), T("UNION", 0, <<3, 1>>), T("PTR", 3, <<>>)}
Lasts   == {Leaf, T("PTR", 1, <<>>), T("STRUCT", 0, <<1, 2>>), T("VAR", 4, <<>>)}
Triples == {<<a, b, c>> : a \in Firsts, b \in Middles, c \in Lasts}

MCBases == Pairs \cup Triples
=============================================================================
