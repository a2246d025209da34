---------------------------- MODULE MCGenerate ----------------------------
(***************************************************************************)
(* Closure and emitter on BTFs of six types whose references form every    *)
(* shape the recursion distinguishes: records that embed and point to one  *)
(* another, typedefs of records, arrays and prototypes, records without a  *)
(* name, enums, forward declarations and pruned members.                   *)
(***************************************************************************)
EXTENDS Generate

T(k, t, p) == [kind |-> k, type |-> t, parts |-> p]
IntType == T("INT", 0, <<>>)

\* An enum, a typedef, a struct, a union with or without a name, a fifth type
\* of any kind between them, and the index type of arrays.
Fifths == {T(k, t, <<>>) : k \in {"PTR", "TYPEDEF", "CONST"}, t \in {2, 3, 4}}
            \cup {T("ARRAY", t, <<6>>) : t \in {1, 3}}
            \cup {T("PTR", 7, <<>>), T("PTR", 0, <<>>), T("FUNC_PROTO", 3, <<2>>)}
Shapes == {<<T("ENUM", 0, <<>>), T("TYPEDEF", t, <<>>), T("STRUCT", 0, <<p, 5>>),
             T("UNION", 0, <<r>>), f, IntType>> :
             t \in {4, 5}, p \in {1, 2, 4}, r \in {1, 3, 5}, f \in Fifths}
Forwards == {<<T("FWD", 0, <<>>), T("PTR", 1, <<>>), T("STRUCT", 0, <<2, 4>>),
               T("TYPEDEF", t, <<>>), T("TYPEDEF", u, <<>>), IntType>> : t \in {2, 5}, u \in {2, 3, 4}}
MCNamedBases ==
  {[btf |-> s, name |-> n] : s \in Shapes, n \in {<<1, 2, 3, 4, 5, 6>>, <<1, 2, 3, Anonymous, 5, 6>>}}
    \cup {[btf |-> s, name |-> <<1, 2, 3, 4, 5, 6>>] : s \in Forwards}

\* struct s3 { struct s2 (*f)[]; };   struct s2 { int m; };
\* struct s3 { struct { struct s2 m; } *f; };
\* typedef struct { enum e2 m; } t4;  struct s3 { t4 *f; };
BehindPointers ==
  {[btf |-> <<IntType, T("STRUCT", 0, <<1>>), T("STRUCT", 0, <<5>>), T("ARRAY", 2, <<1>>),
              T("PTR", 4, <<>>), IntType>>, name |-> <<1, 2, 3, 0, 0, 6>>],
   [btf |-> <<IntType, T("STRUCT", 0, <<1>>), T("STRUCT", 0, <<5>>), T("STRUCT", 0, <<2>>),
              T("PTR", 4, <<>>), IntType>>, name |-> <<1, 2, 3, 0, 0, 6>>],
   [btf |-> <<T("STRUCT", 0, <<2>>), T("ENUM", 0, <<>>), T("STRUCT", 0, <<5>>),
              T("TYPEDEF", 1, <<>>), T("PTR", 4, <<>>), IntType>>, name |-> <<0, 2, 3, 4, 0, 6>>]}

-----------------------------------------------------------------------------
\* The struct is a seed, alone, with the enum or with one more type, and it has
\* all its members or only the second.  The types are those that C can declare,
\* and cycles of any kind but those without a name.
Chosen == /\ \E base \in NamedBases : btf = base.btf /\ name = base.name
          /\ \E kept \in {{}, {2}} : members = [id \in Ids(btf) |-> IF id = 3 THEN kept ELSE {}]
          /\ Asking
          /\ expand = FALSE
          /\ \E needs \in {CNeeds} :
             \E ordered \in {InSomeOrder(needs)} :
               /\ ~ Endless(needs)
               /\ \E extra \in 2 .. 5, enum \in {1, 3} : seeds = {3, extra, enum} /\ (Plain \/ ~ ordered)

MCInit == Chosen /\ Called       \* hence GenerateInit
MCSpec == /\ MCInit
          /\ [][GenerateNext]_<<vars, closure>>
          /\ WF_<<vars, closure>>(GenerateNext)
=============================================================================
