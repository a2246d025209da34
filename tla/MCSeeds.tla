----------------------------- MODULE MCSeeds -----------------------------
(***************************************************************************)
(* Model checking of Seeds: one or two objects of a few shapes, with every *)
(* sequence of up to two relocations of a set that exercises each outcome  *)
(* of a lookup, against three base BTFs.                                   *)
(***************************************************************************)
EXTENDS Seeds

MCUnnamed    == ""
MCBad        == 100     \* no record has that many members
MCMaxChain   == 3
MCMaxPeel    == 4
MCMaxNesting == 2

T(kind, name, type, mem) == [kind |-> kind, name |-> name, type |-> type, members |-> mem]
M(name, type) == [name |-> name, type |-> type]
Int == T("INT", "int", 0, << >>)

(***************************************************************************)
(* The kernel.  struct s { int x; union { int y; int w; };                 *)
(*              union { struct { struct t z; }; }; }                       *)
(* In the second kernel z is one record deeper and the enum has a twin; in *)
(* the third, struct t is defined twice.                                   *)
(***************************************************************************)
Kernel1 ==
  << T("STRUCT", "s", 0, <<M("x", 2), M("", 3), M("", 4)>>),
     Int,
     T("UNION", "", 0, <<M("y", 2), M("w", 2)>>),
     T("UNION", "", 0, <<M("", 5)>>),
     T("STRUCT", "", 0, <<M("z", 6)>>),
     T("STRUCT", "t", 0, <<M("u", 2), M("v", 2)>>),
     T("ENUM", "", 0, <<M("E", 0)>>),
     T("TYPEDEF", "t_t", 6, << >>) >>

Kernel2 == [Kernel1 EXCEPT ![5] = T("STRUCT", "", 0, <<M("", 9)>>)]
             \o << T("STRUCT", "", 0, <<M("", 10)>>), T("STRUCT", "", 0, <<M("z", 6)>>),
                   T("ENUM", "", 0, <<M("E", 0)>>) >>

Kernel3 == Kernel1 \o << T("STRUCT", "t", 0, <<M("u", 2)>>) >>

(***************************************************************************)
(* The objects know struct s as { int x; union { int w; }; struct t z;     *)
(* int q; int y; union { int k; }; }, have a typedef of their own for      *)
(* struct t, and a record of their own; or nothing but typedefs, one of    *)
(* which refers to itself.                                                 *)
(***************************************************************************)
ProgramTypes ==
  << T("STRUCT", "s", 0, <<M("x", 2), M("", 8), M("z", 3), M("q", 2), M("y", 2), M("", 9)>>),
     Int,
     T("STRUCT", "t", 0, <<M("u", 2), M("v", 2)>>),
     T("TYPEDEF", "local_t", 3, << >>),
     T("CONST", "", 1, << >>),
     T("STRUCT", "event", 0, <<M("s", 1)>>),
     T("STRUCT", "", 0, <<M("x", 2)>>),
     T("UNION", "", 0, <<M("w", 2)>>),
     T("UNION", "", 0, <<M("k", 2)>>) >>

EnumTypes == << T("ENUM", "", 0, <<M("E", 0)>>), T("TYPEDEF", "e_t", 1, << >>) >>
LoopTypes == << Int, T("TYPEDEF", "loop_t", 2, << >>) >>
LocalTypes == << T("STRUCT", "event", 0, <<M("n", 2)>>), Int, T("STRUCT", "t", 0, <<M("u", 2)>>) >>
GapTypes  == << T("TYPEDEF", "gap_t", 7, << >>) >>

Field(i, access) == [type_id |-> i, field |-> TRUE, access |-> access]
Exists(i)        == [type_id |-> i, field |-> FALSE, access |-> <<0>>]

Relocations == {Field(1, <<0, 1>>), Field(5, <<0, 5>>), Field(1, <<0, 3, 2>>), Field(3, <<0, 1>>),
                Field(1, <<0, 4>>), Field(1, <<0, 2, 1>>), Field(1, <<0, 6, 1>>), Field(1, <<0, 9>>),
                Field(1, <<0, 1, 1>>), Field(1, <<MCBad>>), Field(1, <<0, MCBad>>),
                Field(1, << >>), Exists(4), Exists(6), Exists(20)}

Program(relos) == [types |-> ProgramTypes, relos |-> relos]
Programs(n)    == {Program(relos) : relos \in UNION {[1 .. k -> Relocations] : k \in 0 .. n}}
Others         == {[types |-> EnumTypes, relos |-> <<Exists(2)>>],
                   [types |-> LocalTypes, relos |-> << >>],
                   [types |-> LoopTypes, relos |-> << >>], [types |-> GapTypes, relos |-> << >>]}

MCInputs == {[base |-> b, objects |-> o] :
               b \in {Kernel1, Kernel2, Kernel3},
               o \in {<<p>> : p \in Programs(2) \cup Others}
                       \cup {<<p, q>> : p \in Programs(1), q \in Programs(1) \cup Others}}

\* An array of records: the index of a[1].u is taken for member v of the record, and
\* u for member m of v.
ArrayBase == << T("STRUCT", "s", 0, <<M("a", 2)>>), T("ARRAY", "", 3, << >>),
                T("STRUCT", "t", 0, <<M("u", 4), M("v", 5)>>), Int,
                T("STRUCT", "p", 0, <<M("m", 4), M("n", 4)>>) >>
ArrayInputs == {[base |-> ArrayBase,
                 objects |-> << [types |-> ArrayBase, relos |-> <<Field(1, <<0, 1, i, k>>)>>] >>] :
                  i \in 1 .. 2, k \in 1 .. 2}

\* struct s { union { int y; }; } of the object is struct s { struct q q; union { int y; }; }
\* in the kernel: the anonymous member is taken for the one at its position, q.
PositionBase == << T("STRUCT", "s", 0, <<M("q", 2), M("", 3)>>),
                   T("STRUCT", "q", 0, <<M("y", 4)>>), T("UNION", "", 0, <<M("y", 4)>>), Int >>
PositionInputs == {[base |-> PositionBase,
                    objects |-> << [types |-> << T("STRUCT", "s", 0, <<M("", 2)>>),
                                                 T("UNION", "", 0, <<M("y", 3)>>), Int >>,
                                    relos |-> <<Field(1, <<0, 1, 1>>)>>] >>]}

FieldInputs == ArrayInputs \cup PositionInputs
=============================================================================
