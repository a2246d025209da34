------------------------------- MODULE Btf -------------------------------
(***************************************************************************)
(* The BTF type graph as libbpf presents it to the program: every type id  *)
(* from 1 to btf__type_cnt(btf) - 1 names a type, id 0 is void.  The       *)
(* library itself is not in the repository; the shape below is what the    *)
(* code reads through it.                                                  *)
(*                                                                         *)
(* A base BTF is a sequence of types, so that b[id] is                     *)
(* btf__type_by_id(btf, id).  A type keeps what decides a dependency:      *)
(*   kind   BTF_KIND_*, as a string without the prefix                     *)
(*   type   the id in btf_type.type (PTR, TYPEDEF, ...; the return type of *)
(*          a FUNC_PROTO; the element type of an ARRAY)                    *)
(*   parts  the ids in the trailing array: members of a record, parameters *)
(*          of a prototype, variables of a section, index type of an ARRAY *)
(* An id found in a type is any number: libbpf does not promise that it is *)
(* an id of the same BTF, and add_dep checks it.                           *)
(***************************************************************************)
EXTENDS Naturals, Sequences

\* Kinds that the closure follows through btf_type.type without a condition.
ReferenceKinds == {"TYPEDEF", "VOLATILE", "CONST", "RESTRICT", "FUNC", "VAR",
                   "DECL_TAG", "TYPE_TAG"}
RecordKinds == {"STRUCT", "UNION"}
LeafKinds   == {"INT", "ENUM", "ENUM64", "FWD", "FLOAT", "UNKN"}
Kinds       == ReferenceKinds \cup RecordKinds \cup LeafKinds
                 \cup {"PTR", "ARRAY", "FUNC_PROTO", "DATASEC"}

BtfType == [kind : Kinds, type : Nat, parts : Seq(Nat)]
BaseBtf == Seq(BtfType)

Void == 0

\* The ids of the types of b, and btf__type_cnt, which counts void.
Ids(b)     == 1 .. Len(b)
TypeCnt(b) == Len(b) + 1

\* The member positions of type id; only a record has members.
MemberIndexes(b, id) == IF b[id].kind \in RecordKinds THEN 1 .. Len(b[id].parts) ELSE {}
=============================================================================
