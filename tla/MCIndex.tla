----------------------------- MODULE MCIndex -----------------------------
(***************************************************************************)
(* Model checking of Index: every base BTF of up to three types out of     *)
(* SomeTypes, a few longer ones, and hash functions from "everything       *)
(* collides" to "nothing does".  Three types of one name and kind, two     *)
(* names in one chain and an equal pair of anonymous enums all occur.  The *)
(* longest BTF needs 16 buckets, more than MCMaxBuckets, and is refused.   *)
(***************************************************************************)
EXTENDS Index

MCNames   == {"a", "b", ""}
MCUnnamed == ""
MCBodies  == {"x", "broken"}
MCUnreadable == "broken"
MCKinds   == {"STRUCT", "FWD", "ENUM", "INT"}
MCMaxBuckets == 8

T(k, n, b) == [kind |-> k, name |-> n, body |-> b]

SomeTypes == {T("STRUCT", "a", "x"), T("STRUCT", "b", "x"), T("FWD", "a", "x"),
              T("ENUM", "a", "x"), T("ENUM", "", "x"), T("INT", "a", "x")}

Long == << T("STRUCT", "a", "x"), T("FWD", "a", "x"), T("STRUCT", "b", "x"),
           T("FWD", "a", "x"), T("STRUCT", "a", "x") >>

Enums == << T("ENUM", "", "broken"), T("ENUM", "", "x"), T("ENUM", "", "broken") >>

MCBtfs == UNION {[1 .. n -> SomeTypes] : n \in 0 .. 3}
            \cup {SubSeq(Long, 1, 4), Long, Enums}

MCHashes == {[k \in Keys |-> 5],
             [k \in Keys |-> IF k[2] = "FWD" THEN 2 ELSE 16],
             [k \in Keys |-> IF k[1] = "a" THEN IF k[2] = "FWD" THEN 1 ELSE 2
                                           ELSE IF k[2] = "FWD" THEN 3 ELSE 4]}
=============================================================================
