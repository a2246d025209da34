----------------------------- MODULE MCTypeSet -----------------------------
(***************************************************************************)
(* Words of two bits: sets without ids, with a part of a word, with words  *)
(* that are full, and with a word and a part.                              *)
(***************************************************************************)
EXTENDS TypeSet

MCCounts == {0, 1, 4, 5}
MCArgs   == 0 .. 6
=============================================================================
