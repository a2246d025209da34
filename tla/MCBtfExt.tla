----------------------------- MODULE MCBtfExt -----------------------------
(***************************************************************************)
(* Data of up to 15 units, all that a __u32 of four bits can address.  One *)
(* info at a time is placed anywhere, with any length, while the others    *)
(* are absent or in order.                                                 *)
(***************************************************************************)
EXTENDS BtfExt

H(form, size, hdr, core_, func, line) ==
  [form |-> form, size |-> size, hdr_len |-> hdr,
   off |-> [core |-> core_[1], func |-> func[1], line |-> line[1]],
   len |-> [core |-> core_[2], func |-> func[2], line |-> line[2]]]

None  == <<0, 0>>
Relos == <<0, 10>>   \* room for two relocations
Any   == U32 \X U32

MCHeaders ==
  {H("native", 15, 2, c, None, None) : c \in Any}
    \cup {H("native", 14, 2, Relos, f, None) : f \in Any}
    \cup {H("native", 14, 2, Relos, None, l) : l \in Any}
    \cup {H("native", 15, 2, Relos, <<1, 10>>, <<2, 10>>)}
    \cup {H(form, size, hdr, Relos, None, None) :
            form \in {"native", "foreign", "none"}, size \in {1, 12}, hdr \in {1, 3, 13}}
MCMinRecSize == [core |-> 2, func |-> 1, line |-> 2]
MCRecSizes == {0, 1, 2, 3}
MCCounts   == {0, 1, 2, 3, 15}
MCInsns    == 0 .. 2
=============================================================================
