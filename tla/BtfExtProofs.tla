---------------------------- MODULE BtfExtProofs ----------------------------
(***************************************************************************)
(* Proofs about BtfExt for numbers of any width and data with any content: *)
(* only the data is read, an error is reported exactly if the relocations  *)
(* do not fill their info, and the location found is the nearest one.      *)
(***************************************************************************)
EXTENDS BtfExt, TLAPS

-----------------------------------------------------------------------------
\* Arithmetic of records

LEMMA Constants ==
  /\ Width \in Nat /\ HeaderSize \in Nat /\ U32Size \in Nat \ {0} /\ SecSize \in Nat
  /\ \A which \in Which : MinRecSize[which] \in Nat \ {0}
  /\ \A x \in U32 : x \in Nat
  /\ RecSizes \subseteq Nat /\ Counts \subseteq Nat /\ Insns \subseteq Nat
  /\ Headers \subseteq ExtHeader
BY SizesAssumption DEF U32, SecSize

\* One record less.
LEMMA OneLess ==
  ASSUME NEW n \in Nat, NEW size \in Nat
  PROVE  /\ n * size \in Nat
         /\ n > 0 => n * size = (n - 1) * size + size /\ (n - 1) * size \in Nat
         /\ 0 * size = 0
OBVIOUS

\* A number that the division admits fits.
LEMMA DivisionFits ==
  ASSUME NEW n \in Nat, NEW size \in Nat \ {0}, NEW space \in Nat, n <= space \div size
  PROVE  n * size <= space
<1> DEFINE q == space \div size
<1>1. q \in Nat /\ size * q <= space
  BY Z3
<1> HIDE DEF q
<1>2. n <= q
  BY DEF q
<1>3. n * size <= q * size
  BY <1>1, <1>2, Z3
<1>4. q * size = size * q
  BY <1>1, Z3
<1> QED BY <1>1, <1>3, <1>4, Z3

-----------------------------------------------------------------------------
\* What the invariant says of the parts

LEMMA Typed ==
  ASSUME TypeOK
  PROVE  /\ header.size \in Nat /\ header.hdr_len \in Nat
         /\ \A which \in Which : /\ header.off[which] \in Nat /\ header.len[which] \in Nat
                                 /\ info[which].present \in BOOLEAN /\ info[which].pos \in Nat
                                 /\ info[which].end \in Nat /\ info[which].rec_size \in Nat
         /\ look.which \in Which /\ look.pos \in Nat /\ look.left \in Nat
         /\ look.offs \in Seq(Nat) /\ look.best \in Nat
         /\ read.at \in Nat /\ read.size \in Nat
BY Constants DEF TypeOK, ExtHeader, Which

\* The records of an info that is present have a size.
LEMMA RecordsHaveSize ==
  ASSUME TypeOK, NEW which \in Which, Placed(which), info[which].present
  PROVE  /\ info[which].rec_size \in Nat \ {0}
         /\ MinRecSize[which] <= info[which].rec_size
         /\ info[which].pos <= info[which].end /\ info[which].end <= header.size
<1> DEFINE data == header.hdr_len + header.off[which]
<1>1. /\ data \in Nat /\ header.len[which] \in Nat /\ info[which].rec_size \in Nat
      /\ U32Size \in Nat /\ MinRecSize[which] \in Nat \ {0}
  BY Typed, Constants
<1> HIDE DEF data
<1>2. /\ info[which].pos = data + U32Size /\ info[which].end = data + header.len[which]
      /\ header.len[which] >= U32Size /\ info[which].end <= header.size
      /\ info[which].rec_size >= MinRecSize[which]
  BY DEF Placed, data
<1> QED BY <1>1, <1>2

\* What the walk and the lookups leave alone.
LEMMA SameInfos ==
  ASSUME UNCHANGED <<header, info>>, \A which \in Which : Placed(which)
  PROVE  \A which \in Which : Placed(which)'
BY DEF Placed

LEMMA SameAccount ==
  ASSUME UNCHANGED <<header, info, pos, left, claimed>>, Accounted
  PROVE  Accounted'
BY DEF Accounted, core

LEMMA InitInv == Init => Inv
<1> SUFFICES ASSUME Init PROVE Inv
  OBVIOUS
<1>1. header \in ExtHeader
  BY Constants DEF Init
<1>2. TypeOK
  BY <1>1 DEF Init, TypeOK, Stages, Absent, NoLook, Which
<1>3. \A which \in Which : ~ info[which].present
  BY DEF Init, Absent
<1>4. read.at + read.size <= header.size
  BY <1>2, Typed DEF Init
<1>5. ~ core.present
  BY <1>3 DEF core, Which
<1>6. (\A which \in Which : Placed(which)) /\ SetUp /\ Accounted /\ LookedAt
  BY <1>3, <1>5 DEF Init, Placed, SetUp, Accounted, LookedAt
<1>7. VerdictIsRight /\ LocationIsNearest
  BY DEF Init, VerdictIsRight, LocationIsNearest
<1> QED BY <1>2, <1>4, <1>6, <1>7 DEF Inv

-----------------------------------------------------------------------------
\* The steps before the walk

LEMMA StartKeepsInv == Inv /\ (NoExt \/ ReadHeader \/ RejectHeader) => Inv'
<1> SUFFICES ASSUME Inv, NoExt \/ ReadHeader \/ RejectHeader PROVE Inv'
  OBVIOUS
<1> USE DEF NoExt, ReadHeader, RejectHeader, Goto, Reads
<1>1. UNCHANGED <<header, info, pos, left, look, insn, claimed>> /\ stage = "start"
  OBVIOUS
<1>2. stage' \in {"ok", "header", "core"}
  OBVIOUS
<1>3. TypeOK'
  BY <1>1, <1>2, Constants DEF Inv, TypeOK, Stages, Ended
<1>4. (\A which \in Which : Placed(which)') /\ Accounted'
  BY <1>1, SameInfos, SameAccount DEF Inv
<1>5. SetUp'
  <2>1. ~ core.present
    BY <1>1 DEF Inv, SetUp
  <2>2. stage' = "core" => header.len["core"] # 0 /\ header.hdr_len <= header.size
    BY Typed DEF Inv
  <2>3. left = 0 /\ claimed = 0
    BY DEF Inv, SetUp
  <2> QED BY <1>1, <1>2, <2>1, <2>2, <2>3 DEF SetUp, core
<1>6. LookedAt' /\ LocationIsNearest'
  BY <1>2 DEF LookedAt, LocationIsNearest
<1>7. (read.at + read.size <= header.size)'
  BY Typed, Constants DEF Inv
<1>8. VerdictIsRight'
  <2>1. ~ core.present
    BY <1>1 DEF Inv, SetUp
  <2>2. stage' = "ok" => header.len["core"] = 0 \/ header.form = "none"
    OBVIOUS
  <2> QED BY <1>1, <1>2, <2>1, <2>2 DEF VerdictIsRight, core
<1> QED BY <1>3, <1>4, <1>5, <1>6, <1>7, <1>8 DEF Inv

LEMMA InitInfoKeepsInv == Inv /\ (\E which \in Which : InitInfo(which)) => Inv'
<1> SUFFICES ASSUME Inv, NEW which \in Which, InitInfo(which) PROVE Inv'
  OBVIOUS
<1> DEFINE off == header.off[which]   len == header.len[which]   data == header.hdr_len + off
           there == [present |-> TRUE, pos |-> data + U32Size, end |-> data + len]
<1>1. /\ stage = which /\ left = 0 /\ claimed = 0 /\ header.hdr_len <= header.size
      /\ off \in Nat /\ len \in Nat /\ header.hdr_len \in Nat /\ header.size \in Nat /\ data \in Nat
      /\ which # "core" => core.present
      /\ which = "core" => ~ core.present /\ len # 0
  <2>1. stage = which
    BY DEF InitInfo
  <2>2. /\ off \in Nat /\ len \in Nat /\ header.hdr_len \in Nat /\ header.size \in Nat
        /\ data \in Nat
    BY Typed DEF Inv
  <2>3. stage \in {"core", "func", "line"} /\ SetUp
    BY <2>1 DEF Which, Inv
  <2> QED BY <2>1, <2>2, <2>3 DEF SetUp
<1>2. UNCHANGED <<header, left, look, insn, claimed>>
  BY DEF InitInfo, Unusable
<1>3. /\ After(which) \in {"func", "line", "walk"}
      /\ which # "core" => After(which) \in {"line", "walk"}
  BY DEF After, Which
\* Nothing is used of it: the next info, or an error for the relocations.
<1>4. ASSUME UNCHANGED <<info, pos>>, (read.at + read.size <= header.size)', TypeOK',
             \/ stage' = After(which) /\ which # "core"
             \/ which = "core" /\ stage' = "bounds" /\ ~ Fits(off, len)
             \/ which = "core" /\ stage' = "truncated" /\ len < U32Size
             \/ which = "core" /\ stage' = "rec_size"
      PROVE  Inv'
  <2>1. (\A w \in Which : Placed(w)') /\ Accounted'
    BY <1>2, <1>4, SameInfos, SameAccount DEF Inv
  <2>2. SetUp'
    BY <1>1, <1>2, <1>3, <1>4 DEF SetUp, core
  <2>3. LookedAt' /\ LocationIsNearest'
    BY <1>3, <1>4 DEF LookedAt, LocationIsNearest
  <2>4. VerdictIsRight'
    BY <1>1, <1>2, <1>3, <1>4 DEF VerdictIsRight, Fits, core
  <2> QED BY <1>4, <2>1, <2>2, <2>3, <2>4 DEF Inv
<1>5. ASSUME Fits(off, len), len >= U32Size
      PROVE  /\ data + len <= header.size /\ data + U32Size <= data + len
             /\ data + U32Size \in Nat /\ data + len \in Nat /\ data + U32Size <= header.size
  BY <1>1, <1>5, Constants DEF Fits
<1>6. ASSUME \/ len = 0 /\ Goto(After(which)) /\ UNCHANGED <<header, info, pos, left, look, insn, read, claimed>>
             \/ len # 0 /\ ~ Fits(off, len) /\ Unusable(which, "bounds") /\ UNCHANGED read
             \/ len # 0 /\ Fits(off, len) /\ len < U32Size /\ Unusable(which, "truncated") /\ UNCHANGED read
      PROVE  Inv'
  <2>1. UNCHANGED <<info, pos, read>>
    BY <1>6 DEF Unusable
  <2>2. (read.at + read.size <= header.size)'
    BY <1>2, <2>1 DEF Inv
  <2>3. \/ stage' = After(which) /\ which # "core"
        \/ which = "core" /\ stage' = "bounds" /\ ~ Fits(off, len)
        \/ which = "core" /\ stage' = "truncated" /\ len < U32Size
    BY <1>1, <1>6 DEF Unusable, Goto
  <2>4. TypeOK'
    BY <1>2, <1>3, <2>1, <2>3 DEF Inv, TypeOK, Stages, Ended
  <2> QED BY <1>4, <2>1, <2>2, <2>3, <2>4
<1>7. ASSUME NEW rec \in RecSizes, len >= U32Size, Fits(off, len), Reads(data, U32Size),
             rec < MinRecSize[which], Unusable(which, "rec_size")
      PROVE  Inv'
  <2>1. UNCHANGED <<info, pos>> /\ read' = [at |-> data, size |-> U32Size]
    BY <1>7 DEF Unusable, Reads
  <2>2. (read.at + read.size <= header.size)'
    BY <1>1, <1>2, <1>5, <1>7, <2>1
  <2>3. \/ stage' = After(which) /\ which # "core"
        \/ which = "core" /\ stage' = "rec_size"
    BY <1>7 DEF Unusable, Goto
  <2>4. TypeOK'
    BY <1>1, <1>2, <1>3, <2>1, <2>3, Constants DEF Inv, TypeOK, Stages, Ended
  <2> QED BY <1>4, <2>1, <2>2, <2>3, <2>4
<1>8. ASSUME NEW rec \in RecSizes, len >= U32Size, Fits(off, len), Reads(data, U32Size),
             rec >= MinRecSize[which],
             info' = [info EXCEPT ![which] = [present |-> TRUE, pos |-> data + U32Size,
                                              end |-> data + len, rec_size |-> rec]],
             pos' = (IF which = "core" THEN data + U32Size ELSE pos),
             Goto(After(which))
      PROVE  Inv'
  <2>1. /\ rec \in Nat /\ stage' = After(which)
        /\ read' = [at |-> data, size |-> U32Size] /\ U32Size \in Nat
    BY <1>8, Constants DEF Goto, Reads
  <2>2. TypeOK'
    BY <1>1, <1>2, <1>3, <1>5, <1>8, <2>1 DEF Inv, TypeOK, Stages
  <2>3. (read.at + read.size <= header.size)'
    BY <1>1, <1>2, <1>5, <1>8, <2>1
  <2>4. info'[which] = [present |-> TRUE, pos |-> data + U32Size, end |-> data + len, rec_size |-> rec]
    BY <1>8 DEF Inv, TypeOK
  <2>5. ASSUME NEW w \in Which PROVE Placed(w)'
    <3>1. CASE w = which
      BY <1>2, <1>5, <1>8, <2>4, <3>1 DEF Placed
    <3>2. CASE w # which
      <4>1. info'[w] = info[w]
        BY <1>8, <3>2 DEF Inv, TypeOK
      <4> QED BY <1>2, <4>1 DEF Inv, Placed
    <3> QED BY <3>1, <3>2
  <2>6. core'.present
    <3>1. CASE which = "core"
      BY <2>4, <3>1 DEF core
    <3>2. CASE which # "core"
      BY <1>1, <1>8, <3>2 DEF core, Inv, TypeOK, Which
    <3> QED BY <3>1, <3>2
  <2>7. SetUp'
    BY <1>1, <1>2, <1>3, <2>1, <2>6 DEF SetUp
  <2>8. Accounted'
    <3>1. CASE which = "core"
      <4>1. /\ core' = [present |-> TRUE, pos |-> data + U32Size, end |-> data + len, rec_size |-> rec]
            /\ pos' = data + U32Size /\ left' = 0 /\ claimed' = 0
        BY <1>1, <1>2, <1>8, <2>4, <3>1 DEF core
      <4>2. 0 * rec = 0
        BY <2>1
      <4> QED BY <1>1, <1>5, <1>8, <2>1, <4>1, <4>2 DEF Accounted
    <3>2. CASE which # "core"
      <4>1. core' = core
        BY <1>8, <3>2 DEF core, Inv, TypeOK, Which
      <4> QED BY <1>2, <1>8, <3>2, <4>1 DEF Inv, Accounted
    <3> QED BY <3>1, <3>2
  <2>9. LookedAt' /\ LocationIsNearest' /\ VerdictIsRight'
    BY <1>3, <2>1 DEF LookedAt, LocationIsNearest, VerdictIsRight
  <2> QED BY <2>2, <2>3, <2>5, <2>7, <2>8, <2>9 DEF Inv
<1> QED BY <1>6, <1>7, <1>8 DEF InitInfo

-----------------------------------------------------------------------------
\* The walk over the relocations

LEMMA AtWalk ==
  ASSUME Inv, stage = "walk"
  PROVE  /\ core.present /\ core.rec_size \in Nat \ {0} /\ MinRecSize["core"] <= core.rec_size
         /\ core.pos \in Nat /\ core.end \in Nat /\ pos \in Nat /\ left \in Nat /\ claimed \in Nat
         /\ core.pos <= pos /\ pos <= core.end /\ core.end <= header.size /\ header.size \in Nat
         /\ pos + left * core.rec_size = core.pos + claimed
         /\ header.len["core"] \in Nat
         /\ core.end - core.pos = header.len["core"] - U32Size
<1>1. core.present /\ TypeOK /\ Placed("core") /\ Accounted
  BY DEF Inv, SetUp, Which
<1>2. /\ core.rec_size \in Nat \ {0} /\ MinRecSize["core"] <= core.rec_size /\ core.end <= header.size
  BY <1>1, RecordsHaveSize DEF core, Which
<1>3. core.pos \in Nat /\ core.end \in Nat /\ header.size \in Nat /\ header.len["core"] \in Nat
      /\ header.hdr_len \in Nat /\ header.off["core"] \in Nat
  BY <1>1, Typed DEF core, Which
<1>4. core.pos = header.hdr_len + header.off["core"] + U32Size
      /\ core.end = header.hdr_len + header.off["core"] + header.len["core"]
  BY <1>1 DEF Placed, core
<1>5. core.end - core.pos = header.len["core"] - U32Size
  BY <1>3, <1>4, Constants
<1> QED BY <1>1, <1>2, <1>3, <1>5 DEF Accounted, TypeOK

LEMMA EndKeepsInv == Inv /\ (EndOfWalk \/ Truncated) => Inv'
<1> SUFFICES ASSUME Inv, EndOfWalk \/ Truncated PROVE Inv'
  OBVIOUS
<1> USE DEF EndOfWalk, Truncated, Goto
<1>1. /\ UNCHANGED <<header, info, pos, left, look, insn, read, claimed>> /\ stage = "walk"
      /\ stage' \in {"ok", "truncated"}
  OBVIOUS
<1>2. TypeOK'
  BY <1>1 DEF Inv, TypeOK, Stages, Ended
<1>3. (\A which \in Which : Placed(which)') /\ Accounted'
  BY <1>1, SameInfos, SameAccount DEF Inv
<1>4. SetUp' /\ LookedAt' /\ LocationIsNearest'
  BY <1>1 DEF SetUp, LookedAt, LocationIsNearest
<1>5. (read.at + read.size <= header.size)'
  BY <1>1 DEF Inv
<1>6. VerdictIsRight'
  <2> DEFINE len == header.len["core"]
  <2>1. core' = core /\ len' = len /\ Extent' = Extent
    BY <1>1 DEF core, Extent
  <2>2. len = core.end - core.pos + U32Size /\ U32Size \in Nat /\ SecSize \in Nat
    BY <1>1, AtWalk, Constants
  <2> DEFINE rest == left * core.rec_size
  <2>3. /\ rest \in Nat /\ (left = 0 => rest = 0) /\ (left > 0 => rest >= core.rec_size)
        /\ pos + rest = core.pos + claimed
    BY <1>1, AtWalk, OneLess
  <2> HIDE DEF rest
  <2>4. Extent = U32Size + (pos + rest - core.pos) /\ Extent \in Int
    BY <1>1, <2>2, <2>3, AtWalk DEF Extent
  <2>5. CASE EndOfWalk /\ pos = core.end
    <3>1. left = 0 /\ stage' = "ok"
      BY <2>5
    <3>2. Extent = len
      BY <1>1, <2>2, <2>3, <2>4, <2>5, <3>1, AtWalk
    <3> QED BY <1>1, <2>1, <3>1, <3>2, AtWalk DEF VerdictIsRight
  <2>6. CASE Truncated \/ pos # core.end
    <3>1. Truncated /\ stage' = "truncated"
      BY <1>1, <2>6, AtWalk
    <3>2. CASE left = 0
      <4>1. rest = 0 /\ pos < core.end /\ core.end - pos < SecSize
        BY <2>3, <3>1, <3>2
      <4>2. Extent < len /\ len < Extent + SecSize
        BY <1>1, <2>2, <2>4, <4>1, AtWalk
      <4> QED BY <1>1, <2>1, <3>1, <4>2, AtWalk DEF VerdictIsRight
    <3>3. CASE left > 0
      <4>1. rest >= core.rec_size /\ core.end - pos < core.rec_size
        BY <2>3, <3>1, <3>3
      <4>2. Extent > len
        BY <1>1, <2>2, <2>3, <2>4, <4>1, AtWalk
      <4> QED BY <1>1, <2>1, <3>1, <4>2, AtWalk DEF VerdictIsRight
    <3> QED BY <1>1, <3>2, <3>3, AtWalk
  <2> QED BY <2>5, <2>6
<1> QED BY <1>2, <1>3, <1>4, <1>5, <1>6 DEF Inv

LEMMA TakeSectionKeepsInv == Inv /\ TakeSection => Inv'
<1> SUFFICES ASSUME Inv, TakeSection PROVE Inv'
  OBVIOUS
<1>1. PICK n \in Counts : left' = n /\ claimed' = claimed + SecSize + n * core.rec_size
  BY DEF TakeSection
<1>2. /\ UNCHANGED <<header, info, stage, look, insn>> /\ stage = "walk" /\ left = 0
      /\ core.end - pos >= SecSize /\ pos' = pos + SecSize /\ read' = [at |-> pos, size |-> SecSize]
      /\ n \in Nat /\ SecSize \in Nat /\ core' = core
  BY <1>1, Constants DEF TakeSection, Reads, core
<1>3. n * core.rec_size \in Nat /\ 0 * core.rec_size = 0
  BY <1>2, AtWalk, OneLess
<1>4. TypeOK'
  <2>1. claimed' \in Nat /\ pos' \in Nat /\ left' \in Nat /\ read' \in [at : Nat, size : Nat]
    BY <1>1, <1>2, <1>3, AtWalk
  <2> QED BY <1>2, <2>1 DEF Inv, TypeOK
<1>5. \A which \in Which : Placed(which)'
  BY <1>2, SameInfos DEF Inv
<1>6. SetUp' /\ LookedAt' /\ LocationIsNearest' /\ VerdictIsRight'
  BY <1>2, AtWalk DEF SetUp, LookedAt, LocationIsNearest, VerdictIsRight
<1>7. Accounted'
  BY <1>1, <1>2, <1>3, AtWalk DEF Accounted
<1>8. (read.at + read.size <= header.size)'
  BY <1>2, AtWalk
<1> QED BY <1>4, <1>5, <1>6, <1>7, <1>8 DEF Inv

LEMMA TakeRelocationKeepsInv == Inv /\ TakeRelocation => Inv'
<1> SUFFICES ASSUME Inv, TakeRelocation PROVE Inv'
  OBVIOUS
<1> DEFINE size == core.rec_size
<1>1. /\ UNCHANGED <<header, info, claimed>> /\ stage = "walk" /\ left > 0
      /\ core.end - pos >= size /\ pos' = pos + size /\ left' = left - 1
      /\ read' = [at |-> pos, size |-> MinRecSize["core"]]
      /\ look' = [NoLook EXCEPT !.pos = info["line"].pos] /\ stage' = "lookup"
      /\ core' = core /\ insn' \in Nat
  BY Constants DEF TakeRelocation, Reads, Goto, core
<1>2. look' = [which |-> "line", pos |-> info["line"].pos, left |-> 0, offs |-> <<>>, best |-> 0]
  BY <1>1 DEF NoLook
<1>3. info["line"].pos \in Nat /\ MinRecSize["core"] \in Nat
  BY Typed, Constants DEF Inv, Which
<1>4. TypeOK'
  <2>1. pos' \in Nat /\ left' \in Nat /\ read' \in [at : Nat, size : Nat]
    BY <1>1, <1>3, AtWalk
  <2>2. look' \in [which : {"func", "line"}, pos : Nat, left : Nat, offs : Seq(Nat), best : Nat]
    BY <1>2, <1>3
  <2> QED BY <1>1, <2>1, <2>2 DEF Inv, TypeOK, Stages
<1>5. \A which \in Which : Placed(which)'
  BY <1>1, SameInfos DEF Inv
<1>6. SetUp' /\ LocationIsNearest' /\ VerdictIsRight'
  BY <1>1, AtWalk DEF SetUp, LocationIsNearest, VerdictIsRight
<1>7. Accounted'
  <2>1. left * size = (left - 1) * size + size /\ (left - 1) * size \in Nat
    BY <1>1, AtWalk, OneLess
  <2> QED BY <1>1, <2>1, AtWalk DEF Accounted
<1>8. LookedAt'
  BY <1>1, <1>2, <1>3 DEF LookedAt, Looked
<1>9. (read.at + read.size <= header.size)'
  BY <1>1, <1>3, AtWalk
<1> QED BY <1>4, <1>5, <1>6, <1>7, <1>8, <1>9 DEF Inv

LEMMA ResolveKeepsInv == Inv /\ Resolve => Inv'
<1> SUFFICES ASSUME Inv, Resolve PROVE Inv'
  OBVIOUS
<1>1. /\ UNCHANGED <<header, info, pos, left, insn, read, claimed>> /\ stage = "resolve"
      /\ stage' \in {"walk", "relocation"} /\ look' = NoLook
  BY DEF Resolve, Goto
<1>2. TypeOK'
  BY <1>1 DEF Inv, TypeOK, Stages, Ended, NoLook
<1>3. (\A which \in Which : Placed(which)') /\ Accounted'
  BY <1>1, SameInfos, SameAccount DEF Inv
<1>4. SetUp' /\ LookedAt' /\ LocationIsNearest' /\ VerdictIsRight'
  BY <1>1 DEF Inv, SetUp, LookedAt, LocationIsNearest, VerdictIsRight, core
<1>5. (read.at + read.size <= header.size)'
  BY <1>1 DEF Inv
<1> QED BY <1>2, <1>3, <1>4, <1>5 DEF Inv

-----------------------------------------------------------------------------
\* The lookups

\* Whatever stays in place during the lookups.
LEMMA QuietKeeps ==
  ASSUME Inv, Quiet, stage \in {"lookup", "scan"}, stage' \in {"lookup", "scan", "resolve"}
  PROVE  /\ (\A which \in Which : Placed(which)') /\ SetUp' /\ Accounted' /\ VerdictIsRight'
         /\ header' = header /\ info' = info /\ insn' = insn
<1>1. UNCHANGED <<header, info, pos, left, insn, claimed>>
  BY DEF Quiet
<1>2. core.present /\ core' = core
  BY <1>1 DEF Inv, SetUp, core
<1>3. SetUp' /\ VerdictIsRight'
  BY <1>1, <1>2 DEF SetUp, VerdictIsRight
<1> QED BY <1>1, <1>3, SameInfos, SameAccount DEF Inv

LEMMA LookedUpKeepsInv ==
  ASSUME Inv, Quiet, stage \in {"lookup", "scan"}, NEW found \in BOOLEAN, LookedUp(found),
         read' \in [at : Nat, size : Nat], (read.at + read.size <= header.size)'
  PROVE  Inv'
<1>1. stage' \in {"lookup", "resolve"}
  BY DEF LookedUp, Goto
<1>2. stage' = "lookup" =>
        look' = [which |-> "func", pos |-> info["func"].pos, left |-> 0, offs |-> <<>>, best |-> 0]
  BY DEF LookedUp, Goto, NoLook
<1>3. stage' = "resolve" => look' = look
  BY DEF LookedUp, Goto
<1>4. info["func"].pos \in Nat
  BY Typed DEF Inv, Which
<1>5. TypeOK'
  <2>1. look' \in [which : {"func", "line"}, pos : Nat, left : Nat, offs : Seq(Nat), best : Nat]
    <3>1. CASE stage' = "resolve"
      <4>1. look \in [which : {"func", "line"}, pos : Nat, left : Nat, offs : Seq(Nat), best : Nat]
        BY DEF Inv, TypeOK
      <4> QED BY <1>3, <3>1, <4>1, Zenon
    <3>2. CASE stage' = "lookup"
      <4> DEFINE first == [which |-> "func", pos |-> info["func"].pos, left |-> 0, offs |-> <<>>, best |-> 0]
      <4>1. first \in [which : {"func", "line"}, pos : Nat, left : Nat, offs : Seq(Nat), best : Nat]
        BY <1>4
      <4>2. look' = first
        BY <1>2, <3>2
      <4> HIDE DEF first
      <4> QED BY <4>1, <4>2
    <3> QED BY <1>1, <3>1, <3>2
  <2> QED BY <1>1, <2>1 DEF Inv, TypeOK, Stages, Quiet
<1>6. LookedAt'
  BY <1>1, <1>2, <1>4, QuietKeeps DEF LookedAt, Looked
<1>7. LocationIsNearest'
  BY <1>1 DEF LocationIsNearest
<1> QED BY <1>1, <1>5, <1>6, <1>7, QuietKeeps DEF Inv

LEMMA LookupEndsKeepInv == Inv /\ (NothingThere \/ EndOfScan) => Inv'
<1> SUFFICES ASSUME Inv, NothingThere \/ EndOfScan PROVE Inv'
  OBVIOUS
<1>1. Quiet /\ UNCHANGED read /\ stage \in {"lookup", "scan"} /\ header' = header
  BY DEF NothingThere, EndOfScan, Quiet
<1>2. \E found \in BOOLEAN : LookedUp(found)
  <2>1. CASE NothingThere
    BY <2>1 DEF NothingThere
  <2>2. CASE EndOfScan
    <3>1. PICK named \in BOOLEAN : LookedUp(named /\ look.best # 0)
      BY <2>2 DEF EndOfScan
    <3> QED BY <3>1
  <2> QED BY <2>1, <2>2
<1>3. PICK found \in BOOLEAN : LookedUp(found)
  BY <1>2
<1>4. read' \in [at : Nat, size : Nat] /\ (read.at + read.size <= header.size)'
  BY <1>1 DEF Inv, TypeOK
<1> QED BY <1>1, <1>3, <1>4, LookedUpKeepsInv

\* The info that is looked at, when it is there.
LEMMA AtLookup ==
  ASSUME Inv, Looked.present
  PROVE  /\ Looked.rec_size \in Nat \ {0} /\ MinRecSize[look.which] <= Looked.rec_size
         /\ MinRecSize[look.which] \in Nat
         /\ Looked.pos \in Nat /\ Looked.end \in Nat /\ Looked.end <= header.size /\ header.size \in Nat
BY RecordsHaveSize, Typed, Constants DEF Inv, Looked

LEMMA LookAtSectionKeepsInv == Inv /\ LookAtSection => Inv'
<1> SUFFICES ASSUME Inv, LookAtSection PROVE Inv'
  OBVIOUS
<1>1. /\ stage = "lookup" /\ Looked.present /\ look.pos < Looked.end /\ Looked.end - look.pos >= SecSize
      /\ read' = [at |-> look.pos, size |-> SecSize] /\ Quiet /\ header' = header /\ info' = info
  BY DEF LookAtSection, Reads, Quiet
<1>2. look.pos \in Nat /\ look.left \in Nat /\ SecSize \in Nat /\ look.offs = <<>> /\ look.best = 0
      /\ Looked.pos <= look.pos
  BY <1>1, Typed, Constants DEF Inv, LookedAt
<1>3. read' \in [at : Nat, size : Nat] /\ (read.at + read.size <= header.size)'
  BY <1>1, <1>2, AtLookup
<1> DEFINE space == Looked.end - look.pos - SecSize
<1>4. space \in Nat
  BY <1>1, <1>2, AtLookup
<1> DEFINE most == space \div Looked.rec_size
<1>5. PICK n \in Counts :
        IF n > most THEN LookedUp(FALSE)
        ELSE \/ SkipSection(n)
             \/ Goto("scan") /\ look' = [look EXCEPT !.pos = @ + SecSize, !.left = n]
  BY DEF LookAtSection
<1>6. n \in Nat /\ most \in Nat /\ n * Looked.rec_size \in Nat
  BY <1>1, <1>4, AtLookup, OneLess, Constants, Z3
<1>7. CASE LookedUp(FALSE)
  BY <1>1, <1>3, <1>7, LookedUpKeepsInv
<1>8. CASE ~ LookedUp(FALSE) /\ SkipSection(n)
  <2>1. stage' = "lookup" /\ look' = [look EXCEPT !.pos = look.pos + SecSize + n * Looked.rec_size]
    BY <1>1, <1>8 DEF SkipSection
  <2> DEFINE there == look.pos + SecSize + n * Looked.rec_size
  <2>2. there \in Nat /\ look.pos <= there
    BY <1>2, <1>6
  <2> HIDE DEF there
  <2>3. look' = [look EXCEPT !.pos = there]
    BY <2>1 DEF there
  <2>4. TypeOK'
    <3>1. look' \in [which : {"func", "line"}, pos : Nat, left : Nat, offs : Seq(Nat), best : Nat]
      BY <2>2, <2>3 DEF Inv, TypeOK
    <3> QED BY <1>1, <1>3, <2>1, <3>1 DEF Inv, TypeOK, Stages, Quiet
  <2>5. /\ look'.which = look.which /\ look'.pos = there /\ look'.offs = <<>> /\ look'.best = 0
    BY <1>2, <2>3 DEF Inv, TypeOK
  <2>6. LookedAt'
    BY <1>1, <1>2, <2>1, <2>2, <2>5, AtLookup DEF LookedAt, Looked
  <2>7. LocationIsNearest'
    BY <2>1 DEF LocationIsNearest
  <2> QED BY <1>1, <1>3, <2>1, <2>4, <2>6, <2>7, QuietKeeps DEF Inv
<1>9. CASE ~ LookedUp(FALSE) /\ Goto("scan") /\ look' = [look EXCEPT !.pos = look.pos + SecSize, !.left = n]
  <2>1. stage' = "scan" /\ n <= most
    <3> HIDE DEF most
    <3>1. ~ (n > most)
      BY <1>5, <1>9, Zenon
    <3> QED BY <1>6, <1>9, <3>1 DEF Goto
  <2>2. n * Looked.rec_size <= space
    BY <1>1, <1>4, <1>6, <2>1, AtLookup, DivisionFits
  <2>3. TypeOK'
    <3> DEFINE there == look.pos + SecSize
    <3>0. there \in Nat /\ look' = [look EXCEPT !.pos = there, !.left = n]
      BY <1>2, <1>9
    <3> HIDE DEF there, most
    <3>1. look' \in [which : {"func", "line"}, pos : Nat, left : Nat, offs : Seq(Nat), best : Nat]
      BY <1>6, <3>0 DEF Inv, TypeOK
    <3> QED BY <1>1, <1>3, <2>1, <3>1 DEF Inv, TypeOK, Stages, Quiet
  <2>4. /\ look'.which = look.which /\ look'.pos = look.pos + SecSize /\ look'.left = n
        /\ look'.offs = <<>> /\ look'.best = 0
    BY <1>2, <1>9 DEF Inv, TypeOK
  <2>5. Looked' = Looked
    BY <1>1, <2>4 DEF Looked
  <2>6. LookedAt'
    <3>1. look.pos + SecSize + n * Looked.rec_size <= Looked.end
      BY <1>2, <1>6, <2>2, AtLookup, <1>1
    <3>2. Looked.pos <= look.pos + SecSize
      BY <1>1, <1>2, AtLookup
    <3> QED BY <1>1, <2>1, <2>4, <2>5, <3>1, <3>2 DEF LookedAt
  <2>7. LocationIsNearest'
    BY <2>4 DEF LocationIsNearest
  <2> QED BY <1>1, <1>3, <2>1, <2>3, <2>6, <2>7, QuietKeeps DEF Inv
<1> QED BY <1>5, <1>7, <1>8, <1>9

\* Of the records seen, best is the nearest one at or before limit, 0 if there is none.
IsNearest(offs, best, limit) ==
  /\ best \in 0 .. Len(offs)
  /\ best = 0 => \A k \in DOMAIN offs : ~ (offs[k] <= limit)
  /\ best # 0 => /\ offs[best] <= limit
                 /\ \A k \in DOMAIN offs : offs[k] <= limit =>
                      offs[k] < offs[best] \/ (offs[k] = offs[best] /\ k <= best)

\* The nearest record so far stays it, or the next one is.
LEMMA ScanKeepsNearest ==
  ASSUME NEW offs \in Seq(Nat), NEW best, NEW off \in Nat, NEW limit \in Nat,
         IsNearest(offs, best, limit)
  PROVE  IsNearest(Append(offs, off),
                   IF off <= limit /\ (best = 0 \/ off >= offs[best]) THEN Len(offs) + 1 ELSE best,
                   limit)
<1> DEFINE more == Append(offs, off)
           last == Len(offs) + 1
           isBetter == off <= limit /\ (best = 0 \/ off >= offs[best])
<1>1. /\ Len(offs) \in Nat /\ last \in Nat /\ DOMAIN offs = 1 .. Len(offs) /\ DOMAIN more = 1 .. last
      /\ Len(more) = last /\ more[last] = off
      /\ \A k \in DOMAIN offs : more[k] = offs[k] /\ offs[k] \in Nat /\ k < last /\ k \in Nat
      /\ \A k \in DOMAIN more : k \in DOMAIN offs \/ k = last
  OBVIOUS
<1> HIDE DEF more, last
<1> USE DEF IsNearest
<1>2. CASE isBetter
  <2>1. off <= limit
    BY <1>2
  <2>2. ASSUME NEW k \in DOMAIN offs, offs[k] <= limit PROVE offs[k] <= off
    <3>1. best # 0 /\ best \in DOMAIN offs
      BY <1>1, <2>2
    <3>2. offs[k] \in Nat /\ offs[best] \in Nat
      BY <1>1, <3>1
    <3>3. offs[k] < offs[best] \/ offs[k] = offs[best]
      BY <2>2, <3>1
    <3>4. offs[best] <= off
      BY <1>2, <3>1
    <3> QED BY <3>2, <3>3, <3>4
  <2>3. \A k \in DOMAIN more : more[k] <= limit =>
          more[k] < more[last] \/ (more[k] = more[last] /\ k <= last)
    BY <1>1, <2>2
  <2>4. last \in 0 .. Len(more) /\ last # 0
    BY <1>1 DEF last
  <2>5. IsNearest(more, last, limit)
    BY <1>1, <2>1, <2>3, <2>4
  <2> QED BY <1>2, <2>5 DEF more, last
<1>3. CASE ~ isBetter /\ best = 0
  <2>1. \A k \in DOMAIN more : ~ (more[k] <= limit)
    BY <1>1, <1>3
  <2>2. IsNearest(more, best, limit)
    BY <1>1, <1>3, <2>1
  <2> QED BY <1>3, <2>2 DEF more
<1>4. CASE ~ isBetter /\ best # 0
  <2>1. best \in DOMAIN offs /\ more[best] = offs[best] /\ best \in DOMAIN more
    BY <1>1, <1>4
  <2>2. \A k \in DOMAIN more : more[k] <= limit =>
          more[k] < more[best] \/ (more[k] = more[best] /\ k <= best)
    BY <1>1, <1>4, <2>1
  <2>3. IsNearest(more, best, limit)
    BY <1>1, <1>4, <2>1, <2>2
  <2> QED BY <1>4, <2>3 DEF more
<1> QED BY <1>2, <1>3, <1>4

\* That is what LocationIsNearest says.
LEMMA Nearest ==
  ASSUME look.offs \in Seq(Nat), look.best \in 0 .. Len(look.offs), insn \in Nat, stage = "scan"
  PROVE  LocationIsNearest <=> IsNearest(look.offs, look.best, insn)
<1> DEFINE before == {k \in DOMAIN look.offs : look.offs[k] <= insn}
<1>1. DOMAIN look.offs = 1 .. Len(look.offs) /\ Len(look.offs) \in Nat
  OBVIOUS
<1>2. look.best \in before <=> look.best # 0 /\ look.offs[look.best] <= insn
  BY <1>1
<1>3. before = {} <=> \A k \in DOMAIN look.offs : ~ (look.offs[k] <= insn)
  OBVIOUS
<1>4. LocationIsNearest <=>
        IF before = {} THEN look.best = 0
        ELSE /\ look.best \in before
             /\ \A k \in before : \/ look.offs[k] < look.offs[look.best]
                                  \/ look.offs[k] = look.offs[look.best] /\ k <= look.best
  BY DEF LocationIsNearest
<1> QED BY <1>2, <1>3, <1>4 DEF IsNearest

\* What Scan does to the lookup, in one record.
LEMMA ScanKeepsInv == Inv /\ Scan => Inv'
<1> SUFFICES ASSUME Inv, Scan PROVE Inv'
  OBVIOUS
<1> DEFINE size == Looked.rec_size
<1>1. PICK off \in Insns :
        look' = [look EXCEPT !.pos = @ + Looked.rec_size, !.left = @ - 1, !.offs = Append(@, off),
                             !.best = IF Better(off) THEN Len(look.offs) + 1 ELSE @]
  BY DEF Scan
<1>2. /\ stage = "scan" /\ stage' = "scan" /\ look.left > 0 /\ Quiet
      /\ read' = [at |-> look.pos, size |-> MinRecSize[look.which]]
      /\ header' = header /\ info' = info /\ insn' = insn
  BY DEF Scan, Reads, Quiet
<1>3. /\ look.pos \in Nat /\ look.left \in Nat /\ look.offs \in Seq(Nat) /\ look.best \in Nat
      /\ off \in Nat /\ insn \in Nat
  BY Typed, Constants DEF Inv, TypeOK
<1>4. /\ Looked.present /\ look.pos + look.left * size <= Looked.end /\ Looked.pos <= look.pos
      /\ look.best \in 0 .. Len(look.offs)
  BY <1>2 DEF Inv, LookedAt
<1>5. /\ size \in Nat \ {0} /\ MinRecSize[look.which] <= size /\ MinRecSize[look.which] \in Nat
      /\ Looked.end \in Nat /\ Looked.pos \in Nat /\ Looked.end <= header.size /\ header.size \in Nat
  BY <1>4, AtLookup
<1> DEFINE new == IF Better(off) THEN Len(look.offs) + 1 ELSE look.best
           more == Append(look.offs, off)
<1>6. /\ look'.which = look.which /\ look'.pos = look.pos + size /\ look'.left = look.left - 1
      /\ look'.offs = more /\ look'.best = new
  BY <1>1 DEF Inv, TypeOK
<1>7. look.left * size = (look.left - 1) * size + size /\ (look.left - 1) * size \in Nat
  BY <1>2, <1>3, <1>5, OneLess
<1>8. look.pos + size <= Looked.end /\ look.pos + size + (look.left - 1) * size <= Looked.end
  <2> DEFINE rest == (look.left - 1) * size
             all == look.left * size
  <2>1. all = rest + size /\ rest \in Nat /\ look.pos + all <= Looked.end
    BY <1>4, <1>7
  <2> HIDE DEF rest, all
  <2>2. look.pos + size <= Looked.end /\ look.pos + size + rest <= Looked.end
    BY <1>3, <1>5, <2>1
  <2> QED BY <2>2 DEF rest
<1>9. IsNearest(more, new, insn)
  <2>1. IsNearest(look.offs, look.best, insn)
    BY <1>2, <1>3, <1>4, Nearest DEF Inv
  <2> QED BY <1>3, <2>1, ScanKeepsNearest DEF Better
<1>10. more \in Seq(Nat) /\ new \in Nat /\ new \in 0 .. Len(more)
  BY <1>3, <1>9 DEF IsNearest
<1> HIDE DEF new, more
<1>11. TypeOK'
  <2>1. look' \in [which : {"func", "line"}, pos : Nat, left : Nat, offs : Seq(Nat), best : Nat]
    <3> DEFINE at == look.pos + size   rest == look.left - 1
    <3>1. at \in Nat /\ rest \in Nat
      <4>1. look.left > 0 /\ size \in Nat
        BY <1>2, <1>5
      <4> HIDE DEF size
      <4> QED BY <1>3, <4>1
    <3>2. look' = [look EXCEPT !.pos = at, !.left = rest, !.offs = more, !.best = new]
      BY <1>1 DEF new, more
    <3> HIDE DEF at, rest
    <3> QED BY <1>10, <3>1, <3>2 DEF Inv, TypeOK
  <2>2. read' \in [at : Nat, size : Nat]
    BY <1>2, <1>3, <1>5
  <2> QED BY <1>2, <2>1, <2>2 DEF Inv, TypeOK, Quiet
<1>12. Looked' = Looked
  BY <1>2, <1>6 DEF Looked
<1>13. LookedAt'
  <2>1. Looked.pos <= look.pos + size
    BY <1>3, <1>4, <1>5
  <2> QED BY <1>2, <1>4, <1>6, <1>8, <1>10, <1>12, <2>1 DEF LookedAt
<1>14. LocationIsNearest'
  <2> DEFINE before == {k \in DOMAIN more : more[k] <= insn}
  <2>1. DOMAIN more = 1 .. Len(more) /\ Len(more) \in Nat
    BY <1>10
  <2>2. IF before = {} THEN new = 0
        ELSE /\ new \in before
             /\ \A k \in before : more[k] < more[new] \/ (more[k] = more[new] /\ k <= new)
    BY <1>9, <2>1 DEF IsNearest
  <2> QED BY <1>2, <1>6, <2>2 DEF LocationIsNearest
<1>15. (read.at + read.size <= header.size)'
  <2> DEFINE used == MinRecSize[look.which]
  <2>1. look.pos + size <= header.size
    BY <1>3, <1>5, <1>8
  <2>2. used \in Nat /\ used <= size
    BY <1>5
  <2> HIDE DEF size, used
  <2>3. look.pos + used <= header.size
    BY <1>3, <1>5, <2>1, <2>2
  <2> QED BY <1>2, <2>3 DEF used
<1> QED BY <1>2, <1>11, <1>13, <1>14, <1>15, QuietKeeps DEF Inv

LEMMA NextInv == Inv /\ [Next]_vars => Inv'
<1> SUFFICES ASSUME Inv, [Next]_vars PROVE Inv'
  OBVIOUS
<1>1. CASE NoExt \/ ReadHeader \/ RejectHeader
  BY <1>1, StartKeepsInv
<1>2. CASE \E which \in Which : InitInfo(which)
  BY <1>2, InitInfoKeepsInv
<1>3. CASE EndOfWalk \/ Truncated
  BY <1>3, EndKeepsInv
<1>4. CASE TakeSection
  BY <1>4, TakeSectionKeepsInv
<1>5. CASE TakeRelocation
  BY <1>5, TakeRelocationKeepsInv
<1>6. CASE Resolve
  BY <1>6, ResolveKeepsInv
<1>7. CASE NothingThere \/ EndOfScan
  BY <1>7, LookupEndsKeepInv
<1>8. CASE LookAtSection
  BY <1>8, LookAtSectionKeepsInv
<1>9. CASE Scan
  BY <1>9, ScanKeepsInv
<1>10. CASE UNCHANGED vars
  <2>1. UNCHANGED <<header, info, stage, pos, left, look, insn, read, claimed>>
    BY <1>10 DEF vars
  <2>2. TypeOK' /\ (read.at + read.size <= header.size)'
    BY <2>1 DEF Inv, TypeOK
  <2>3. (\A which \in Which : Placed(which)') /\ Accounted'
    BY <2>1, SameInfos, SameAccount DEF Inv
  <2>4. SetUp' /\ LookedAt' /\ VerdictIsRight' /\ LocationIsNearest'
    BY <2>1 DEF Inv, SetUp, LookedAt, VerdictIsRight, LocationIsNearest, Looked, core, Extent
  <2> QED BY <2>2, <2>3, <2>4 DEF Inv
<1> QED BY <1>1, <1>2, <1>3, <1>4, <1>5, <1>6, <1>7, <1>8, <1>9, <1>10 DEF Next

-----------------------------------------------------------------------------
\* The walk and the lookups keep their invariant, whatever the data (seeds.c:53-262, 825-960).
THEOREM Invariance == Spec => []Inv
BY InitInv, NextInv, PTL DEF Spec

\* The cursors are offsets, and the walk is in one of its stages (seeds.c:825-960).
THEOREM TypeCorrect == Spec => []TypeOK
<1>1. Inv => TypeOK
  BY DEF Inv
<1> QED BY <1>1, Invariance, PTL

\* Nothing is read but the data, and the cursors stay within their infos, for any
\* lengths, record sizes and counts in it (seeds.c:100-177, 887-952).
THEOREM ReadsOnlyTheData == Spec => []ReadsInBounds
<1>1. Inv => ReadsInBounds
  <2> SUFFICES ASSUME Inv PROVE ReadsInBounds
    OBVIOUS
  <2>1. \A which \in Which : info[which].present =>
          info[which].pos <= info[which].end /\ info[which].end <= header.size
    BY RecordsHaveSize DEF Inv
  <2>2. DOMAIN info = Which
    BY DEF Inv, TypeOK
  <2>3. core.present => core.pos <= pos /\ pos <= core.end
    BY DEF Inv, Accounted
  <2>4. stage = "scan" => Looked.pos <= look.pos /\ look.pos + look.left * Looked.rec_size <= Looked.end
    BY DEF Inv, LookedAt
  <2> QED BY <2>1, <2>2, <2>3, <2>4 DEF Inv, ReadsInBounds, CursorsInBounds
<1> QED BY <1>1, Invariance, PTL

\* The run fails exactly if the relocations do not fill their info, and with the error
\* that is the reason (seeds.c:107-137, 825-885, 892-914, 954-960).
THEOREM VerdictIsTrue == Spec => []VerdictIsRight
<1>1. Inv => VerdictIsRight
  BY DEF Inv
<1> QED BY <1>1, Invariance, PTL

\* The location that a message names is the nearest record at or before the relocation,
\* for any number of records in any order (seeds.c:192-203, 230-241).
THEOREM LocationExact == Spec => []LocationIsNearest
<1>1. Inv => LocationIsNearest
  BY DEF Inv
<1> QED BY <1>1, Invariance, PTL
=============================================================================
