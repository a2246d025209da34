------------------------------ MODULE BtfExt ------------------------------
(***************************************************************************)
(* seeds.c: how mch_extract_core_relo_seeds_with_requirements walks the    *)
(* .BTF.ext data of an object.  Behind a header lie up to three infos, for *)
(* relocations, functions and lines; an info is a record size followed by  *)
(* sections, a section a header with a number of records and the records.  *)
(* For each relocation its location is looked up, in the lines first and   *)
(* then in the functions; an error repeats the lookup for its message.     *)
(*                                                                         *)
(* Addresses are offsets into the data.  What is read is arbitrary, from   *)
(* small sets: nothing is assumed of the data, the code does not either.   *)
(* Module Seeds has what a relocation does; here it succeeds or fails.     *)
(***************************************************************************)
EXTENDS Integers, Sequences

CONSTANTS
  Headers,      \* headers and data sizes: records [form, size, hdr_len, off, len]
  RecSizes,     \* record sizes read
  Counts,       \* num_info read
  Insns,        \* insn_off read
  Width,        \* number of values of a __u32
  HeaderSize, U32Size,
  MinRecSize    \* MinRecSize[which]: size of the struct that is read

U32 == 0 .. Width - 1
Which == {"core", "func", "line"}
ExtHeader == [form : {"none", "foreign", "native"}, size : U32, hdr_len : U32,
              off : [Which -> U32], len : [Which -> U32]]

ASSUME SizesAssumption ==
  /\ Width \in Nat \ {0} /\ HeaderSize \in Nat /\ U32Size \in Nat \ {0}
  /\ MinRecSize \in [Which -> Nat \ {0}]
  /\ Headers \subseteq ExtHeader
  /\ RecSizes \subseteq U32 /\ Counts \subseteq U32 /\ Insns \subseteq U32

VARIABLES
  header,     \* the header
  info,       \* core_info, func_info, line_info
  stage,
  pos,        \* pos of the relocations
  left,       \* relocations of the section to come
  look,       \* find_ext_info_section: [which, pos, left, offs, best]
  insn,       \* insn_off of the relocation
  read,       \* the last read: [at, size] (history)
  claimed     \* what the sections begun take up by their num_info (history)

vars == <<header, info, stage, pos, left, look, insn, read, claimed>>

SecSize == 2 * U32Size
Absent  == [present |-> FALSE, pos |-> 0, end |-> 0, rec_size |-> 0]
NoLook  == [which |-> "line", pos |-> 0, left |-> 0, offs |-> <<>>, best |-> 0]

Ended == {"ok", "header", "bounds", "truncated", "rec_size", "relocation"}

Init == /\ header \in Headers
        /\ info = [which \in Which |-> Absent]
        /\ stage = "start"
        /\ pos = 0 /\ left = 0 /\ look = NoLook /\ insn = 0
        /\ read = [at |-> 0, size |-> 0] /\ claimed = 0

Reads(at, size) == read' = [at |-> at, size |-> size]
Goto(s) == stage' = s

-----------------------------------------------------------------------------
NoExt == /\ stage = "start" /\ header.form = "none"
         /\ Goto("ok")
         /\ UNCHANGED <<header, info, pos, left, look, insn, read, claimed>>

\* The header is read before its length is known to be good.
ReadHeader ==
  /\ stage = "start" /\ header.form = "native" /\ header.size >= HeaderSize
  /\ Reads(0, HeaderSize)
  /\ Goto(IF header.hdr_len < HeaderSize \/ header.hdr_len > header.size THEN "header"
          ELSE IF header.len["core"] = 0 THEN "ok"
          ELSE "core")
  /\ UNCHANGED <<header, info, pos, left, look, insn, claimed>>

\* Another byte order, magic number or version, or no complete header.
RejectHeader == /\ stage = "start"
                /\ header.form = "foreign" \/ (header.form = "native" /\ header.size < HeaderSize)
                /\ Goto("header")
                /\ UNCHANGED <<header, info, pos, left, look, insn, read, claimed>>

FitsWrapping(off, len) == (off + len) % Width <= header.size - header.hdr_len  \* faulty variant

Fits(off, len) == off <= header.size - header.hdr_len /\ len <= header.size - header.hdr_len - off

\* init_ext_info(which), for core, func and line in this order.
After(which) == [core |-> "func", func |-> "line", line |-> "walk"][which]

\* An info of relocations that is not usable is an error, any other one is not used.
Unusable(which, why) == /\ Goto(IF which = "core" THEN why ELSE After(which))
                        /\ UNCHANGED <<header, info, pos, left, look, insn, claimed>>

InitInfo(which) ==
  LET off == header.off[which]   len == header.len[which]   data == header.hdr_len + off
  IN /\ stage = which
     /\ \/ len = 0 /\ Goto(After(which)) /\ UNCHANGED <<header, info, pos, left, look, insn, read, claimed>>
        \/ len # 0 /\ ~ Fits(off, len) /\ Unusable(which, "bounds") /\ UNCHANGED read
        \/ len # 0 /\ Fits(off, len) /\ len < U32Size /\ Unusable(which, "truncated") /\ UNCHANGED read
        \/ /\ len >= U32Size /\ Fits(off, len)
           /\ Reads(data, U32Size)
           /\ \E rec \in RecSizes :
                \/ rec < MinRecSize[which] /\ Unusable(which, "rec_size")
                \/ /\ rec >= MinRecSize[which]
                   /\ info' = [info EXCEPT ![which] = [present |-> TRUE, pos |-> data + U32Size,
                                                       end |-> data + len, rec_size |-> rec]]
                   /\ pos' = IF which = "core" THEN data + U32Size ELSE pos
                   /\ Goto(After(which))
                   /\ UNCHANGED <<header, left, look, insn, claimed>>

-----------------------------------------------------------------------------
\* The walk over the relocations

core == info["core"]

EndOfWalk == /\ stage = "walk" /\ left = 0 /\ pos >= core.end
             /\ Goto(IF pos = core.end THEN "ok" ELSE "truncated")
             /\ UNCHANGED <<header, info, pos, left, look, insn, read, claimed>>

TakeSection ==
  /\ stage = "walk" /\ left = 0 /\ pos < core.end /\ core.end - pos >= SecSize
  /\ Reads(pos, SecSize)
  /\ pos' = pos + SecSize
  /\ \E n \in Counts : left' = n /\ claimed' = claimed + SecSize + n * core.rec_size
  /\ UNCHANGED <<header, info, stage, look, insn>>

\* faulty variant: what is not complete ends the walk without an error
EndsQuietly == /\ stage = "walk" /\ (left > 0 \/ pos < core.end)
               /\ core.end - pos < IF left = 0 THEN SecSize ELSE core.rec_size
               /\ Goto("ok")
               /\ UNCHANGED <<header, info, pos, left, look, insn, read, claimed>>

Truncated == /\ stage = "walk" /\ (left > 0 \/ pos < core.end)
             /\ core.end - pos < IF left = 0 THEN SecSize ELSE core.rec_size
             /\ Goto("truncated")
             /\ UNCHANGED <<header, info, pos, left, look, insn, read, claimed>>

\* faulty variant: only the part of a record that is used has to be there
TakePartOfRecord ==
  /\ stage = "walk" /\ left > 0 /\ core.end - pos >= MinRecSize["core"]
  /\ Reads(pos, MinRecSize["core"])
  /\ pos' = pos + core.rec_size /\ left' = left - 1
  /\ \E i \in Insns : insn' = i
  /\ look' = [NoLook EXCEPT !.pos = info["line"].pos]
  /\ Goto("lookup")
  /\ UNCHANGED <<header, info, claimed>>

TakeRelocation ==
  /\ stage = "walk" /\ left > 0 /\ core.end - pos >= core.rec_size
  /\ Reads(pos, MinRecSize["core"])
  /\ pos' = pos + core.rec_size /\ left' = left - 1
  /\ \E i \in Insns : insn' = i
  /\ look' = [NoLook EXCEPT !.pos = info["line"].pos]
  /\ Goto("lookup")
  /\ UNCHANGED <<header, info, claimed>>

\* What module Seeds models: the relocation is resolved, or the run fails.
Resolve == /\ stage = "resolve"
           /\ Goto("walk") \/ Goto("relocation")
           /\ look' = NoLook
           /\ UNCHANGED <<header, info, pos, left, insn, read, claimed>>

-----------------------------------------------------------------------------
\* format_core_relo_location: find_line_location, then find_function_name

Looked == info[look.which]
Quiet  == UNCHANGED <<header, info, pos, left, insn, claimed>>

\* faulty variant: lines and functions stand in for each other
LookedUpInTurn(found) ==
  IF found THEN Goto("resolve") /\ UNCHANGED look
  ELSE LET other == IF look.which = "line" THEN "func" ELSE "line"
       IN Goto("lookup") /\ look' = [NoLook EXCEPT !.which = other, !.pos = info[other].pos]

\* The lookup is over: the function is looked up when there is no line.
LookedUp(found) ==
  IF found \/ look.which = "func" THEN Goto("resolve") /\ UNCHANGED look
  ELSE Goto("lookup") /\ look' = [NoLook EXCEPT !.which = "func", !.pos = info["func"].pos]

NothingThere == /\ stage = "lookup"
                /\ ~ Looked.present \/ look.pos >= Looked.end \/ Looked.end - look.pos < SecSize
                /\ LookedUp(FALSE)
                /\ Quiet /\ UNCHANGED read

SkipSection(n) == /\ look' = [look EXCEPT !.pos = @ + SecSize + n * Looked.rec_size]
                  /\ UNCHANGED stage

LookAtSection ==
  /\ stage = "lookup" /\ Looked.present /\ look.pos < Looked.end /\ Looked.end - look.pos >= SecSize
  /\ Reads(look.pos, SecSize)
  /\ \E n \in Counts :
       IF n > (Looked.end - look.pos - SecSize) \div Looked.rec_size
         THEN LookedUp(FALSE)
         ELSE \/ SkipSection(n)
              \/ Goto("scan") /\ look' = [look EXCEPT !.pos = @ + SecSize, !.left = n]
  /\ Quiet

FirstWins(off) == off <= insn /\ (look.best = 0 \/ off > look.offs[look.best])   \* faulty variant

Better(off) == off <= insn /\ (look.best = 0 \/ off >= look.offs[look.best])

Scan == /\ stage = "scan" /\ look.left > 0
        /\ Reads(look.pos, MinRecSize[look.which])
        /\ \E off \in Insns :
             look' = [look EXCEPT !.pos = @ + Looked.rec_size, !.left = @ - 1,
                                  !.offs = Append(@, off),
                                  !.best = IF Better(off) THEN Len(look.offs) + 1 ELSE @]
        /\ Quiet /\ UNCHANGED stage

\* A record without a name of a file or function does not count as found.
EndOfScan == /\ stage = "scan" /\ look.left = 0
             /\ \E named \in BOOLEAN : LookedUp(named /\ look.best # 0)
             /\ Quiet /\ UNCHANGED read

Next == \/ NoExt \/ ReadHeader \/ RejectHeader
        \/ \E which \in Which : InitInfo(which)
        \/ EndOfWalk \/ TakeSection \/ Truncated \/ TakeRelocation \/ Resolve
        \/ NothingThere \/ LookAtSection \/ Scan \/ EndOfScan

Spec == Init /\ [][Next]_vars /\ WF_vars(Next)

-----------------------------------------------------------------------------
Stages == {"start", "core", "func", "line", "walk", "resolve", "lookup", "scan"} \cup Ended

TypeOK ==
  /\ header \in ExtHeader
  /\ info \in [Which -> [present : BOOLEAN, pos : Nat, end : Nat, rec_size : Nat]]
  /\ stage \in Stages
  /\ pos \in Nat /\ left \in Nat /\ insn \in Nat /\ claimed \in Nat
  /\ look \in [which : {"func", "line"}, pos : Nat, left : Nat, offs : Seq(Nat), best : Nat]
  /\ read \in [at : Nat, size : Nat]

\* The cursors of the walk and of the lookups stay within their infos, and the infos
\* within the data.
CursorsInBounds ==
  /\ \A which \in DOMAIN info :
       info[which].present => info[which].pos <= info[which].end /\ info[which].end <= header.size
  /\ core.present => core.pos <= pos /\ pos <= core.end
  /\ stage = "scan" => Looked.pos <= look.pos /\ look.pos + look.left * Looked.rec_size <= Looked.end

\* Whatever the lengths and counts in the data are, only the data is read
\* (seeds.c:100-177, 887-952).
ReadsInBounds == CursorsInBounds /\ read.at + read.size <= header.size

\* What the info takes up by the sections begun so far.
Extent == U32Size + claimed

\* Success means that the relocations were read to the last one and fill their info; an
\* error means that they do not, and never that functions or lines are damaged
\* (seeds.c:107-137, 825-885, 892-914, 954-960).
VerdictIsRight ==
  LET len == header.len["core"]
  IN /\ stage = "ok" /\ core.present => left = 0 /\ Extent = len
     /\ stage = "ok" => core.present \/ len = 0 \/ header.form = "none"
     /\ stage = "bounds" => header.hdr_len + header.off["core"] + len > header.size
     /\ stage = "truncated" => \/ len < U32Size
                               \/ Extent > len
                               \/ Extent < len /\ len < Extent + SecSize
     /\ stage = "rec_size" => ~ core.present

\* The location of a relocation is the nearest record at or before its instruction, the
\* last one of several (seeds.c:192-203, 230-241).
LocationIsNearest ==
  stage = "scan" =>
    LET before == {k \in DOMAIN look.offs : look.offs[k] <= insn}
    IN IF before = {} THEN look.best = 0
       ELSE /\ look.best \in before
            /\ \A k \in before : \/ look.offs[k] < look.offs[look.best]
                                 \/ look.offs[k] = look.offs[look.best] /\ k <= look.best

\* The walk and the lookups end for all data, sections without records included
\* (seeds.c:154-174, 889-952).
Terminates == <>(stage \in Ended)

(***************************************************************************)
(* The inductive invariant: where the infos lie, where the cursors are in  *)
(* them, and what the sections begun have claimed of the relocations.      *)
(***************************************************************************)
\* The info that is present starts behind its record size and ends with its length.
Placed(which) ==
  LET data == header.hdr_len + header.off[which]
  IN info[which].present =>
       /\ info[which].pos = data + U32Size /\ info[which].end = data + header.len[which]
       /\ header.len[which] >= U32Size /\ info[which].end <= header.size
       /\ info[which].rec_size >= MinRecSize[which]

\* The infos are set up before the walk, that of the relocations first.
SetUp ==
  /\ stage \in {"start", "core", "header", "bounds", "rec_size"} => ~ core.present
  /\ stage \in {"func", "line", "walk", "resolve", "lookup", "scan", "relocation"} => core.present
  /\ stage \in {"start", "core", "func", "line"} => left = 0 /\ claimed = 0
  /\ stage \in {"core", "func", "line"} => header.hdr_len <= header.size
  /\ stage = "core" => header.len["core"] # 0

\* What is read and what is still to come is what the sections have claimed.
Accounted ==
  core.present => /\ pos + left * core.rec_size = core.pos + claimed
                  /\ core.pos <= pos /\ pos <= core.end

\* The lookup is in its info, and has seen no record of it before a scan.
LookedAt ==
  /\ stage = "lookup" => look.offs = <<>> /\ look.best = 0
  /\ stage \in {"lookup", "scan"} /\ Looked.present => Looked.pos <= look.pos
  /\ stage = "scan" => /\ Looked.present
                       /\ look.pos + look.left * Looked.rec_size <= Looked.end
                       /\ look.best \in 0 .. Len(look.offs)

Inv == /\ TypeOK /\ (\A which \in Which : Placed(which)) /\ SetUp /\ Accounted /\ LookedAt
       /\ read.at + read.size <= header.size
       /\ VerdictIsRight /\ LocationIsNearest
=============================================================================
