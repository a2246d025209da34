------------------------------ MODULE MCMain ------------------------------
(***************************************************************************)
(* Two invocations with the same pid, one temporary name and a header of   *)
(* two blocks.  The first takes every option while the second writes a     *)
(* file from one object, so that two writers meet at the temporary name    *)
(* and at the output path.  Besides, the first takes every command line    *)
(* with up to two of the Arguments, alone or before a --btf option and an  *)
(* object, while the second complains that it has no arguments.            *)
(***************************************************************************)
EXTENDS Main

CONSTANTS r1, r2, p1

MCRun  == {r1, r2}
MCPids == {p1}
MCPid  == [r \in MCRun |-> p1]

Btf    == <<"--", "btf", "=", "b">>
Object == <<"x">>
Sink   == <<"-", "o", "out">>
Wordy  == <<"--", "explain">>
Help   == <<"--", "help">>
File   == <<Btf, Sink, Object>>

Arguments ==
  {<<"--">>, Help, <<"--", "verbose">>, <<"--", "quiet">>, Wordy, <<"--", "nope">>,
   <<"--", "btf">>, Btf, <<"--", "btf", "=">>,
   <<"--", "output">>, <<"--", "output", "=", "out">>, <<"--", "output", "=">>,
   <<"-">>, <<"-", "v", "q">>, <<"-", "q", "v", "o", "out">>, <<"-", "o">>, <<"-", "v", "o">>,
   <<"-", "o", "b">>, <<"-", "z">>, <<"-", "V">>, Object, <<>>}
Some  == {<<a>> : a \in Arguments} \cup {<<a, b>> : a, b \in Arguments}
Lines == {<<>>} \cup Some \cup {s \o <<Btf, Object>> : s \in Some}

Both(first, second) == [r \in MCRun |-> IF r = r1 THEN first ELSE second]
MCCommands ==
  {Both(c, File) : c \in {File, Append(Append(File, Wordy), Object), <<Help>>,
                          <<Btf, Wordy, Object>>, <<Btf, Object, Object>>}}
    \cup {Both(l, <<>>) : l \in Lines}
=============================================================================
