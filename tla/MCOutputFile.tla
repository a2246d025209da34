--------------------------- MODULE MCOutputFile ---------------------------
(***************************************************************************)
(* Two invocations with the same pid, two temporary names, each of which   *)
(* may be taken by a stale file at the start, and a header of three        *)
(* blocks: enough for names that run out, for a race for the last name and *)
(* for a block lost at the start, in the middle and at the end.            *)
(* Invocations with different pids share no temporary name.                *)
(***************************************************************************)
EXTENDS OutputFile

CONSTANTS r1, r2, p1

MCRun  == {r1, r2}
MCPids == {p1}
MCPid  == [r \in MCRun |-> p1]
=============================================================================
