---------------------------- MODULE OutputFile ----------------------------
(***************************************************************************)
(* main.c: open_temp_output and write_header_to_path, for several          *)
(* invocations that write to the same path at the same time.               *)
(*                                                                         *)
(* An invocation creates <path>.tmp.<pid>.<attempt>, emits the header into *)
(* it through a stdio stream, closes it and renames it over the path.      *)
(* Invocations may have the same pid: pids are reused after a crash, and   *)
(* two pid namespaces may share a directory.  An invocation may be killed  *)
(* at any time, which leaves its temporary file behind.                    *)
(*                                                                         *)
(* The header reaches the file in Blocks writes: stdio writes a block when *)
(* its buffer is full, and fclose writes the last one.  Any system call    *)
(* may fail.  A write that fails during the emission sets the error flag   *)
(* of the stream and loses its block.  The directory may hold temporary    *)
(* files of earlier invocations that were killed.                          *)
(***************************************************************************)
EXTENDS Naturals

CONSTANTS
  Run,          \* the invocations
  Pids,         \* process ids
  Pid,          \* Pid[r]: the process id of invocation r
  MaxAttempts,  \* temporary names tried: 128 in open_temp_output
  Blocks,       \* blocks of a complete header
  Absent,       \* no file of that name
  Old           \* a file that was there before

ASSUME PidAssumption == Pid \in [Run -> Pids]
ASSUME SizeAssumption == MaxAttempts \in Nat \ {0} /\ Blocks \in Nat \ {0}

Content == [by : Run, blocks : 0 .. Blocks]

ASSUME FileAssumption == /\ Absent \notin Content \cup {Old} \cup Run
                         /\ Old \notin Content \cup Run

VARIABLES
  out,          \* what the output path holds
  temp,         \* temp[<<pid, attempt>>]: what the temporary path holds
  pc,           \* pc[r]: where invocation r is
  attempt,      \* attempt[r]: number of the temporary name of r
  emitted,      \* emitted[r]: blocks that the emission has written or lost
  ferror,       \* ferror[r]: the error flag of the stream
  rc,           \* rc[r]: the local rc is -1
  message,      \* message[r]: the struct mch_error has a message
  unremoved     \* the invocations whose remove failed (history)

stream == <<emitted, ferror, rc>>
vars   == <<out, temp, pc, attempt, stream, message, unremoved>>

Names   == Pids \X (0 .. MaxAttempts - 1)
Name(r) == <<Pid[r], attempt[r]>>

\* "ok" and "error": write_header_to_path has returned 0 or -1.
Stages == {"idle", "open", "fdopen", "emit", "close", "rename", "remove", "ok", "error",
           "killed"}
\* The stages between the creation of the temporary file and its end.
Owning == {"fdopen", "emit", "close", "rename", "remove"}
Ended  == {"ok", "error", "killed"}

Header(r) == [by |-> r, blocks |-> Blocks]
Headers   == {Header(r) : r \in Run}

Goto(r, stage) == pc' = [pc EXCEPT ![r] = stage]
SetError(r)    == message' = [message EXCEPT ![r] = TRUE]

Init ==
  /\ out \in {Absent, Old}
  /\ temp \in [Names -> {Absent, Old}]
  /\ pc = [r \in Run |-> "idle"]
  /\ attempt = [r \in Run |-> 0]
  /\ emitted = [r \in Run |-> 0]
  /\ ferror = [r \in Run |-> FALSE]
  /\ rc = [r \in Run |-> FALSE]
  /\ message = [r \in Run |-> FALSE]
  /\ unremoved = {}

(***************************************************************************)
(* Faulty variants of the actions below, one for each mistake that the     *)
(* properties are there to exclude; they take no part in the model.        *)
(***************************************************************************)
CreateTruncating(r) ==
  /\ pc[r] = "open"
  /\ attempt[r] < MaxAttempts
  /\ temp' = [temp EXCEPT ![Name(r)] = [by |-> r, blocks |-> 0]]
  /\ Goto(r, "fdopen")
  /\ UNCHANGED <<out, attempt, stream, message, unremoved>>

NameTakenForever(r) ==
  /\ pc[r] = "open"
  /\ attempt[r] < MaxAttempts
  /\ temp[Name(r)] # Absent
  /\ attempt' = [attempt EXCEPT ![r] = (@ + 1) % MaxAttempts]
  /\ UNCHANGED <<out, temp, pc, stream, message, unremoved>>

EmitOneMore(r) ==
  /\ pc[r] = "emit"
  /\ emitted[r] < Blocks
  /\ emitted' = [emitted EXCEPT ![r] = @ + 1]
  /\ UNCHANGED <<out, temp, pc, attempt, ferror, rc, message, unremoved>>

EmitIgnoringFerror(r) ==
  /\ pc[r] = "emit"
  /\ emitted[r] = Blocks - 1
  /\ Goto(r, "close")
  /\ UNCHANGED <<out, temp, attempt, stream, message, unremoved>>

RenameFailsUnnoticed(r) ==
  /\ pc[r] = "rename"
  /\ Goto(r, "ok")
  /\ UNCHANGED <<out, temp, attempt, stream, message, unremoved>>

RenameFailsSilently(r) ==
  /\ pc[r] = "rename"
  /\ Goto(r, "remove")
  /\ UNCHANGED <<out, temp, attempt, stream, message, unremoved>>

RenameFailsKeepingTemp(r) ==
  /\ pc[r] = "rename"
  /\ SetError(r)
  /\ Goto(r, "error")
  /\ UNCHANGED <<out, temp, attempt, stream, unremoved>>

-----------------------------------------------------------------------------
\* write_header_to_path is called.
Begin(r) ==
  /\ pc[r] = "idle"
  /\ Goto(r, "open")
  /\ UNCHANGED <<out, temp, attempt, stream, message, unremoved>>

(***************************************************************************)
(* open_temp_output                                                        *)
(***************************************************************************)
\* open with O_CREAT | O_EXCL succeeds.
Create(r) ==
  /\ pc[r] = "open"
  /\ attempt[r] < MaxAttempts
  /\ temp[Name(r)] = Absent
  /\ temp' = [temp EXCEPT ![Name(r)] = [by |-> r, blocks |-> 0]]
  /\ Goto(r, "fdopen")
  /\ UNCHANGED <<out, attempt, stream, message, unremoved>>

\* EEXIST: the name is taken, by a running invocation or by a killed one.
NameTaken(r) ==
  /\ pc[r] = "open"
  /\ attempt[r] < MaxAttempts
  /\ temp[Name(r)] # Absent
  /\ attempt' = [attempt EXCEPT ![r] = @ + 1]
  /\ UNCHANGED <<out, temp, pc, stream, message, unremoved>>

\* Any other error of open, a path that is too long, or no attempt left.
OpenFails(r) ==
  /\ pc[r] = "open"
  /\ SetError(r)
  /\ Goto(r, "error")
  /\ UNCHANGED <<out, temp, attempt, stream, unremoved>>

Fdopen(r) ==
  /\ pc[r] = "fdopen"
  /\ \/ Goto(r, "emit") /\ UNCHANGED message
     \/ Goto(r, "remove") /\ SetError(r)
  /\ UNCHANGED <<out, temp, attempt, stream, unremoved>>

(***************************************************************************)
(* mch_emit_header_with_options, as the file sees it                       *)
(***************************************************************************)
WriteBlock(r) == temp' = [temp EXCEPT ![Name(r)].blocks = @ + 1]

Emit(r) ==
  /\ pc[r] = "emit"
  /\ emitted[r] < Blocks - 1
  /\ emitted' = [emitted EXCEPT ![r] = @ + 1]
  /\ \/ WriteBlock(r) /\ UNCHANGED ferror
     \/ ferror' = [ferror EXCEPT ![r] = TRUE] /\ UNCHANGED temp
  /\ UNCHANGED <<out, pc, attempt, rc, message, unremoved>>

\* The last line is in the buffer: rc = ferror(out) ? -1 : 0, and no message.
EmitReturns(r) ==
  /\ pc[r] = "emit"
  /\ emitted[r] = Blocks - 1
  /\ rc' = [rc EXCEPT ![r] = ferror[r]]
  /\ Goto(r, "close")
  /\ UNCHANGED <<out, temp, attempt, emitted, ferror, message, unremoved>>

\* The emission gives up for a reason of its own (memory, a typedef cycle).
EmitFails(r) ==
  /\ pc[r] = "emit"
  /\ SetError(r)
  /\ rc' = [rc EXCEPT ![r] = TRUE]
  /\ Goto(r, "close")
  /\ UNCHANGED <<out, temp, attempt, emitted, ferror, unremoved>>

(***************************************************************************)
(* The rest of write_header_to_path                                        *)
(***************************************************************************)
\* fclose writes what is left in the buffer; a header cut short stays short.
Close(r) ==
  /\ pc[r] = "close"
  /\ Goto(r, IF rc[r] THEN "remove" ELSE "rename")
  /\ IF rc[r] THEN UNCHANGED temp ELSE WriteBlock(r)
  /\ UNCHANGED <<out, attempt, stream, message, unremoved>>

CloseFails(r) ==
  /\ pc[r] = "close"
  /\ rc' = [rc EXCEPT ![r] = TRUE]
  /\ IF rc[r] THEN UNCHANGED message ELSE SetError(r)
  /\ Goto(r, "remove")
  /\ UNCHANGED <<out, temp, attempt, emitted, ferror, unremoved>>

Rename(r) ==
  /\ pc[r] = "rename"
  /\ out' = temp[Name(r)]
  /\ temp' = [temp EXCEPT ![Name(r)] = Absent]
  /\ Goto(r, "ok")
  /\ UNCHANGED <<attempt, stream, message, unremoved>>

RenameFails(r) ==
  /\ pc[r] = "rename"
  /\ SetError(r)
  /\ Goto(r, "remove")
  /\ UNCHANGED <<out, temp, attempt, stream, unremoved>>

\* remove(tmp_path), whose result is ignored; then return -1.
Remove(r) ==
  /\ pc[r] = "remove"
  /\ \/ temp' = [temp EXCEPT ![Name(r)] = Absent] /\ UNCHANGED unremoved
     \/ unremoved' = unremoved \cup {r} /\ UNCHANGED temp
  /\ Goto(r, "error")
  /\ UNCHANGED <<out, attempt, stream, message>>

\* A signal ends the process: nothing of it runs any more.
Killed(r) ==
  /\ pc[r] \notin Ended
  /\ Goto(r, "killed")
  /\ UNCHANGED <<out, temp, attempt, stream, message, unremoved>>

WriteStep(r) ==
  \/ Create(r) \/ NameTaken(r) \/ OpenFails(r) \/ Fdopen(r)
  \/ Emit(r) \/ EmitReturns(r) \/ EmitFails(r)
  \/ Close(r) \/ CloseFails(r) \/ Rename(r) \/ RenameFails(r) \/ Remove(r)

Next == \E r \in Run : Begin(r) \/ WriteStep(r) \/ Killed(r)

Spec == Init /\ [][Next]_vars

\* Every system call returns and the process is scheduled; nothing makes an
\* invocation start or be killed.
FairSpec == Spec /\ \A r \in Run : WF_vars(WriteStep(r))
-----------------------------------------------------------------------------
TypeOK ==
  /\ out \in {Absent, Old} \cup Content
  /\ temp \in [Names -> {Absent, Old} \cup Content]
  /\ pc \in [Run -> Stages]
  /\ attempt \in [Run -> 0 .. MaxAttempts]
  /\ emitted \in [Run -> 0 .. Blocks - 1]
  /\ ferror \in [Run -> BOOLEAN]
  /\ rc \in [Run -> BOOLEAN]
  /\ message \in [Run -> BOOLEAN]
  /\ unremoved \subseteq Run

(***************************************************************************)
(* The inductive invariant: whose file is behind a temporary name, and how *)
(* much of the header is in the file of an invocation at each stage.       *)
(***************************************************************************)
OwnsTemp(r) == /\ attempt[r] < MaxAttempts
               /\ temp[Name(r)] \in Content
               /\ temp[Name(r)].by = r

Written(r) == temp[Name(r)].blocks

Progress(r) ==
  /\ pc[r] \in {"idle", "open", "fdopen"} => emitted[r] = 0 /\ ~ferror[r] /\ ~rc[r]
  /\ pc[r] = "fdopen" => Written(r) = 0
  /\ pc[r] \in {"emit", "close"} => Written(r) <= emitted[r]
  /\ pc[r] = "emit" /\ ~ferror[r] => Written(r) = emitted[r]
  /\ pc[r] = "close" /\ ~rc[r] => Written(r) = Blocks - 1
  /\ pc[r] = "rename" => Written(r) = Blocks

NamedByOwner == \A n \in Names : temp[n] \in Content =>
                  n = Name(temp[n].by) /\ pc[temp[n].by] \notin {"idle", "open"}

Inv == /\ TypeOK
       /\ \A r \in Run : (pc[r] \in Owning => OwnsTemp(r)) /\ Progress(r)
       /\ NamedByOwner

\* Whoever opens the output path at any time finds the old file or a complete
\* header, whatever the other invocations do and whoever is killed (main.c:82).
OutputIsWhole == out \in {Absent, Old} \cup Headers

\* A temporary file is created, written, renamed and removed by one invocation
\* only, and a file of that name that was there before survives
\* (main.c:33, O_EXCL; cli_smoke.sh:48-53, "stale temp must survive").
OnlyOwnerTouchesTemp ==
  [][\A n \in Names : temp[n] # Absent /\ temp'[n] # temp[n] =>
       temp[n] # Old /\
       LET owner == temp[n].by
       IN /\ pc[owner] \in Owning /\ Name(owner) = n
          /\ pc'[owner] # pc[owner] \/ emitted'[owner] # emitted[owner]]_vars

\* An invocation that has returned leaves no temporary file, unless remove failed
\* (main.c:36-44, 78-87).
NothingLeftBehind ==
  \A n \in Names : temp[n] \notin {Absent, Old} =>
    LET r == temp[n].by IN pc[r] \in Owning \cup {"killed"} \/ r \in unremoved

\* An invocation that was started returns, or is killed; the search for a free
\* name in a directory full of stale files ends too (main.c:23).
Returns == \A r \in Run : pc[r] = "open" ~> pc[r] \in Ended

Result(r) == IF pc[r] \in Ended THEN pc[r] ELSE "pending"
Holder    == CASE out \in Headers       -> out.by
               [] out \in {Absent, Old} -> out
               [] OTHER                 -> "torn"
Abstract  == INSTANCE AtomicOutput
               WITH holder <- Holder, result <- [r \in Run |-> Result(r)]

\* 0 is returned in the step that puts the complete header in place, -1 only if
\* the path was left alone (main.c:72-89).
ImplementsAtomicOutput == Abstract!Spec
=============================================================================
