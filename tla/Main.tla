------------------------------- MODULE Main -------------------------------
(***************************************************************************)
(* main.c: main, for several invocations of the program at the same time.  *)
(*                                                                         *)
(* An invocation parses its command line, loads the base BTF, prepares the *)
(* index, the type set and the requirements, takes the seeds and the CO-RE *)
(* relocations of one object file after the other, computes the closure,   *)
(* emits the header to a file (OutputFile) or to stdout, writes the        *)
(* explanation if asked to, releases what it holds and exits.  Every step  *)
(* may fail; what the steps compute is the matter of the other modules.    *)
(*                                                                         *)
(* stdout is a stream of Blocks blocks like the output file, but nobody    *)
(* closes it: its last block is written when the process exits.            *)
(***************************************************************************)
EXTENDS OutputFile, Cli

CONSTANTS
  MaxObjects,   \* bound on the object files of an invocation
  Commands      \* the command lines considered, one for each invocation

\* What decides the control flow: help or version, or the sink of the header,
\* --explain, and the number of object files.
Options == [mode : {"info", "file", "stdout"}, explain : BOOLEAN, objects : 0 .. MaxObjects]

Control(o) == [mode |-> IF Informs(o) THEN "info"
                        ELSE IF o.output # NULL THEN "file" ELSE "stdout",
               explain |-> "explain" \in o.on,
               objects |-> Len(o.objects)]

ASSUME CommandAssumption == /\ MaxObjects \in Nat \ {0}
                            /\ \A c \in Commands : DOMAIN c = Run

VARIABLES
  argv,       \* argv[r]: the command line until it is parsed
  parser,     \* parser[r]: what mch_cli_parse has made of the arguments so far
  opts,       \* opts[r]: the options that decide the control flow (struct mch_cli_options)
  stage,      \* stage[r]: where main is
  object,     \* object[r]: object files done
  held,       \* held[r]: what has to be released
  status,     \* status[r]: main's rc, the exit code
  sent,       \* sent[r]: blocks that the emission has written to stdout or lost
  received,   \* received[r]: blocks that the reader of stdout has got
  lost        \* lost[r]: the error flag of stdout

stdout   == <<sent, received, lost>>
command  == <<argv, parser, opts>>
locals   == <<command, stage, object, held, status, stdout>>
mainVars == <<vars, locals>>

Setup == {"base", "index", "set", "requirements"}
\* What main releases itself (opts.objects is the array of object paths), and what it may hold.
OwnedByMain == Setup \cup {"opts.objects"}
Resources   == OwnedByMain \cup {"object"}
MainStages == {"idle", "parse", "load", "seeds", "relos", "closure", "file", "stdout",
               "explain", "out", "exit", "killed"} \cup Setup
Over == {"exit", "killed"}

\* What follows a step of the preparation that succeeds.
Following == [base |-> "index", index |-> "set", set |-> "requirements",
              requirements |-> "load"]

MainInit ==
  /\ Init
  /\ argv \in Commands
  /\ parser = [r \in Run |-> AtFirst]
  /\ opts = [r \in Run |-> Control(NoOptions)]
  /\ stage = [r \in Run |-> "idle"]
  /\ object = [r \in Run |-> 0]
  /\ held = [r \in Run |-> {}]
  /\ status = [r \in Run |-> 1]
  /\ sent = [r \in Run |-> 0]
  /\ received = [r \in Run |-> 0]
  /\ lost = [r \in Run |-> FALSE]

Proceed(r, s) == stage' = [stage EXCEPT ![r] = s]

\* An error with a message, and goto out.
GiveUp(r) == /\ SetError(r)
             /\ Proceed(r, "out")
             /\ UNCHANGED <<out, temp, pc, attempt, stream, unremoved>>

(***************************************************************************)
(* Faulty variants; they take no part in the model.                        *)
(***************************************************************************)
SeedsFailKeepingObject(r) ==
  /\ stage[r] = "seeds"
  /\ GiveUp(r)
  /\ UNCHANGED <<command, object, held, status, stdout>>

NextObjectOnceMore(r) ==
  /\ stage[r] = "relos"
  /\ object' = [object EXCEPT ![r] = @ + 1]
  /\ held' = [held EXCEPT ![r] = @ \ {"object"}]
  /\ Proceed(r, IF object[r] <= opts[r].objects THEN "load" ELSE "closure")
  /\ UNCHANGED <<vars, command, status, stdout>>

SameObjectAgain(r) ==
  /\ stage[r] = "relos"
  /\ held' = [held EXCEPT ![r] = @ \ {"object"}]
  /\ Proceed(r, "load")
  /\ UNCHANGED <<vars, command, object, status, stdout>>

FileResultIgnored(r) ==
  /\ stage[r] = "file"
  /\ pc[r] \in {"ok", "error"}
  /\ Proceed(r, "explain")
  /\ UNCHANGED <<vars, command, object, held, status, stdout>>

-----------------------------------------------------------------------------
Start(r) ==
  /\ stage[r] = "idle"
  /\ Proceed(r, "parse")
  /\ UNCHANGED <<vars, command, object, held, status, stdout>>

Unread(r) == stage[r] = "parse" /\ ~ parser[r].failed /\ parser[r].next <= Len(argv[r])
Read(r)   == stage[r] = "parse" /\ ~ Unread(r)
Reading(r) == Argument(parser[r], argv[r][parser[r].next])
AddsObject(r) == Reading(r).opts.objects # parser[r].opts.objects

\* One pass of the loop of mch_cli_parse; add_object allocates the array or makes it grow.
ReadArgument(r) ==
  /\ Unread(r)
  /\ parser' = [parser EXCEPT ![r] = Reading(r)]
  /\ held' = [held EXCEPT ![r] = IF AddsObject(r) THEN @ \cup {"opts.objects"} ELSE @]
  /\ UNCHANGED <<vars, argv, opts, stage, object, status, stdout>>

\* The command line has been read; main goes by the options from there on.
TakeOptions(r, o) == /\ opts' = [opts EXCEPT ![r] = Control(o)]
                     /\ argv' = [argv EXCEPT ![r] = <<>>]
                     /\ parser' = [parser EXCEPT ![r] = AtFirst]

\* mch_cli_options_destroy
DestroyOptions(r) == held' = [held EXCEPT ![r] = @ \ {"opts.objects"}]

\* The options are refused, or there is no memory for the path of an object: the error is
\* printed, the paths read so far are released, and main returns 2.
ParseFails(r) ==
  /\ \/ Read(r) /\ ~ Accepted(parser[r])
     \/ Unread(r) /\ AddsObject(r)
  /\ SetError(r)
  /\ TakeOptions(r, NoOptions)
  /\ status' = [status EXCEPT ![r] = 2]
  /\ Proceed(r, "exit")
  /\ DestroyOptions(r)
  /\ UNCHANGED <<out, temp, pc, attempt, stream, unremoved, object, stdout>>

\* --help and --version print and return 0 before anything but paths is acquired.
Inform(r) ==
  /\ Read(r) /\ Accepted(parser[r])
  /\ Informs(parser[r].opts)
  /\ TakeOptions(r, parser[r].opts)
  /\ status' = [status EXCEPT ![r] = 0]
  /\ Proceed(r, "exit")
  /\ DestroyOptions(r)
  /\ UNCHANGED <<vars, object, stdout>>

Parse(r) ==
  /\ Read(r) /\ Accepted(parser[r])
  /\ ~ Informs(parser[r].opts)
  /\ TakeOptions(r, parser[r].opts)
  /\ Proceed(r, "base")
  /\ UNCHANGED <<vars, object, held, status, stdout>>

\* mch_load_base_btf, mch_btf_index_init, mch_type_set_init, mch_requirements_init.
Prepare(r) ==
  /\ stage[r] \in Setup
  /\ held' = [held EXCEPT ![r] = @ \cup {stage[r]}]
  /\ Proceed(r, Following[stage[r]])
  /\ UNCHANGED <<vars, command, object, status, stdout>>

PrepareFails(r) ==
  /\ stage[r] \in Setup
  /\ GiveUp(r)
  /\ UNCHANGED <<command, object, held, status, stdout>>

(***************************************************************************)
(* One pass of the loop over the object files.  On each failure the object *)
(* is destroyed before goto out, which does not know of it.                *)
(***************************************************************************)
LoadObject(r) ==
  /\ stage[r] = "load"
  /\ held' = [held EXCEPT ![r] = @ \cup {"object"}]
  /\ Proceed(r, "seeds")
  /\ UNCHANGED <<vars, command, object, status, stdout>>

LoadFails(r) ==
  /\ stage[r] = "load"
  /\ GiveUp(r)
  /\ UNCHANGED <<command, object, held, status, stdout>>

Seeds(r) ==
  /\ stage[r] = "seeds"
  /\ Proceed(r, "relos")
  /\ UNCHANGED <<vars, command, object, held, status, stdout>>

SeedsFail(r) ==
  /\ stage[r] = "seeds"
  /\ held' = [held EXCEPT ![r] = @ \ {"object"}]
  /\ GiveUp(r)
  /\ UNCHANGED <<command, object, status, stdout>>

RelosFail(r) ==
  /\ stage[r] = "relos"
  /\ held' = [held EXCEPT ![r] = @ \ {"object"}]
  /\ GiveUp(r)
  /\ UNCHANGED <<command, object, status, stdout>>

\* The relocations are done: destroy the object, i++.
NextObject(r) ==
  /\ stage[r] = "relos"
  /\ object' = [object EXCEPT ![r] = @ + 1]
  /\ held' = [held EXCEPT ![r] = @ \ {"object"}]
  /\ Proceed(r, IF object[r] + 1 < opts[r].objects THEN "load" ELSE "closure")
  /\ UNCHANGED <<vars, command, status, stdout>>

CloseGraph(r) ==
  /\ stage[r] = "closure"
  /\ Proceed(r, opts[r].mode)
  /\ UNCHANGED <<vars, command, object, held, status, stdout>>

ClosureFails(r) ==
  /\ stage[r] = "closure"
  /\ GiveUp(r)
  /\ UNCHANGED <<command, object, held, status, stdout>>

(***************************************************************************)
(* The output                                                              *)
(***************************************************************************)
WriteFile(r) ==
  /\ stage[r] = "file"
  /\ Begin(r) \/ WriteStep(r)
  /\ UNCHANGED locals

FileWritten(r) ==
  /\ stage[r] = "file"
  /\ pc[r] \in {"ok", "error"}
  /\ Proceed(r, IF pc[r] = "ok" THEN "explain" ELSE "out")
  /\ UNCHANGED <<vars, command, object, held, status, stdout>>

\* A full buffer is written to stdout, or lost.
SendBlock(r) ==
  /\ stage[r] = "stdout"
  /\ sent[r] < Blocks - 1
  /\ sent' = [sent EXCEPT ![r] = @ + 1]
  /\ \/ received' = [received EXCEPT ![r] = @ + 1] /\ UNCHANGED lost
     \/ lost' = [lost EXCEPT ![r] = TRUE] /\ UNCHANGED received
  /\ UNCHANGED <<vars, command, stage, object, held, status>>

\* The emission returns ferror(stdout) without a message.
Sent(r) ==
  /\ stage[r] = "stdout"
  /\ sent[r] = Blocks - 1
  /\ Proceed(r, IF lost[r] THEN "out" ELSE "explain")
  /\ UNCHANGED <<vars, command, object, held, status, stdout>>

SendFails(r) ==
  /\ stage[r] = "stdout"
  /\ GiveUp(r)
  /\ UNCHANGED <<command, object, held, status, stdout>>

\* The explanation, if it is asked for, and the statistics; then rc = 0.
Explain(r) ==
  /\ stage[r] = "explain"
  /\ status' = [status EXCEPT ![r] = 0]
  /\ Proceed(r, "out")
  /\ UNCHANGED <<vars, command, object, held, stdout>>

ExplainFails(r) ==
  /\ stage[r] = "explain"
  /\ opts[r].explain
  /\ GiveUp(r)
  /\ UNCHANGED <<command, object, held, status, stdout>>

(***************************************************************************)
(* The label out: what main itself holds is released and main returns.     *)
(* The C library then writes the last block of stdout, and nobody learns   *)
(* whether it can.                                                         *)
(***************************************************************************)
Exit(r) ==
  /\ stage[r] = "out"
  /\ held' = [held EXCEPT ![r] = @ \ OwnedByMain]
  /\ Proceed(r, "exit")
  /\ IF status[r] = 0 /\ opts[r].mode = "stdout"
       THEN received' \in {received, [received EXCEPT ![r] = @ + 1]}
       ELSE UNCHANGED received
  /\ UNCHANGED <<vars, command, object, status, sent, lost>>

\* A signal ends the process; the kernel takes back what it held.
Kill(r) ==
  /\ stage[r] \notin {"idle"} \cup Over
  /\ Proceed(r, "killed")
  /\ held' = [held EXCEPT ![r] = {}]
  /\ IF pc[r] \in Ended THEN UNCHANGED vars ELSE Killed(r)
  /\ UNCHANGED <<command, object, status, stdout>>

MainStep(r) ==
  \/ ReadArgument(r) \/ Inform(r) \/ Parse(r) \/ ParseFails(r) \/ Prepare(r) \/ PrepareFails(r)
  \/ LoadObject(r) \/ LoadFails(r) \/ Seeds(r) \/ SeedsFail(r) \/ RelosFail(r)
  \/ NextObject(r) \/ CloseGraph(r) \/ ClosureFails(r)
  \/ WriteFile(r) \/ FileWritten(r) \/ SendBlock(r) \/ Sent(r) \/ SendFails(r)
  \/ Explain(r) \/ ExplainFails(r) \/ Exit(r)

MainNext == \E r \in Run : Start(r) \/ MainStep(r) \/ Kill(r)

MainSpec == MainInit /\ [][MainNext]_mainVars

\* The process is scheduled and no system call blocks for ever.
MainFairSpec == MainSpec /\ \A r \in Run : WF_mainVars(MainStep(r))
-----------------------------------------------------------------------------
MainTypeOK ==
  /\ opts \in [Run -> Options]
  /\ stage \in [Run -> MainStages]
  /\ object \in [Run -> 0 .. MaxObjects]
  /\ held \in [Run -> SUBSET Resources]
  /\ status \in [Run -> 0 .. 2]
  /\ sent \in [Run -> 0 .. Blocks - 1]
  /\ received \in [Run -> 0 .. Blocks]
  /\ lost \in [Run -> BOOLEAN]

\* Whatever the options and their order, the program does what the rules of CLI.md say
\* of its command line: which argument is a value or an object, which of several options
\* wins, what is a usage error (CLI.md:40-250; cli.c:66-217).
CommandLineIsObeyed ==
  \A r \in Run : Read(r) => [ok |-> Accepted(parser[r]), opts |-> Taken(parser[r])] = Documented(argv[r])

\* A build that looks at the exit code is not misled about the file: 0 means that
\* this invocation has put its header in place, anything else that it has not,
\* unless only the explanation failed (main.c:205-216).
ExitCodeTellsOutput ==
  \A r \in Run : stage[r] = "exit" /\ opts[r].mode = "file" =>
    /\ status[r] = 0 => pc[r] = "ok"
    /\ status[r] # 0 /\ pc[r] = "ok" => opts[r].explain /\ message[r]

\* Whichever step fails, everything acquired is released before main returns: the
\* object file too, which the label out does not know (main.c:164-178, 237-246), and
\* the paths of the objects, on each of the four ways out (main.c:118, 125, 130, 245).
NothingHeldAtExit == \A r \in Run : stage[r] = "exit" => held[r] = {}

\* An invocation that starts comes to an end, for any number of object files.
MainReturns == \A r \in Run : stage[r] = "parse" ~> stage[r] \in Over

\* Every failing exit has told its reason on stderr (CLI.md:344), but for one: a
\* write that failed during the emission is known to ferror only (emitter.c:876).
FailureIsReported ==
  \A r \in Run : stage[r] = "exit" /\ status[r] # 0 /\ ~ message[r] => ferror[r] \/ lost[r]

\* A header written to stdout is complete when the program reports success
\* (SPEC.md:604).
SuccessMeansCompleteHeader ==
  \A r \in Run : stage[r] = "exit" /\ status[r] = 0 /\ opts[r].mode = "stdout" => received[r] = Blocks
=============================================================================
