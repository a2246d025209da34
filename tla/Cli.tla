-------------------------------- MODULE Cli --------------------------------
(***************************************************************************)
(* cli.c: mch_cli_parse.  An argument is the sequence of its parts: a long *)
(* option is <<"--", name>> or <<"--", name, "=", value>>, a group of      *)
(* short options <<"-", letter, ...>>, where a value may follow "o"; any   *)
(* other argument is one word, or none for the empty one.                  *)
(***************************************************************************)
EXTENDS Naturals, Sequences, FiniteSets
Seqs == INSTANCE SequencesExt

\* No path: a null pointer, which no argument is.
NULL == <<"NULL">>

Switches == {"help", "version", "verbose", "quiet", "stats", "explain", "expand-pointers"}
ShortSwitches == [h |-> "help", V |-> "version", v |-> "verbose", q |-> "quiet"]

\* mch_cli_options_init
NoOptions == [btf |-> NULL, output |-> NULL, objects |-> <<>>, verbose |-> 0, quiet |-> FALSE,
              on |-> {}]

\* Where the parser is: wants is the option that takes the next argument.
AtFirst == [next |-> 1, opts |-> NoOptions, wants |-> "", ended |-> FALSE, failed |-> FALSE]

Error(s) == [s EXCEPT !.failed = TRUE]

QuietForgetsNothing(s, name) ==                                    \* faulty variant
  CASE name = "verbose" -> [s EXCEPT !.opts.quiet = FALSE, !.opts.verbose = @ + 1]
    [] name = "quiet"   -> [s EXCEPT !.opts.quiet = TRUE]
    [] OTHER            -> [s EXCEPT !.opts.on = @ \cup {name}]

Switch(s, name) ==
  CASE name = "verbose" -> [s EXCEPT !.opts.quiet = FALSE, !.opts.verbose = @ + 1]
    [] name = "quiet"   -> [s EXCEPT !.opts.quiet = TRUE, !.opts.verbose = 0]
    [] OTHER            -> [s EXCEPT !.opts.on = @ \cup {name}]

\* set_btf_path and set_output_path
SetPath(s, which, path) ==
  IF s.opts[which] # NULL \/ (which = "output" /\ path = <<>>) THEN Error(s)
  ELSE [s EXCEPT !.opts[which] = path, !.wants = ""]

AddObject(s, path) == [s EXCEPT !.opts.objects = Append(@, path)]

LongOption(s, arg) ==
  IF arg[2] \in Switches /\ Len(arg) = 2 THEN Switch(s, arg[2])
  ELSE IF arg[2] \in {"btf", "output"}
    THEN IF Len(arg) = 2 THEN [s EXCEPT !.wants = arg[2]]
         ELSE SetPath(s, arg[2], SubSeq(arg, 4, Len(arg)))
  ELSE Error(s)

\* The letters up to "o"; what follows it is the value.
ShortOptions(s, arg) ==
  LET os == {k \in 2 .. Len(arg) : arg[k] = "o"}
      o  == IF os = {} THEN Len(arg) + 1 ELSE CHOOSE k \in os : \A j \in os : k <= j
      Letter(t, c) == IF t.failed \/ c \notin DOMAIN ShortSwitches THEN Error(t)
                      ELSE Switch(t, ShortSwitches[c])
      before == Seqs!FoldLeft(Letter, s, SubSeq(arg, 2, o - 1))
  IN IF before.failed \/ os = {} THEN before
     ELSE IF o = Len(arg) THEN [before EXCEPT !.wants = "output"]
     ELSE SetPath(before, "output", SubSeq(arg, o + 1, Len(arg)))

Argument(state, arg) ==
  LET s == [state EXCEPT !.next = @ + 1]
  IN IF s.wants # "" THEN SetPath(s, s.wants, arg)
     ELSE IF s.ended THEN AddObject(s, arg)
     ELSE IF arg = <<"--">> THEN [s EXCEPT !.ended = TRUE]
     ELSE IF Len(arg) > 1 /\ arg[1] = "--" THEN LongOption(s, arg)
     ELSE IF Len(arg) > 1 /\ arg[1] = "-" THEN ShortOptions(s, arg)
     ELSE AddObject(s, arg)

Informs(opts) == {"help", "version"} \cap opts.on # {}

\* What the options have to fulfil together; --help and --version are good alone.
Complete(opts) ==
  \/ Informs(opts)
  \/ /\ opts.btf \notin {NULL, <<>>}
     /\ opts.objects # <<>>
     /\ opts.output # opts.btf
     /\ opts.output \notin Seqs!ToSet(opts.objects)

\* The value of mch_cli_parse when every argument is read, and the options that count.
Accepted(s) == ~ s.failed /\ s.wants = "" /\ Complete(s.opts)
Taken(s)    == IF Accepted(s) THEN s.opts ELSE NoOptions

-----------------------------------------------------------------------------
(***************************************************************************)
(* The same from the rules of CLI.md, by the part each argument plays.     *)
(***************************************************************************)
WantsValue(arg) == \/ arg \in {<<"--", "btf">>, <<"--", "output">>}
                   \/ Len(arg) > 1 /\ arg[1] = "-" /\ \A k \in 2 .. Len(arg) : arg[k] = "o" <=> k = Len(arg)

Documented(argv) ==
  LET Part[i \in 0 .. Len(argv)] ==
        IF i = 0 THEN "program"
        ELSE IF Part[i - 1] = "option" /\ WantsValue(argv[i - 1]) THEN "value"
        ELSE IF \E k \in 1 .. i - 1 : Part[k] = "end" THEN "object"
        ELSE IF argv[i] = <<"--">> THEN "end"
        ELSE IF Len(argv[i]) > 1 /\ argv[i][1] \in {"-", "--"} THEN "option"
        ELSE "object"
      Playing(part) == {i \in DOMAIN argv : Part[i] = part}
      \* The names of the options of an argument, with those that take a value.
      Names(arg) ==
        IF arg[1] = "--" THEN <<arg[2]>>
        ELSE LET os == {k \in 2 .. Len(arg) : arg[k] = "o"}
                 last == IF os = {} THEN Len(arg) ELSE CHOOSE k \in os : \A j \in os : k <= j
             IN [k \in 1 .. last - 1 |-> IF arg[k + 1] = "o" THEN "output"
                                         ELSE IF arg[k + 1] \in DOMAIN ShortSwitches
                                         THEN ShortSwitches[arg[k + 1]] ELSE "?"]
      Attached(arg) == IF arg[1] = "--" THEN SubSeq(arg, 4, Len(arg))
                       ELSE SubSeq(arg, Len(Names(arg)) + 2, Len(arg))
      names == Seqs!FlattenSeq([i \in DOMAIN argv |-> IF Part[i] = "option" THEN Names(argv[i]) ELSE <<>>])
      Values(which) == {<<i, IF WantsValue(argv[i]) THEN argv[i + 1] ELSE Attached(argv[i])>> :
                          i \in {k \in Playing("option") : which \in Seqs!ToSet(Names(argv[k]))
                                                           /\ (WantsValue(argv[k]) => k < Len(argv))}}
      Value(which) == IF Values(which) = {} THEN NULL ELSE (CHOOSE v \in Values(which) : TRUE)[2]
      LastOf(name) == {k \in DOMAIN names : names[k] = name /\ \A j \in k + 1 .. Len(names) : names[j] # name}
      After(name) == {k \in DOMAIN names : \A j \in LastOf(name) : j < k}
      opts == [btf |-> Value("btf"), output |-> Value("output"),
               objects |-> [k \in 1 .. Cardinality(Playing("object")) |->
                              argv[CHOOSE i \in Playing("object") :
                                     Cardinality({j \in Playing("object") : j <= i}) = k]],
               verbose |-> Cardinality({k \in After("quiet") : names[k] = "verbose"}),
               quiet |-> \E k \in LastOf("quiet") : \A j \in LastOf("verbose") : j < k,
               on |-> Seqs!ToSet(names) \ {"verbose", "quiet", "btf", "output"}]
      good == /\ Seqs!ToSet(names) \subseteq Switches \cup {"btf", "output"}
              /\ \A i \in Playing("option") : /\ argv[i][1] = "--" /\ argv[i][2] \in Switches => Len(argv[i]) = 2
                                              /\ WantsValue(argv[i]) => i < Len(argv)
              /\ \A which \in {"btf", "output"} : Cardinality(Values(which)) <= 1
              /\ opts.output # <<>>
              /\ \/ {"help", "version"} \cap opts.on # {}
                 \/ /\ opts.btf \notin {NULL, <<>>} /\ opts.objects # <<>>
                    /\ opts.output \notin {opts.btf} \cup Seqs!ToSet(opts.objects)
  IN [ok |-> good, opts |-> IF good THEN opts ELSE NoOptions]
=============================================================================
