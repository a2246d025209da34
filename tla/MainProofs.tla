---------------------------- MODULE MainProofs ----------------------------
(***************************************************************************)
(* Proofs about OutputFile and Main for any number of invocations, any     *)
(* assignment of pids to them, any number of temporary names, any size of  *)
(* header, any number of object files and any command lines: the output    *)
(* path always holds the old file or a complete header, a temporary file   *)
(* belongs to one invocation, everything acquired is released, the exit    *)
(* code tells what became of the file, every failure is reported, and the  *)
(* whole program replaces its output file atomically.                      *)
(***************************************************************************)
EXTENDS Main, TLAPS

-----------------------------------------------------------------------------
\* Writing the output file

LEMMA InitInv == Init => Inv
<1> SUFFICES ASSUME Init PROVE Inv
  OBVIOUS
<1>1. TypeOK
  BY SizeAssumption DEF Init, TypeOK, Stages
<1>2. NamedByOwner
  BY FileAssumption DEF Init, NamedByOwner
<1> QED BY <1>1, <1>2 DEF Init, Inv, Owning, Progress

\* The temporary name of an invocation that still has an attempt is a name.
LEMMA NameIsName ==
  ASSUME TypeOK, NEW r \in Run, attempt[r] < MaxAttempts
  PROVE  Name(r) \in Names
<1>1. attempt[r] \in 0 .. MaxAttempts - 1
  BY SizeAssumption DEF TypeOK
<1> QED BY <1>1, PidAssumption DEF Name, Names

(***************************************************************************)
(* A step of s leaves the files of the other invocations alone if it       *)
(* writes to the file of s or to a name that is free.                      *)
(***************************************************************************)
Alone(s) ==
  /\ \A r \in Run \ {s} : /\ pc'[r] = pc[r] /\ attempt'[r] = attempt[r]
                          /\ emitted'[r] = emitted[r] /\ ferror'[r] = ferror[r]
                          /\ rc'[r] = rc[r]
  /\ \A n \in Names : \/ temp'[n] = temp[n]
                      \/ n = Name(s) /\ (temp[n] = Absent \/ OwnsTemp(s))

LEMMA OthersKept ==
  ASSUME Inv, NEW s \in Run, Alone(s), NEW r \in Run \ {s}
  PROVE  /\ (pc[r] \in Owning => OwnsTemp(r))'
         /\ Progress(r)'
<1>1. Name(r)' = Name(r) /\ pc'[r] = pc[r] /\ attempt'[r] = attempt[r]
  BY DEF Alone, Name
<1>2. pc[r] \in Owning => temp'[Name(r)] = temp[Name(r)]
  <2> SUFFICES ASSUME pc[r] \in Owning PROVE temp'[Name(r)] = temp[Name(r)]
    OBVIOUS
  <2>1. OwnsTemp(r) /\ Name(r) \in Names
    BY NameIsName DEF Inv, OwnsTemp
  <2>2. temp[Name(r)] # Absent /\ temp[Name(r)].by = r
    BY <2>1, FileAssumption DEF OwnsTemp
  <2> QED BY <2>1, <2>2 DEF Alone, OwnsTemp
<1>3. (pc[r] \in Owning => OwnsTemp(r))'
  BY <1>1, <1>2 DEF Inv, OwnsTemp, Owning
<1>4. Progress(r)'
  BY <1>1, <1>2 DEF Inv, Progress, Written, Alone, Owning
<1> QED BY <1>3, <1>4

\* What is left to show of a step of s that changes no temporary file.
LEMMA SameTemp ==
  ASSUME Inv, NEW s \in Run, UNCHANGED temp,
         \A r \in Run \ {s} : attempt'[r] = attempt[r] /\ pc'[r] = pc[r],
         \/ pc[s] \in {"idle", "open"}
         \/ attempt'[s] = attempt[s] /\ pc'[s] \notin {"idle", "open"}
  PROVE  NamedByOwner'
<1> SUFFICES ASSUME NEW n \in Names, temp[n] \in Content
             PROVE  (n = Name(temp[n].by) /\ pc[temp[n].by] \notin {"idle", "open"})'
  BY DEF NamedByOwner
<1>1. temp[n].by \in Run
  BY DEF Content
<1>2. n = Name(temp[n].by) /\ pc[temp[n].by] \notin {"idle", "open"}
  BY DEF Inv, NamedByOwner
<1>3. attempt'[temp[n].by] = attempt[temp[n].by] /\ pc'[temp[n].by] \notin {"idle", "open"}
  BY <1>1, <1>2
<1> QED BY <1>2, <1>3 DEF Name

\* Steps that change no temporary file.
LEMMA QuietInv ==
  ASSUME Inv, NEW s \in Run,
         \/ Begin(s) \/ NameTaken(s) \/ OpenFails(s) \/ Fdopen(s) \/ EmitReturns(s)
         \/ EmitFails(s) \/ CloseFails(s) \/ RenameFails(s) \/ Killed(s)
  PROVE  Inv'
<1> USE DEF Goto, SetError, stream
<1>1. UNCHANGED temp /\ TypeOK
  BY DEF Inv, Begin, NameTaken, OpenFails, Fdopen, EmitReturns, EmitFails, CloseFails,
         RenameFails, Killed
<1>2. TypeOK'
  <2>1. CASE NameTaken(s)
    <3>1. attempt[s] + 1 \in 0 .. MaxAttempts
      BY <1>1, <2>1, SizeAssumption DEF NameTaken, TypeOK
    <3> QED BY <1>1, <2>1, <3>1 DEF NameTaken, TypeOK
  <2>2. CASE ~NameTaken(s)
    BY <1>1, <2>2 DEF TypeOK, Stages, Begin, OpenFails, Fdopen, EmitReturns, EmitFails,
                     CloseFails, RenameFails, Killed
  <2> QED BY <2>1, <2>2
<1>3. Alone(s)
  <2> SUFFICES ASSUME NEW r \in Run \ {s}
               PROVE  /\ pc'[r] = pc[r] /\ attempt'[r] = attempt[r]
                      /\ emitted'[r] = emitted[r] /\ ferror'[r] = ferror[r]
                      /\ rc'[r] = rc[r]
    BY <1>1 DEF Alone
  <2>1. pc'[r] = pc[r]
    BY <1>1 DEF TypeOK, Begin, NameTaken, OpenFails, Fdopen, EmitReturns, EmitFails,
                CloseFails, RenameFails, Killed
  <2>2. attempt'[r] = attempt[r] /\ emitted'[r] = emitted[r] /\ ferror'[r] = ferror[r]
    BY <1>1 DEF TypeOK, Begin, NameTaken, OpenFails, Fdopen, EmitReturns, EmitFails,
                CloseFails, RenameFails, Killed
  <2>3. rc'[r] = rc[r]
    BY <1>1 DEF TypeOK, Begin, NameTaken, OpenFails, Fdopen, EmitReturns, EmitFails,
                CloseFails, RenameFails, Killed
  <2> QED BY <2>1, <2>2, <2>3
<1>4. NamedByOwner'
  <2>1. \/ pc[s] \in {"idle", "open"}
        \/ attempt'[s] = attempt[s] /\ pc'[s] \notin {"idle", "open"}
    BY <1>1 DEF TypeOK, Begin, NameTaken, OpenFails, Fdopen, EmitReturns, EmitFails,
                CloseFails, RenameFails, Killed
  <2> QED BY <1>1, <1>3, <2>1, SameTemp DEF Alone
<1>5. (pc[s] \in Owning => OwnsTemp(s))' /\ Progress(s)'
  <2>1. CASE Begin(s) \/ NameTaken(s) \/ OpenFails(s) \/ Killed(s)
    BY <1>1, <2>1 DEF Inv, Begin, NameTaken, OpenFails, Killed, TypeOK, Owning, Progress, Ended
  <2>2. CASE Fdopen(s) \/ EmitReturns(s) \/ EmitFails(s) \/ CloseFails(s) \/ RenameFails(s)
    <3>1. pc[s] \in Owning /\ OwnsTemp(s) /\ Name(s)' = Name(s)
      BY <2>2 DEF Inv, Name, Owning, Fdopen, EmitReturns, EmitFails, CloseFails, RenameFails
    <3>2. OwnsTemp(s)' /\ Written(s)' = Written(s)
      BY <1>1, <2>2, <3>1 DEF OwnsTemp, Written, Fdopen, EmitReturns, EmitFails, CloseFails,
                              RenameFails
    <3>3. Progress(s)'
      BY <1>1, <2>2, <3>2, SizeAssumption
      DEF Inv, TypeOK, Progress, Fdopen, EmitReturns, EmitFails, CloseFails, RenameFails
    <3> QED BY <3>2, <3>3
  <2> QED BY <2>1, <2>2
<1> QED BY <1>2, <1>3, <1>4, <1>5, OthersKept DEF Inv

\* What is left to show of a step of s that writes its own file, or creates it.
LEMMA OwnTemp ==
  ASSUME Inv, NEW s \in Run, Alone(s), UNCHANGED attempt,
         temp'[Name(s)] \in Content => temp'[Name(s)].by = s,
         pc'[s] \notin {"idle", "open"}
  PROVE  NamedByOwner'
<1> SUFFICES ASSUME NEW n \in Names, temp'[n] \in Content
             PROVE  n = Name(temp'[n].by) /\ pc'[temp'[n].by] \notin {"idle", "open"}
  BY DEF NamedByOwner, Name
<1>1. CASE n = Name(s)
  BY <1>1
<1>2. CASE n # Name(s)
  <2>1. temp'[n] = temp[n]
    BY <1>2 DEF Alone
  <2>2. temp[n].by \in Run
    BY <2>1 DEF Content
  <2>3. n = Name(temp[n].by) /\ pc[temp[n].by] \notin {"idle", "open"}
    BY <2>1 DEF Inv, NamedByOwner
  <2> QED BY <2>1, <2>2, <2>3 DEF Alone
<1> QED BY <1>1, <1>2

LEMMA CreateInv == ASSUME Inv, NEW s \in Run, Create(s) PROVE Inv'
<1> DEFINE new == [by |-> s, blocks |-> 0]
<1>1. /\ pc[s] = "open" /\ attempt[s] < MaxAttempts /\ temp[Name(s)] = Absent
      /\ temp' = [temp EXCEPT ![Name(s)] = new]
      /\ pc' = [pc EXCEPT ![s] = "fdopen"]
      /\ UNCHANGED <<out, attempt, emitted, ferror, rc, message, unremoved>>
  BY DEF Create, Goto, stream
<1>2. TypeOK /\ Name(s) \in Names /\ new \in Content
  BY <1>1, NameIsName, SizeAssumption DEF Inv, Content
<1>3. /\ temp'[Name(s)] = new /\ pc'[s] = "fdopen"
      /\ \A n \in Names \ {Name(s)} : temp'[n] = temp[n]
  BY <1>1, <1>2 DEF TypeOK
<1>4. TypeOK'
  BY <1>1, <1>2 DEF TypeOK, Stages
<1>5. Alone(s)
  BY <1>1, <1>2, <1>3 DEF Alone, TypeOK
<1>6. NamedByOwner'
  BY <1>1, <1>3, <1>5, OwnTemp
<1>7. Name(s)' = Name(s)
  BY <1>1 DEF Name
<1>8. OwnsTemp(s)' /\ Progress(s)'
  BY <1>1, <1>2, <1>3, <1>7 DEF OwnsTemp, Progress, Written, Inv
<1> QED BY <1>4, <1>5, <1>6, <1>8, OthersKept DEF Inv

\* Writing a block to one's own file.
LEMMA WriteBlockFacts ==
  ASSUME Inv, NEW s \in Run, pc[s] \in Owning, Written(s) < Blocks, WriteBlock(s)
  PROVE  /\ temp' \in [Names -> {Absent, Old} \cup Content]
         /\ temp'[Name(s)] \in Content /\ temp'[Name(s)].by = s
         /\ temp'[Name(s)].blocks = Written(s) + 1
         /\ \A n \in Names \ {Name(s)} : temp'[n] = temp[n]
<1>1. TypeOK /\ OwnsTemp(s) /\ Name(s) \in Names
  BY NameIsName DEF Inv, OwnsTemp
<1> DEFINE c == temp[Name(s)]
           d == [c EXCEPT !.blocks = c.blocks + 1]
<1>2. temp' = [temp EXCEPT ![Name(s)] = d]
  BY DEF WriteBlock
<1>3. c \in Content /\ c.blocks \in 0 .. Blocks /\ c.blocks < Blocks /\ c.by = s
  BY <1>1 DEF OwnsTemp, Content, Written
<1>4. d \in Content /\ d.by = s /\ d.blocks = c.blocks + 1
  BY <1>3, SizeAssumption DEF Content
<1>5. temp'[Name(s)] = d /\ \A n \in Names \ {Name(s)} : temp'[n] = temp[n]
  BY <1>1, <1>2 DEF TypeOK
<1>6. temp' \in [Names -> {Absent, Old} \cup Content]
  BY <1>1, <1>2, <1>4 DEF TypeOK
<1> QED BY <1>4, <1>5, <1>6 DEF Written

LEMMA EmitInv == ASSUME Inv, NEW s \in Run, Emit(s) PROVE Inv'
<1>1. /\ pc[s] = "emit" /\ emitted[s] < Blocks - 1
      /\ emitted' = [emitted EXCEPT ![s] = emitted[s] + 1]
      /\ UNCHANGED <<out, pc, attempt, rc, message, unremoved>>
  BY DEF Emit
<1>2. TypeOK /\ OwnsTemp(s) /\ Name(s) \in Names /\ Written(s) <= emitted[s]
  BY <1>1, NameIsName DEF Inv, Owning, OwnsTemp, Progress
<1>3. emitted[s] \in 0 .. Blocks - 1 /\ Written(s) \in 0 .. Blocks
  BY <1>2 DEF TypeOK, OwnsTemp, Content, Written
<1>4. emitted'[s] = emitted[s] + 1 /\ emitted[s] + 1 \in 0 .. Blocks - 1
  BY <1>1, <1>2, <1>3, SizeAssumption DEF TypeOK
<1>5. Name(s)' = Name(s) /\ Written(s)' = temp'[Name(s)].blocks
  BY <1>1 DEF Name, Written
<1>6. CASE WriteBlock(s) /\ UNCHANGED ferror
  <2>1. /\ temp' \in [Names -> {Absent, Old} \cup Content]
        /\ temp'[Name(s)] \in Content /\ temp'[Name(s)].by = s
        /\ temp'[Name(s)].blocks = Written(s) + 1
        /\ \A n \in Names \ {Name(s)} : temp'[n] = temp[n]
    <3>1. Written(s) < Blocks
      BY <1>1, <1>2, <1>3, SizeAssumption
    <3> QED BY <1>1, <1>6, <3>1, WriteBlockFacts DEF Owning
  <2>2. TypeOK'
    BY <1>1, <1>2, <1>4, <1>6, <2>1 DEF TypeOK
  <2>3. Alone(s)
    BY <1>1, <1>2, <1>6, <2>1 DEF Alone, TypeOK
  <2>4. NamedByOwner'
    BY <1>1, <2>1, <2>3, OwnTemp
  <2>5. OwnsTemp(s)' /\ Progress(s)'
    BY <1>1, <1>2, <1>3, <1>4, <1>5, <1>6, <2>1 DEF OwnsTemp, Progress, Inv
  <2> QED BY <2>2, <2>3, <2>4, <2>5, OthersKept DEF Inv
<1>7. CASE ferror' = [ferror EXCEPT ![s] = TRUE] /\ UNCHANGED temp
  <2>1. TypeOK'
    BY <1>1, <1>2, <1>4, <1>7 DEF TypeOK
  <2>2. Alone(s)
    BY <1>1, <1>2, <1>7 DEF Alone, TypeOK
  <2>3. NamedByOwner'
    BY <1>1, <1>7, <2>2, SameTemp DEF Alone
  <2>4. OwnsTemp(s)' /\ Progress(s)'
    BY <1>1, <1>2, <1>3, <1>4, <1>5, <1>7 DEF OwnsTemp, Progress, Written, TypeOK
  <2> QED BY <2>1, <2>2, <2>3, <2>4, OthersKept DEF Inv
<1> QED BY <1>6, <1>7 DEF Emit

LEMMA CloseInv == ASSUME Inv, NEW s \in Run, Close(s) PROVE Inv'
<1>1. /\ pc[s] = "close"
      /\ pc' = [pc EXCEPT ![s] = IF rc[s] THEN "remove" ELSE "rename"]
      /\ UNCHANGED <<out, attempt, emitted, ferror, rc, message, unremoved>>
  BY DEF Close, Goto, stream
<1>2. TypeOK /\ OwnsTemp(s) /\ Name(s) \in Names
  BY <1>1, NameIsName DEF Inv, Owning, OwnsTemp
<1>3. Name(s)' = Name(s) /\ Written(s)' = temp'[Name(s)].blocks
  BY <1>1 DEF Name, Written
<1>4. CASE rc[s]
  <2>1. UNCHANGED temp /\ pc'[s] = "remove"
    BY <1>1, <1>2, <1>4 DEF Close, TypeOK
  <2>2. TypeOK'
    BY <1>1, <1>2, <1>4, <2>1 DEF TypeOK, Stages
  <2>3. Alone(s)
    BY <1>1, <1>2, <2>1 DEF Alone, TypeOK
  <2>4. NamedByOwner'
    BY <1>1, <2>1, <2>3, SameTemp DEF Alone
  <2>5. OwnsTemp(s)' /\ Progress(s)'
    BY <1>1, <1>2, <1>3, <2>1 DEF OwnsTemp, Progress
  <2> QED BY <2>2, <2>3, <2>4, <2>5, OthersKept DEF Inv
<1>5. CASE ~rc[s]
  <2>1. WriteBlock(s) /\ pc'[s] = "rename" /\ Written(s) = Blocks - 1
    BY <1>1, <1>2, <1>5 DEF Close, TypeOK, Inv, Progress
  <2>2. /\ temp' \in [Names -> {Absent, Old} \cup Content]
        /\ temp'[Name(s)] \in Content /\ temp'[Name(s)].by = s
        /\ temp'[Name(s)].blocks = Blocks
        /\ \A n \in Names \ {Name(s)} : temp'[n] = temp[n]
    <3>1. Written(s) < Blocks /\ Written(s) + 1 = Blocks
      BY <2>1, SizeAssumption
    <3> QED BY <1>1, <2>1, <3>1, WriteBlockFacts DEF Owning
  <2>3. TypeOK'
    BY <1>1, <1>2, <1>5, <2>2 DEF TypeOK, Stages
  <2>4. Alone(s)
    BY <1>1, <1>2, <2>2 DEF Alone, TypeOK
  <2>5. NamedByOwner'
    BY <1>1, <2>1, <2>2, <2>4, OwnTemp
  <2>6. OwnsTemp(s)' /\ Progress(s)'
    BY <1>1, <1>2, <1>3, <2>1, <2>2 DEF OwnsTemp, Progress
  <2> QED BY <2>3, <2>4, <2>5, <2>6, OthersKept DEF Inv
<1> QED BY <1>4, <1>5

\* Rename and Remove end the ownership of the file.
LEMMA RenameInv == ASSUME Inv, NEW s \in Run, Rename(s) PROVE Inv'
<1>1. /\ pc[s] = "rename"
      /\ out' = temp[Name(s)]
      /\ temp' = [temp EXCEPT ![Name(s)] = Absent]
      /\ pc' = [pc EXCEPT ![s] = "ok"]
      /\ UNCHANGED <<attempt, emitted, ferror, rc, message, unremoved>>
  BY DEF Rename, Goto, stream
<1>2. TypeOK /\ OwnsTemp(s) /\ Name(s) \in Names
  BY <1>1, NameIsName DEF Inv, Owning, OwnsTemp
<1>3. /\ temp'[Name(s)] = Absent /\ pc'[s] = "ok"
      /\ \A n \in Names \ {Name(s)} : temp'[n] = temp[n]
  BY <1>1, <1>2 DEF TypeOK
<1>4. TypeOK'
  BY <1>1, <1>2 DEF TypeOK, OwnsTemp, Stages
<1>5. Alone(s)
  BY <1>1, <1>2, <1>3 DEF Alone, TypeOK
<1>6. NamedByOwner'
  BY <1>1, <1>3, <1>5, OwnTemp, FileAssumption
<1>7. (pc[s] \in Owning => OwnsTemp(s))' /\ Progress(s)'
  BY <1>3 DEF Owning, Progress
<1> QED BY <1>4, <1>5, <1>6, <1>7, OthersKept DEF Inv

LEMMA RemoveInv == ASSUME Inv, NEW s \in Run, Remove(s) PROVE Inv'
<1>1. /\ pc[s] = "remove"
      /\ \/ temp' = [temp EXCEPT ![Name(s)] = Absent] /\ UNCHANGED unremoved
         \/ unremoved' = unremoved \cup {s} /\ UNCHANGED temp
      /\ pc' = [pc EXCEPT ![s] = "error"]
      /\ UNCHANGED <<out, attempt, emitted, ferror, rc, message>>
  BY DEF Remove, Goto, stream
<1>2. TypeOK /\ OwnsTemp(s) /\ Name(s) \in Names
  BY <1>1, NameIsName DEF Inv, Owning, OwnsTemp
<1>3. /\ temp'[Name(s)] \in {Absent, temp[Name(s)]} /\ pc'[s] = "error"
      /\ \A n \in Names \ {Name(s)} : temp'[n] = temp[n]
  BY <1>1, <1>2 DEF TypeOK
<1>4. TypeOK'
  BY <1>1, <1>2 DEF TypeOK, Stages
<1>5. Alone(s)
  BY <1>1, <1>2, <1>3 DEF Alone, TypeOK
<1>6. NamedByOwner'
  BY <1>1, <1>2, <1>3, <1>5, OwnTemp, FileAssumption DEF OwnsTemp
<1>7. (pc[s] \in Owning => OwnsTemp(s))' /\ Progress(s)'
  BY <1>3 DEF Owning, Progress
<1> QED BY <1>4, <1>5, <1>6, <1>7, OthersKept DEF Inv

\* Whoever else sets a message, the files are as they were.
LEMMA StutterInv ==
  ASSUME Inv, UNCHANGED <<out, temp, pc, attempt, stream, unremoved>>, message' \in [Run -> BOOLEAN]
  PROVE  Inv'
<1> USE DEF stream
<1>1. TypeOK' /\ NamedByOwner'
  BY DEF Inv, TypeOK, NamedByOwner, Name
<1>2. ASSUME NEW r \in Run PROVE (pc[r] \in Owning => OwnsTemp(r))' /\ Progress(r)'
  BY DEF Inv, OwnsTemp, Progress, Written, Name
<1> QED BY <1>1, <1>2 DEF Inv

LEMMA NextInv == Inv /\ [Next]_vars => Inv'
<1> SUFFICES ASSUME Inv, [Next]_vars PROVE Inv'
  OBVIOUS
<1>1. ASSUME NEW s \in Run, Begin(s) \/ WriteStep(s) \/ Killed(s) PROVE Inv'
  BY <1>1, QuietInv, CreateInv, EmitInv, CloseInv, RenameInv, RemoveInv DEF WriteStep
<1>2. CASE UNCHANGED vars
  BY <1>2, StutterInv DEF vars, Inv, TypeOK
<1> QED BY <1>1, <1>2 DEF Next

\* Names, owners and progress of all invocations stay in step (main.c:20-90).
THEOREM Invariance == Spec => []Inv
BY InitInv, NextInv, PTL DEF Spec

\* Attempts, blocks and stages stay in range: the search stops at MaxAttempts.
THEOREM TypeCorrect == Spec => []TypeOK
<1>1. Inv => TypeOK  BY DEF Inv
<1> QED BY <1>1, Invariance, PTL

\* A rename puts a complete header of the renaming invocation in place.
LEMMA RenamePublishes ==
  ASSUME Inv, NEW s \in Run, Rename(s)
  PROVE  out' = Header(s) /\ pc' = [pc EXCEPT ![s] = "ok"] /\ pc[s] = "rename"
<1>1. pc[s] = "rename" /\ out' = temp[Name(s)] /\ pc' = [pc EXCEPT ![s] = "ok"]
  BY DEF Rename, Goto
<1>2. temp[Name(s)] \in Content /\ temp[Name(s)].by = s /\ temp[Name(s)].blocks = Blocks
  BY <1>1 DEF Inv, Owning, OwnsTemp, Progress, Written
<1> QED BY <1>1, <1>2 DEF Header, Content

\* No other step changes the output path.
LEMMA OnlyRenamePublishes ==
  ASSUME NEW s \in Run, Begin(s) \/ WriteStep(s) \/ Killed(s), ~Rename(s)
  PROVE  out' = out
BY DEF Begin, WriteStep, Killed, Create, NameTaken, OpenFails, Fdopen, Emit, EmitReturns,
       EmitFails, Close, CloseFails, RenameFails, Remove

\* The path holds the old file or a complete header at every moment, for any number
\* of concurrent and killed invocations (main.c:59-90).
THEOREM OutputAlwaysWhole == Spec => []OutputIsWhole
<1>1. Init => OutputIsWhole
  BY DEF Init, OutputIsWhole
<1>2. Inv /\ OutputIsWhole /\ [Next]_vars => OutputIsWhole'
  <2> SUFFICES ASSUME Inv, OutputIsWhole, [Next]_vars PROVE OutputIsWhole'
    OBVIOUS
  <2>1. ASSUME NEW s \in Run, Begin(s) \/ WriteStep(s) \/ Killed(s) PROVE OutputIsWhole'
    <3>1. CASE Rename(s)
      BY <3>1, RenamePublishes DEF OutputIsWhole, Headers
    <3>2. CASE ~Rename(s)
      BY <2>1, <3>2, OnlyRenamePublishes DEF OutputIsWhole
    <3> QED BY <3>1, <3>2
  <2> QED BY <2>1 DEF Next, OutputIsWhole, vars
<1> QED BY <1>1, <1>2, Invariance, PTL DEF Spec

(***************************************************************************)
(* A step that changes a temporary file that exists is a step of its owner *)
(* (the steps that create one find the name free).                         *)
(***************************************************************************)
LEMMA TempStep ==
  ASSUME Inv, NEW s \in Run, Begin(s) \/ WriteStep(s) \/ Killed(s),
         NEW n \in Names, temp[n] # Absent, temp'[n] # temp[n]
  PROVE  /\ pc[s] \in Owning /\ n = Name(s) /\ temp[n] \in Content /\ temp[n].by = s
         /\ pc'[s] # pc[s] \/ emitted'[s] # emitted[s]
<1>1. temp \in [Names -> {Absent, Old} \cup Content] /\ TypeOK
  BY DEF Inv, TypeOK
<1>2. CASE Create(s)
  <2>1. temp' = [temp EXCEPT ![Name(s)] = [by |-> s, blocks |-> 0]] /\ temp[Name(s)] = Absent
    BY <1>2 DEF Create
  <2> QED BY <1>1, <2>1
<1>3. CASE Emit(s) \/ Close(s) \/ Rename(s) \/ Remove(s)
  <2>1. pc[s] \in Owning /\ OwnsTemp(s) /\ Name(s) \in Names
    BY <1>1, <1>3, NameIsName DEF Inv, Owning, OwnsTemp, Emit, Close, Rename, Remove
  <2>2. \/ UNCHANGED temp
        \/ temp' = [temp EXCEPT ![Name(s)].blocks = @ + 1]
        \/ temp' = [temp EXCEPT ![Name(s)] = Absent]
    BY <1>3 DEF Emit, Close, Rename, Remove, WriteBlock
  <2>3. n = Name(s)
    BY <1>1, <2>2
  <2>4. pc'[s] # pc[s] \/ emitted'[s] # emitted[s]
    <3>1. CASE Emit(s)
      <4>1. emitted' = [emitted EXCEPT ![s] = emitted[s] + 1] /\ emitted[s] \in 0 .. Blocks - 1
        BY <1>1, <3>1 DEF Emit, TypeOK
      <4> QED BY <1>1, <4>1, SizeAssumption DEF TypeOK
    <3>2. CASE Close(s) \/ Rename(s) \/ Remove(s)
      BY <1>1, <3>2 DEF Close, Rename, Remove, Goto, TypeOK
    <3> QED BY <1>3, <3>1, <3>2
  <2> QED BY <2>1, <2>3, <2>4 DEF OwnsTemp
<1>4. CASE \/ Begin(s) \/ NameTaken(s) \/ OpenFails(s) \/ Fdopen(s) \/ EmitReturns(s)
           \/ EmitFails(s) \/ CloseFails(s) \/ RenameFails(s) \/ Killed(s)
  BY <1>4 DEF Begin, NameTaken, OpenFails, Fdopen, EmitReturns, EmitFails, CloseFails,
              RenameFails, Killed
<1> QED BY <1>2, <1>3, <1>4 DEF WriteStep

\* O_EXCL gives every invocation a file of its own: nobody else truncates, writes
\* or removes it, and files that were there before survive (main.c:33).
THEOREM TempHasOneOwner == Spec => OnlyOwnerTouchesTemp
<1>1. Inv /\ [Next]_vars =>
        [\A n \in Names : temp[n] # Absent /\ temp'[n] # temp[n] =>
            temp[n] # Old /\
            LET owner == temp[n].by
            IN /\ pc[owner] \in Owning /\ Name(owner) = n
               /\ pc'[owner] # pc[owner] \/ emitted'[owner] # emitted[owner]]_vars
  <2> SUFFICES ASSUME Inv, Next, NEW n \in Names, temp[n] # Absent, temp'[n] # temp[n]
               PROVE  /\ temp[n] # Old
                      /\ pc[temp[n].by] \in Owning /\ Name(temp[n].by) = n
                      /\ \/ pc'[temp[n].by] # pc[temp[n].by]
                         \/ emitted'[temp[n].by] # emitted[temp[n].by]
    OBVIOUS
  <2>1. PICK s \in Run : Begin(s) \/ WriteStep(s) \/ Killed(s)
    BY DEF Next
  <2>2. /\ pc[s] \in Owning /\ n = Name(s) /\ temp[n] \in Content /\ temp[n].by = s
        /\ pc'[s] # pc[s] \/ emitted'[s] # emitted[s]
    BY <2>1, TempStep
  <2> QED BY <2>2, FileAssumption
<1> QED BY <1>1, Invariance, PTL DEF Spec, OnlyOwnerTouchesTemp

\* Returning leaves no temporary file unless remove failed (main.c:36-44, 78-87).
THEOREM NoTempLeft == Spec => []NothingLeftBehind
<1> DEFINE Kept(n) == temp[n] \notin {Absent, Old} =>
                        \/ pc[temp[n].by] \in Owning \cup {"killed"}
                        \/ temp[n].by \in unremoved
<1>1. Init => NothingLeftBehind
  BY DEF Init, NothingLeftBehind
<1>2. Inv /\ NothingLeftBehind /\ [Next]_vars => NothingLeftBehind'
  <2> SUFFICES ASSUME Inv, NothingLeftBehind, [Next]_vars, NEW n \in Names PROVE Kept(n)'
    BY DEF NothingLeftBehind
  <2>1. Kept(n) /\ (temp[n] \notin {Absent, Old} => temp[n] \in Content)
    BY DEF NothingLeftBehind, Inv, TypeOK
  <2>2. ASSUME NEW s \in Run, Begin(s) \/ WriteStep(s) \/ Killed(s) PROVE Kept(n)'
    <3>1. /\ pc \in [Run -> Stages] /\ unremoved \subseteq unremoved'
          /\ \A r \in Run \ {s} : pc'[r] = pc[r]
      BY <2>2 DEF WriteStep, Inv, TypeOK, Goto, Begin, NameTaken, OpenFails, Fdopen,
             EmitReturns, EmitFails, CloseFails, RenameFails, Killed, Create, Emit, Close,
             Rename, Remove
    <3>2. CASE UNCHANGED temp /\ ~Remove(s) /\ ~Rename(s)
      <4>1. pc[s] \in Owning \cup {"killed"} => pc'[s] \in Owning \cup {"killed"}
        <5>1. CASE Create(s)
          BY <3>1, <5>1 DEF Create, Goto, Owning
        <5>2. CASE ~Create(s)
          <6>1. CASE Begin(s) \/ NameTaken(s) \/ OpenFails(s)
            BY <6>1 DEF Begin, NameTaken, OpenFails, Owning
          <6>2. CASE Killed(s)
            BY <3>1, <6>2 DEF Killed, Goto
          <6>3. CASE \/ Fdopen(s) \/ Emit(s) \/ EmitReturns(s) \/ EmitFails(s)
                     \/ Close(s) \/ CloseFails(s) \/ RenameFails(s)
            BY <3>1, <6>3 DEF Fdopen, Emit, EmitReturns, EmitFails, Close, CloseFails,
                              RenameFails, Goto, Owning
          <6> QED BY <2>2, <3>2, <5>2, <6>1, <6>2, <6>3 DEF WriteStep
        <5> QED BY <5>1, <5>2
      <4> QED BY <2>1, <3>1, <3>2, <4>1 DEF Content
    <3>3. CASE Remove(s)
      <4>1. CASE unremoved' = unremoved \cup {s} /\ UNCHANGED temp
        <5>1. temp[n] \in Content => temp[n].by = s \/ temp[n].by \in Run \ {s}
          BY DEF Content
        <5> QED BY <2>1, <3>1, <4>1, <5>1
      <4>2. CASE temp' = [temp EXCEPT ![Name(s)] = Absent]
        <5>1. CASE n = Name(s)
          BY <4>2, <5>1 DEF Inv, TypeOK
        <5>2. CASE n # Name(s)
          <6>1. temp'[n] = temp[n]
            BY <4>2, <5>2 DEF Inv, TypeOK
          <6>2. temp[n] \in Content => temp[n].by # s
            BY <5>2 DEF Inv, NamedByOwner
          <6> QED BY <2>1, <3>1, <6>1, <6>2 DEF Content
        <5> QED BY <5>1, <5>2
      <4> QED BY <3>3, <4>1, <4>2 DEF Remove
    <3>4. CASE Create(s) \/ Emit(s) \/ Close(s)
      <4>1. pc'[s] \in Owning
        BY <3>1, <3>4 DEF Create, Emit, Close, Goto, Owning
      <4>2. CASE n = Name(s)
        <5>1. Inv'
          BY <2>2, NextInv
        <5>2. Name(s)' = Name(s)
          BY <3>4 DEF Create, Emit, Close, Name
        <5>3. temp'[n].by = s
          BY <4>1, <4>2, <5>1, <5>2 DEF Inv, OwnsTemp
        <5> QED BY <4>1, <5>3
      <4>3. CASE n # Name(s)
        <5>1. temp'[n] = temp[n]
          BY <3>4, <4>3 DEF Create, Emit, Close, WriteBlock, Inv, TypeOK
        <5> QED BY <2>1, <3>1, <4>1, <5>1 DEF Content
      <4> QED BY <4>2, <4>3
    <3>5. CASE Rename(s)
      <4>1. temp' = [temp EXCEPT ![Name(s)] = Absent]
        BY <3>5 DEF Rename
      <4>2. CASE n = Name(s)
        BY <4>1, <4>2 DEF Inv, TypeOK
      <4>3. CASE n # Name(s)
        <5>1. temp'[n] = temp[n]
          BY <4>1, <4>3 DEF Inv, TypeOK
        <5>2. temp[n] \in Content => temp[n].by # s
          BY <4>3 DEF Inv, NamedByOwner
        <5> QED BY <2>1, <3>1, <5>1, <5>2 DEF Content
      <4> QED BY <4>2, <4>3
    <3> QED BY <2>2, <3>2, <3>3, <3>4, <3>5
            DEF WriteStep, Begin, NameTaken, OpenFails, Fdopen, EmitReturns, EmitFails,
                CloseFails, RenameFails, Killed
  <2>3. CASE UNCHANGED vars
    BY <2>1, <2>3 DEF vars
  <2> QED BY <2>2, <2>3 DEF Next
<1> QED BY <1>1, <1>2, Invariance, PTL DEF Spec

(***************************************************************************)
(* Writing a header implements AtomicOutput: Rename commits, returning -1  *)
(* aborts, everything else is invisible.                                   *)
(***************************************************************************)
LEMMA HolderOfHeader ==
  ASSUME NEW r \in Run, out' = Header(r)
  PROVE  Holder' = r
<1>1. Header(r) \in Headers /\ Header(r) \in Content /\ Header(r).by = r
  BY SizeAssumption DEF Header, Headers, Content
<1>2. out' \in Headers /\ out' \notin {Absent, Old}
  BY <1>1, FileAssumption
<1> QED BY <1>1, <1>2 DEF Holder

LEMMA SameHolder == ASSUME UNCHANGED out PROVE UNCHANGED Holder
BY DEF Holder

LEMMA AbstractInit == ASSUME Init PROVE Abstract!Init
<1>1. out \in {Absent, Old} /\ out \notin Headers
  <2>1. Headers \subseteq Content
    BY SizeAssumption DEF Headers, Header, Content
  <2> QED BY <2>1, FileAssumption DEF Init
<1>2. Holder = out
  BY <1>1 DEF Holder
<1>3. Holder \notin Run
  BY <1>1, <1>2, FileAssumption
<1> QED BY <1>3 DEF Abstract!Init, Init, Result, Ended

LEMMA AbstractStep ==
  ASSUME Inv, NEW s \in Run, Begin(s) \/ WriteStep(s) \/ Killed(s)
  PROVE  [Abstract!Next]_Abstract!vars
<1> DEFINE R == [r \in Run |-> Result(r)]
<1>1. pc \in [Run -> Stages]
  BY DEF Inv, TypeOK
<1>2. CASE Rename(s)
  <2>1. out' = Header(s) /\ pc' = [pc EXCEPT ![s] = "ok"] /\ pc[s] = "rename"
    BY <1>2, RenamePublishes
  <2>2. Holder' = s
    BY <2>1, HolderOfHeader
  <2>3. R' = [R EXCEPT ![s] = "ok"] /\ R[s] = "pending"
    BY <1>1, <2>1 DEF Result, Ended
  <2> QED BY <2>2, <2>3 DEF Abstract!Next, Abstract!Commit
<1>3. CASE OpenFails(s) \/ Remove(s)
  <2>1. pc[s] \notin Ended /\ pc' = [pc EXCEPT ![s] = "error"] /\ UNCHANGED out
    BY <1>3 DEF OpenFails, Remove, Goto, Ended
  <2>2. R' = [R EXCEPT ![s] = "error"] /\ R[s] = "pending"
    BY <1>1, <2>1 DEF Result, Ended
  <2> QED BY <2>1, <2>2, SameHolder DEF Abstract!Next, Abstract!Abort
<1>4. CASE Killed(s)
  <2>1. pc[s] \notin Ended /\ pc' = [pc EXCEPT ![s] = "killed"] /\ UNCHANGED out
    BY <1>4 DEF Killed, Goto
  <2>2. R' = [R EXCEPT ![s] = "killed"] /\ R[s] = "pending"
    BY <1>1, <2>1 DEF Result, Ended
  <2> QED BY <2>1, <2>2, SameHolder DEF Abstract!Next, Abstract!Kill
<1>5. CASE \/ Begin(s) \/ Create(s) \/ NameTaken(s) \/ Fdopen(s) \/ Emit(s)
           \/ EmitReturns(s) \/ EmitFails(s) \/ Close(s) \/ CloseFails(s) \/ RenameFails(s)
  <2>1. UNCHANGED out
    BY <1>5 DEF Begin, Create, NameTaken, Fdopen, Emit, EmitReturns, EmitFails, Close,
                CloseFails, RenameFails
  <2>2. PICK t \in Stages \ Ended : pc' = [pc EXCEPT ![s] = t]
    <3>1. CASE NameTaken(s) \/ Emit(s)
      BY <1>1, <3>1 DEF NameTaken, Emit, Ended, Stages
    <3>2. CASE ~NameTaken(s) /\ ~Emit(s)
      BY <1>5, <3>2 DEF Begin, Create, Fdopen, EmitReturns, EmitFails, Close, CloseFails,
                        RenameFails, Goto, Ended, Stages
    <3> QED BY <3>1, <3>2
  <2>3. pc[s] \notin Ended
    BY <1>5 DEF Begin, Create, NameTaken, Fdopen, Emit, EmitReturns, EmitFails, Close,
                CloseFails, RenameFails, Ended
  <2>4. R' = R
    BY <1>1, <2>2, <2>3 DEF Result
  <2> QED BY <2>1, <2>4, SameHolder DEF Abstract!vars
<1> QED BY <1>2, <1>3, <1>4, <1>5 DEF WriteStep

LEMMA AbstractStutter == ASSUME UNCHANGED <<out, pc>> PROVE UNCHANGED Abstract!vars
BY DEF Abstract!vars, Holder, Result

\* Writing a header implements its abstract specification (main.c:59-90).
THEOREM Refinement == Spec => ImplementsAtomicOutput
<1>1. Inv /\ [Next]_vars => [Abstract!Next]_Abstract!vars
  BY AbstractStep, AbstractStutter DEF Next, vars
<1> QED BY AbstractInit, <1>1, Invariance, PTL DEF Spec, ImplementsAtomicOutput, Abstract!Spec

-----------------------------------------------------------------------------
\* The flow of main

Types ==
  /\ stage \in [Run -> MainStages] /\ pc \in [Run -> Stages]
  /\ message \in [Run -> BOOLEAN] /\ ferror \in [Run -> BOOLEAN]
  /\ rc \in [Run -> BOOLEAN] /\ lost \in [Run -> BOOLEAN]
  /\ status \in [Run -> 0 .. 2]
  /\ held \in [Run -> SUBSET Resources]
  /\ DOMAIN opts = Run

\* The stages before the output, and those in which main works.
Early   == {"idle", "parse", "load", "seeds", "relos", "closure"} \cup Setup
Working == Setup \cup {"load", "seeds", "relos", "closure", "file", "stdout", "explain", "out"}

\* Where an object file is open, when nothing is held and when only the options are.
Holding(r) ==
  /\ stage[r] \in {"idle", "exit"} => held[r] = {}
  /\ stage[r] = "parse" => held[r] \subseteq {"opts.objects"}
  /\ "object" \in held[r] => stage[r] \in {"seeds", "relos"}

\* How the exit code, the sink and the writing of the file go together on the way.
Outcome(r) ==
  /\ stage[r] \in Early => pc[r] = "idle"
  /\ stage[r] \in Early \cup {"file", "stdout", "explain"} => status[r] = 1
  /\ stage[r] \in Working => opts[r].mode \in {"file", "stdout"}
  /\ stage[r] \in {"file", "stdout"} => opts[r].mode = stage[r]
  /\ stage[r] = "explain" /\ opts[r].mode = "file" => pc[r] = "ok"
  /\ stage[r] \in {"out", "exit"} /\ opts[r].mode = "file" =>
       /\ status[r] = 0 => pc[r] = "ok"
       /\ status[r] # 0 /\ pc[r] = "ok" => opts[r].explain /\ message[r]

\* A failure of the writing has a message or is known to the stream.
WriteReported(r) ==
  pc[r] \in {"remove", "error"} \/ (pc[r] = "close" /\ rc[r]) => message[r] \/ ferror[r]

Reported(r) ==
  /\ WriteReported(r)
  /\ stage[r] \in {"out", "exit"} /\ status[r] # 0 => message[r] \/ ferror[r] \/ lost[r]

MainInv == Types /\ \A r \in Run : Holding(r) /\ Outcome(r) /\ Reported(r)

-----------------------------------------------------------------------------
LEMMA MainInitInv == MainInit => MainInv
<1> SUFFICES ASSUME MainInit PROVE MainInv
  OBVIOUS
<1>1. Types
  BY DEF MainInit, Init, Types, MainStages, Stages
<1>2. ASSUME NEW r \in Run PROVE Holding(r) /\ Outcome(r) /\ Reported(r)
  BY DEF MainInit, Init, Holding, Outcome, Reported, WriteReported, Early, Working, Setup
<1> QED BY <1>1, <1>2 DEF MainInv

\* A step of s leaves the others as they are.
Others(s) ==
  \A r \in Run \ {s} :
    /\ stage'[r] = stage[r] /\ pc'[r] = pc[r] /\ message'[r] = message[r]
    /\ ferror'[r] = ferror[r] /\ rc'[r] = rc[r] /\ lost'[r] = lost[r]
    /\ status'[r] = status[r] /\ held'[r] = held[r] /\ opts'[r] = opts[r]

LEMMA OneRun ==
  ASSUME MainInv, NEW s \in Run, Others(s), Types', (Holding(s) /\ Outcome(s) /\ Reported(s))'
  PROVE  MainInv'
<1>1. ASSUME NEW r \in Run \ {s} PROVE (Holding(r) /\ Outcome(r) /\ Reported(r))'
  BY DEF MainInv, Others, Holding, Outcome, Reported, WriteReported
<1> QED BY <1>1 DEF MainInv

\* write_header_to_path: every way to fail has a message or an error of the stream.
LEMMA Writing ==
  ASSUME Types, NEW s \in Run, WriteReported(s), Begin(s) \/ WriteStep(s)
  PROVE  /\ pc' \in [Run -> Stages] /\ message' \in [Run -> BOOLEAN]
         /\ ferror' \in [Run -> BOOLEAN] /\ rc' \in [Run -> BOOLEAN]
         /\ \A r \in Run \ {s} : /\ pc'[r] = pc[r] /\ message'[r] = message[r]
                                 /\ ferror'[r] = ferror[r] /\ rc'[r] = rc[r]
         /\ WriteReported(s)'
<1> USE DEF Types, Goto, SetError, stream, Stages, WriteReported
<1>1. CASE Begin(s) \/ Create(s) \/ NameTaken(s) \/ Rename(s)
  BY <1>1 DEF Begin, Create, NameTaken, Rename
<1>2. CASE OpenFails(s) \/ Fdopen(s)
  BY <1>2 DEF OpenFails, Fdopen
<1>3. CASE Emit(s)
  BY <1>3 DEF Emit, WriteBlock
<1>6. CASE EmitReturns(s)
  BY <1>6 DEF EmitReturns
<1>7. CASE EmitFails(s)
  <2>1. /\ pc' = [pc EXCEPT ![s] = "close"] /\ message' = [message EXCEPT ![s] = TRUE]
        /\ rc' = [rc EXCEPT ![s] = TRUE] /\ ferror' = ferror
    BY <1>7 DEF EmitFails
  <2>2. pc' \in [Run -> Stages] /\ rc' \in [Run -> BOOLEAN] /\ message' \in [Run -> BOOLEAN]
    BY <2>1
  <2>3. WriteReported(s)'
    BY <2>1
  <2> QED BY <2>1, <2>2, <2>3
<1>4. CASE Close(s)
  BY <1>4 DEF Close
<1>8. CASE CloseFails(s)
  <2>1. /\ pc' = [pc EXCEPT ![s] = "remove"] /\ ferror' = ferror
        /\ rc' = [rc EXCEPT ![s] = TRUE] /\ pc[s] = "close"
    BY <1>8 DEF CloseFails
  <2>2. \/ rc[s] /\ message' = message
        \/ message' = [message EXCEPT ![s] = TRUE]
    BY <1>8 DEF CloseFails
  <2>3. pc' \in [Run -> Stages] /\ rc' \in [Run -> BOOLEAN] /\ message' \in [Run -> BOOLEAN]
    BY <2>1, <2>2
  <2>4. WriteReported(s)'
    BY <2>1, <2>2
  <2> QED BY <2>1, <2>2, <2>3, <2>4
<1>5. CASE RenameFails(s) \/ Remove(s)
  BY <1>5 DEF RenameFails, Remove
<1> QED BY <1>1, <1>2, <1>3, <1>4, <1>5, <1>6, <1>7, <1>8 DEF WriteStep

\* Steps of main that change neither the file nor its writing.
LEMMA FlowInv ==
  ASSUME MainInv, NEW s \in Run,
         \/ Start(s) \/ ReadArgument(s) \/ Prepare(s) \/ LoadObject(s) \/ Seeds(s)
         \/ NextObject(s) \/ CloseGraph(s) \/ FileWritten(s) \/ SendBlock(s) \/ Sent(s)
         \/ Explain(s) \/ Exit(s)
  PROVE  MainInv'
<1> USE DEF Proceed, vars, stream, command, stdout
<1>1. Types /\ Holding(s) /\ Outcome(s) /\ Reported(s)
  BY DEF MainInv
<1>2. CASE Start(s) \/ ReadArgument(s)
  <2>1. CASE Start(s)
    <3>1. Types' /\ Others(s)
      BY <1>1, <2>1 DEF Start, Types, Others, MainStages
    <3>2. (Holding(s) /\ Outcome(s) /\ Reported(s))'
      BY <1>1, <2>1 DEF Start, Types, Holding, Outcome, Reported, WriteReported,
                       Early, Working, Setup
    <3> QED BY <3>1, <3>2, OneRun
  <2>2. CASE ReadArgument(s)
    <3>1. /\ stage[s] = "parse"
          /\ \/ held' = held
             \/ held' = [held EXCEPT ![s] = @ \cup {"opts.objects"}]
          /\ UNCHANGED <<stage, pc, message, ferror, rc, opts, status, lost>>
      BY <1>1, <2>2 DEF ReadArgument, Unread, Types
    <3>2. held' \in [Run -> SUBSET Resources]
      BY <1>1, <3>1 DEF Types, Resources, OwnedByMain
    <3>3. Types' /\ Others(s)
      BY <1>1, <3>1, <3>2 DEF Types, Others
    <3>4. held'[s] \subseteq {"opts.objects"}
      BY <1>1, <3>1 DEF Types, Holding
    <3>5. Holding(s)'
      BY <3>1, <3>4 DEF Holding
    <3>6. (Outcome(s) /\ Reported(s))'
      BY <1>1, <3>1 DEF Outcome, Reported, WriteReported
    <3> QED BY <3>3, <3>5, <3>6, OneRun
  <2> QED BY <1>2, <2>1, <2>2
<1>3. CASE Prepare(s)
  <2>1. stage[s] \in Setup /\ Following[stage[s]] \in {"index", "set", "requirements", "load"}
    BY <1>3 DEF Prepare, Setup, Following
  <2>2. Types' /\ Others(s)
    BY <1>1, <1>3, <2>1 DEF Prepare, Types, Others, MainStages, Setup, Resources, OwnedByMain
  <2>3. (Holding(s) /\ Outcome(s) /\ Reported(s))'
    BY <1>1, <1>3, <2>1 DEF Prepare, Types, Holding, Outcome, Reported, WriteReported,
                            Early, Working, Setup
  <2> QED BY <2>2, <2>3, OneRun
<1>4. CASE LoadObject(s) \/ Seeds(s) \/ NextObject(s)
  <2>1. Types' /\ Others(s)
    BY <1>1, <1>4 DEF LoadObject, Seeds, NextObject, Types, Others, MainStages, Resources
  <2>2. (Holding(s) /\ Outcome(s) /\ Reported(s))'
    BY <1>1, <1>4 DEF LoadObject, Seeds, NextObject, Types, Holding, Outcome, Reported,
                      WriteReported, Early, Working, Setup
  <2> QED BY <2>1, <2>2, OneRun
<1>5. CASE CloseGraph(s) \/ FileWritten(s)
  <2>1. Types' /\ Others(s)
    BY <1>1, <1>5 DEF CloseGraph, FileWritten, Types, Others, MainStages, Outcome, Working
  <2>2. CASE CloseGraph(s)
    BY <1>1, <2>1, <2>2, OneRun DEF CloseGraph, Types, Holding, Outcome, Reported,
                      WriteReported, Early, Working, Setup
  <2>3. CASE FileWritten(s)
    <3>1. /\ stage[s] = "file" /\ pc[s] \in {"ok", "error"}
          /\ stage'[s] = IF pc[s] = "ok" THEN "explain" ELSE "out"
          /\ UNCHANGED <<pc, message, ferror, rc, opts, held, status, lost>>
      BY <1>1, <2>3 DEF FileWritten, Types
    <3>2. Holding(s)'
      BY <1>1, <3>1 DEF Holding
    <3>3. Outcome(s)'
      BY <1>1, <3>1 DEF Outcome, Early, Working, Setup
    <3>4. Reported(s)'
      <4>1. pc[s] = "error" => message[s] \/ ferror[s]
        <5>1. WriteReported(s)
          BY <1>1 DEF Reported
        <5>2. pc[s] = "error" => pc[s] \in {"remove", "error"}
          OBVIOUS
        <5> QED BY <5>1, <5>2, Zenon DEF WriteReported
      <4>2. WriteReported(s)'
        BY <1>1, <3>1 DEF Reported, WriteReported
      <4>3. stage'[s] = "out" => pc[s] = "error"
        BY <3>1
      <4>4. stage'[s] # "exit"
        BY <3>1
      <4> QED BY <3>1, <4>1, <4>2, <4>3, <4>4 DEF Reported
    <3> QED BY <2>1, <3>2, <3>3, <3>4, OneRun
  <2> QED BY <1>5, <2>2, <2>3
<1>6. CASE SendBlock(s)
  <2>1. Types' /\ Others(s)
    BY <1>1, <1>6 DEF SendBlock, Types, Others
  <2>2. (Holding(s) /\ Outcome(s) /\ Reported(s))'
    BY <1>1, <1>6 DEF SendBlock, Types, Holding, Outcome, Reported, WriteReported
  <2> QED BY <2>1, <2>2, OneRun
<1>7. CASE Sent(s) \/ Explain(s)
  <2>1. Types' /\ Others(s)
    BY <1>1, <1>7 DEF Sent, Explain, Types, Others, MainStages
  <2>2. (Holding(s) /\ Outcome(s) /\ Reported(s))'
    BY <1>1, <1>7 DEF Sent, Explain, Types, Holding, Outcome, Reported, WriteReported,
                      Early, Working, Setup
  <2> QED BY <2>1, <2>2, OneRun
<1>8. CASE Exit(s)
  <2>1. Types' /\ Others(s)
    BY <1>1, <1>8 DEF Exit, Types, Others, MainStages
  <2>2. (Holding(s) /\ Outcome(s) /\ Reported(s))'
    BY <1>1, <1>8 DEF Exit, Types, Holding, Outcome, Reported, WriteReported,
                      Early, Working, Setup, Resources, OwnedByMain
  <2> QED BY <2>1, <2>2, OneRun
<1> QED BY <1>2, <1>3, <1>4, <1>5, <1>6, <1>7, <1>8

\* Steps that fail with a message, and the end of the parsing.
LEMMA FailureInv ==
  ASSUME MainInv, NEW s \in Run,
         \/ PrepareFails(s) \/ LoadFails(s) \/ SeedsFail(s) \/ RelosFail(s)
         \/ ClosureFails(s) \/ SendFails(s) \/ ExplainFails(s)
  PROVE  MainInv'
<1> USE DEF Proceed, GiveUp, SetError, vars, stream, command, stdout
<1>1. Types /\ Holding(s) /\ Outcome(s) /\ Reported(s)
  BY DEF MainInv
<1>2. Types' /\ Others(s)
  <2>1. /\ stage' = [stage EXCEPT ![s] = "out"] /\ message' = [message EXCEPT ![s] = TRUE]
        /\ UNCHANGED <<pc, ferror, rc, opts, status, lost>>
    BY DEF PrepareFails, LoadFails, SeedsFail, RelosFail, ClosureFails, SendFails, ExplainFails
  <2>2. held' = held \/ held' = [held EXCEPT ![s] = @ \ {"object"}]
    BY DEF PrepareFails, LoadFails, SeedsFail, RelosFail, ClosureFails, SendFails, ExplainFails
  <2>3. stage' \in [Run -> MainStages] /\ message' \in [Run -> BOOLEAN]
    BY <1>1, <2>1 DEF Types, MainStages
  <2>4. held' \in [Run -> SUBSET Resources]
    BY <1>1, <2>2 DEF Types
  <2>5. Others(s)
    BY <1>1, <2>1, <2>2 DEF Types, Others
  <2> QED BY <1>1, <2>1, <2>3, <2>4, <2>5 DEF Types
<1>3. message'[s] = TRUE
  BY <1>1 DEF PrepareFails, LoadFails, SeedsFail, RelosFail, ClosureFails, SendFails, ExplainFails,
              Types
<1>4. CASE PrepareFails(s) \/ LoadFails(s) \/ ClosureFails(s)
  BY <1>1, <1>2, <1>3, <1>4, OneRun
  DEF PrepareFails, LoadFails, ClosureFails, Types, Holding, Outcome, Reported, WriteReported,
      Early, Working, Setup
<1>5. CASE SeedsFail(s) \/ RelosFail(s)
  BY <1>1, <1>2, <1>3, <1>5, OneRun
  DEF SeedsFail, RelosFail, Types, Holding, Outcome, Reported, WriteReported, Early, Working, Setup
<1>6. CASE SendFails(s) \/ ExplainFails(s)
  BY <1>1, <1>2, <1>3, <1>6, OneRun
  DEF SendFails, ExplainFails, Types, Holding, Outcome, Reported, WriteReported, Early, Working,
      Setup
<1> QED BY <1>4, <1>5, <1>6

LEMMA ParseInv ==
  ASSUME MainInv, NEW s \in Run, ParseFails(s) \/ Inform(s) \/ Parse(s)
  PROVE  MainInv'
<1> USE DEF Proceed, SetError, TakeOptions, DestroyOptions, vars, stream, stdout, Unread, Read
<1>1. Types /\ Holding(s) /\ Outcome(s) /\ Reported(s) /\ stage[s] = "parse"
  BY DEF MainInv, ParseFails, Inform, Parse
<1>2. Types' /\ Others(s)
  <2>1. CASE ParseFails(s)
    BY <1>1, <2>1 DEF ParseFails, Types, Others, MainStages
  <2>2. CASE Inform(s)
    BY <1>1, <2>2 DEF Inform, Types, Others, MainStages
  <2>3. CASE Parse(s)
    BY <1>1, <2>3 DEF Parse, Types, Others, MainStages, Setup
  <2> QED BY <2>1, <2>2, <2>3
<1>3. CASE ParseFails(s)
  <2>1. Control(NoOptions).mode = "stdout"
    BY DEF Control, NoOptions, Informs
  <2> QED BY <1>1, <1>2, <1>3, <2>1, OneRun
          DEF ParseFails, Types, Holding, Outcome, Reported, WriteReported, Early, Working, Setup
<1>4. CASE Inform(s)
  <2>1. Control(parser[s].opts).mode = "info"
    BY <1>4 DEF Control, Inform
  <2> QED BY <1>1, <1>2, <1>4, <2>1, OneRun
          DEF Inform, Types, Holding, Outcome, Reported, WriteReported, Early, Working, Setup
<1>5. CASE Parse(s)
  <2>1. Control(parser[s].opts).mode \in {"file", "stdout"}
    BY <1>5 DEF Control, Parse
  <2> QED BY <1>1, <1>2, <1>5, <2>1, OneRun
          DEF Parse, Types, Holding, Outcome, Reported, WriteReported, Early, Working, Setup
<1> QED BY <1>3, <1>4, <1>5

LEMMA WriteInv ==
  ASSUME MainInv, NEW s \in Run, WriteFile(s)
  PROVE  MainInv'
<1>1. Types /\ Holding(s) /\ Outcome(s) /\ Reported(s)
  BY DEF MainInv
<1>2. stage[s] = "file" /\ (Begin(s) \/ WriteStep(s)) /\ UNCHANGED locals
  BY DEF WriteFile
<1>3. UNCHANGED <<stage, opts, held, status, lost>>
  BY <1>2 DEF locals, command, stdout
<1>4. /\ pc' \in [Run -> Stages] /\ message' \in [Run -> BOOLEAN]
      /\ ferror' \in [Run -> BOOLEAN] /\ rc' \in [Run -> BOOLEAN]
      /\ \A r \in Run \ {s} : /\ pc'[r] = pc[r] /\ message'[r] = message[r]
                              /\ ferror'[r] = ferror[r] /\ rc'[r] = rc[r]
      /\ WriteReported(s)'
  BY <1>1, <1>2, Writing DEF Reported
<1>5. Types' /\ Others(s)
  BY <1>1, <1>3, <1>4 DEF Types, Others
<1>6. (Holding(s) /\ Outcome(s))'
  BY <1>1, <1>2, <1>3 DEF Holding, Outcome, Early, Setup
<1>7. Reported(s)'
  BY <1>2, <1>3, <1>4 DEF Reported
<1> QED BY <1>5, <1>6, <1>7, OneRun

LEMMA KillInv ==
  ASSUME MainInv, NEW s \in Run, Kill(s)
  PROVE  MainInv'
<1>1. Types /\ Reported(s)
  BY DEF MainInv
<1>2. /\ stage' = [stage EXCEPT ![s] = "killed"] /\ held' = [held EXCEPT ![s] = {}]
      /\ UNCHANGED <<message, ferror, rc, opts, status, lost>>
      /\ pc' = pc \/ pc' = [pc EXCEPT ![s] = "killed"]
  BY DEF Kill, Proceed, vars, stream, Killed, Goto, command, stdout
<1>3. stage' \in [Run -> MainStages] /\ held' \in [Run -> SUBSET Resources]
  BY <1>1, <1>2 DEF Types, MainStages
<1>4. pc' \in [Run -> Stages]
  BY <1>1, <1>2 DEF Types, Stages
<1>5. Types' /\ Others(s)
  BY <1>1, <1>2, <1>3, <1>4 DEF Types, Others
<1>6. stage'[s] = "killed" /\ held'[s] = {}
  BY <1>1, <1>2 DEF Types
<1>7. (Holding(s) /\ Outcome(s))'
  BY <1>6 DEF Holding, Outcome, Early, Working, Setup
<1>8. WriteReported(s)'
  BY <1>1, <1>2 DEF Types, Reported, WriteReported
<1> QED BY <1>5, <1>6, <1>7, <1>8, OneRun DEF Reported

LEMMA MainNextInv == MainInv /\ [MainNext]_mainVars => MainInv'
<1>1. ASSUME MainInv, NEW r \in Run, Start(r) \/ MainStep(r) \/ Kill(r) PROVE MainInv'
  BY <1>1, FlowInv, FailureInv, ParseInv, WriteInv, KillInv DEF MainStep
<1>2. ASSUME MainInv, UNCHANGED mainVars PROVE MainInv'
  BY <1>2 DEF mainVars, vars, locals, command, stdout, stream, MainInv, Types, Holding, Outcome,
              Reported, WriteReported
<1> QED BY <1>1, <1>2 DEF MainNext

\* What main holds, the exit code, the file and the messages agree at every stage
\* (main.c:92-247).
THEOREM MainInvariance == MainSpec => []MainInv
BY MainInitInv, MainNextInv, PTL DEF MainSpec

\* Whichever step fails, for any number of object files, nothing acquired is held when
\* main returns (main.c:116-131, 164-178, 237-246).
THEOREM ReleasesEverything == MainSpec => []NothingHeldAtExit
<1>1. MainInv => NothingHeldAtExit
  BY DEF MainInv, Holding, NothingHeldAtExit
<1> QED BY <1>1, MainInvariance, PTL

\* The exit code is true of the output file, whatever the other invocations do
\* (main.c:205-216).
THEOREM ExitCodeIsTrue == MainSpec => []ExitCodeTellsOutput
<1>1. MainInv => ExitCodeTellsOutput
  BY DEF MainInv, Outcome, ExitCodeTellsOutput
<1> QED BY <1>1, MainInvariance, PTL

\* No failure but that of a write is silent (main.c:116-244, emitter.c:876).
THEOREM FailuresHaveReasons == MainSpec => []FailureIsReported
<1>1. MainInv => FailureIsReported
  BY DEF MainInv, Reported, FailureIsReported
<1> QED BY <1>1, MainInvariance, PTL

-----------------------------------------------------------------------------
(***************************************************************************)
(* The output file in the whole program.  A step of main is a step of the  *)
(* writing, or it leaves the files and the places in the writing alone;    *)
(* it may set a message of its own, which the files do not depend on.      *)
(***************************************************************************)
FileKept == UNCHANGED <<out, temp, pc, attempt, stream, unremoved>>

LEMMA StepOnFile ==
  ASSUME message \in [Run -> BOOLEAN], NEW r \in Run, Start(r) \/ MainStep(r) \/ Kill(r)
  PROVE  \/ Begin(r) \/ WriteStep(r) \/ Killed(r)
         \/ FileKept /\ message' \in [Run -> BOOLEAN]
<1> USE DEF FileKept, vars, GiveUp, SetError
<1>1. CASE \/ Start(r) \/ ReadArgument(r) \/ Inform(r) \/ Parse(r) \/ Prepare(r)
           \/ LoadObject(r) \/ Seeds(r) \/ NextObject(r) \/ CloseGraph(r)
           \/ FileWritten(r) \/ SendBlock(r) \/ Sent(r) \/ Explain(r) \/ Exit(r)
  BY <1>1 DEF Start, ReadArgument, Inform, Parse, Prepare, LoadObject, Seeds, NextObject,
              CloseGraph, FileWritten, SendBlock, Sent, Explain, Exit
<1>2. CASE \/ ParseFails(r) \/ PrepareFails(r) \/ LoadFails(r) \/ SeedsFail(r) \/ RelosFail(r)
           \/ ClosureFails(r) \/ SendFails(r) \/ ExplainFails(r)
  BY <1>2 DEF ParseFails, PrepareFails, LoadFails, SeedsFail, RelosFail, ClosureFails,
              SendFails, ExplainFails
<1>3. CASE WriteFile(r) \/ Kill(r)
  BY <1>3 DEF WriteFile, Kill
<1> QED BY <1>1, <1>2, <1>3 DEF MainStep

LEMMA MainNextFile ==
  ASSUME Inv, [MainNext]_mainVars
  PROVE  \/ \E r \in Run : Begin(r) \/ WriteStep(r) \/ Killed(r)
         \/ FileKept /\ message' \in [Run -> BOOLEAN]
<1>1. message \in [Run -> BOOLEAN]
  BY DEF Inv, TypeOK
<1>2. CASE UNCHANGED mainVars
  BY <1>1, <1>2 DEF mainVars, vars, FileKept
<1> QED BY <1>1, <1>2, StepOnFile DEF MainNext

\* The invariant of the writing holds in the whole program.
THEOREM FileInvariance == MainSpec => []Inv
<1>1. MainInit => Inv
  BY InitInv DEF MainInit
<1>2. Inv /\ [MainNext]_mainVars => Inv'
  <2> SUFFICES ASSUME Inv, [MainNext]_mainVars PROVE Inv'
    OBVIOUS
  <2>1. CASE FileKept /\ message' \in [Run -> BOOLEAN]
    BY <2>1, StutterInv DEF FileKept
  <2>2. CASE \E r \in Run : Begin(r) \/ WriteStep(r) \/ Killed(r)
    BY <2>2, NextInv DEF Next
  <2> QED BY <2>1, <2>2, MainNextFile
<1> QED BY <1>1, <1>2, PTL DEF MainSpec

\* The whole program, for any command lines and whatever fails before, in or after the
\* writing, changes the output path in one step from what it held to a complete header,
\* the step in which write_header_to_path succeeds (main.c:72-89, 92-247).
THEOREM MainIsAtomic == MainSpec => ImplementsAtomicOutput
<1>1. MainInit => Abstract!Init
  BY AbstractInit DEF MainInit
<1>2. Inv /\ [MainNext]_mainVars => [Abstract!Next]_Abstract!vars
  <2> SUFFICES ASSUME Inv, [MainNext]_mainVars PROVE [Abstract!Next]_Abstract!vars
    OBVIOUS
  <2> QED BY MainNextFile, AbstractStep, AbstractStutter DEF FileKept
<1> QED BY <1>1, <1>2, FileInvariance, PTL DEF MainSpec, ImplementsAtomicOutput, Abstract!Spec
=============================================================================
