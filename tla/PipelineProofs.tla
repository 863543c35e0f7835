---------------------------- MODULE PipelineProofs ----------------------------
(***************************************************************************)
(* Proofs about Pipeline, for any reports, files, options and attributes.  *)
(***************************************************************************)
EXTENDS Pipeline, SequenceTheorems, TLAPS

-------------------------------------------------------------------------------
(* sameln.                                                                 *)
Src == lline[Ln].src
Saved == BackupOf[Src]

Proceeds(s) == Free!Goto(Ln, s)
Ends(r) == Free!Finish(Ln, r)

(* A permitted step is followed by another one or is the line's last.      *)
LEMMA FreeStep ==
  ASSUME Free!Work(Ln)
  PROVE  /\ lpc[Ln] # "read"
         /\ \/ \E s \in Free!Steps \ {"read"} : Proceeds(s)
            \/ \E r \in Free!Outcomes : Ends(r)
<1>1. CASE Free!Compare(Ln) \/ Free!CompareCached(Ln)
  BY <1>1 DEF Free!Compare, Free!CompareCached, Free!Decide, Free!Steps, Free!Outcomes,
              Proceeds, Ends
<1>2. CASE Free!MakeBackup(Ln)
  BY <1>2 DEF Free!MakeBackup, Free!Steps, Proceeds
<1>3. CASE Free!RemoveSource(Ln)
  BY <1>3 DEF Free!RemoveSource, Free!Steps, Free!Outcomes, Proceeds, Ends
<1>4. CASE Free!PlaceLink(Ln)
  BY <1>4 DEF Free!PlaceLink, Free!Steps, Proceeds
<1>5. CASE Free!RestoreSource(Ln)
  BY <1>5 DEF Free!RestoreSource, Free!Steps, Free!Outcomes, Proceeds, Ends
<1>6. CASE Free!DeleteBackup(Ln)
  BY <1>6 DEF Free!DeleteBackup, Free!Outcomes, Ends
<1> QED
  BY <1>1, <1>2, <1>3, <1>4, <1>5, <1>6 DEF Free!Work

(* So is one that is refused.                                              *)
LEMMA RefusedStep ==
  ASSUME Refused!Work(Ln)
  PROVE  /\ lpc[Ln] # "read"
         /\ \/ \E s \in Free!Steps \ {"read"} : Proceeds(s)
            \/ \E r \in Free!Outcomes : Ends(r)
<1>0. /\ \A s : Refused!Goto(Ln, s) = Free!Goto(Ln, s)
      /\ \A r : Refused!Finish(Ln, r) = Free!Finish(Ln, r)
  BY DEF Refused!Goto, Free!Goto, Refused!Finish, Free!Finish, Refused!NoLine, Free!NoLine
<1>1. CASE Refused!Compare(Ln) \/ Refused!CompareCached(Ln)
  BY <1>0, <1>1 DEF Refused!Compare, Refused!CompareCached, Refused!Decide, Free!Steps,
                    Free!Outcomes, Proceeds, Ends
<1>2. CASE Refused!MakeBackup(Ln)
  BY <1>0, <1>2 DEF Refused!MakeBackup, Free!Steps, Proceeds
<1>3. CASE Refused!RemoveSource(Ln)
  BY <1>0, <1>3 DEF Refused!RemoveSource, Free!Steps, Free!Outcomes, Proceeds, Ends
<1>4. CASE Refused!PlaceLink(Ln)
  BY <1>0, <1>4 DEF Refused!PlaceLink, Free!Steps, Proceeds
<1>5. CASE Refused!RestoreSource(Ln)
  BY <1>0, <1>5 DEF Refused!RestoreSource, Free!Steps, Free!Outcomes, Proceeds, Ends
<1>6. CASE Refused!DeleteBackup(Ln)
  BY <1>0, <1>6 DEF Refused!DeleteBackup, Free!Outcomes, Ends
<1> QED
  BY <1>1, <1>2, <1>3, <1>4, <1>5, <1>6 DEF Refused!Work

(* So is every step on a line.                                             *)
LEMMA LinkWorks ==
  ASSUME LinkStep
  PROVE  /\ lpc[Ln] # "read"
         /\ \/ \E s \in Free!Steps \ {"read"} : Proceeds(s)
            \/ \E r \in Free!Outcomes : Ends(r)
BY FreeStep, RefusedStep DEF LinkStep

-------------------------------------------------------------------------------
(* The lines.  What samefile, clear and sameln hand on are lines, and      *)
(* sameln works on one that clear has printed.                             *)
FlowInv ==
  /\ report \in Seq(Pairs)
  /\ taken \in [Stages -> Nat]
  /\ DOMAIN apc = Stages /\ DOMAIN aline = Stages /\ DOMAIN aout = Stages
  /\ apc["clear"] # "read" => aline["clear"] \in Pairs
  /\ aout["clear"] \in Seq(Pairs)
  /\ DOMAIN lpc = {Ln} /\ lines \in [{Ln} -> Nat]
  /\ lines[Ln] <= Len(aout["clear"])
  /\ lpc[Ln] # "read" => lines[Ln] < Len(aout["clear"])
  /\ consumed \in Seq(Pairs) /\ printed \in Seq(Pairs)
  /\ hRead \in Seq(Pairs) /\ oRead \in Seq(Pairs)

(* Init has no lines but the report's.                                     *)
LEMMA FlowInit == Init => FlowInv
<1> SUFFICES ASSUME Init PROVE FlowInv
  OBVIOUS
<1>1. report \in Seq(Pairs)
  BY PipelineAssumption DEF Init
<1>2. /\ taken \in [Stages -> Nat]
      /\ DOMAIN apc = Stages /\ DOMAIN aline = Stages /\ DOMAIN aout = Stages
      /\ apc["clear"] = "read" /\ aout["clear"] = <<>>
  BY DEF Init, A!Init, Stages
<1>3. /\ DOMAIN lpc = {Ln} /\ lpc[Ln] = "read"
      /\ lines \in [{Ln} -> Nat] /\ lines[Ln] = 0
      /\ consumed = <<>> /\ printed = <<>>
  BY DEF Init
<1>4. hRead = <<>> /\ oRead = <<>>
  BY DEF Init, H!Init, O!Init
<1>5. <<>> \in Seq(Pairs) /\ Len(<<>>) = 0
  OBVIOUS
<1> QED
  BY <1>1, <1>2, <1>3, <1>4, <1>5 DEF FlowInv

(* A stage that prints a line prints the one it has read.                  *)
LEMMA StagePrints ==
  ASSUME NEW s \in Stages,
         \/ \E l : A!ReadLine(s, l) /\ (s = "clear" => l \in Pairs)
         \/ A!Work(s) /\ (s = "clear" => aline["clear"] \in Pairs),
         DOMAIN apc = Stages, DOMAIN aline = Stages, DOMAIN aout = Stages,
         apc["clear"] # "read" => aline["clear"] \in Pairs,
         aout["clear"] \in Seq(Pairs)
  PROVE  /\ DOMAIN apc' = Stages /\ DOMAIN aline' = Stages /\ DOMAIN aout' = Stages
         /\ apc'["clear"] # "read" => aline'["clear"] \in Pairs
         /\ \/ aout'["clear"] = aout["clear"]
            \/ \E l \in Pairs : aout'["clear"] = Append(aout["clear"], l)
<1>0. "clear" \in Stages
  BY DEF Stages
<1>1. ASSUME NEW l, A!ReadLine(s, l), s = "clear" => l \in Pairs
      PROVE  /\ DOMAIN apc' = Stages /\ DOMAIN aline' = Stages /\ DOMAIN aout' = Stages
             /\ apc'["clear"] # "read" => aline'["clear"] \in Pairs
             /\ \/ aout'["clear"] = aout["clear"]
                \/ \E m \in Pairs : aout'["clear"] = Append(aout["clear"], m)
  <2>1. CASE s = "clear"
    BY <1>0, <1>1, <2>1
    DEF A!ReadLine, A!Skip, A!Proceed, A!Goto, A!PrintAgain
  <2>2. CASE s # "clear"
    BY <1>0, <1>1, <2>2
    DEF A!ReadLine, A!Skip, A!Proceed, A!Goto, A!PrintAgain
  <2> QED
    BY <2>1, <2>2
<1>2. ASSUME A!Work(s), s = "clear" => aline["clear"] \in Pairs
      PROVE  /\ DOMAIN apc' = Stages /\ DOMAIN aline' = Stages /\ DOMAIN aout' = Stages
             /\ apc'["clear"] # "read" => aline'["clear"] \in Pairs
             /\ \/ aout'["clear"] = aout["clear"]
                \/ \E m \in Pairs : aout'["clear"] = Append(aout["clear"], m)
  <2>1. /\ aline' = aline
        /\ \/ \E t : A!Proceed(s, t)
           \/ A!Skip(s, aline[s])
    BY <1>2 DEF A!Work, A!Stat1, A!Stat2, A!ChangeLeft, A!ChangeRight
  <2>2. CASE s = "clear"
    BY <1>0, <1>2, <2>1, <2>2 DEF A!Skip, A!Proceed, A!Goto, A!PrintAgain
  <2>3. CASE s # "clear"
    BY <1>0, <2>1, <2>3 DEF A!Skip, A!Proceed, A!Goto, A!PrintAgain
  <2> QED
    BY <2>2, <2>3
<1> QED
  BY <1>1, <1>2

(* A stage's step keeps the lines what they are.                           *)
LEMMA FlowStages ==
  ASSUME FlowInv, NEW s \in Stages, StageStep(s)
  PROVE  FlowInv'
<1>0. /\ DOMAIN apc = Stages /\ DOMAIN aline = Stages /\ DOMAIN aout = Stages
      /\ report \in Seq(Pairs) /\ taken \in [Stages -> Nat] /\ aout["clear"] \in Seq(Pairs)
      /\ UNCHANGED <<report, lnVars, hVars, oVars>>
      /\ apc["clear"] # "read" => aline["clear"] \in Pairs
  BY DEF FlowInv, StageStep
<1>1. /\ taken' \in [Stages -> Nat]
      /\ \/ \E l : A!ReadLine(s, l) /\ (s = "clear" => l \in Pairs)
         \/ A!Work(s) /\ (s = "clear" => aline["clear"] \in Pairs)
  <2>1. CASE /\ taken[s] < Len(InputOf(s))
             /\ taken' = [taken EXCEPT ![s] = @ + 1]
             /\ A!ReadLine(s, InputOf(s)[taken[s] + 1])
    <3>1. taken' \in [Stages -> Nat]
      BY <1>0, <2>1
    <3>2. s = "clear" => InputOf(s)[taken[s] + 1] \in Pairs
      <4>1. SUFFICES ASSUME s = "clear" PROVE report[taken[s] + 1] \in Pairs
        BY <4>1 DEF InputOf
      <4>2. taken[s] + 1 \in 1 .. Len(report)
        BY <1>0, <2>1, <4>1 DEF InputOf
      <4> QED
        BY <1>0, <4>2
    <3> QED
      BY <2>1, <3>1, <3>2
  <2>2. CASE A!Work(s) /\ UNCHANGED taken
    <3>1. s = "clear" => apc["clear"] # "read"
      BY <2>2 DEF A!Work, A!Stat1, A!Stat2, A!ChangeLeft, A!ChangeRight
    <3> QED
      BY <1>0, <2>2, <3>1
  <2> QED
    BY <2>1, <2>2 DEF StageStep
<1>2. /\ DOMAIN apc' = Stages /\ DOMAIN aline' = Stages /\ DOMAIN aout' = Stages
      /\ apc'["clear"] # "read" => aline'["clear"] \in Pairs
      /\ \/ aout'["clear"] = aout["clear"]
         \/ \E l \in Pairs : aout'["clear"] = Append(aout["clear"], l)
  BY <1>0, <1>1, StagePrints
<1>3. aout'["clear"] \in Seq(Pairs) /\ Len(aout'["clear"]) >= Len(aout["clear"])
  <2>1. \A l \in Pairs : /\ Append(aout["clear"], l) \in Seq(Pairs)
                         /\ Len(Append(aout["clear"], l)) = Len(aout["clear"]) + 1
    BY <1>0
  <2>2. CASE aout'["clear"] = aout["clear"]
    BY <1>0, <2>2
  <2>3. ASSUME NEW l \in Pairs, aout'["clear"] = Append(aout["clear"], l)
        PROVE  aout'["clear"] \in Seq(Pairs) /\ Len(aout'["clear"]) >= Len(aout["clear"])
    <3>1. Len(aout["clear"]) \in Nat
      BY <1>0
    <3> QED
      BY <2>1, <2>3, <3>1
  <2> QED
    BY <1>2, <2>2, <2>3
<1>4. /\ DOMAIN lpc' = {Ln} /\ lines' \in [{Ln} -> Nat] /\ lines' = lines /\ lpc' = lpc
      /\ consumed' \in Seq(Pairs) /\ printed' \in Seq(Pairs)
      /\ hRead' \in Seq(Pairs) /\ oRead' \in Seq(Pairs)
  BY <1>0 DEF FlowInv, lnVars, hVars, oVars
<1>5. /\ lines[Ln] \in Nat /\ Len(aout["clear"]) \in Nat /\ Len(aout'["clear"]) \in Nat
      /\ lines[Ln] <= Len(aout["clear"])
      /\ lpc[Ln] # "read" => lines[Ln] < Len(aout["clear"])
  BY <1>0, <1>3 DEF FlowInv
<1>6. /\ lines'[Ln] <= Len(aout'["clear"])
      /\ lpc'[Ln] # "read" => lines'[Ln] < Len(aout'["clear"])
  BY <1>3, <1>4, <1>5
<1> QED
  BY <1>0, <1>1, <1>2, <1>3, <1>4, <1>6 DEF FlowInv

(* A line sameln is done with is one that it has read.                     *)
LEMMA FlowLink ==
  ASSUME FlowInv, LnStep
  PROVE  FlowInv'
<1>0. /\ aout["clear"] \in Seq(Pairs) /\ Len(aout["clear"]) \in Nat
      /\ DOMAIN lpc = {Ln} /\ lines \in [{Ln} -> Nat] /\ lines[Ln] \in Nat
      /\ UNCHANGED <<attr, report, stageVars, hVars, oVars>>
      /\ consumed \in Seq(Pairs) /\ printed \in Seq(Pairs)
  BY DEF FlowInv, LnStep
<1>1. lines[Ln] < Len(aout["clear"])
  BY LinkWorks DEF FlowInv, LnStep, LinkLine
<1>2. Current \in Pairs
  <2>1. lines[Ln] + 1 \in 1 .. Len(aout["clear"])
    BY <1>0, <1>1
  <2> QED
    BY <1>0, <2>1 DEF Current
<1>3. consumed' \in Seq(Pairs) /\ printed' \in Seq(Pairs)
  <2>1. Append(consumed, Current) \in Seq(Pairs) /\ Append(printed, Current) \in Seq(Pairs)
    BY <1>0, <1>2
  <2> QED
    BY <1>0, <2>1 DEF LnStep, HandOn
<1>4. /\ DOMAIN lpc' = {Ln}
      /\ \/ lines' = lines
         \/ lpc'[Ln] = "read" /\ lines' = [lines EXCEPT ![Ln] = @ + 1]
  <2>1. CASE LinkStep
    BY <1>0, <2>1, LinkWorks DEF Proceeds, Ends, Free!Goto, Free!Finish
  <2>2. CASE LinkLine
    BY <1>0, <2>2 DEF LinkLine, Free!TakeLine, Free!Finish
  <2> QED
    BY <2>1, <2>2 DEF LnStep
<1>5. /\ lines' \in [{Ln} -> Nat]
      /\ lines'[Ln] <= Len(aout["clear"])
      /\ lpc'[Ln] # "read" => lines'[Ln] < Len(aout["clear"])
  <2>1. CASE lines' = lines
    BY <1>0, <1>1, <2>1
  <2>2. CASE lpc'[Ln] = "read" /\ lines' = [lines EXCEPT ![Ln] = @ + 1]
    BY <1>0, <1>1, <2>2
  <2> QED
    BY <1>4, <2>1, <2>2
<1>6. UNCHANGED <<report, taken, apc, aline, aout, hRead, oRead>>
  BY <1>0 DEF stageVars, hVars, oVars
<1> QED
  BY <1>3, <1>4, <1>5, <1>6 DEF FlowInv

(* Both samedelay read what sameln hands on.                               *)
LEMMA FlowHold ==
  ASSUME FlowInv, HoldLinked \/ HoldOther \/ QuitOther
  PROVE  FlowInv'
<1>0. /\ consumed \in Seq(Pairs) /\ printed \in Seq(Pairs)
      /\ hRead \in Seq(Pairs) /\ oRead \in Seq(Pairs)
      /\ UNCHANGED <<report, stageVars, lnVars>>
  BY DEF FlowInv, HoldLinked, HoldOther, QuitOther
<1>1. ASSUME NEW s \in Seq(Pairs), NEW t \in Seq(Pairs), Len(t) < Len(s)
      PROVE  s[Len(t) + 1] \in Pairs /\ Append(t, s[Len(t) + 1]) \in Seq(Pairs)
  <2>1. Len(t) + 1 \in 1 .. Len(s)
    BY <1>1
  <2>2. s[Len(t) + 1] \in Pairs
    BY <2>1
  <2> QED
    BY <2>2
<1>2. hRead' \in Seq(Pairs) /\ oRead' \in Seq(Pairs)
  <2>1. CASE HoldLinked
    <3>1. oRead' = oRead
      BY <2>1 DEF HoldLinked, oVars
    <3>2. \/ hRead' = hRead
          \/ Len(hRead) < Len(consumed) /\ hRead' = Append(hRead, consumed[Len(hRead) + 1])
      BY <2>1 DEF HoldLinked, H!TakeLine, H!EndOfInput, H!FlushAtEnd
    <3> QED
      BY <1>0, <1>1, <3>1, <3>2
  <2>2. CASE HoldOther
    <3>1. hRead' = hRead
      BY <2>2 DEF HoldOther, hVars
    <3>2. \/ oRead' = oRead
          \/ Len(oRead) < Len(printed) /\ oRead' = Append(oRead, printed[Len(oRead) + 1])
      BY <2>2 DEF HoldOther, O!TakeLine, O!EndOfInput, O!FlushAtEnd
    <3> QED
      BY <1>0, <1>1, <3>1, <3>2
  <2>3. CASE QuitOther
    BY <1>0, <2>3 DEF QuitOther, O!Quit, hVars
  <2> QED
    BY <2>1, <2>2, <2>3
<1>3. UNCHANGED <<report, taken, apc, aline, aout, lpc, lines, consumed, printed>>
  BY <1>0 DEF stageVars, lnVars
<1> QED
  BY <1>2, <1>3 DEF FlowInv

(* Every line that sameln reads, works on and hands on is a pair of names. *)
THEOREM LinesFlow == Spec => []FlowInv
<1>1. FlowInv /\ [Next]_vars => FlowInv'
  <2> SUFFICES ASSUME FlowInv, [Next]_vars PROVE FlowInv'
    OBVIOUS
  <2>1. CASE UNCHANGED vars
    BY <2>1 DEF FlowInv, vars, stageVars, lnVars, hVars, oVars
  <2> QED
    BY <2>1, FlowStages, FlowLink, FlowHold DEF Next
<1> QED
  BY <1>1, FlowInit, PTL DEF Spec

-------------------------------------------------------------------------------
(* Each samedelay of the pipeline behaves as samedelay does with any input *)
(* and among any programs.                                                 *)
HD == INSTANCE DelayProofs WITH
        gone <- {n \in Names : entry[n] = Absent},
        arr <- hArr, capacity <- hCapacity, first <- hFirst, old <- hOld,
        stopping <- hStopping, pc <- hpc, read <- hRead, out <- hOut
OD == INSTANCE DelayProofs WITH
        gone <- {n \in Names : entry[n] = Absent},
        arr <- oArr, capacity <- oCapacity, first <- oFirst, old <- oOld,
        stopping <- oStopping, pc <- opc, read <- oRead, out <- oOut

(* At first no name is gone.                                               *)
LEMMA DelaysInit == Init => HD!Init /\ OD!Init
<1> SUFFICES ASSUME Init PROVE HD!Init /\ OD!Init
  OBVIOUS
<1>1. \A n \in Names : n \in AllNames /\ entry[n] # Absent
  BY FilesAssumption, PipelineAssumption DEF Init, AllNames
<1> QED
  BY <1>1 DEF Init, H!Init, O!Init, HD!Init, OD!Init

(* What other programs do is, to samedelay, that names come and go.        *)
LEMMA LinkedIsIdle ==
  ASSUME UNCHANGED hVars
  PROVE  HD!Next
BY DEF hVars, HD!Next, HD!OthersWork

(* The same for the one behind the output.                                 *)
LEMMA OtherIsIdle ==
  ASSUME UNCHANGED oVars
  PROVE  OD!Next
BY DEF oVars, OD!Next, OD!OthersWork

(* The samedelay in the leaf pipe takes its next line.                     *)
LEMMA HoldLinkedDelays ==
  ASSUME FlowInv, HoldLinked
  PROVE  HD!Next
<1>1. ASSUME Len(hRead) < Len(consumed), H!TakeLine(consumed[Len(hRead) + 1])
      PROVE  HD!Next
  <2> DEFINE l == consumed[Len(hRead) + 1]
  <2>1. Len(hRead) + 1 \in 1 .. Len(consumed)
    BY <1>1 DEF FlowInv
  <2>2. l \in HD!Input
    <3>1. l \in Pairs
      BY <2>1 DEF FlowInv
    <3> QED
      BY <3>1 DEF HD!Input, HD!Pairs, Pairs
  <2>3. HD!TakeLine(l)
    BY <1>1
    DEF HD!TakeLine, H!TakeLine, HD!Accepted, H!Accepted, HD!Match, H!Match,
        HD!BufferAdd, H!BufferAdd, HD!BufferFlush, H!BufferFlush,
        HD!BufferAction, H!BufferAction, HD!SameSize, H!SameSize,
        HD!Assigned, H!Assigned
  <2> QED
    BY <2>2, <2>3 DEF HD!Next, HD!ReadLine
<1>2. CASE H!EndOfInput \/ H!FlushAtEnd
  BY <1>2 DEF H!EndOfInput, H!FlushAtEnd, HD!EndOfInput, HD!FlushAtEnd, HD!Next
<1> QED
  BY <1>1, <1>2 DEF HoldLinked

(* And so does the one behind the output, which may get a signal.          *)
LEMMA HoldOtherDelays ==
  ASSUME FlowInv, HoldOther \/ QuitOther
  PROVE  OD!Next
<1>1. ASSUME Len(oRead) < Len(printed), O!TakeLine(printed[Len(oRead) + 1])
      PROVE  OD!Next
  <2> DEFINE l == printed[Len(oRead) + 1]
  <2>1. Len(oRead) + 1 \in 1 .. Len(printed)
    BY <1>1 DEF FlowInv
  <2>2. l \in OD!Input
    <3>1. l \in Pairs
      BY <2>1 DEF FlowInv
    <3> QED
      BY <3>1 DEF OD!Input, OD!Pairs, Pairs
  <2>3. OD!TakeLine(l)
    BY <1>1
    DEF OD!TakeLine, O!TakeLine, OD!Accepted, O!Accepted, OD!Match, O!Match,
        OD!BufferAdd, O!BufferAdd, OD!BufferFlush, O!BufferFlush,
        OD!BufferAction, O!BufferAction, OD!SameSize, O!SameSize,
        OD!Assigned, O!Assigned
  <2> QED
    BY <2>2, <2>3 DEF OD!Next, OD!ReadLine
<1>2. CASE O!EndOfInput \/ O!FlushAtEnd \/ O!Quit
  BY <1>2 DEF O!EndOfInput, O!FlushAtEnd, O!Quit,
              OD!EndOfInput, OD!FlushAtEnd, OD!Quit, OD!Next
<1> QED
  BY <1>1, <1>2 DEF HoldOther, QuitOther

(* The pipeline implements two Delay that know nothing of it.              *)
THEOREM PipelineDelays == Spec => HD!Spec /\ OD!Spec
<1>1. FlowInv /\ [Next]_vars => [HD!Next]_(HD!vars) /\ [OD!Next]_(OD!vars)
  <2> SUFFICES ASSUME FlowInv, [Next]_vars
               PROVE  [HD!Next]_(HD!vars) /\ [OD!Next]_(OD!vars)
    OBVIOUS
  <2>1. CASE UNCHANGED <<hVars, oVars>>
    BY <2>1, LinkedIsIdle, OtherIsIdle
  <2>2. CASE HoldLinked
    BY <2>2, HoldLinkedDelays, OtherIsIdle DEF HoldLinked
  <2>3. CASE HoldOther \/ QuitOther
    BY <2>3, HoldOtherDelays, LinkedIsIdle DEF HoldOther, QuitOther
  <2> QED
    BY <2>1, <2>2, <2>3 DEF Next, StageStep, LnStep, vars
<1> QED
  BY <1>1, DelaysInit, LinesFlow, PTL DEF Spec, HD!Spec, OD!Spec

(* What each has read it holds or has printed.                             *)
THEOREM HeldByDelays == Spec => []HD!HeldInv /\ []OD!HeldInv
<1>1. HD!FilesAssumption /\ HD!LinesAssumption /\ HD!CapacityAssumption
  BY FilesAssumption, LinesAssumption, CapacityAssumption
  DEF HD!FilesAssumption, HD!LinesAssumption, HD!CapacityAssumption, HD!Pairs, Pairs
<1>2. OD!FilesAssumption /\ OD!LinesAssumption /\ OD!CapacityAssumption
  BY FilesAssumption, LinesAssumption, CapacityAssumption
  DEF OD!FilesAssumption, OD!LinesAssumption, OD!CapacityAssumption, OD!Pairs, Pairs
<1>3. HD!Spec => []HD!HeldInv
  BY <1>1, HD!HeldAlways, PTL
<1>4. OD!Spec => []OD!HeldInv
  BY <1>2, OD!HeldAlways, PTL
<1> QED
  BY <1>3, <1>4, PipelineDelays, PTL

(* The lines that pass through either samedelay stay in order, whatever    *)
(* the programs before and behind it do (samedelay.cpp).                   *)
THEOREM DelaysKeepOrder == Spec => []LinesInOrder
<1>1. HD!FilesAssumption /\ HD!LinesAssumption /\ HD!CapacityAssumption
  BY FilesAssumption, LinesAssumption, CapacityAssumption
  DEF HD!FilesAssumption, HD!LinesAssumption, HD!CapacityAssumption, HD!Pairs, Pairs
<1>2. OD!FilesAssumption /\ OD!LinesAssumption /\ OD!CapacityAssumption
  BY FilesAssumption, LinesAssumption, CapacityAssumption
  DEF OD!FilesAssumption, OD!LinesAssumption, OD!CapacityAssumption, OD!Pairs, Pairs
<1>3. HD!Spec => []HD!LinesInOrder
  BY <1>1, HD!LinesKeptInOrder, PTL
<1>4. OD!Spec => []OD!LinesInOrder
  BY <1>2, OD!LinesKeptInOrder, PTL
<1>5. HD!LinesInOrder /\ OD!LinesInOrder => LinesInOrder
  BY DEF LinesInOrder, H!LinesInOrder, HD!LinesInOrder, H!Kept, HD!Kept,
         O!LinesInOrder, OD!LinesInOrder, O!Kept, OD!Kept
<1> QED
  BY <1>3, <1>4, <1>5, PipelineDelays, PTL

-------------------------------------------------------------------------------
(* The names.  Whether the next call is permitted is not known before it   *)
(* is made; what is known is which of the source and its backup are names  *)
(* at each step, but for backups that were refused.                        *)
SrcPresent == entry[Src] # Absent
SrcSaved == entry[Saved] # Absent \/ Src \in unbacked

NamesInv ==
  /\ entry \in [AllNames -> Inodes \cup {Absent}]
  /\ DOMAIN lpc = {Ln} /\ DOMAIN lline = {Ln}
  /\ lpc[Ln] # "read" => lline[Ln] \in [dst : Names, src : Names]
  /\ lpc[Ln] \in {"compare", "backup", "remove", "undo", "delete"} => SrcPresent
  /\ lpc[Ln] \in {"remove", "link", "restore"} => SrcSaved
  /\ unbacked \subseteq Names
  /\ LostOnlyUnbacked

(* The line is about names, and the source is not its own backup.          *)
LEMMA LineNames ==
  ASSUME NamesInv, lpc[Ln] # "read"
  PROVE  /\ Src \in Names /\ Src \in AllNames /\ Saved \in AllNames /\ Src # Saved
         /\ lline[Ln].dst \in Names /\ lline[Ln].dst \in AllNames
<1>1. lline[Ln] \in [dst : Names, src : Names]
  BY DEF NamesInv
<1>2. Src \in Names /\ lline[Ln].dst \in Names
  BY <1>1 DEF Src
<1> QED
  BY <1>2, BackupAssumption DEF Saved, AllNames

(* A call that changes the source or its backup, or no name, keeps the     *)
(* invariant when it leaves them as the next step expects them.            *)
LEMMA OwnNames ==
  ASSUME NamesInv, lpc[Ln] # "read",
         \/ \E s \in Free!Steps \ {"read"} : Proceeds(s)
         \/ \E r \in Free!Outcomes : Ends(r),
         \/ entry' = entry
         \/ \E n \in {Src, Saved}, i \in Inodes \cup {Absent} :
              entry' = [entry EXCEPT ![n] = i],
         unbacked' \in {unbacked, unbacked \cup {Src}},
         lpc'[Ln] \in {"compare", "backup", "remove", "undo", "delete"} => entry'[Src] # Absent,
         lpc'[Ln] \in {"remove", "link", "restore"} =>
           entry'[Saved] # Absent \/ Src \in unbacked',
         entry'[Src] # Absent \/ entry'[Saved] # Absent \/ Src \in unbacked'
  PROVE  NamesInv'
<1>1. /\ DOMAIN lpc' = {Ln} /\ DOMAIN lline' = {Ln}
      /\ lpc'[Ln] # "read" => lline'[Ln] = lline[Ln]
  BY DEF NamesInv, Proceeds, Ends, Free!Goto, Free!Finish
<1>2. entry' \in [AllNames -> Inodes \cup {Absent}]
  BY LineNames DEF NamesInv
<1>3. unbacked \subseteq unbacked' /\ unbacked' \subseteq Names
  BY LineNames DEF NamesInv
<1>4. ASSUME NEW n \in Names
      PROVE  entry'[n] # Absent \/ entry'[BackupOf[n]] # Absent \/ n \in unbacked'
  <2>1. CASE n = Src
    BY <2>1 DEF Saved
  <2>2. CASE n # Src
    <3>1. /\ n \in AllNames /\ BackupOf[n] \in AllNames
          /\ n \notin {Src, Saved} /\ BackupOf[n] \notin {Src, Saved}
      <4>1. /\ n \in AllNames /\ BackupOf[n] \in AllNames /\ n # Saved /\ BackupOf[n] # Src
            /\ n # Src => BackupOf[n] # Saved
        <5>1. Src \in Names
          BY LineNames
        <5> QED
          BY <5>1, BackupAssumption DEF Saved, AllNames
      <4> QED
        BY <2>2, <4>1
    <3>2. entry'[n] = entry[n] /\ entry'[BackupOf[n]] = entry[BackupOf[n]]
      BY <3>1 DEF NamesInv
    <3> QED
      BY <1>3, <3>2 DEF NamesInv, LostOnlyUnbacked, Free!Present
  <2> QED
    BY <2>1, <2>2
<1>5. LostOnlyUnbacked'
  BY <1>4 DEF LostOnlyUnbacked, Free!Present
<1>6. /\ lpc'[Ln] # "read" => lline'[Ln] \in [dst : Names, src : Names]
      /\ lpc'[Ln] \in {"compare", "backup", "remove", "undo", "delete"} => SrcPresent'
      /\ lpc'[Ln] \in {"remove", "link", "restore"} => SrcSaved'
  BY <1>1 DEF NamesInv, SrcPresent, SrcSaved, Src, Saved
<1> QED
  BY <1>1, <1>2, <1>3, <1>5, <1>6 DEF NamesInv

(* What a call that is permitted does to the names.                        *)
LEMMA PermittedNames ==
  ASSUME NamesInv, Permitted, Free!Work(Ln),
         unbacked' = IF lpc[Ln] = "backup" /\ ~Permitted
                     THEN unbacked \cup {lline[Ln].src} ELSE unbacked
  PROVE  NamesInv'
<1> USE DEF Free!Src, Free!Dst, Free!Backup, Free!Present, Free!CanLink, Free!SetEntry,
            Src, Saved
<1>0. /\ lpc[Ln] # "read" /\ unbacked' = unbacked
      /\ \/ \E s \in Free!Steps \ {"read"} : Proceeds(s)
         \/ \E r \in Free!Outcomes : Ends(r)
  BY FreeStep
<1>1. /\ Src \in AllNames /\ Saved \in AllNames /\ Src # Saved /\ lline[Ln].dst \in AllNames
      /\ entry \in [AllNames -> Inodes \cup {Absent}] /\ DOMAIN lpc = {Ln}
      /\ Absent \notin Inodes
      /\ entry[Src] # Absent \/ entry[Saved] # Absent \/ Src \in unbacked
  BY <1>0, LineNames, PipelineAssumption DEF NamesInv, LostOnlyUnbacked
<1>2. CASE Free!Compare(Ln) \/ Free!CompareCached(Ln)
  <2>1. lpc[Ln] = "compare" /\ entry' = entry /\ lpc'[Ln] \in {"read", "backup"}
    BY <1>1, <1>2 DEF Free!Compare, Free!CompareCached, Free!Decide, Free!Goto, Free!Finish
  <2> QED
    BY <1>0, <1>1, <2>1, OwnNames DEF NamesInv, SrcPresent
<1>3. CASE Free!MakeBackup(Ln)
  <2>1. /\ lpc[Ln] = "backup" /\ lpc'[Ln] = "remove" /\ entry[Src] # Absent
        /\ \/ entry[Saved] = Absent /\ entry' = [entry EXCEPT ![Saved] = entry[Src]]
           \/ entry[Saved] # Absent /\ entry' = entry
    BY <1>1, <1>3 DEF Free!MakeBackup, Free!Goto, NamesInv, SrcPresent
  <2> QED
    BY <1>0, <1>1, <2>1, OwnNames
<1>4. CASE Free!RemoveSource(Ln)
  <2>1. /\ lpc[Ln] = "remove" /\ SrcSaved
        /\ \/ lpc'[Ln] = "link" /\ entry' = [entry EXCEPT ![Src] = Absent]
           \/ lpc'[Ln] = "read" /\ entry' = entry
    BY <1>1, <1>4 DEF Free!RemoveSource, Free!Goto, Free!Finish, NamesInv
  <2> QED
    BY <1>0, <1>1, <2>1, OwnNames DEF SrcSaved
<1>5. CASE Free!PlaceLink(Ln)
  <2>1. Free!SameDev(Ln)
    BY <1>0, LineNames DEF Free!SameDev
  <2>2. /\ lpc[Ln] = "link" /\ SrcSaved
        /\ \/ /\ lpc'[Ln] = "delete" /\ entry[lline[Ln].dst] # Absent
              /\ entry' = [entry EXCEPT ![Src] = entry[lline[Ln].dst]]
           \/ lpc'[Ln] = "restore" /\ entry' = entry
    BY <1>1, <1>5, <2>1
    DEF Free!PlaceLink, Free!PlaceHardLink, Free!PlaceSymlink, Free!Goto, NamesInv
  <2> QED
    BY <1>0, <1>1, <2>2, OwnNames DEF SrcSaved
<1>6. CASE Free!RestoreSource(Ln)
  <2>1. /\ lpc[Ln] = "restore"
        /\ \/ /\ lpc'[Ln] = "undo" /\ entry[Saved] # Absent
              /\ entry' = [entry EXCEPT ![Src] = entry[Saved]]
           \/ lpc'[Ln] = "read" /\ entry' = entry
    BY <1>1, <1>6 DEF Free!RestoreSource, Free!Goto, Free!Finish
  <2> QED
    BY <1>0, <1>1, <2>1, OwnNames
<1>7. CASE Free!DeleteBackup(Ln)
  <2>1. /\ lpc'[Ln] = "read" /\ entry[Src] # Absent
        /\ \/ entry' = [entry EXCEPT ![Saved] = Absent]
           \/ entry' = entry
    BY <1>1, <1>7 DEF Free!DeleteBackup, Free!Finish, NamesInv, SrcPresent
  <2> QED
    BY <1>0, <1>1, <2>1, OwnNames
<1> QED
  BY <1>2, <1>3, <1>4, <1>5, <1>6, <1>7 DEF Free!Work

(* And one that is refused: the process goes on, as if it had been made or *)
(* as the code does after a failure, but no name changes.                  *)
LEMMA RefusedNames ==
  ASSUME NamesInv, ~Permitted, Refused!Work(Ln), entry' = entry,
         unbacked' = IF lpc[Ln] = "backup" /\ ~Permitted
                     THEN unbacked \cup {lline[Ln].src} ELSE unbacked
  PROVE  NamesInv'
<1> USE DEF Refused!Src, Refused!Dst, Refused!Backup, Refused!Present, Refused!CanLink,
            Refused!SetEntry, Free!Present, Src, Saved
<1>0. /\ lpc[Ln] # "read" /\ lpc[Ln] # "compare"
      /\ \/ \E s \in Free!Steps \ {"read"} : Proceeds(s)
         \/ \E r \in Free!Outcomes : Ends(r)
      /\ unbacked' \in {unbacked, unbacked \cup {Src}}
  BY RefusedStep DEF Permitted
<1>1. /\ Src \in AllNames /\ Saved \in AllNames /\ Src # Saved /\ lline[Ln].dst \in AllNames
      /\ entry \in [AllNames -> Inodes \cup {Absent}] /\ DOMAIN lpc = {Ln}
      /\ entry[Src] # Absent \/ entry[Saved] # Absent \/ Src \in unbacked'
  BY <1>0, LineNames DEF NamesInv, LostOnlyUnbacked
<1>2. CASE Refused!MakeBackup(Ln)
  <2>1. /\ lpc[Ln] = "backup" /\ lpc'[Ln] = "remove" /\ entry[Src] # Absent
        /\ Src \in unbacked'
    BY <1>1, <1>2 DEF Refused!MakeBackup, Refused!Goto, NamesInv, SrcPresent
  <2> QED
    BY <1>0, <1>1, <2>1, OwnNames
<1>3. CASE Refused!RemoveSource(Ln)
  <2>1. lpc[Ln] = "remove" /\ entry[Src] # Absent /\ SrcSaved
    BY <1>3 DEF Refused!RemoveSource, NamesInv, SrcPresent
  <2>2. lpc'[Ln] \in {"link", "read"}
    BY <1>1, <1>3 DEF Refused!RemoveSource, Refused!Goto, Refused!Finish
  <2> QED
    BY <1>0, <1>1, <2>1, <2>2, OwnNames DEF SrcSaved
<1>4. CASE Refused!PlaceLink(Ln)
  <2>1. Refused!SameDev(Ln)
    BY <1>0, LineNames DEF Refused!SameDev
  <2>2. /\ lpc[Ln] = "link" /\ SrcSaved
        /\ \/ lpc'[Ln] = "delete" /\ entry[Src] # Absent
           \/ lpc'[Ln] = "restore"
    BY <1>1, <1>4, <2>1
    DEF Refused!PlaceLink, Refused!PlaceHardLink, Refused!PlaceSymlink, Refused!Goto, NamesInv
  <2> QED
    BY <1>0, <1>1, <2>2, OwnNames DEF SrcSaved
<1>5. CASE Refused!RestoreSource(Ln)
  <2>1. /\ lpc[Ln] = "restore"
        /\ \/ lpc'[Ln] = "undo" /\ entry[Src] # Absent
           \/ lpc'[Ln] = "read"
    BY <1>1, <1>5 DEF Refused!RestoreSource, Refused!Goto, Refused!Finish
  <2> QED
    BY <1>0, <1>1, <2>1, OwnNames
<1>6. CASE Refused!DeleteBackup(Ln)
  <2>1. lpc'[Ln] = "read"
    BY <1>1, <1>6 DEF Refused!DeleteBackup, Refused!Finish
  <2> QED
    BY <1>0, <1>1, <2>1, OwnNames
<1>7. ~Refused!Compare(Ln) /\ ~Refused!CompareCached(Ln)
  BY <1>0 DEF Refused!Compare, Refused!CompareCached
<1> QED
  BY <1>2, <1>3, <1>4, <1>5, <1>6, <1>7 DEF Refused!Work

(* At first every name of a report is a name.                              *)
LEMMA NamesInit == Init => NamesInv
<1> SUFFICES ASSUME Init PROVE NamesInv
  OBVIOUS
<1>1. \A n \in Names : InitEntry[n] \in Inodes /\ n \in AllNames
  BY FilesAssumption DEF AllNames
<1>2. /\ entry \in [AllNames -> Inodes \cup {Absent}]
      /\ \A n \in Names : entry[n] # Absent
  BY <1>1, PipelineAssumption DEF Init
<1>3. /\ DOMAIN lpc = {Ln} /\ DOMAIN lline = {Ln} /\ lpc[Ln] = "read" /\ unbacked = {}
  BY DEF Init
<1> QED
  BY <1>2, <1>3 DEF NamesInv, LostOnlyUnbacked, Free!Present

(* A line is taken up only if both its files are there.                    *)
LEMMA LineTaken ==
  ASSUME FlowInv, NamesInv, LinkLine, UNCHANGED unbacked
  PROVE  NamesInv'
<1>1. Current \in Pairs
  <2>1. lines[Ln] + 1 \in 1 .. Len(aout["clear"])
    BY DEF FlowInv, LinkLine
  <2> QED
    BY <2>1 DEF FlowInv, Current
<1>2. Oriented(Current) \in [dst : Names, src : Names]
  BY <1>1 DEF Oriented, Pairs
<1>3. /\ entry' = entry /\ DOMAIN lpc' = {Ln} /\ DOMAIN lline' = {Ln}
      /\ \/ /\ lpc'[Ln] = "compare" /\ lline'[Ln] = Oriented(Current)
            /\ entry[Oriented(Current).src] # Absent
         \/ lpc'[Ln] = "read"
  BY DEF LinkLine, Free!TakeLine, Free!Finish, Free!Present, NamesInv
<1> QED
  BY <1>2, <1>3
  DEF NamesInv, SrcPresent, SrcSaved, Src, LostOnlyUnbacked, Free!Present

(* What is known of the names of the line holds at every step.            *)
THEOREM NamesStay == Spec => []NamesInv
<1>1. FlowInv /\ NamesInv /\ [Next]_vars => NamesInv'
  <2> SUFFICES ASSUME FlowInv, NamesInv, [Next]_vars PROVE NamesInv'
    OBVIOUS
  <2>1. CASE LnStep
    <3>1. CASE LinkLine
      BY <2>1, <3>1, LineTaken DEF LnStep, LinkLine, Free!TakeLine
    <3>2. CASE LinkStep
      BY <2>1, <3>2, PermittedNames, RefusedNames DEF LnStep, LinkStep
    <3> QED
      BY <2>1, <3>1, <3>2 DEF LnStep
  <2>2. CASE UNCHANGED <<entry, lpc, lline, unbacked>>
    BY <2>2 DEF NamesInv, SrcPresent, SrcSaved, Src, Saved, LostOnlyUnbacked, Free!Present
  <2>3. ASSUME NEW s \in Stages, StageStep(s)
        PROVE  UNCHANGED <<entry, lpc, lline, unbacked>>
    BY <2>3 DEF StageStep, lnVars, A!ReadLine, A!Work, A!Stat1, A!Stat2,
                A!ChangeLeft, A!ChangeRight
  <2>4. CASE HoldLinked \/ HoldOther \/ QuitOther
    BY <2>2, <2>4 DEF HoldLinked, HoldOther, QuitOther, lnVars
  <2>5. CASE UNCHANGED vars
    BY <2>2, <2>5 DEF vars, lnVars
  <2> QED
    BY <2>1, <2>2, <2>3, <2>4, <2>5 DEF Next
<1> QED
  BY <1>1, NamesInit, LinesFlow, PTL DEF Spec

(* Whatever the other programs make of the files' attributes, a name whose *)
(* backup was not refused is not lost.                                     *)
THEOREM LossNeedsRefusal == Spec => []LostOnlyUnbacked
<1>1. NamesInv => LostOnlyUnbacked
  BY DEF NamesInv
<1> QED
  BY <1>1, NamesStay, PTL

-------------------------------------------------------------------------------
(* The types.  A stage prints what it has read, and computes attributes    *)
(* from attributes.                                                        *)
LEMMA NewBitsType ==
  ASSUME A!TypeOK, NEW s \in Stages, NEW v \in A!Attrs
  PROVE  /\ options[s].name = "samechflags" => A!NewBits(s, v.flags) \in SUBSET Flags
         /\ options[s].name = "samechmod" => A!NewBits(s, v.mode) \in SUBSET Modes
         /\ options[s].name = "samechown" => options[s].owner \in Ids /\ options[s].group \in Ids
         /\ options[s].name \in {"samechflags", "samechmod", "samechown"}
<1>1. options[s] \in A!Programs
  BY DEF A!TypeOK
<1>2. v.flags \in SUBSET Flags /\ v.mode \in SUBSET Modes
  BY DEF A!Attrs
<1> QED
  BY <1>1, <1>2 DEF A!Programs, A!NewBits

(* What an attribute program makes of attributes are attributes.           *)
LEMMA ChangedType ==
  ASSUME A!TypeOK, NEW s \in Stages, NEW a \in A!Attrs, NEW v \in A!Attrs
  PROVE  A!Changed(s, a, v) \in A!Attrs
<1>1. CASE options[s].name = "samechflags"
  BY <1>1, NewBitsType DEF A!Changed, A!Attrs
<1>2. CASE options[s].name = "samechmod"
  BY <1>2, NewBitsType DEF A!Changed, A!Attrs
<1>3. CASE options[s].name = "samechown"
  BY <1>3, NewBitsType DEF A!Changed, A!Attrs
<1> QED
  BY <1>1, <1>2, <1>3, NewBitsType

(* The call that changes them keeps those of all files.                    *)
LEMMA ChangeType ==
  ASSUME A!TypeOK, NEW s \in Stages, NEW n, NEW v \in A!Attrs, A!Change(s, n, v)
  PROVE  attr' \in [A!Objects -> A!Attrs]
<1> DEFINE target == A!Target(s, n)
<1>1. attr \in [A!Objects -> A!Attrs]
  BY DEF A!TypeOK
<1>2. CASE target \in A!Objects /\ A!Calls(s, v)
  <2>1. A!Changed(s, attr[target], v) \in A!Attrs
    BY <1>1, <1>2, ChangedType
  <2>2. attr' = [attr EXCEPT ![target] = A!Changed(s, @, v)]
    BY <1>2 DEF A!Change
  <2> QED
    BY <1>1, <2>1, <2>2
<1>3. CASE ~(target \in A!Objects /\ A!Calls(s, v))
  BY <1>1, <1>3 DEF A!Change
<1> QED
  BY <1>2, <1>3

(* The line printed is the one read, or the one just read.                 *)
LEMMA PrintType ==
  ASSUME A!TypeOK, NEW s \in Stages, NEW l \in A!Pairs \cup {Garbled},
         \/ A!Skip(s, l)
         \/ \E t \in {"stat1", "stat2", "left", "right"} : A!Proceed(s, t)
  PROVE  /\ apc' \in [Stages -> {"read", "stat1", "stat2", "left", "right"}]
         /\ aout' \in [Stages -> Seq(A!Pairs \cup {Garbled})]
         /\ \A u \in Stages \ {s} : apc'[u] = apc[u]
<1>1. /\ apc \in [Stages -> {"read", "stat1", "stat2", "left", "right"}]
      /\ aout \in [Stages -> Seq(A!Pairs \cup {Garbled})]
  BY DEF A!TypeOK
<1>2. Append(aout[s], l) \in Seq(A!Pairs \cup {Garbled})
  BY <1>1
<1>3. CASE A!Skip(s, l)
  BY <1>1, <1>2, <1>3 DEF A!Skip, A!Goto, A!PrintAgain
<1>4. CASE \E t \in {"stat1", "stat2", "left", "right"} : A!Proceed(s, t)
  BY <1>1, <1>4 DEF A!Proceed, A!Goto
<1> QED
  BY <1>3, <1>4

(* A stage that reads a line keeps the types.                              *)
LEMMA ReadType ==
  ASSUME A!TypeOK, NEW s \in Stages, NEW l \in A!Pairs \cup {Garbled}, A!ReadLine(s, l)
  PROVE  A!TypeOK'
<1>1. \/ l = Garbled /\ A!Skip(s, l)
      \/ l \in A!Pairs /\ A!Proceed(s, "stat1")
  BY DEF A!ReadLine
<1>2. /\ apc' \in [Stages -> {"read", "stat1", "stat2", "left", "right"}]
      /\ aout' \in [Stages -> Seq(A!Pairs \cup {Garbled})]
      /\ \A u \in Stages \ {s} : apc'[u] = apc[u]
  BY <1>1, PrintType
<1>3. aline' = [aline EXCEPT ![s] = l] /\ UNCHANGED <<entry, attr, options, stats>>
  BY DEF A!ReadLine
<1>4. apc'[s] # "read" => apc'[s] = "stat1" /\ l \in A!Pairs
  BY <1>1 DEF A!Skip, A!Proceed, A!Goto, A!TypeOK
<1>5. ASSUME NEW u \in Stages
      PROVE  /\ apc'[u] # "read" => aline'[u] \in A!Pairs
             /\ apc'[u] \in {"stat2", "left", "right"} => stats'[u].s1 \in A!Stats
             /\ apc'[u] \in {"left", "right"} => stats'[u].s2 \in A!Stats
  <2>1. CASE u = s
    BY <1>3, <1>4, <2>1 DEF A!TypeOK
  <2>2. CASE u # s
    BY <1>2, <1>3, <2>2 DEF A!TypeOK
  <2> QED
    BY <2>1, <2>2
<1> QED
  BY <1>2, <1>3, <1>5 DEF A!TypeOK

(* So does one that works on it.                                           *)
LEMMA WorkType ==
  ASSUME A!TypeOK, NEW s \in Stages, A!Work(s), Absent \notin Inodes
  PROVE  A!TypeOK'
<1>0. /\ apc[s] # "read" /\ aline[s] \in A!Pairs
      /\ aline[s].f1 \in AllNames /\ aline[s].f2 \in AllNames
      /\ entry \in [AllNames -> Inodes \cup {Absent}]
      /\ attr \in [A!Objects -> A!Attrs]
      /\ stats \in [Stages -> [s1 : A!Stats \cup {A!NoStat}, s2 : A!Stats \cup {A!NoStat}]]
  BY DEF A!Work, A!Stat1, A!Stat2, A!ChangeLeft, A!ChangeRight, A!TypeOK, A!Pairs
<1>1. ASSUME NEW n \in AllNames, A!Present(n) PROVE A!Stat(n) \in A!Stats
  BY <1>0, <1>1 DEF A!Present, A!Stat, A!Stats, A!Objects
<1>2. UNCHANGED <<entry, options, aline>>
  BY DEF A!Work, A!Stat1, A!Stat2, A!ChangeLeft, A!ChangeRight
<1>3. /\ apc' \in [Stages -> {"read", "stat1", "stat2", "left", "right"}]
      /\ aout' \in [Stages -> Seq(A!Pairs \cup {Garbled})]
      /\ \A u \in Stages \ {s} : apc'[u] = apc[u]
  <2>1. \/ A!Skip(s, aline[s])
        \/ \E t \in {"stat1", "stat2", "left", "right"} : A!Proceed(s, t)
    BY DEF A!Work, A!Stat1, A!Stat2, A!ChangeLeft, A!ChangeRight
  <2> QED
    BY <1>0, <2>1, PrintType
<1>4. /\ attr' \in [A!Objects -> A!Attrs]
      /\ stats' \in [Stages -> [s1 : A!Stats \cup {A!NoStat}, s2 : A!Stats \cup {A!NoStat}]]
      /\ \A u \in Stages \ {s} : stats'[u] = stats[u]
      /\ apc'[s] \in {"stat2", "left", "right"} => stats'[s].s1 \in A!Stats
      /\ apc'[s] \in {"left", "right"} => stats'[s].s2 \in A!Stats
  <2>1. CASE A!Stat1(s)
    <3>1. attr' = attr
      BY <2>1 DEF A!Stat1
    <3>2. CASE /\ A!Present(aline[s].f1) /\ apc'[s] = "stat2"
               /\ stats' = [stats EXCEPT ![s].s1 = A!Stat(aline[s].f1)]
      BY <1>0, <1>1, <3>1, <3>2
    <3>3. CASE stats' = stats /\ apc'[s] = "read"
      BY <1>0, <3>1, <3>3
    <3> QED
      BY <2>1, <3>2, <3>3 DEF A!Stat1, A!Proceed, A!Skip, A!Goto, A!TypeOK
  <2>2. CASE A!Stat2(s)
    <3>1. attr' = attr /\ stats[s].s1 \in A!Stats
      BY <2>2 DEF A!Stat2, A!TypeOK
    <3>2. CASE /\ A!Present(aline[s].f2)
               /\ stats' = [stats EXCEPT ![s].s2 = A!Stat(aline[s].f2)]
      BY <1>0, <1>1, <3>1, <3>2
    <3>3. CASE stats' = stats /\ apc'[s] = "read"
      BY <1>0, <3>1, <3>3
    <3> QED
      BY <2>2, <3>2, <3>3 DEF A!Stat2, A!Skip, A!Goto, A!TypeOK
  <2>3. CASE A!ChangeLeft(s) \/ A!ChangeRight(s)
    <3>1. /\ apc[s] \in {"left", "right"} /\ stats' = stats
          /\ stats[s].s1 \in A!Stats /\ stats[s].s2 \in A!Stats
      BY <2>3 DEF A!ChangeLeft, A!ChangeRight, A!TypeOK
    <3>2. stats[s].s1.attr \in A!Attrs /\ stats[s].s2.attr \in A!Attrs
      BY <3>1 DEF A!Stats
    <3>3. attr' \in [A!Objects -> A!Attrs]
      BY <2>3, <3>2, ChangeType DEF A!ChangeLeft, A!ChangeRight
    <3> QED
      BY <1>0, <3>1, <3>3
  <2> QED
    BY <2>1, <2>2, <2>3 DEF A!Work
<1>5. ASSUME NEW u \in Stages
      PROVE  /\ apc'[u] # "read" => aline'[u] \in A!Pairs
             /\ apc'[u] \in {"stat2", "left", "right"} => stats'[u].s1 \in A!Stats
             /\ apc'[u] \in {"left", "right"} => stats'[u].s2 \in A!Stats
  <2>1. CASE u = s
    BY <1>0, <1>2, <1>4, <2>1
  <2>2. CASE u # s
    BY <1>2, <1>3, <1>4, <2>2 DEF A!TypeOK
  <2> QED
    BY <2>1, <2>2
<1> QED
  BY <1>2, <1>3, <1>4, <1>5 DEF A!TypeOK

(* sameln goes on with a line of two names and their inodes.               *)
LEMMA LinkTypesStep ==
  ASSUME Free!ProcsTypeOK, FlowInv, entry \in [AllNames -> Inodes \cup {Absent}],
         LinkLine \/ LinkStep
  PROVE  Free!ProcsTypeOK'
<1> USE DEF Free!ProcsTypeOK, Free!Steps, Free!Outcomes
<1>1. CASE LinkStep
  <2>1. ASSUME NEW t \in Free!Steps \ {"read"}, Proceeds(t), lpc[Ln] # "read"
        PROVE  Free!ProcsTypeOK'
    BY <2>1 DEF Proceeds, Free!Goto
  <2>2. ASSUME NEW r \in Free!Outcomes, Ends(r)
        PROVE  Free!ProcsTypeOK'
    BY <2>2 DEF Ends, Free!Finish
  <2> QED
    BY <1>1, <2>1, <2>2, LinkWorks
<1>2. CASE LinkLine
  <2> DEFINE l == Oriented(Current)
  <2>1. l \in [dst : Names, src : Names]
    <3>1. lines[Ln] + 1 \in 1 .. Len(aout["clear"])
      BY <1>2 DEF FlowInv, LinkLine
    <3>2. Current \in Pairs
      BY <3>1 DEF FlowInv, Current
    <3> QED
      BY <3>2 DEF Oriented, Pairs
  <2>2. CASE Free!Finish(Ln, "skipped")
    BY <2>2 DEF Free!Finish
  <2>3. CASE /\ Free!Present(l.dst) /\ Free!Present(l.src)
             /\ lpc' = [lpc EXCEPT ![Ln] = "compare"]
             /\ lline' = [lline EXCEPT ![Ln] = l]
             /\ ino' = [ino EXCEPT ![Ln] = [dst |-> entry[l.dst], src |-> entry[l.src]]]
             /\ outcome' = [outcome EXCEPT ![Ln] = "none"]
             /\ UNCHANGED lines
    <3>1. [dst |-> entry[l.dst], src |-> entry[l.src]] \in [dst : Inodes, src : Inodes]
      BY <2>1, <2>3 DEF Free!Present, AllNames
    <3> HIDE DEF l
    <3> QED
      BY <2>1, <2>3, <3>1
  <2> QED
    BY <1>2, <2>2, <2>3 DEF LinkLine, Free!TakeLine
<1> QED
  BY <1>1, <1>2

(* What the stages read and print.                                         *)
LEMMA StageTypes ==
  ASSUME A!TypeOK, FlowInv, H!TypeOK, O!TypeOK, NEW s \in Stages, StageStep(s)
  PROVE  A!TypeOK'
<1>1. CASE A!Work(s)
  BY <1>1, WorkType, PipelineAssumption
<1>2. CASE taken[s] < Len(InputOf(s)) /\ A!ReadLine(s, InputOf(s)[taken[s] + 1])
  <2>1. /\ taken[s] \in Nat
        /\ report \in Seq(Pairs) /\ hOut \in Seq(H!Input) /\ oOut \in Seq(O!Input)
    BY DEF FlowInv, H!TypeOK, O!TypeOK
  <2>2. /\ Pairs \subseteq A!Pairs
        /\ H!Input \subseteq A!Pairs \cup {Garbled}
        /\ O!Input \subseteq A!Pairs \cup {Garbled}
    BY DEF Pairs, A!Pairs, H!Input, H!Pairs, O!Input, O!Pairs, AllNames
  <2>3. CASE s = "clear"
    <3>1. taken[s] + 1 \in 1 .. Len(report)
      BY <1>2, <2>1, <2>3 DEF InputOf
    <3>2. report[taken[s] + 1] \in A!Pairs \cup {Garbled}
      BY <2>1, <2>2, <3>1
    <3> QED
      BY <1>2, <2>3, <3>2, ReadType DEF InputOf
  <2>4. CASE s = "setLinked"
    <3>1. taken[s] + 1 \in 1 .. Len(hOut)
      BY <1>2, <2>1, <2>4 DEF InputOf
    <3>2. hOut[taken[s] + 1] \in A!Pairs \cup {Garbled}
      BY <2>1, <2>2, <3>1
    <3> QED
      BY <1>2, <2>4, <3>2, ReadType DEF InputOf
  <2>5. CASE s = "setOther"
    <3>1. taken[s] + 1 \in 1 .. Len(oOut)
      BY <1>2, <2>1, <2>5 DEF InputOf
    <3>2. oOut[taken[s] + 1] \in A!Pairs \cup {Garbled}
      BY <2>1, <2>2, <3>1
    <3> QED
      BY <1>2, <2>5, <3>2, ReadType DEF InputOf
  <2> QED
    BY <2>3, <2>4, <2>5 DEF Stages
<1> QED
  BY <1>1, <1>2 DEF StageStep

(* All programs of the pipeline keep their types, whatever they do to the  *)
(* files that the others work on.                                          *)
THEOREM TypeInvariant == Spec => []TypeOK
<1>1. Init => A!TypeOK /\ Free!ProcsTypeOK
  <2> SUFFICES ASSUME Init PROVE A!TypeOK /\ Free!ProcsTypeOK
    OBVIOUS
  <2>1. entry \in [AllNames -> Inodes \cup {Absent}]
    BY NamesInit DEF NamesInv
  <2>2. attr \in [A!Objects -> A!Attrs] /\ options \in [Stages -> A!Programs]
    BY AttributesAssumption DEF Init
  <2>3. A!TypeOK
    BY <2>1, <2>2 DEF Init, A!Init, A!TypeOK, A!NoStat
  <2> QED
    BY <2>3 DEF Init, Free!ProcsTypeOK, Free!Steps, Free!Outcomes
<1>2. A!TypeOK /\ Free!ProcsTypeOK /\ FlowInv /\ NamesInv /\ NamesInv' /\ H!TypeOK /\ O!TypeOK
        /\ [Next]_vars => A!TypeOK' /\ Free!ProcsTypeOK'
  <2> SUFFICES ASSUME A!TypeOK, Free!ProcsTypeOK, FlowInv, NamesInv, NamesInv', H!TypeOK,
                      O!TypeOK, [Next]_vars
               PROVE  A!TypeOK' /\ Free!ProcsTypeOK'
    OBVIOUS
  <2>1. UNCHANGED lnVars => Free!ProcsTypeOK'
    BY DEF lnVars, Free!ProcsTypeOK
  <2>2. UNCHANGED <<attr, options, apc, aline, stats, aout>> => A!TypeOK'
    BY DEF A!TypeOK, NamesInv
  <2>3. ASSUME NEW s \in Stages, StageStep(s) PROVE A!TypeOK' /\ Free!ProcsTypeOK'
    BY <2>1, <2>3, StageTypes DEF StageStep
  <2>4. CASE LnStep
    BY <2>2, <2>4, LinkTypesStep DEF LnStep, NamesInv, stageVars
  <2>5. CASE HoldLinked \/ HoldOther \/ QuitOther
    BY <2>1, <2>2, <2>5 DEF HoldLinked, HoldOther, QuitOther, stageVars
  <2>6. CASE UNCHANGED vars
    BY <2>1, <2>2, <2>6 DEF vars, stageVars
  <2> QED
    BY <2>3, <2>4, <2>5, <2>6 DEF Next
<1>3. Spec => [](H!TypeOK /\ O!TypeOK)
  <2>1. Spec => []HD!HeldInv /\ []OD!HeldInv
    BY HeldByDelays
  <2>2. HD!HeldInv => H!TypeOK
    BY DEF HD!HeldInv, HD!TypeOK, H!TypeOK, HD!Input, H!Input, HD!Pairs, H!Pairs,
           HD!Matches, H!Matches
  <2>3. OD!HeldInv => O!TypeOK
    BY DEF OD!HeldInv, OD!TypeOK, O!TypeOK, OD!Input, O!Input, OD!Pairs, O!Pairs,
           OD!Matches, O!Matches
  <2> QED
    BY <2>1, <2>2, <2>3, PTL
<1>4. A!TypeOK /\ Free!ProcsTypeOK /\ FlowInv /\ NamesInv /\ H!TypeOK /\ O!TypeOK => TypeOK
  BY DEF TypeOK, FlowInv, NamesInv
<1> QED
  BY <1>1, <1>2, <1>3, <1>4, LinesFlow, NamesStay, PTL DEF Spec
===============================================================================
