----------------------------- MODULE DriverProofs -----------------------------
(***************************************************************************)
(* Proofs about Driver, for any number of processes, names and lines.      *)
(***************************************************************************)
EXTENDS Driver, FiniteSetTheorems, WellFoundedInduction, TLAPS

-------------------------------------------------------------------------------
(* Type correctness.                                                       *)

(* A process at work has a line of its report, so it names two files.      *)
LEMMA AtWork ==
  ASSUME WorkTypeOK, NEW p \in Procs, pc[p] \in {"stat1", "stat2", "check", "act"}
  PROVE  /\ line[p] \in Lines[p]
         /\ line[p] \in Pairs
         /\ line[p].f1 \in Names /\ line[p].f2 \in Names /\ line[p].f1 # line[p].f2
<1>1. line[p] \in Lines[p]
  BY DEF WorkTypeOK
<1>2. line[p] \in Pairs
  BY <1>1, LinesAssumption DEF Pairs
<1> QED
  BY <1>1, <1>2, LinesAssumption DEF Pairs

(* Printing a line keeps the types of the output and of the counters.      *)
LEMMA SkipType ==
  ASSUME OutputTypeOK, CountersTypeOK, NEW p \in Procs,
         NEW l \in Pairs \cup {Garbled}, Skip(p, l),
         UNCHANGED <<stopping, processed, dropped, leafs>>,
         UNCHANGED lines \/ Increased(lines, p)
  PROVE  OutputTypeOK' /\ CountersTypeOK'
<1>1. Append(out[p], l) \in Seq(Pairs \cup {Garbled})
  BY DEF OutputTypeOK
<1>2. OutputTypeOK'
  BY <1>1 DEF OutputTypeOK, Skip
<1>3. untouched' \in [Procs -> Nat]
  BY DEF CountersTypeOK, Skip, Increased
<1>4. lines' \in [Procs -> Nat]
  BY DEF CountersTypeOK, Increased
<1>5. CountersTypeOK'
  BY <1>3, <1>4 DEF CountersTypeOK
<1> QED
  BY <1>2, <1>5

(* So does going on with it.                                               *)
LEMMA ProceedType ==
  ASSUME OutputTypeOK, CountersTypeOK, NEW p \in Procs, NEW s, Proceed(p, s),
         UNCHANGED <<stopping, processed, dropped, leafs>>,
         UNCHANGED lines \/ Increased(lines, p)
  PROVE  OutputTypeOK' /\ CountersTypeOK'
<1>1. OutputTypeOK'
  BY DEF OutputTypeOK, Proceed
<1>2. lines' \in [Procs -> Nat]
  BY DEF CountersTypeOK, Increased
<1>3. CountersTypeOK'
  BY <1>2 DEF CountersTypeOK, Proceed
<1> QED
  BY <1>1, <1>3

(* A process that goes to a step needs what that step uses.                *)
LEMMA WorkType ==
  ASSUME WorkTypeOK, NEW p \in Procs, NEW s \in Steps, Goto(p, s),
         line' = line,
         m' \in [Procs -> [s1 : Stats \cup {NoStat}, s2 : Stats \cup {NoStat}]],
         choice' \in [Procs -> [dst : Names, src : Names] \cup {NoChoice}],
         cache' \in [Procs -> [Slots -> Results \cup {NoResult}]],
         \A q \in Procs \ {p} : m'[q] = m[q] /\ choice'[q] = choice[q],
         s \in {"stat1", "stat2", "check", "act"} => line[p] \in Lines[p],
         s \in {"stat2", "check", "act"} => m'[p].s1 \in Stats,
         s \in {"check", "act"} => m'[p].s2 \in Stats,
         s = "act" => choice'[p] \in [dst : Names, src : Names]
  PROVE  WorkTypeOK'
<1>1. pc' \in [Procs -> Steps] /\ pc'[p] = s /\ \A q \in Procs \ {p} : pc'[q] = pc[q]
  BY DEF WorkTypeOK, Goto
<1>2. ASSUME NEW q \in Procs
      PROVE  /\ pc'[q] \in {"stat1", "stat2", "check", "act"} => line'[q] \in Lines[q]
             /\ pc'[q] \in {"stat2", "check", "act"} => m'[q].s1 \in Stats
             /\ pc'[q] \in {"check", "act"} => m'[q].s2 \in Stats
             /\ pc'[q] = "act" => choice'[q] \in [dst : Names, src : Names]
  BY <1>1 DEF WorkTypeOK
<1> QED
  BY <1>1, <1>2 DEF WorkTypeOK

(* lstat of a file that is there gives its inode and a number of links.    *)
LEMMA StatType ==
  ASSUME entry \in [Names -> Inodes \cup {Absent}], NEW k \in Names, Present(k)
  PROVE  Stat(k) \in Stats
<1> DEFINE Links == {n \in Names : entry[n] = entry[k]}
<1>1. IsFiniteSet(Links)
  BY FilesAssumption, FS_Subset
<1>2. Cardinality(Links) \in Nat
  BY <1>1, FS_CardinalityType
<1> QED
  BY <1>2 DEF Stat, Stats, Nlink, Present

(* And consuming it, which also may drop an option.                        *)
LEMMA ConsumeType ==
  ASSUME TypeOK, NEW p \in Procs, line[p] \in Pairs, Consume(p),
         UNCHANGED <<stopping, lines, untouched, dropped, out>>
  PROVE  OutputTypeOK' /\ CountersTypeOK' /\ OptionsTypeOK'
<1>1. Append(leafs[p], line[p]) \in Seq(Pairs)
  BY DEF TypeOK, OutputTypeOK
<1>2. OutputTypeOK'
  BY <1>1 DEF TypeOK, OutputTypeOK, Consume
<1>3. CountersTypeOK'
  BY DEF TypeOK, CountersTypeOK, Consume, Increased
<1>4. OptionsTypeOK'
  BY DEF TypeOK, OptionsTypeOK, Consume
<1> QED
  BY <1>2, <1>3, <1>4

(* Init and every step keep the types.                                     *)
THEOREM TypeInvariant == Spec => []TypeOK
<1>1. Init => TypeOK
  <2> SUFFICES ASSUME Init PROVE TypeOK
    OBVIOUS
  <2>1. WorkTypeOK
    BY DEF Init, WorkTypeOK, Steps
  <2>2. OutputTypeOK /\ CountersTypeOK /\ OptionsTypeOK
    BY OptionsAssumption DEF Init, OutputTypeOK, CountersTypeOK, OptionsTypeOK
  <2> QED
    BY <2>1, <2>2, FilesAssumption DEF Init, TypeOK
<1>2. TypeOK /\ [Next]_vars => TypeOK'
  <2> SUFFICES ASSUME TypeOK, [Next]_vars PROVE TypeOK'
    OBVIOUS
  <2>0. OptionsTypeOK /\ CountersTypeOK /\ OutputTypeOK /\ WorkTypeOK
    BY DEF TypeOK
  <2>1. ASSUME NEW p \in Procs, Quit(p) PROVE TypeOK'
    BY <2>1 DEF TypeOK, Quit, OptionsTypeOK, CountersTypeOK, OutputTypeOK, WorkTypeOK
  <2>2. ASSUME NEW p \in Procs, ReadLine(p) PROVE TypeOK'
    <3>1. PICK l \in Lines[p] \cup {Garbled} :
            /\ line' = [line EXCEPT ![p] = l]
            /\ \/ stopping[p] /\ Proceed(p, "ended")
               \/ ~stopping[p] /\ l = Garbled /\ Skip(p, l)
               \/ ~stopping[p] /\ l # Garbled /\ Proceed(p, "stat1")
      BY <2>2 DEF ReadLine
    <3>2. l \in Pairs \cup {Garbled}
      BY LinesAssumption DEF Pairs
    <3>3. OutputTypeOK' /\ CountersTypeOK'
      BY <2>0, <2>2, <3>1, <3>2, SkipType, ProceedType DEF ReadLine
    <3>4. PICK s \in {"read", "stat1", "ended"} :
            Goto(p, s) /\ (s = "stat1" => line'[p] \in Lines[p])
      BY <2>0, <3>1 DEF WorkTypeOK, Skip, Proceed
    <3>5. /\ line' \in [Procs -> Pairs \cup {Garbled}]
          /\ pc' \in [Procs -> Steps]
          /\ \A q \in Procs \ {p} : pc'[q] = pc[q] /\ line'[q] = line[q]
          /\ pc'[p] = s
      BY <2>0, <3>1, <3>2, <3>4 DEF WorkTypeOK, Goto, Steps
    <3>6. ASSUME NEW q \in Procs
          PROVE  /\ pc'[q] \in {"stat1", "stat2", "check", "act"} => line'[q] \in Lines[q]
                 /\ pc'[q] \in {"stat2", "check", "act"} => m[q].s1 \in Stats
                 /\ pc'[q] \in {"check", "act"} => m[q].s2 \in Stats
                 /\ pc'[q] = "act" => choice[q] \in [dst : Names, src : Names]
      BY <2>0, <3>4, <3>5 DEF WorkTypeOK
    <3>7. WorkTypeOK'
      BY <2>0, <2>2, <3>5, <3>6 DEF ReadLine, WorkTypeOK
    <3> QED
      BY <2>2, <3>3, <3>7 DEF ReadLine, TypeOK, OptionsTypeOK
  <2>3. ASSUME NEW p \in Procs, EndOfInput(p) PROVE TypeOK'
    BY <2>3
    DEF TypeOK, EndOfInput, Goto, Steps, OptionsTypeOK, CountersTypeOK, OutputTypeOK, WorkTypeOK
  <2>4. ASSUME NEW p \in Procs, Stat1(p) PROVE TypeOK'
    <3>1. line[p] \in Pairs /\ line[p].f1 \in Names
      BY <2>0, <2>4, AtWork DEF Stat1
    <3>2. OutputTypeOK' /\ CountersTypeOK'
      BY <2>0, <2>4, <3>1, SkipType, ProceedType DEF Stat1
    <3>3. Present(line[p].f1) => Stat(line[p].f1) \in Stats
      BY <3>1, StatType DEF TypeOK
    <3>4. line[p] \in Lines[p] /\ UNCHANGED <<line, choice, cache>>
      BY <2>0, <2>4, AtWork DEF Stat1
    <3>5. WorkTypeOK'
      <4>1. CASE Goto(p, "stat2") /\ m' = [m EXCEPT ![p].s1 = Stat(line[p].f1)]
                  /\ Present(line[p].f1)
        <5>0. [m[p] EXCEPT !.s1 = Stat(line[p].f1)] \in
                [s1 : Stats \cup {NoStat}, s2 : Stats \cup {NoStat}]
          BY <2>0, <3>3, <4>1 DEF WorkTypeOK
        <5>1. m' \in [Procs -> [s1 : Stats \cup {NoStat}, s2 : Stats \cup {NoStat}]]
          BY <2>0, <4>1, <5>0 DEF WorkTypeOK
        <5>2. m'[p].s1 \in Stats /\ \A q \in Procs \ {p} : m'[q] = m[q]
          BY <2>0, <2>4, <3>3, <4>1 DEF WorkTypeOK, Stat1
        <5> QED
          BY <2>0, <3>4, <4>1, <5>1, <5>2, WorkType DEF Steps, WorkTypeOK
      <4>2. CASE Goto(p, "read")
        <5>1. m' = m
          BY <2>0, <2>4, <4>2 DEF WorkTypeOK, Stat1, Proceed, Skip, Goto, Steps
        <5> QED
          BY <2>0, <3>4, <4>2, <5>1, WorkType DEF Steps, WorkTypeOK
      <4> QED
        BY <2>4, <4>1, <4>2 DEF Stat1, Skip, Proceed
    <3> QED
      BY <2>4, <3>2, <3>5 DEF Stat1, TypeOK, OptionsTypeOK
  <2>5. ASSUME NEW p \in Procs, Stat2(p) PROVE TypeOK'
    <3>1. line[p] \in Pairs /\ line[p].f2 \in Names
      BY <2>0, <2>5, AtWork DEF Stat2
    <3>2. OutputTypeOK' /\ CountersTypeOK'
      BY <2>0, <2>5, <3>1, SkipType, ProceedType DEF Stat2
    <3>3. Present(line[p].f2) => Stat(line[p].f2) \in Stats
      BY <3>1, StatType DEF TypeOK
    <3>4. line[p] \in Lines[p] /\ UNCHANGED <<line, choice, cache>>
      BY <2>0, <2>5, AtWork DEF Stat2
    <3>5. WorkTypeOK'
      <4>1. CASE Goto(p, "check") /\ m' = [m EXCEPT ![p].s2 = Stat(line[p].f2)]
                  /\ Present(line[p].f2)
        <5>0. [m[p] EXCEPT !.s2 = Stat(line[p].f2)] \in
                [s1 : Stats \cup {NoStat}, s2 : Stats \cup {NoStat}]
          BY <2>0, <3>3, <4>1 DEF WorkTypeOK
        <5>1. m' \in [Procs -> [s1 : Stats \cup {NoStat}, s2 : Stats \cup {NoStat}]]
          BY <2>0, <4>1, <5>0 DEF WorkTypeOK
        <5>2. m'[p].s2 \in Stats /\ m'[p].s1 \in Stats /\ \A q \in Procs \ {p} : m'[q] = m[q]
          BY <2>0, <2>5, <3>3, <4>1 DEF WorkTypeOK, Stat2
        <5> QED
          BY <2>0, <3>4, <4>1, <5>1, <5>2, WorkType DEF Steps, WorkTypeOK
      <4>2. CASE Goto(p, "read")
        <5>1. m' \in [Procs -> [s1 : Stats \cup {NoStat}, s2 : Stats \cup {NoStat}]]
              /\ \A q \in Procs \ {p} : m'[q] = m[q]
          <6>1. CASE UNCHANGED m
            BY <2>0, <6>1 DEF WorkTypeOK
          <6>2. CASE m' = [m EXCEPT ![p].s2 = Stat(line[p].f2)] /\ Present(line[p].f2)
            <7>1. [m[p] EXCEPT !.s2 = Stat(line[p].f2)] \in
                    [s1 : Stats \cup {NoStat}, s2 : Stats \cup {NoStat}]
              BY <2>0, <3>3, <6>2 DEF WorkTypeOK
            <7> QED
              BY <2>0, <6>2, <7>1 DEF WorkTypeOK
          <6> QED
            BY <2>5, <6>1, <6>2 DEF Stat2
        <5> QED
          BY <2>0, <3>4, <4>2, <5>1, WorkType DEF Steps, WorkTypeOK
      <4> QED
        BY <2>5, <4>1, <4>2 DEF Stat2, Skip, Proceed
    <3> QED
      BY <2>5, <3>2, <3>5 DEF Stat2, TypeOK, OptionsTypeOK
  <2>6. ASSUME NEW p \in Procs, Check(p) PROVE TypeOK'
    <3>1. line[p] \in Pairs /\ line[p].f1 \in Names /\ line[p].f2 \in Names
      BY <2>0, <2>6, AtWork DEF Check
    <3>2. OutputTypeOK' /\ CountersTypeOK'
      <4>1. CASE Goto(p, "read") /\ Increased(untouched, p) /\ Increased(dropped, p)
                 /\ UNCHANGED out
        <5>1. UNCHANGED <<out, leafs, stopping, lines, processed>>
          BY <2>6, <4>1 DEF Check
        <5>2. untouched' \in [Procs -> Nat] /\ dropped' \in [Procs -> Nat]
          BY <2>0, <4>1 DEF CountersTypeOK, Increased
        <5> QED
          BY <2>0, <5>1, <5>2 DEF OutputTypeOK, CountersTypeOK
      <4>2. CASE (Skip(p, line[p]) \/ Proceed(p, "act")) /\ UNCHANGED dropped
        <5>1. UNCHANGED <<stopping, processed, dropped, leafs, lines>>
          BY <2>6, <4>2 DEF Check
        <5> QED
          BY <2>0, <3>1, <4>2, <5>1, SkipType, ProceedType
      <4> QED
        BY <2>6, <4>1, <4>2 DEF Check
    <3>3. cache' \in [Procs -> [Slots -> Results \cup {NoResult}]]
      <4>1. Key(p) \in Inodes \X Inodes
        BY <2>0, <2>6 DEF Check, WorkTypeOK, Key, Stats
      <4>2. ASSUME NEW r \in {"identical", "other"}
            PROVE  [key |-> Key(p), result |-> r] \in Results /\ Slot[Key(p)] \in Slots
        BY <4>1 DEF Results, Slots
      <4>3. cache \in [Procs -> [Slots -> Results \cup {NoResult}]]
        BY <2>0 DEF WorkTypeOK
      <4>4. PICK r \in {"identical", "other"} : Compared(p, r)
        BY <2>6 DEF Check
      <4>5. CASE UNCHANGED cache
        BY <4>3, <4>5
      <4>6. CASE cache' = [cache EXCEPT ![p][Slot[Key(p)]] = [key |-> Key(p), result |-> r]]
        BY <4>2, <4>3, <4>6
      <4> QED
        BY <4>4, <4>5, <4>6 DEF Compared
    <3>4. Choice(p) \in [dst : Names, src : Names]
      BY <3>1 DEF Choice
    <3>5. line[p] \in Lines[p] /\ UNCHANGED <<line, m>>
      BY <2>0, <2>6, AtWork DEF Check
    <3>6. WorkTypeOK'
      <4>1. CASE Goto(p, "read") /\ UNCHANGED choice
        BY <2>0, <3>3, <3>5, <4>1, WorkType DEF Steps, WorkTypeOK
      <4>2. CASE Goto(p, "act") /\ choice' = [choice EXCEPT ![p] = Choice(p)]
        <5>1. choice' \in [Procs -> [dst : Names, src : Names] \cup {NoChoice}]
              /\ choice'[p] \in [dst : Names, src : Names]
              /\ \A q \in Procs \ {p} : choice'[q] = choice[q]
          BY <2>0, <3>4, <4>2 DEF WorkTypeOK
        <5>2. m[p].s1 \in Stats /\ m[p].s2 \in Stats
          BY <2>0, <2>6 DEF WorkTypeOK, Check
        <5> QED
          BY <2>0, <3>3, <3>5, <4>2, <5>1, <5>2, WorkType DEF Steps, WorkTypeOK
      <4> QED
        BY <2>6, <4>1, <4>2 DEF Check, Skip, Proceed
    <3> QED
      BY <2>6, <3>2, <3>6 DEF Check, TypeOK, OptionsTypeOK
  <2>7. ASSUME NEW p \in Procs, Remove(p) PROVE TypeOK'
    <3>1. line[p] \in Pairs
      BY <2>0, <2>7, AtWork DEF Remove
    <3>2. OutputTypeOK' /\ CountersTypeOK' /\ OptionsTypeOK'
      <4>1. CASE Consume(p) /\ UNCHANGED <<out, untouched>>
        BY <2>7, <3>1, <4>1, ConsumeType DEF Remove
      <4>2. CASE Skip(p, line[p]) /\ UNCHANGED <<options, processed, leafs>>
        BY <2>0, <2>7, <3>1, <4>2, SkipType DEF Remove, OptionsTypeOK
      <4> QED
        BY <2>7, <4>1, <4>2 DEF Remove
    <3>3. WorkTypeOK'
      BY <2>0, <2>7 DEF Remove, Consume, WorkTypeOK, Skip, Goto, Steps
    <3>4. entry' \in [Names -> Inodes \cup {Absent}]
      BY <2>7 DEF Remove, TypeOK
    <3> QED
      BY <3>2, <3>3, <3>4 DEF TypeOK
  <2>8. CASE UNCHANGED vars
    BY <2>8 DEF vars, TypeOK, OptionsTypeOK, CountersTypeOK, OutputTypeOK, WorkTypeOK
  <2> QED
    BY <2>1, <2>2, <2>3, <2>4, <2>5, <2>6, <2>7, <2>8 DEF Next
<1> QED
  BY <1>1, <1>2, PTL DEF Spec

-------------------------------------------------------------------------------
(* What the processes know is true, whatever their options are.            *)

(* The directory loses names and gets none.                                *)
OnlyRemoved == \A n \in Names : entry[n] \in {InitEntry[n], Absent}

(* The caches only believe files to be identical that are.                 *)
CacheIsTrue ==
  \A p \in Procs : \A s \in Slots :
    cache[p][s].result = "identical" =>
      Content[cache[p][s].key[1]] = Content[cache[p][s].key[2]]

(* The meta data of a file is that of the file, though it may be gone.     *)
StatsAreTrue ==
  \A p \in Procs :
    /\ pc[p] \in {"stat2", "check", "act"} => m[p].s1.ino = InitEntry[line[p].f1]
    /\ pc[p] \in {"check", "act"} => m[p].s2.ino = InitEntry[line[p].f2]

(* The file to be removed has the content of the one to be kept.           *)
ChoiceIsSafe ==
  \A p \in Procs : pc[p] = "act" =>
    /\ Original(choice[p].dst) = Original(choice[p].src)
    /\ choice[p].dst # choice[p].src

TrueInv == TypeOK /\ OnlyRemoved /\ CacheIsTrue /\ StatsAreTrue /\ ChoiceIsSafe

(* A file that lstat finds is the one the name had at first.               *)
LEMMA StatIsTrue ==
  ASSUME OnlyRemoved, NEW n \in Names, Present(n)
  PROVE  entry[n] = InitEntry[n] /\ Stat(n).ino = InitEntry[n]
BY DEF OnlyRemoved, Present, Stat

(* fcmp only finds files identical whose original contents were.           *)
LEMMA IdenticalIsTrue ==
  ASSUME TrueInv, NEW p \in Procs, pc[p] = "check", Compared(p, "identical")
  PROVE  /\ Key(p) = <<InitEntry[line[p].f1], InitEntry[line[p].f2]>>
         /\ Content[Key(p)[1]] = Content[Key(p)[2]]
         /\ Original(line[p].f1) = Original(line[p].f2)
<1>1. line[p].f1 \in Names /\ line[p].f2 \in Names
  BY AtWork DEF TrueInv, TypeOK
<1>2. Key(p) = <<InitEntry[line[p].f1], InitEntry[line[p].f2]>>
  BY DEF TrueInv, StatsAreTrue, Key
<1>3. Content[Key(p)[1]] = Content[Key(p)[2]]
  <2>1. CASE Cached(p) /\ cache[p][Slot[Key(p)]].result = "identical"
    <3>1. Slot[Key(p)] \in Slots
      BY <1>1, <1>2, FilesAssumption DEF Slots
    <3> QED
      BY <2>1, <3>1 DEF TrueInv, CacheIsTrue, Cached
  <2>2. CASE "identical" \in Fcmp(p)
    <3>1. CASE Key(p)[1] = Key(p)[2]
      BY <3>1
    <3>2. CASE /\ Present(line[p].f1) /\ Present(line[p].f2)
               /\ Content[entry[line[p].f1]] = Content[entry[line[p].f2]]
      BY <1>1, <1>2, <3>2, StatIsTrue DEF TrueInv
    <3> QED
      BY <2>2, <3>1, <3>2 DEF Fcmp
  <2> QED
    BY <2>1, <2>2 DEF Compared
<1> QED
  BY <1>2, <1>3 DEF Original

(* One of the files of the line is chosen to be kept, the other one not.   *)
LEMMA ChoiceOfTwo ==
  ASSUME TrueInv, NEW p \in Procs, pc[p] = "check"
  PROVE  /\ line[p] \in Lines[p] /\ line[p].f1 \in Names /\ line[p].f2 \in Names
         /\ Choice(p) \in {[dst |-> line[p].f1, src |-> line[p].f2],
                           [dst |-> line[p].f2, src |-> line[p].f1]}
         /\ Choice(p).dst # Choice(p).src
BY AtWork DEF TrueInv, TypeOK, Choice

(* A process may look at a file of its line and find the one the name had  *)
(* at first, or leave the line.                                            *)
LEMMA LookingKeeps ==
  ASSUME StatsAreTrue, ChoiceIsSafe, WorkTypeOK, NEW p \in Procs, NEW s \in Steps,
         Goto(p, s), s # "act", UNCHANGED <<line, choice>>,
         \A q \in Procs \ {p} : m'[q] = m[q],
         s \in {"stat2", "check"} => m'[p].s1.ino = InitEntry[line[p].f1],
         s = "check" => m'[p].s2.ino = InitEntry[line[p].f2]
  PROVE  StatsAreTrue' /\ ChoiceIsSafe'
<1>1. pc'[p] = s /\ \A q \in Procs \ {p} : pc'[q] = pc[q]
  BY DEF Goto, WorkTypeOK
<1>2. ASSUME NEW q \in Procs
      PROVE  /\ pc'[q] \in {"stat2", "check", "act"} => m'[q].s1.ino = InitEntry[line[q].f1]
             /\ pc'[q] \in {"check", "act"} => m'[q].s2.ino = InitEntry[line[q].f2]
             /\ pc'[q] = "act" => pc[q] = "act"
  <2>1. CASE q = p
    BY <1>1, <2>1
  <2>2. CASE q # p
    BY <1>1, <2>2 DEF StatsAreTrue
  <2> QED
    BY <2>1, <2>2
<1> QED
  BY <1>2 DEF StatsAreTrue, ChoiceIsSafe, Original

(* What processes know stays true.                                         *)
THEOREM TrueAlways == Spec => []TrueInv
<1>1. Init => OnlyRemoved /\ CacheIsTrue /\ StatsAreTrue /\ ChoiceIsSafe
  <2> SUFFICES ASSUME Init PROVE OnlyRemoved /\ CacheIsTrue /\ StatsAreTrue /\ ChoiceIsSafe
    OBVIOUS
  <2>1. OnlyRemoved
    BY FilesAssumption DEF Init, OnlyRemoved
  <2>2. CacheIsTrue
    BY DEF Init, CacheIsTrue, NoResult
  <2>3. StatsAreTrue /\ ChoiceIsSafe
    BY DEF Init, StatsAreTrue, ChoiceIsSafe
  <2> QED
    BY <2>1, <2>2, <2>3
<1>2. TypeOK /\ TypeOK' /\ TrueInv /\ [Next]_vars => TrueInv'
  <2> SUFFICES ASSUME TypeOK', TrueInv, [Next]_vars PROVE TrueInv'
    OBVIOUS
  <2>0. /\ TypeOK /\ OnlyRemoved /\ CacheIsTrue /\ StatsAreTrue
        /\ ChoiceIsSafe /\ WorkTypeOK /\ OptionsTypeOK
    BY DEF TrueInv, TypeOK
  <2>1. ASSUME NEW p \in Procs, Quit(p) PROVE TrueInv'
    <3>1. CacheIsTrue' /\ StatsAreTrue' /\ ChoiceIsSafe'
      BY <2>0, <2>1 DEF Quit, CacheIsTrue, StatsAreTrue, ChoiceIsSafe, Original
    <3> QED
      BY <2>0, <2>1, <3>1 DEF OnlyRemoved, Quit, TrueInv
  <2>2. ASSUME NEW p \in Procs, ReadLine(p) PROVE TrueInv'
    <3>1. /\ pc[p] = "read" /\ pc' = [pc EXCEPT ![p] = pc'[p]]
          /\ pc'[p] \in {"read", "ended", "stat1"}
          /\ line' = [line EXCEPT ![p] = line'[p]]
      BY <2>0, <2>2 DEF ReadLine, Skip, Proceed, Goto, WorkTypeOK
    <3>2. StatsAreTrue' /\ ChoiceIsSafe'
      BY <2>0, <2>2, <3>1 DEF ReadLine, StatsAreTrue, ChoiceIsSafe, Original, WorkTypeOK
    <3>3. CacheIsTrue'
      BY <2>0, <2>2 DEF ReadLine, CacheIsTrue
    <3> QED
      BY <2>0, <2>2, <3>2, <3>3 DEF OnlyRemoved, ReadLine, TrueInv
  <2>3. ASSUME NEW p \in Procs, EndOfInput(p) PROVE TrueInv'
    <3>1. StatsAreTrue' /\ ChoiceIsSafe'
      BY <2>0, <2>3 DEF EndOfInput, Goto, StatsAreTrue, ChoiceIsSafe, Original, WorkTypeOK
    <3>2. CacheIsTrue'
      BY <2>0, <2>3 DEF EndOfInput, CacheIsTrue
    <3> QED
      BY <2>0, <2>3, <3>1, <3>2 DEF OnlyRemoved, EndOfInput, TrueInv
  <2>4. ASSUME NEW p \in Procs, Stat1(p) PROVE TrueInv'
    <3>1. Present(line[p].f1) => Stat(line[p].f1).ino = InitEntry[line[p].f1]
      BY <2>0, <2>4, AtWork, StatIsTrue DEF Stat1
    <3>2. StatsAreTrue' /\ ChoiceIsSafe'
      <4>1. CASE Present(line[p].f1) /\ m' = [m EXCEPT ![p].s1 = Stat(line[p].f1)]
                  /\ Goto(p, "stat2")
        <5>1. m'[p].s1.ino = InitEntry[line[p].f1] /\ \A q \in Procs \ {p} : m'[q] = m[q]
          BY <2>0, <3>1, <4>1 DEF WorkTypeOK
        <5> QED
          BY <2>0, <2>4, <4>1, <5>1, LookingKeeps DEF Stat1, Steps
      <4>2. CASE Goto(p, "read") /\ UNCHANGED m
        BY <2>0, <2>4, <4>2, LookingKeeps DEF Stat1, Steps
      <4> QED
        BY <2>4, <4>1, <4>2 DEF Stat1, Skip, Proceed
    <3>3. CacheIsTrue'
      BY <2>0, <2>4 DEF Stat1, CacheIsTrue
    <3> QED
      BY <2>0, <2>4, <3>2, <3>3 DEF OnlyRemoved, Stat1, TrueInv
  <2>5. ASSUME NEW p \in Procs, Stat2(p) PROVE TrueInv'
    <3>1. /\ Present(line[p].f2) => Stat(line[p].f2).ino = InitEntry[line[p].f2]
          /\ m[p].s1.ino = InitEntry[line[p].f1]
      BY <2>0, <2>5, AtWork, StatIsTrue DEF Stat2, StatsAreTrue
    <3>2. StatsAreTrue' /\ ChoiceIsSafe'
      <4>1. CASE Present(line[p].f2) /\ m' = [m EXCEPT ![p].s2 = Stat(line[p].f2)]
                  /\ (Goto(p, "check") \/ Goto(p, "read"))
        <5>1. /\ m'[p].s2.ino = InitEntry[line[p].f2] /\ m'[p].s1 = m[p].s1
              /\ \A q \in Procs \ {p} : m'[q] = m[q]
          BY <2>0, <3>1, <4>1 DEF WorkTypeOK
        <5> QED
          BY <2>0, <2>5, <3>1, <4>1, <5>1, LookingKeeps DEF Stat2, Steps
      <4>2. CASE Goto(p, "read") /\ UNCHANGED m
        BY <2>0, <2>5, <4>2, LookingKeeps DEF Stat2, Steps
      <4> QED
        BY <2>5, <4>1, <4>2 DEF Stat2, Skip, Proceed
    <3>3. CacheIsTrue'
      BY <2>0, <2>5 DEF Stat2, CacheIsTrue
    <3> QED
      BY <2>0, <2>5, <3>2, <3>3 DEF OnlyRemoved, Stat2, TrueInv
  <2>6. ASSUME NEW p \in Procs, Check(p) PROVE TrueInv'
    <3>1. StatsAreTrue'
      BY <2>0, <2>6
      DEF Check, Skip, Proceed, Goto, StatsAreTrue, WorkTypeOK
    <3>2. CacheIsTrue'
      <4>1. PICK r \in {"identical", "other"} : Compared(p, r)
        BY <2>6 DEF Check
      <4>2. r = "identical" => Content[Key(p)[1]] = Content[Key(p)[2]]
        BY <2>6, <4>1, IdenticalIsTrue DEF Check
      <4>3. CASE UNCHANGED cache
        BY <2>0, <4>3 DEF CacheIsTrue
      <4>4. CASE cache' = [cache EXCEPT ![p][Slot[Key(p)]] = [key |-> Key(p), result |-> r]]
        <5> SUFFICES ASSUME NEW q \in Procs, NEW s \in Slots, cache'[q][s].result = "identical"
                     PROVE  Content[cache'[q][s].key[1]] = Content[cache'[q][s].key[2]]
          BY DEF CacheIsTrue
        <5>1. cache \in [Procs -> [Slots -> Results \cup {NoResult}]]
          BY <2>0 DEF WorkTypeOK
        <5>2. CASE q = p /\ s = Slot[Key(p)]
          BY <4>2, <4>4, <5>1, <5>2
        <5>3. CASE ~(q = p /\ s = Slot[Key(p)])
          <6>1. cache'[q][s] = cache[q][s]
            BY <4>4, <5>1, <5>3
          <6> QED
            BY <2>0, <6>1 DEF CacheIsTrue
        <5> QED
          BY <5>2, <5>3
      <4> QED
        BY <4>1, <4>3, <4>4 DEF Compared
    <3>3. ChoiceIsSafe'
      <4>1. CASE pc'[p] # "act" /\ UNCHANGED choice
        BY <2>0, <2>6, <4>1
        DEF Check, Skip, Proceed, Goto, ChoiceIsSafe, Original, WorkTypeOK
      <4>2. CASE Compared(p, "identical") /\ choice' = [choice EXCEPT ![p] = Choice(p)]
        <5>1. Original(line[p].f1) = Original(line[p].f2)
          BY <2>6, <4>2, IdenticalIsTrue DEF Check
        <5>2. /\ Original(Choice(p).dst) = Original(Choice(p).src)
              /\ Choice(p).dst # Choice(p).src
          BY <2>6, <5>1, ChoiceOfTwo DEF Check
        <5>3. choice'[p] = Choice(p) /\ \A q \in Procs \ {p} : choice'[q] = choice[q]
          BY <2>0, <4>2 DEF WorkTypeOK
        <5>4. \A q \in Procs \ {p} : pc'[q] = pc[q]
          BY <2>0, <2>6 DEF Check, Skip, Proceed, Goto, WorkTypeOK
        <5>5. ASSUME NEW q \in Procs, pc'[q] = "act"
              PROVE  /\ Original(choice'[q].dst) = Original(choice'[q].src)
                     /\ choice'[q].dst # choice'[q].src
          BY <2>0, <5>2, <5>3, <5>4, <5>5 DEF ChoiceIsSafe
        <5> QED
          BY <5>5 DEF ChoiceIsSafe, Original
      <4>3. \/ pc'[p] # "act" /\ UNCHANGED choice
            \/ Compared(p, "identical") /\ choice' = [choice EXCEPT ![p] = Choice(p)]
        BY <2>0, <2>6 DEF Check, Skip, Goto, WorkTypeOK
      <4> QED
        BY <4>1, <4>2, <4>3
    <3> QED
      BY <2>0, <2>6, <3>1, <3>2, <3>3 DEF OnlyRemoved, Check, TrueInv
  <2>7. ASSUME NEW p \in Procs, Remove(p) PROVE TrueInv'
    <3>1. /\ pc[p] = "act" /\ pc' = [pc EXCEPT ![p] = pc'[p]]
          /\ pc'[p] \in {"read", "crashed"}
          /\ UNCHANGED <<line, m, choice, cache>>
      BY <2>0, <2>7 DEF Remove, Consume, Skip, Goto, WorkTypeOK
    <3>2. StatsAreTrue' /\ CacheIsTrue' /\ ChoiceIsSafe'
      BY <2>0, <3>1 DEF StatsAreTrue, CacheIsTrue, ChoiceIsSafe, Original, WorkTypeOK
    <3>3. OnlyRemoved'
      BY <2>0, <2>7 DEF Remove, OnlyRemoved, TypeOK
    <3> QED
      BY <3>2, <3>3 DEF TrueInv
  <2>8. CASE UNCHANGED vars
    <3>1. CacheIsTrue' /\ StatsAreTrue' /\ ChoiceIsSafe'
      BY <2>0, <2>8 DEF vars, CacheIsTrue, StatsAreTrue, ChoiceIsSafe, Original
    <3> QED
      BY <2>0, <2>8, <3>1 DEF OnlyRemoved, vars, TrueInv
  <2> QED
    BY <2>1, <2>2, <2>3, <2>4, <2>5, <2>6, <2>7, <2>8 DEF Next
<1>3. Init /\ TypeOK => TrueInv
  BY <1>1 DEF TrueInv
<1> QED
  BY <1>2, <1>3, TypeInvariant, PTL DEF Spec
-------------------------------------------------------------------------------
(* What is removed, if one process removes alone, or all keep one order.   *)

(* The options that count stay, a process leaves the work of the others    *)
(* alone, and only those that remove files touch the directory.            *)
LEMMA StepOfOne ==
  ASSUME TypeOK, NEW q \in Procs,
         \/ Quit(q) \/ ReadLine(q) \/ EndOfInput(q)
         \/ Stat1(q) \/ Stat2(q) \/ Check(q) \/ Remove(q)
  PROVE  /\ \A p \in Procs : /\ options'[p].order = options[p].order
                             /\ options'[p].directory = options[p].directory
         /\ \A p \in Procs \ {q} : /\ pc'[p] = pc[p] /\ line'[p] = line[p]
                                   /\ choice'[p] = choice[p]
         /\ \/ entry' = entry
            \/ /\ q \in Removers(options) /\ Remove(q) /\ Present(choice[q].src)
               /\ entry' = [entry EXCEPT ![choice[q].src] = Absent]
<1>0. OptionsTypeOK /\ WorkTypeOK
  BY DEF TypeOK
<1>1. CASE Quit(q) \/ EndOfInput(q)
  BY <1>0, <1>1 DEF Quit, EndOfInput, Goto, WorkTypeOK
<1>2. CASE ReadLine(q)
  BY <1>0, <1>2 DEF ReadLine, Skip, Proceed, Goto, WorkTypeOK
<1>3. CASE Stat1(q)
  BY <1>0, <1>3 DEF Stat1, Skip, Proceed, Goto, WorkTypeOK
<1>4. CASE Stat2(q)
  BY <1>0, <1>4 DEF Stat2, Skip, Proceed, Goto, WorkTypeOK
<1>5. CASE Check(q)
  BY <1>0, <1>5 DEF Check, Skip, Proceed, Goto, WorkTypeOK
<1>6. CASE Remove(q)
  <2>1. \A p \in Procs : /\ options'[p].order = options[p].order
                         /\ options'[p].directory = options[p].directory
    BY <1>0, <1>6 DEF Remove, Consume, OptionsTypeOK
  <2>2. \A p \in Procs \ {q} : pc'[p] = pc[p]
    BY <1>0, <1>6 DEF Remove, Consume, Skip, Goto, WorkTypeOK
  <2>3. line' = line /\ choice' = choice
    BY <1>6 DEF Remove
  <2>4. \/ entry' = entry
        \/ /\ q \in Removers(options) /\ Present(choice[q].src)
           /\ entry' = [entry EXCEPT ![choice[q].src] = Absent]
    BY <1>6 DEF Remove, Removers
  <2> QED
    BY <1>6, <2>1, <2>2, <2>3, <2>4
<1> QED
  BY <1>1, <1>2, <1>3, <1>4, <1>5, <1>6

(* One process alone: the files it has found are there until it removes    *)
(* one of them.                                                            *)
AloneInv ==
  /\ Alone(options)
  /\ \A p \in Removers(options) :
       /\ pc[p] \in {"stat2", "check"} => Present(line[p].f1)
       /\ pc[p] = "check" => Present(line[p].f2)
       /\ pc[p] = "act" => Present(choice[p].dst)

(* A step of the process itself or of one that removes nothing.            *)
LEMMA AloneKeeps ==
  ASSUME TrueInv, AloneInv, NEW q \in Procs,
         \/ Quit(q) \/ ReadLine(q) \/ EndOfInput(q)
         \/ Stat1(q) \/ Stat2(q) \/ Check(q) \/ Remove(q)
  PROVE  AloneInv'
<1>0. /\ TypeOK /\ OptionsTypeOK /\ WorkTypeOK
      /\ entry \in [Names -> Inodes \cup {Absent}]
  BY DEF TrueInv, TypeOK
<1>1. /\ \A p \in Procs : options'[p].directory = options[p].directory
      /\ \A p \in Procs \ {q} : /\ pc'[p] = pc[p] /\ line'[p] = line[p]
                                /\ choice'[p] = choice[p]
      /\ \/ entry' = entry
         \/ q \in Removers(options) /\ Remove(q)
  BY <1>0, StepOfOne
<1>2. Removers(options') = Removers(options)
  BY <1>1 DEF Removers
<1>3. ASSUME NEW p \in Removers(options)
      PROVE  /\ pc'[p] \in {"stat2", "check"} => Present(line[p].f1)' 
             /\ pc'[p] = "check" => Present(line[p].f2)'
             /\ pc'[p] = "act" => Present(choice[p].dst)'
  <2>0. p \in Procs
    BY DEF Removers
  <2>1. CASE p # q
    <3>1. entry' = entry
      BY <1>1, <2>1 DEF AloneInv, Alone
    <3> QED
      BY <1>1, <2>0, <2>1, <3>1 DEF AloneInv, Present
  <2>2. CASE p = q
    <3>1. CASE Quit(q)
      BY <2>0, <2>2, <3>1 DEF Quit, AloneInv, Present
    <3>2. CASE ReadLine(q) \/ EndOfInput(q)
      <4>1. pc'[q] \notin {"stat2", "check", "act"}
        BY <1>0, <3>2 DEF ReadLine, EndOfInput, Skip, Proceed, Goto, WorkTypeOK
      <4> QED
        BY <2>2, <4>1
    <3>3. CASE Stat1(q)
      <4>1. /\ UNCHANGED <<line, entry>>
            /\ pc'[q] = "read" \/ (pc'[q] = "stat2" /\ Present(line[q].f1))
        BY <1>0, <3>3 DEF Stat1, Skip, Proceed, Goto, WorkTypeOK
      <4> QED
        BY <2>2, <4>1 DEF Present
    <3>4. CASE Stat2(q)
      <4>1. /\ UNCHANGED <<line, entry>> /\ pc[q] = "stat2"
            /\ pc'[q] = "read" \/ (pc'[q] = "check" /\ Present(line[q].f2))
        BY <1>0, <3>4 DEF Stat2, Skip, Proceed, Goto, WorkTypeOK
      <4> QED
        BY <2>2, <4>1 DEF AloneInv, Present
    <3>5. CASE Check(q)
      <4>1. /\ UNCHANGED <<line, entry>> /\ pc[q] = "check"
            /\ pc'[q] = "read" \/ (pc'[q] = "act" /\ choice'[q] = Choice(q))
        BY <1>0, <3>5 DEF Check, Skip, Proceed, Goto, WorkTypeOK
      <4>2. Choice(q).dst \in {line[q].f1, line[q].f2}
        BY <4>1, ChoiceOfTwo
      <4> QED
        BY <2>2, <4>1, <4>2 DEF AloneInv, Present
    <3>6. CASE Remove(q)
      <4>1. pc'[q] \notin {"stat2", "check", "act"}
        BY <1>0, <3>6 DEF Remove, Consume, Skip, Goto, WorkTypeOK
      <4> QED
        BY <2>2, <4>1
    <3> QED
      BY <3>1, <3>2, <3>3, <3>4, <3>5, <3>6
  <2> QED
    BY <2>1, <2>2
<1> QED
  BY <1>2, <1>3 DEF AloneInv, Alone

(* One order of the names: a file is only removed for one in front of it,  *)
(* and the first names of every content are there.                         *)
Places == [Names -> 0 .. Cardinality(Names) - 1]

First(place, n) == \A j \in Names : Original(j) = Original(n) => place[n] <= place[j]

OrderInv(place) ==
  /\ Follows(options, place)
  /\ \A p \in Removers(options) : pc[p] = "act" =>
       place[choice[p].dst] < place[choice[p].src]
  /\ \A n \in Names : First(place, n) => Present(n)

(* A first name exists in every set of names.                              *)
LEMMA FirstName ==
  ASSUME NEW place \in Places, NEW S \in SUBSET Names, S # {}
  PROVE  \E k \in S : \A j \in S : place[k] <= place[j]
<1> DEFINE T == {place[k] : k \in S}
<1>0. \A n \in Names : place[n] \in Nat
  BY DEF Places
<1>1. T \subseteq Nat /\ T # {}
  BY <1>0
<1>2. PICK x \in T : \A y \in T : ~(<<y, x>> \in OpToRel(<, Nat))
  <2> HIDE DEF T
  <2> QED
    BY <1>1, NatLessThanWellFounded, WFMin
<1>3. OpToRel(<, Nat) = {pair \in Nat \X Nat : pair[1] < pair[2]}
  BY DEF OpToRel
<1>4. \A y \in T : x <= y
  <2> HIDE DEF T
  <2>1. SUFFICES ASSUME NEW y \in T PROVE ~(x > y)
    BY <1>1
  <2>2. <<y, x>> \notin {pair \in Nat \X Nat : pair[1] < pair[2]}
    BY <1>2, <1>3
  <2> QED
    BY <1>1, <2>2
<1> QED
  BY <1>4

(* Numbers given to the names put them in an order.                        *)
LEMMA PlacesByNumber ==
  ASSUME NEW v \in [Names -> Int]
  PROVE  \E place \in Places : \A a, b \in Names : v[a] < v[b] => place[a] < place[b]
<1> DEFINE Below(n) == {k \in Names : v[k] < v[n]}
           place == [n \in Names |-> Cardinality(Below(n))]
<1>1. ASSUME NEW n \in Names, NEW S \in SUBSET Names, n \in S, Below(n) \subseteq S \ {n}
      PROVE  /\ Cardinality(Below(n)) \in Nat /\ Cardinality(S) \in Nat
             /\ Cardinality(Below(n)) < Cardinality(S)
  <2>1. IsFiniteSet(S) /\ Cardinality(S) \in Nat
    BY FilesAssumption, FS_Subset, FS_CardinalityType
  <2>2. Cardinality(S \ {n}) = Cardinality(S) - 1 /\ IsFiniteSet(S \ {n})
    BY <1>1, <2>1, FS_RemoveElement
  <2> DEFINE B == Below(n)
  <2>3. B \subseteq S \ {n}
    BY <1>1
  <2> HIDE DEF B
  <2>4. Cardinality(B) <= Cardinality(S \ {n}) /\ IsFiniteSet(B)
    BY <2>2, <2>3, FS_Subset
  <2>5. Cardinality(B) \in Nat
    BY <2>4, FS_CardinalityType
  <2> QED
    BY <2>1, <2>2, <2>4, <2>5 DEF B
<1>2. ASSUME NEW n \in Names PROVE Cardinality(Below(n)) \in 0 .. Cardinality(Names) - 1
  <2>1. Below(n) \subseteq Names \ {n}
    OBVIOUS
  <2> HIDE DEF Below
  <2>2. /\ Cardinality(Below(n)) \in Nat /\ Cardinality(Names) \in Nat
        /\ Cardinality(Below(n)) < Cardinality(Names)
    BY <1>1, <2>1
  <2> QED
    BY <2>2
<1>3. ASSUME NEW a \in Names, NEW b \in Names, v[a] < v[b]
      PROVE  Cardinality(Below(a)) < Cardinality(Below(b))
  <2>1. Below(b) \in SUBSET Names /\ a \in Below(b) /\ Below(a) \subseteq Below(b) \ {a}
    BY <1>3
  <2> HIDE DEF Below
  <2> QED
    BY <1>1, <2>1
<1>4. place \in Places /\ \A a, b \in Names : v[a] < v[b] => place[a] < place[b]
  <2> HIDE DEF Below
  <2> QED
    BY <1>2, <1>3 DEF Places
<1> QED
  BY <1>4

(* The options agree if all processes that remove files have -A, or all    *)
(* have -Z, or all -At or all -Zt and the files of every line have         *)
(* different times.                                                        *)
THEOREM SameOrderAgrees ==
  ASSUME NEW order \in Orders \ {"L"},
         \A o \in OptionSets : \A p \in Removers(o) : o[p].order = order,
         order \in {"At", "Zt"} => \A p \in Procs : \A l \in Lines[p] :
           MTime[InitEntry[l.f1]] # MTime[InitEntry[l.f2]]
  PROVE  OptionsAgree
<1> DEFINE Time(n) == MTime[InitEntry[n]]
           v == CASE order = "A"  -> [n \in Names |-> Rank[n]]
                  [] order = "At" -> [n \in Names |-> Time(n)]
                  [] order = "Z"  -> [n \in Names |-> -Rank[n]]
                  [] order = "Zt" -> [n \in Names |-> -Time(n)]
<1>0. order \in {"A", "At", "Z", "Zt"}
  BY DEF Orders
<1>1. \A n \in Names : Rank[n] \in Nat /\ Time(n) \in Nat
  BY FilesAssumption
<1>2. v \in [Names -> Int]
  <2> HIDE DEF Time
  <2> QED
    BY <1>0, <1>1
<1>3. PICK place \in Places : \A a, b \in Names : v[a] < v[b] => place[a] < place[b]
  <2> HIDE DEF v
  <2> QED
    BY <1>2, PlacesByNumber
<1>4. ASSUME NEW p \in Procs, NEW l \in Lines[p],
             NEW s1, s1.ino = InitEntry[l.f1], NEW s2, s2.ino = InitEntry[l.f2]
      PROVE  IF Precedes(order, l, s1, s2)
             THEN place[l.f1] < place[l.f2] ELSE place[l.f2] < place[l.f1]
  <2>1. /\ l.f1 \in Names /\ l.f2 \in Names
        /\ Rank[l.f1] # Rank[l.f2]
        /\ order \in {"At", "Zt"} => Time(l.f1) # Time(l.f2)
    BY LinesAssumption, FilesAssumption
  <2>2. IF Precedes(order, l, s1, s2) THEN v[l.f1] < v[l.f2] ELSE v[l.f2] < v[l.f1]
    <3>1. CASE order = "A"
      BY <1>1, <2>1, <3>1 DEF Precedes
    <3>2. CASE order = "At"
      <4>1. Precedes(order, l, s1, s2) <=> Time(l.f1) < Time(l.f2)
        BY <1>4, <3>2 DEF Precedes
      <4> HIDE DEF Time
      <4> QED
        BY <1>1, <2>1, <3>2, <4>1
    <3>3. CASE order = "Z"
      BY <1>1, <2>1, <3>3 DEF Precedes
    <3>4. CASE order = "Zt"
      <4>1. Precedes(order, l, s1, s2) <=> Time(l.f1) >= Time(l.f2)
        BY <1>4, <3>4 DEF Precedes
      <4> HIDE DEF Time
      <4> QED
        BY <1>1, <2>1, <3>4, <4>1
    <3> QED
      BY <1>0, <3>1, <3>2, <3>3, <3>4
  <2> HIDE DEF v
  <2> QED
    BY <1>3, <2>1, <2>2
<1>5. ASSUME NEW o \in OptionSets PROVE Follows(o, place)
  <2> DEFINE stat(n) == [ino |-> InitEntry[n], nlink |-> 0]
  <2> SUFFICES ASSUME NEW p \in Removers(o), NEW l \in Lines[p]
               PROVE  IF Precedes(order, l, stat(l.f1), stat(l.f2))
                      THEN place[l.f1] < place[l.f2] ELSE place[l.f2] < place[l.f1]
    BY DEF Follows
  <2>1. p \in Procs /\ stat(l.f1).ino = InitEntry[l.f1] /\ stat(l.f2).ino = InitEntry[l.f2]
    BY DEF Removers
  <2> HIDE DEF stat
  <2> QED
    BY <1>4, <2>1
<1> QED
  BY <1>3, <1>5 DEF OptionsAgree, OneOrder, Places

(* The choice goes by the order.                                           *)
LEMMA ChoiceInOrder ==
  ASSUME TrueInv, NEW place \in Places, Follows(options, place),
         NEW p \in Removers(options), pc[p] = "check"
  PROVE  place[Choice(p).dst] < place[Choice(p).src]
<1> DEFINE l == line[p]
           stat(n) == [ino |-> InitEntry[n], nlink |-> 0]
<1>1. p \in Procs /\ options[p].order # "L"
  BY DEF Removers, Follows
<1>2. l \in Lines[p]
  BY <1>1, ChoiceOfTwo
<1>3. m[p].s1.ino = InitEntry[l.f1] /\ m[p].s2.ino = InitEntry[l.f2]
  BY <1>1 DEF TrueInv, StatsAreTrue
<1>4. KeepsFirst(p) <=> Precedes(options[p].order, l, stat(l.f1), stat(l.f2))
  <2>1. options[p].order \in {"A", "At", "Z", "Zt"}
    BY <1>1 DEF TrueInv, TypeOK, OptionsTypeOK, Orders
  <2>2. stat(l.f1).ino = InitEntry[l.f1] /\ stat(l.f2).ino = InitEntry[l.f2]
    OBVIOUS
  <2> HIDE DEF stat
  <2> QED
    BY <1>3, <2>1, <2>2 DEF KeepsFirst, Precedes
<1>5. IF Precedes(options[p].order, l, stat(l.f1), stat(l.f2))
      THEN place[l.f1] < place[l.f2] ELSE place[l.f2] < place[l.f1]
  BY <1>2 DEF Follows
<1> HIDE DEF stat
<1> QED
  BY <1>4, <1>5 DEF Choice

(* A step of any process.                                                  *)
LEMMA OrderKeeps ==
  ASSUME TrueInv, NEW place \in Places, OrderInv(place), NEW q \in Procs,
         \/ Quit(q) \/ ReadLine(q) \/ EndOfInput(q)
         \/ Stat1(q) \/ Stat2(q) \/ Check(q) \/ Remove(q)
  PROVE  OrderInv(place)'
<1>0. /\ TypeOK /\ WorkTypeOK
      /\ entry \in [Names -> Inodes \cup {Absent}]
  BY DEF TrueInv, TypeOK
<1>1. /\ \A p \in Procs : /\ options'[p].order = options[p].order
                          /\ options'[p].directory = options[p].directory
      /\ \A p \in Procs \ {q} : pc'[p] = pc[p] /\ choice'[p] = choice[p]
      /\ \/ entry' = entry
         \/ /\ q \in Removers(options) /\ Remove(q)
            /\ entry' = [entry EXCEPT ![choice[q].src] = Absent]
  BY <1>0, StepOfOne
<1>2. Removers(options') = Removers(options)
  BY <1>1 DEF Removers
<1>3. Follows(options, place)'
  <2>1. \A p \in Removers(options) : options'[p].order = options[p].order
    BY <1>1 DEF Removers
  <2> QED
    BY <1>2, <2>1 DEF OrderInv, Follows
<1>4. ASSUME NEW p \in Removers(options), pc'[p] = "act"
      PROVE  place[choice'[p].dst] < place[choice'[p].src]
  <2>0. p \in Procs
    BY DEF Removers
  <2>1. CASE pc[p] = "act" /\ choice'[p] = choice[p]
    BY <2>1 DEF OrderInv
  <2>2. CASE p = q /\ Check(q) /\ choice'[q] = Choice(q)
    <3>1. pc[p] = "check"
      BY <2>2 DEF Check
    <3> QED
      BY <2>2, <3>1, ChoiceInOrder DEF OrderInv
  <2>3. ASSUME p = q
        PROVE  \/ pc[p] = "act" /\ choice'[p] = choice[p]
               \/ Check(q) /\ choice'[q] = Choice(q)
    <3>1. CASE Quit(q)
      BY <1>4, <2>3, <3>1 DEF Quit
    <3>2. CASE ReadLine(q) \/ EndOfInput(q)
      <4>1. pc'[q] # "act"
        BY <1>0, <3>2 DEF ReadLine, EndOfInput, Skip, Proceed, Goto, WorkTypeOK
      <4> QED
        BY <1>4, <2>3, <4>1
    <3>3. CASE Stat1(q) \/ Stat2(q)
      <4>1. pc'[q] # "act"
        BY <1>0, <3>3 DEF Stat1, Stat2, Skip, Proceed, Goto, WorkTypeOK
      <4> QED
        BY <1>4, <2>3, <4>1
    <3>4. CASE Check(q)
      BY <1>0, <1>4, <2>3, <3>4 DEF Check, Skip, Proceed, Goto, WorkTypeOK
    <3>5. CASE Remove(q)
      <4>1. pc'[q] # "act"
        BY <1>0, <3>5 DEF Remove, Consume, Skip, Goto, WorkTypeOK
      <4> QED
        BY <1>4, <2>3, <4>1
    <3> QED
      BY <3>1, <3>2, <3>3, <3>4, <3>5
  <2> QED
    BY <1>1, <1>4, <2>0, <2>1, <2>2, <2>3
<1>5. ASSUME NEW n \in Names, First(place, n) PROVE Present(n)'
  <2>1. Present(n)
    BY <1>5 DEF OrderInv
  <2>2. CASE entry' = entry
    BY <2>1, <2>2 DEF Present
  <2>3. CASE /\ q \in Removers(options) /\ Remove(q)
             /\ entry' = [entry EXCEPT ![choice[q].src] = Absent]
    <3>1. /\ choice[q].dst \in Names /\ choice[q].src \in Names
          /\ Original(choice[q].dst) = Original(choice[q].src)
          /\ place[choice[q].dst] < place[choice[q].src]
      BY <1>0, <2>3 DEF Remove, WorkTypeOK, OrderInv, TrueInv, ChoiceIsSafe
    <3>2. \A k \in Names : place[k] \in Nat
      BY DEF Places
    <3>3. n # choice[q].src
      BY <1>5, <3>1, <3>2 DEF First
    <3> QED
      BY <1>0, <2>1, <2>3, <3>3 DEF Present
  <2> QED
    BY <1>1, <2>2, <2>3
<1>6. \A n \in Names : First(place, n)' <=> First(place, n)
  BY DEF First, Original
<1> QED
  BY <1>2, <1>3, <1>4, <1>5, <1>6 DEF OrderInv

SafeInv == TrueInv /\ (AloneInv \/ \E place \in Places : OrderInv(place))

(* What makes removing safe stays true.                                    *)
THEOREM SafeAlways == ASSUME OptionsAgree PROVE Spec => []SafeInv
<1> DEFINE Safe == AloneInv \/ \E place \in Places : OrderInv(place)
<1>1. Init => Safe
  <2> SUFFICES ASSUME Init PROVE Safe
    OBVIOUS
  <2>1. /\ \A p \in Procs : pc[p] = "read"
        /\ \A n \in Names : Present(n)
        /\ options \in OptionSets
    BY FilesAssumption DEF Init, Present
  <2>2. CASE Alone(options)
    BY <2>1, <2>2 DEF AloneInv, Removers
  <2>3. CASE OneOrder(options)
    <3>1. PICK place \in Places : Follows(options, place)
      BY <2>3 DEF OneOrder, Places
    <3>2. OrderInv(place)
      BY <2>1, <3>1 DEF OrderInv, Removers
    <3> QED
      BY <3>2
  <2> QED
    BY <2>1, <2>2, <2>3 DEF OptionsAgree
<1>2. TrueInv /\ Safe /\ [Next]_vars => Safe'
  <2> SUFFICES ASSUME TrueInv, Safe, [Next]_vars PROVE Safe'
    OBVIOUS
  <2>1. CASE UNCHANGED vars
    BY <2>1 DEF vars, AloneInv, Alone, OrderInv, Follows, Removers, First, Original, Present
  <2>2. ASSUME NEW q \in Procs,
               \/ Quit(q) \/ ReadLine(q) \/ EndOfInput(q)
               \/ Stat1(q) \/ Stat2(q) \/ Check(q) \/ Remove(q)
        PROVE  Safe'
    <3>1. CASE AloneInv
      BY <2>2, <3>1, AloneKeeps
    <3>2. ASSUME NEW place \in Places, OrderInv(place) PROVE Safe'
      BY <2>2, <3>2, OrderKeeps
    <3> QED
      BY <3>1, <3>2
  <2> QED
    BY <2>1, <2>2 DEF Next
<1> HIDE DEF Safe
<1>3. TrueInv /\ Safe => SafeInv
  BY DEF SafeInv, Safe
<1> QED
  BY <1>1, <1>2, <1>3, TrueAlways, PTL DEF Spec

(* The only step that touches the directory removes a name whose copy is   *)
(* there: the file kept, or the first name of its content.                 *)
LEMMA RemovesCopy ==
  ASSUME SafeInv, NEW p \in Procs, Remove(p), entry' # entry
  PROVE  \E n \in Names : Promise!Remove(n)
<1> DEFINE n == choice[p].src
           dst == choice[p].dst
           Same == {k \in Names : Original(k) = Original(n)}
<1>1. /\ pc[p] = "act" /\ Present(n) /\ entry' = [entry EXCEPT ![n] = Absent]
      /\ p \in Removers(options)
  BY DEF Remove, Removers
<1>2. /\ n \in Names /\ dst \in Names /\ dst # n /\ Original(dst) = Original(n)
      /\ entry \in [Names -> Inodes \cup {Absent}]
  BY <1>1 DEF SafeInv, TrueInv, TypeOK, WorkTypeOK, ChoiceIsSafe
<1>3. \E k \in Same \ {n} : Present(k)
  <2>1. CASE AloneInv
    BY <1>1, <1>2, <2>1 DEF AloneInv
  <2>2. ASSUME NEW place \in Places, OrderInv(place)
        PROVE  \E k \in Same \ {n} : Present(k)
    <3>1. PICK k \in Same : \A j \in Same : place[k] <= place[j]
      BY <1>2, FirstName
    <3>2. First(place, k)
      BY <3>1 DEF First
    <3>3. place[k] <= place[dst] /\ place[dst] < place[n]
      BY <1>1, <1>2, <2>2, <3>1 DEF OrderInv
    <3>4. place[k] \in Nat /\ place[n] \in Nat /\ place[dst] \in Nat
      BY <1>2, <3>1 DEF Places
    <3> QED
      BY <2>2, <3>1, <3>2, <3>3, <3>4 DEF OrderInv
  <2> QED
    BY <2>1, <2>2 DEF SafeInv
<1>4. {j \in Names : Present(j)}' = {j \in Names : Present(j)} \ {n}
  BY <1>1, <1>2, FilesAssumption DEF Present
<1>5. PICK k \in Same \ {n} : Present(k)
  BY <1>3
<1>6. k \in Promise!Copies(n)
  <2>1. k \in {j \in Names : Present(j)}
    BY <1>5
  <2> QED
    BY <1>2, <1>5, <2>1 DEF Promise!Copies
<1> QED
  BY <1>1, <1>2, <1>4, <1>6 DEF Promise!Remove

(* samerm implements KeepOne: each unlink takes a name of which a copy is  *)
(* there at that moment (samerm.cpp), if one process removes files, with   *)
(* any options, or any number of them by one order of the names.           *)
THEOREM RemovesOnlyDuplicates == ASSUME OptionsAgree PROVE Spec => RemovesDuplicates
<1>1. Init => Promise!Init
  BY FilesAssumption DEF Init, Promise!Init, Present
<1>2. SafeInv /\ [Next]_vars => [Promise!Next]_{n \in Names : Present(n)}
  <2> SUFFICES ASSUME SafeInv, [Next]_vars, {n \in Names : Present(n)}' # {n \in Names : Present(n)}
               PROVE  Promise!Next
    OBVIOUS
  <2>1. entry' # entry
    BY DEF Present
  <2>2. PICK p \in Procs : Remove(p)
    BY <2>1 DEF Next, vars, Quit, ReadLine, EndOfInput, Stat1, Stat2, Check
  <2> QED
    BY <2>1, <2>2, RemovesCopy DEF Promise!Next
<1> QED
  BY <1>1, <1>2, SafeAlways, PTL DEF Spec, RemovesDuplicates, Promise!Spec

(* What KeepOne promises is enough: where names only disappear while a     *)
(* copy is there, one name of every content is left.                       *)
THEOREM KeepsOne == RemovesDuplicates => []OneCopyKept
<1> DEFINE there == {n \in Names : Present(n)}
<1>1. Promise!Init => OneCopyKept
  BY DEF Promise!Init, OneCopyKept
<1>2. OneCopyKept /\ [Promise!Next]_there => OneCopyKept'
  <2> SUFFICES ASSUME OneCopyKept, [Promise!Next]_there, NEW n \in Names
               PROVE  \E k \in there' : Original(k) = Original(n)
    BY DEF OneCopyKept, Original
  <2>1. PICK k \in there : Original(k) = Original(n)
    BY DEF OneCopyKept
  <2>2. CASE there' = there
    BY <2>1, <2>2
  <2>3. ASSUME NEW x \in Names, Promise!Remove(x)
        PROVE  \E j \in there' : Original(j) = Original(n)
    <3>1. there' = there \ {x} /\ \E c \in there \ {x} : Original(c) = Original(x)
      BY <2>3 DEF Promise!Remove, Promise!Copies
    <3>2. CASE k = x
      BY <2>1, <3>1, <3>2
    <3>3. CASE k # x
      BY <2>1, <3>1, <3>3
    <3> QED
      BY <3>2, <3>3
  <2> QED
    BY <2>2, <2>3 DEF Promise!Next
<1> QED
  BY <1>1, <1>2, PTL DEF RemovesDuplicates, Promise!Spec

(* One name of every content survives all processes, however their steps   *)
(* interleave, if one of them removes files, with any options, or if all   *)
(* that do keep files by one order (samerm.cpp, mainAction.cpp).           *)
THEOREM SomeCopyKept == ASSUME OptionsAgree PROVE Spec => []OneCopyKept
BY RemovesOnlyDuplicates, KeepsOne, PTL
-------------------------------------------------------------------------------
(* What becomes of the lines.                                              *)

(* The lines a process has read and neither consumed nor left: the one it  *)
(* works on, or the one it had read when it found the signal.              *)
Pending(p) == lines[p] - (processed[p] + untouched[p])

Working == {"stat1", "stat2", "check", "act"}

PendingInv ==
  \A p \in Procs :
    /\ pc[p] = "read" => Pending(p) = 0
    /\ pc[p] \in Working => Pending(p) = 1
    /\ pc[p] = "ended" => Pending(p) = 0 \/ (stopping[p] /\ Pending(p) = 1)

PrintedInv == \A p \in Procs : untouched[p] = Len(out[p]) + dropped[p]

(* A step of p concerns the counters and the output of p alone.            *)
LEMMA OtherAccounts ==
  ASSUME TypeOK, NEW p \in Procs, NEW q \in Procs, q # p,
         \/ Quit(p) \/ ReadLine(p) \/ EndOfInput(p)
         \/ Stat1(p) \/ Stat2(p) \/ Check(p) \/ Remove(p)
  PROVE  /\ pc'[q] = pc[q] /\ stopping'[q] = stopping[q]
         /\ lines'[q] = lines[q] /\ processed'[q] = processed[q]
         /\ untouched'[q] = untouched[q] /\ dropped'[q] = dropped[q]
         /\ out'[q] = out[q]
<1> USE DEF TypeOK, CountersTypeOK, OutputTypeOK, WorkTypeOK, Skip, Proceed, Goto, Increased
<1>1. CASE Quit(p)
  BY <1>1 DEF Quit
<1>2. CASE ReadLine(p)
  BY <1>2 DEF ReadLine
<1>3. CASE EndOfInput(p)
  BY <1>3 DEF EndOfInput
<1>4. CASE Stat1(p)
  BY <1>4 DEF Stat1
<1>5. CASE Stat2(p)
  BY <1>5 DEF Stat2
<1>6. CASE Check(p)
  BY <1>6 DEF Check
<1>7. CASE Remove(p)
  BY <1>7 DEF Remove, Consume
<1> QED
  BY <1>1, <1>2, <1>3, <1>4, <1>5, <1>6, <1>7

(* The line p works on is printed, and counted as left.                    *)
LEMMA SkipAccounts ==
  ASSUME OutputTypeOK, CountersTypeOK, NEW p \in Procs, NEW l \in Pairs \cup {Garbled},
         Skip(p, l), UNCHANGED dropped, untouched[p] = Len(out[p]) + dropped[p]
  PROVE  /\ untouched'[p] = untouched[p] + 1
         /\ untouched'[p] = Len(out'[p]) + dropped'[p]
<1>1. out[p] \in Seq(Pairs \cup {Garbled})
  BY DEF OutputTypeOK
<1>2. Len(Append(out[p], l)) = Len(out[p]) + 1 /\ Len(out[p]) \in Nat
  BY <1>1
<1>3. out'[p] = Append(out[p], l)
  BY DEF Skip, OutputTypeOK
<1>4. untouched'[p] = untouched[p] + 1 /\ untouched[p] \in Nat /\ dropped[p] \in Nat
  BY DEF Skip, Increased, CountersTypeOK
<1> QED
  BY <1>2, <1>3, <1>4

(* A step of p with its line: it keeps the line, or the line is counted    *)
(* once, or the process crashes.                                           *)
LEMMA LineAccounts ==
  ASSUME TypeOK, PrintedInv, NEW p \in Procs,
         Stat1(p) \/ Stat2(p) \/ Check(p) \/ Remove(p)
  PROVE  /\ pc[p] \in Working /\ lines'[p] = lines[p]
         /\ untouched'[p] = Len(out'[p]) + dropped'[p]
         /\ \/ pc'[p] \in Working /\ processed'[p] = processed[p] /\ untouched'[p] = untouched[p]
            \/ /\ pc'[p] = "read"
               /\ processed'[p] + untouched'[p] = processed[p] + untouched[p] + 1
            \/ pc'[p] = "crashed"
<1> USE DEF TypeOK
<1>0. pc[p] \in Working /\ line[p] \in Pairs \cup {Garbled}
  BY DEF Stat1, Stat2, Check, Remove, Working, WorkTypeOK
<1>1. lines'[p] = lines[p]
  BY DEF Stat1, Stat2, Check, Remove
<1>2. /\ untouched[p] = Len(out[p]) + dropped[p]
      /\ lines[p] \in Nat /\ processed[p] \in Nat /\ untouched[p] \in Nat /\ dropped[p] \in Nat
  BY DEF PrintedInv, CountersTypeOK
<1>3. CASE Skip(p, line[p]) /\ UNCHANGED <<dropped, processed>>
  <2>1. /\ untouched'[p] = untouched[p] + 1
        /\ untouched'[p] = Len(out'[p]) + dropped'[p]
    BY <1>0, <1>2, <1>3, SkipAccounts
  <2>2. pc'[p] = "read" /\ processed'[p] = processed[p]
    BY <1>3 DEF Skip, Goto, WorkTypeOK
  <2> QED
    BY <1>0, <1>1, <1>2, <2>1, <2>2
<1>4. CASE \E s \in Working : Proceed(p, s) /\ UNCHANGED <<dropped, processed>>
  BY <1>0, <1>1, <1>2, <1>4 DEF Proceed, Goto, WorkTypeOK
<1>5. CASE Goto(p, "read") /\ Increased(untouched, p) /\ Increased(dropped, p)
           /\ UNCHANGED <<out, processed>>
  <2>1. pc'[p] = "read" /\ untouched'[p] = untouched[p] + 1 /\ dropped'[p] = dropped[p] + 1
    BY <1>5 DEF Goto, Increased, WorkTypeOK, CountersTypeOK
  <2>2. Len(out[p]) \in Nat
    BY DEF OutputTypeOK
  <2> QED
    BY <1>0, <1>1, <1>2, <1>5, <2>1, <2>2
<1>6. CASE Consume(p) /\ UNCHANGED <<out, untouched, dropped>>
  <2>1. \/ pc'[p] = "read" /\ processed'[p] = processed[p] + 1
        \/ pc'[p] = "crashed"
    BY <1>6 DEF Consume, Goto, Increased, WorkTypeOK, CountersTypeOK
  <2> QED
    BY <1>0, <1>1, <1>2, <1>6, <2>1
<1>7. CASE Stat1(p)
  BY <1>3, <1>4, <1>7 DEF Stat1, Working
<1>8. CASE Stat2(p)
  BY <1>3, <1>4, <1>8 DEF Stat2, Working
<1>9. CASE Check(p)
  BY <1>3, <1>4, <1>5, <1>9 DEF Check, Working
<1>10. CASE Remove(p)
  BY <1>3, <1>6, <1>10 DEF Remove
<1> QED
  BY <1>7, <1>8, <1>9, <1>10

(* Every line is accounted for in every state, whatever fails.             *)
THEOREM AccountsAlways == Spec => [](PendingInv /\ PrintedInv)
<1>1. Init => PendingInv /\ PrintedInv
  BY DEF Init, PendingInv, PrintedInv, Pending, Working
<1>2. TypeOK /\ PendingInv /\ PrintedInv /\ [Next]_vars => PendingInv' /\ PrintedInv'
  <2> SUFFICES ASSUME TypeOK, PendingInv, PrintedInv, [Next]_vars
               PROVE  PendingInv' /\ PrintedInv'
    OBVIOUS
  <2>1. CASE UNCHANGED vars
    BY <2>1 DEF vars, PendingInv, PrintedInv, Pending
  <2>2. ASSUME NEW p \in Procs,
               \/ Quit(p) \/ ReadLine(p) \/ EndOfInput(p)
               \/ Stat1(p) \/ Stat2(p) \/ Check(p) \/ Remove(p)
        PROVE  PendingInv' /\ PrintedInv'
    <3>1. ASSUME NEW q \in Procs, q # p
          PROVE  /\ Pending(q)' = Pending(q) /\ pc'[q] = pc[q] /\ stopping'[q] = stopping[q]
                 /\ untouched'[q] = Len(out'[q]) + dropped'[q]
      BY <2>2, <3>1, OtherAccounts DEF Pending, PrintedInv
    <3>0. lines[p] \in Nat /\ processed[p] \in Nat /\ untouched[p] \in Nat
      BY DEF TypeOK, CountersTypeOK
    <3>2. dropped[p] \in Nat /\ untouched[p] = Len(out[p]) + dropped[p]
      BY DEF TypeOK, CountersTypeOK, PrintedInv
    <3>3. /\ untouched'[p] = Len(out'[p]) + dropped'[p]
          /\ pc'[p] = "read" => Pending(p)' = 0
          /\ pc'[p] \in Working => Pending(p)' = 1
          /\ pc'[p] = "ended" => Pending(p)' = 0 \/ (stopping'[p] /\ Pending(p)' = 1)
      <4>1. CASE Quit(p)
        BY <3>0, <3>2, <4>1 DEF Quit, PendingInv, Pending, TypeOK, CountersTypeOK
      <4>2. CASE ReadLine(p)
        <5>1. PICK l \in Lines[p] \cup {Garbled} :
                \/ stopping[p] /\ Proceed(p, "ended")
                \/ ~stopping[p] /\ l = Garbled /\ Skip(p, l)
                \/ ~stopping[p] /\ l # Garbled /\ Proceed(p, "stat1")
          BY <4>2 DEF ReadLine
        <5>2. /\ lines'[p] = lines[p] + 1 /\ processed'[p] = processed[p]
              /\ stopping'[p] = stopping[p] /\ UNCHANGED dropped /\ Pending(p) = 0
          BY <4>2 DEF ReadLine, Increased, TypeOK, CountersTypeOK, PendingInv
        <5>3. CASE Skip(p, l)
          <6>1. l \in Pairs \cup {Garbled}
            BY LinesAssumption DEF Pairs
          <6>2. untouched'[p] = untouched[p] + 1
            BY <3>2, <5>2, <5>3, <6>1, SkipAccounts DEF TypeOK
          <6>5. untouched'[p] = Len(out'[p]) + dropped'[p]
            BY <3>2, <5>2, <5>3, <6>1, SkipAccounts DEF TypeOK
          <6>3. pc'[p] = "read"
            BY <5>3 DEF Skip, Goto, TypeOK, WorkTypeOK
          <6>4. lines'[p] - (processed'[p] + untouched'[p]) = 0
            BY <3>0, <5>2, <6>2 DEF Pending
          <6> QED
            BY <6>3, <6>4, <6>5 DEF Pending, Working
        <5>4. CASE \/ stopping[p] /\ Proceed(p, "ended")
                   \/ Proceed(p, "stat1")
          <6>1. \/ stopping[p] /\ pc'[p] = "ended"
                \/ pc'[p] = "stat1"
            BY <5>4 DEF Proceed, Goto, TypeOK, WorkTypeOK
          <6>2. untouched'[p] = untouched[p] /\ out'[p] = out[p]
            BY <5>4 DEF Proceed
          <6>3. lines'[p] - (processed'[p] + untouched'[p]) = 1
            BY <3>0, <5>2, <6>2 DEF Pending
          <6>4. untouched'[p] = Len(out'[p]) + dropped'[p]
            BY <3>2, <5>2, <6>2
          <6> QED
            BY <5>2, <6>1, <6>3, <6>4 DEF Pending, Working
        <5> QED
          BY <5>1, <5>3, <5>4
      <4>3. CASE EndOfInput(p)
        BY <3>0, <3>2, <4>3 DEF EndOfInput, Goto, TypeOK, WorkTypeOK, PendingInv, Pending, Working
      <4>4. CASE Stat1(p) \/ Stat2(p) \/ Check(p) \/ Remove(p)
        <5>1. /\ pc[p] \in Working /\ lines'[p] = lines[p]
              /\ untouched'[p] = Len(out'[p]) + dropped'[p]
              /\ \/ /\ pc'[p] \in Working
                    /\ processed'[p] = processed[p] /\ untouched'[p] = untouched[p]
                 \/ /\ pc'[p] = "read"
                    /\ processed'[p] + untouched'[p] = processed[p] + untouched[p] + 1
                 \/ pc'[p] = "crashed"
          BY <4>4, LineAccounts
        <5>2. Pending(p) = 1
          BY <5>1 DEF PendingInv
        <5>3. /\ pc'[p] \in Working => lines'[p] - (processed'[p] + untouched'[p]) = 1
              /\ pc'[p] = "read" => lines'[p] - (processed'[p] + untouched'[p]) = 0
          <6>1. /\ lines'[p] = lines[p]
                /\ \/ /\ pc'[p] \in Working
                      /\ processed'[p] = processed[p] /\ untouched'[p] = untouched[p]
                   \/ /\ pc'[p] = "read"
                      /\ processed'[p] + untouched'[p] = processed[p] + untouched[p] + 1
                   \/ pc'[p] = "crashed"
            BY <5>1
          <6> QED
            BY <3>0, <5>2, <6>1 DEF Pending, Working
        <5> QED
          BY <5>1, <5>3 DEF Pending, Working
      <4> QED
        BY <2>2, <4>1, <4>2, <4>3, <4>4
    <3> QED
      BY <3>1, <3>3 DEF PendingInv, PrintedInv
  <2> QED
    BY <2>1, <2>2 DEF Next
<1> QED
  BY <1>1, <1>2, TypeInvariant, PTL DEF Spec

(* Between lines and at the end of a process every line was printed,       *)
(* consumed or dropped, once (mainAction.cpp, actionProcessInput).         *)
THEOREM EveryLineAccounted == Spec => []LinesAccounted
<1>1. PendingInv /\ PrintedInv => LinesAccounted
  BY DEF PendingInv, PrintedInv, LinesAccounted, Pending
<1> QED
  BY <1>1, AccountsAlways, PTL

-------------------------------------------------------------------------------
(* What the leaf file or pipe says.                                        *)

(* The files chosen are those of the line.                                 *)
ChoiceOfLine ==
  \A p \in Procs : pc[p] = "act" => choice[p].src \in {line[p].f1, line[p].f2}

(* A step of p leaves the choice, the line and the leaf file of the others *)
(* alone, no option -q is changed, and a name that is gone stays gone.     *)
LEMMA OtherLeafs ==
  ASSUME TypeOK, NEW p \in Procs, NEW q \in Procs, q # p,
         \/ Quit(p) \/ ReadLine(p) \/ EndOfInput(p)
         \/ Stat1(p) \/ Stat2(p) \/ Check(p) \/ Remove(p)
  PROVE  /\ pc'[q] = pc[q] /\ line'[q] = line[q] /\ choice'[q] = choice[q]
         /\ leafs'[q] = leafs[q] /\ options'[q].quiet = options[q].quiet
<1> USE DEF TypeOK, OptionsTypeOK, OutputTypeOK, WorkTypeOK, Skip, Proceed, Goto
<1>1. CASE Quit(p)
  BY <1>1 DEF Quit
<1>2. CASE ReadLine(p)
  BY <1>2 DEF ReadLine
<1>3. CASE EndOfInput(p)
  BY <1>3 DEF EndOfInput
<1>4. CASE Stat1(p)
  BY <1>4 DEF Stat1
<1>5. CASE Stat2(p)
  BY <1>5 DEF Stat2
<1>6. CASE Check(p)
  BY <1>6 DEF Check
<1>7. CASE Remove(p)
  BY <1>7 DEF Remove, Consume
<1> QED
  BY <1>1, <1>2, <1>3, <1>4, <1>5, <1>6, <1>7

(* A name that is gone stays gone.                                         *)
LEMMA GoneStaysGone ==
  ASSUME TypeOK, Next, NEW k \in Names, entry[k] = Absent
  PROVE  entry'[k] = Absent
BY FilesAssumption DEF TypeOK, Next, Present, Quit, ReadLine, EndOfInput, Stat1, Stat2, Check,
                       Remove

(* A line is added to the leaf file only by the step that removed a file   *)
(* of it, or with -q.                                                      *)
LEMMA LeafAdded ==
  ASSUME TypeOK, ChoiceOfLine, NEW p \in Procs, Remove(p), ~options[p].quiet,
         leafs' # leafs
  PROVE  /\ leafs' = [leafs EXCEPT ![p] = Append(@, line[p])]
         /\ entry'[line[p].f1] = Absent \/ entry'[line[p].f2] = Absent
<1>1. /\ entry' = [entry EXCEPT ![choice[p].src] = Absent]
      /\ leafs' = [leafs EXCEPT ![p] = Append(@, line[p])]
  BY DEF Remove, Consume, FailureCounts
<1>2. /\ choice[p].src \in {line[p].f1, line[p].f2}
      /\ choice[p].src \in Names
  BY DEF Remove, ChoiceOfLine, TypeOK, WorkTypeOK
<1>3. entry'[choice[p].src] = Absent
  BY <1>1, <1>2 DEF Present, TypeOK
<1> QED
  BY <1>1, <1>2, <1>3

(* A line in the leaf file has a file that is gone, and it stays so.       *)
THEOREM OnlyRemovedConsumed == Spec => []ConsumedIsRemoved
<1>1. Init => ChoiceOfLine /\ ConsumedIsRemoved
  BY DEF Init, ChoiceOfLine, ConsumedIsRemoved
<1>2. TypeOK /\ ChoiceOfLine /\ [Next]_vars => ChoiceOfLine'
  <2> SUFFICES ASSUME TypeOK, ChoiceOfLine, [Next]_vars PROVE ChoiceOfLine'
    OBVIOUS
  <2>1. CASE UNCHANGED vars
    BY <2>1 DEF vars, ChoiceOfLine
  <2>2. ASSUME NEW p \in Procs,
               \/ Quit(p) \/ ReadLine(p) \/ EndOfInput(p)
               \/ Stat1(p) \/ Stat2(p) \/ Check(p) \/ Remove(p)
        PROVE  ChoiceOfLine'
    <3>1. ASSUME NEW q \in Procs, q # p, pc'[q] = "act"
          PROVE  choice'[q].src \in {line'[q].f1, line'[q].f2}
      BY <2>2, <3>1, OtherLeafs DEF ChoiceOfLine
    <3>2. ASSUME pc'[p] = "act"
          PROVE  choice'[p].src \in {line'[p].f1, line'[p].f2}
      <4>1. Quit(p) \/ Check(p)
        BY <2>2, <3>2 DEF ReadLine, EndOfInput, Stat1, Stat2, Remove, Consume, Skip, Proceed,
                          Goto, TypeOK, WorkTypeOK
      <4>2. CASE Quit(p)
        BY <3>2, <4>2 DEF Quit, ChoiceOfLine
      <4>3. CASE Check(p)
        <5>1. choice' = [choice EXCEPT ![p] = Choice(p)] /\ line' = line
          BY <3>2, <4>3 DEF Check, Skip, Goto, TypeOK, WorkTypeOK
        <5>2. choice'[p] = Choice(p)
          BY <5>1 DEF TypeOK, WorkTypeOK
        <5> QED
          BY <5>1, <5>2 DEF Choice
      <4> QED
        BY <4>1, <4>2, <4>3
    <3> QED
      BY <3>1, <3>2 DEF ChoiceOfLine
  <2> QED
    BY <2>1, <2>2 DEF Next
<1>3. TypeOK /\ ChoiceOfLine /\ ConsumedIsRemoved /\ [Next]_vars => ConsumedIsRemoved'
  <2> SUFFICES ASSUME TypeOK, ChoiceOfLine, ConsumedIsRemoved, [Next]_vars,
                      NEW q \in Procs, ~options'[q].quiet, NEW k \in DOMAIN leafs'[q]
               PROVE  entry'[leafs'[q][k].f1] = Absent \/ entry'[leafs'[q][k].f2] = Absent
    BY DEF ConsumedIsRemoved, Present
  <2>1. CASE UNCHANGED vars
    BY <2>1 DEF vars, ConsumedIsRemoved, Present
  <2>2. ASSUME NEW p \in Procs,
               \/ Quit(p) \/ ReadLine(p) \/ EndOfInput(p)
               \/ Stat1(p) \/ Stat2(p) \/ Check(p) \/ Remove(p)
        PROVE  entry'[leafs'[q][k].f1] = Absent \/ entry'[leafs'[q][k].f2] = Absent
    <3>0. Next
      BY <2>2 DEF Next
    <3>1. leafs[q] \in Seq(Pairs)
      BY DEF TypeOK, OutputTypeOK
    <3>2. CASE k \in DOMAIN leafs[q] /\ leafs'[q][k] = leafs[q][k]
      <4>1. ~options[q].quiet
        BY <2>2, OtherLeafs
        DEF TypeOK, OptionsTypeOK, Quit, ReadLine, EndOfInput, Stat1, Stat2, Check, Remove, Consume
      <4>2. entry[leafs[q][k].f1] = Absent \/ entry[leafs[q][k].f2] = Absent
        BY <3>2, <4>1 DEF ConsumedIsRemoved, Present
      <4>3. leafs[q][k] \in Pairs
        BY <3>1, <3>2
      <4> QED
        BY <3>0, <3>2, <4>2, <4>3, GoneStaysGone DEF Pairs
    <3>3. CASE q = p /\ leafs' # leafs
      <4>1. Remove(p) /\ ~options[p].quiet
        BY <2>2, <3>3
        DEF Quit, ReadLine, EndOfInput, Stat1, Stat2, Check, Remove, Consume, TypeOK, OptionsTypeOK
      <4>2. /\ leafs' = [leafs EXCEPT ![p] = Append(@, line[p])]
            /\ entry'[line[p].f1] = Absent \/ entry'[line[p].f2] = Absent
        BY <3>3, <4>1, LeafAdded
      <4>3. leafs'[p] = Append(leafs[p], line[p]) /\ leafs[p] \in Seq(Pairs) /\ line[p] \in Pairs
        <5>1. leafs'[p] = Append(leafs[p], line[p]) /\ leafs[p] \in Seq(Pairs)
          BY <4>2 DEF TypeOK, OutputTypeOK
        <5>2. line[p] \in Pairs
          BY <4>1, AtWork DEF TypeOK, Remove
        <5> QED
          BY <5>1, <5>2
      <4>4. \/ k \in DOMAIN leafs[p] /\ leafs'[p][k] = leafs[p][k]
            \/ leafs'[p][k] = line[p]
        BY <3>3, <4>3
      <4> QED
        BY <3>2, <3>3, <4>2, <4>4
    <3>4. CASE q # p \/ leafs' = leafs
      BY <2>2, <3>2, <3>4, OtherLeafs
    <3> QED
      BY <3>3, <3>4
  <2> QED
    BY <2>1, <2>2 DEF Next
<1> QED
  BY <1>1, <1>2, <1>3, TypeInvariant, PTL DEF Spec
===============================================================================
