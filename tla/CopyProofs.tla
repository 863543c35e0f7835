------------------------------ MODULE CopyProofs ------------------------------
(***************************************************************************)
(* Proofs about Copy, for any names, files and failing calls.              *)
(***************************************************************************)
EXTENDS Copy, SequenceTheorems, TLAPS

(* The end of a sequence of letters is one.                                *)
LEMMA TailType ==
  ASSUME NEW p \in Seq(Letters), NEW k \in Nat
  PROVE  SubSeq(p, k + 1, Len(p)) \in Seq(Letters)
OBVIOUS

(* What the buffer holds after getPath is a name.                          *)
LEMMA OverlayType ==
  ASSUME NEW rest \in Seq(Letters), NEW old \in Seq(Letters)
  PROVE  Overlays(rest, old) \subseteq Seq(Letters)
<1>1. SubSeq(old, Len(rest) + 1, Len(old)) \in Seq(Letters)
  BY TailType
<1>2. rest \o SubSeq(old, Len(rest) + 1, Len(old)) \in Seq(Letters)
  BY <1>1
<1>3. \A tail \in Fresh : rest \o tail \in Seq(Letters)
  BY DestinationAssumption
<1> QED
  BY <1>2, <1>3 DEF Overlays

(* The directories of a name are names.                                    *)
LEMMA DirectoryType ==
  ASSUME NEW p \in Seq(Letters), NEW k \in Slashes(p)
  PROVE  Directory(p, k) \in Seq(Letters)
<1>1. k \in 1 .. Len(p)
  BY DEF Slashes
<1> QED
  BY <1>1 DEF Directory

(* So are all the directories it is in.                                    *)
LEMMA ParentsType ==
  ASSUME NEW p \in Seq(Letters)
  PROVE  Parents(p) \subseteq Seq(Letters)
BY DirectoryType DEF Parents

(* A damaged name is a name.                                               *)
LEMMA DamagedType ==
  ASSUME NEW name \in Seq(Letters), NEW p, NEW last
  PROVE  Damaged(name, p, last) \in Seq(Letters)
<1> DEFINE letter(i) == IF \E k \in Slashes(p) : k <= last /\ Len(p) + i = Len(name) + k
                        THEN Slash ELSE name[i]
<1>1. \A i \in 1 .. Len(name) : letter(i) \in Letters
  BY SourcesAssumption
<1>2. Damaged(name, p, last) = [i \in 1 .. Len(name) |-> letter(i)]
  BY DEF Damaged
<1> HIDE DEF letter
<1>3. Len(name) \in Nat
  OBVIOUS
<1> QED
  BY <1>1, <1>2, <1>3, IsASeq

(* Writing inside a file, or at its end, gives a file.                     *)
LEMMA PatchedType ==
  ASSUME NEW old \in Seq(Pages), NEW new \in Seq(Pages), NEW o \in 0 .. Len(old)
  PROVE  /\ Patched(old, o, new) \in Seq(Pages)
         /\ Len(Patched(old, o, new)) >= Len(old)
         /\ Len(Patched(old, o, new)) >= o + Len(new)
<1> DEFINE length == IF o + Len(new) > Len(old) THEN o + Len(new) ELSE Len(old)
           page(k) == IF k \in o + 1 .. o + Len(new) THEN new[k - o] ELSE old[k]
<1>1. length \in Nat /\ length >= Len(old) /\ length >= o + Len(new)
  OBVIOUS
<1>2. ASSUME NEW k \in 1 .. length PROVE page(k) \in Pages
  <2>1. CASE k \in o + 1 .. o + Len(new)
    <3>1. k - o \in 1 .. Len(new)
      BY <2>1
    <3> QED
      BY <2>1, <3>1
  <2>2. CASE k \notin o + 1 .. o + Len(new)
    <3>1. k \in 1 .. Len(old)
      BY <2>2, <1>1
    <3> QED
      BY <2>2, <3>1
  <2> QED
    BY <2>1, <2>2
<1>3. Patched(old, o, new) = [k \in 1 .. length |-> page(k)]
  BY DEF Patched
<1> HIDE DEF length, page
<1>4. [k \in 1 .. length |-> page(k)] \in [1 .. length -> Pages]
  BY <1>2
<1>5. /\ [k \in 1 .. length |-> page(k)] \in Seq(Pages)
      /\ Len([k \in 1 .. length |-> page(k)]) = length
  BY <1>1, <1>2, IsASeq, LenProperties
<1> QED
  BY <1>1, <1>3, <1>5

(* Writing a whole file to an empty one copies it.                         *)
LEMMA PatchedWhole ==
  ASSUME NEW new \in Seq(Pages)
  PROVE  Patched(<<>>, 0, new) = new
<1>1. Patched(<<>>, 0, new) = [k \in 1 .. Len(new) |-> new[k]]
  BY DEF Patched
<1>2. new = [k \in 1 .. Len(new) |-> new[k]]
  BY LenProperties
<1> QED
  BY <1>1, <1>2

(* Writing the next page to a copy of the first ones copies it too.        *)
LEMMA PatchedNext ==
  ASSUME NEW all \in Seq(Pages), NEW o \in 0 .. Len(all) - 1
  PROVE  Patched(SubSeq(all, 1, o), o, <<all[o + 1]>>) = SubSeq(all, 1, o + 1)
<1>1. Len(SubSeq(all, 1, o)) = o /\ Len(<<all[o + 1]>>) = 1
  OBVIOUS
<1>2. SubSeq(all, 1, o) = [k \in 1 .. o |-> all[k]]
  OBVIOUS
<1>3. SubSeq(all, 1, o + 1) = [k \in 1 .. o + 1 |-> all[k]]
  OBVIOUS
<1>4. Patched(SubSeq(all, 1, o), o, <<all[o + 1]>>) =
        [k \in 1 .. o + 1 |->
           IF k \in o + 1 .. o + 1 THEN <<all[o + 1]>>[k - o] ELSE SubSeq(all, 1, o)[k]]
  BY <1>1 DEF Patched
<1>5. \A k \in 1 .. o + 1 :
        (IF k \in o + 1 .. o + 1 THEN <<all[o + 1]>>[k - o] ELSE SubSeq(all, 1, o)[k]) = all[k]
  BY <1>2
<1> QED
  BY <1>3, <1>4, <1>5

-------------------------------------------------------------------------------
(* The file that is being written is there because this line has created   *)
(* it: nobody else's copy has its name.                                    *)
Own ==
  /\ pc = "create" => path \notin Files
  /\ pc \in {"open", "pwrite", "write"} =>
       /\ path \notin DOMAIN Existing
       /\ \A c \in consumed : c.how = "copied" => c.path # path

(* As long as nothing went wrong it holds the first pages of its source.   *)
Progress ==
  clean =>
    /\ pc \in Steps => src = line
    /\ pc = "open" => target[path] = <<>>
    /\ pc = "pwrite" =>
         \/ size = 0 /\ target[path] = Content[src]
         \/ size = Len(Content[src]) /\ offset = 0 /\ target[path] = <<>>
    /\ pc = "write" =>
         /\ size = Len(Content[src]) /\ at = offset /\ offset <= size
         /\ target[path] = SubSeq(Content[src], 1, offset)

CopyInv == TypeOK /\ ExistingKept /\ CopiedAndKept /\ Own /\ Progress

(* What holds before the first line.                                       *)
LEMMA InitInv == Init => CopyInv
<1> SUFFICES ASSUME Init PROVE CopyInv
  OBVIOUS
<1>1. dirs \subseteq Seq(Letters)
  <2>1. \A f \in DOMAIN Existing : Parents(f) \subseteq Seq(Letters)
    BY ParentsType, DestinationAssumption
  <2>2. <<>> \in Seq(Letters)
    OBVIOUS
  <2> QED
    BY <2>1, <2>2 DEF Init
<1>2. \A f \in DOMAIN target : target[f] \in Seq(Pages) /\ Parents(f) \subseteq dirs
  BY DestinationAssumption DEF Init
<1>3. TypeOK
  BY <1>1, <1>2, SourcesAssumption, DestinationAssumption DEF Init, TypeOK, Steps
<1> QED
  BY <1>3 DEF Init, CopyInv, ExistingKept, CopiedAndKept, Own, Progress, Files, Steps

(* A line that comes to an end without a copy leaves the rest as it was.   *)
LEMMA Ended ==
  ASSUME CopyInv, pc' \in {"read"} \cup Lost,
         UNCHANGED <<symlink, absolute, target, dirs, size, offset, at>>,
         path' \in Seq(Letters), line' \in Sources, src' \in Seq(Letters),
         clean' \in BOOLEAN, lines' \in Nat, runs' \in Nat, consumed' \subseteq Reports,
         \A c \in consumed' : c.how = "copied" =>
           c \in consumed \/ (c.path \in Files /\ target[c.path] = Content[c.src])
  PROVE  CopyInv'
<1>1. TypeOK'
  BY DEF CopyInv, TypeOK, Lost
<1>2. ExistingKept' /\ CopiedAndKept'
  BY DEF CopyInv, ExistingKept, CopiedAndKept, Files
<1>3. Own' /\ Progress'
  BY DEF Own, Progress, Lost, Steps
<1> QED
  BY <1>1, <1>2, <1>3 DEF CopyInv

(* What a line's report says of it.                                        *)
LEMMA Reported ==
  ASSUME CopyInv, NEW how \in {"copied", "failed", "trusted", "linked"}, Consume(how)
  PROVE  /\ pc' = "read" /\ consumed' \subseteq Reports
         /\ \A c \in consumed' : c.how = "copied" =>
              c \in consumed \/ (how = "copied" /\ c.path = path /\ c.src = line)
BY DEF CopyInv, TypeOK, Consume, Reports

(* A new line has a name in the buffer, or never comes back.               *)
LEMMA ReadLineInv == CopyInv /\ ReadLine => CopyInv'
<1> SUFFICES ASSUME CopyInv, ReadLine PROVE CopyInv'
  OBVIOUS
<1>1. /\ line' \in Sources /\ src' = line' /\ src' \in Seq(Letters) /\ clean' = TRUE
      /\ lines' \in Nat /\ runs' \in Nat /\ consumed' = consumed
      /\ UNCHANGED <<symlink, absolute, target, dirs, size, offset, at>>
  BY SourcesAssumption DEF ReadLine, CopyInv, TypeOK, PrintAgain, Goto
<1>2. CASE path' = path /\ pc' \in {"read"} \cup Lost
  BY <1>1, <1>2, Ended DEF CopyInv, TypeOK, CopiedAndKept
<1>3. CASE path' \in Overlays(Rest(line'), path) /\ pc' = "mkdir"
  <2>1. Rest(line') \in Seq(Letters)
    <3>1. line' \in Seq(Letters) /\ Len(Argument) \in Nat
      BY <1>1, SourcesAssumption
    <3> QED
      BY <3>1, TailType DEF Rest
  <2>2. path' \in Seq(Letters)
    BY <1>3, <2>1, OverlayType DEF CopyInv, TypeOK
  <2>3. TypeOK'
    BY <1>1, <1>3, <2>2 DEF CopyInv, TypeOK, Steps
  <2>4. ExistingKept' /\ CopiedAndKept'
    BY <1>1 DEF CopyInv, ExistingKept, CopiedAndKept, Files
  <2>5. Own' /\ Progress'
    BY <1>1, <1>3 DEF Own, Progress
  <2> QED
    BY <2>3, <2>4, <2>5 DEF CopyInv
<1> QED
  BY <1>2, <1>3 DEF ReadLine, PrintAgain, Goto, Lost

(* Whichever mkdir fails, there are only more directories, and the line    *)
(* goes on.                                                                *)
LEMMA CreateDirectoryInv == CopyInv /\ CreateDirectory => CopyInv'
<1> SUFFICES ASSUME CopyInv, CreateDirectory PROVE CopyInv'
  OBVIOUS
<1>1. dirs \subseteq dirs' /\ dirs' \subseteq Seq(Letters) /\ src' \in Seq(Letters)
  <2>1. CASE UNCHANGED <<dirs, src>>
    BY <2>1 DEF CopyInv, TypeOK
  <2>2. CASE MakeDirectories
    <3>1. PICK k \in Slashes(path) \cup {Len(path) + 1} :
            /\ dirs' = dirs \cup ({Directory(path, j) : j \in Slashes(path) \cap 1 .. k - 1}
                                  \ Files)
            /\ src' = Damaged(src, path, k)
      BY <2>2 DEF MakeDirectories
    <3>2. \A j \in Slashes(path) : Directory(path, j) \in Seq(Letters)
      BY DirectoryType DEF CopyInv, TypeOK
    <3>3. src' \in Seq(Letters)
      BY <3>1, DamagedType DEF CopyInv, TypeOK
    <3> QED
      BY <3>1, <3>2, <3>3 DEF CopyInv, TypeOK
  <2> QED
    BY <2>1, <2>2 DEF CreateDirectory
<1>2. /\ pc = "mkdir" /\ pc' \in {"link", "look"} /\ clean' = (clean /\ src' = src)
      /\ UNCHANGED <<symlink, absolute, target, path, line, size, offset, at, consumed,
                     lines, runs>>
  BY DEF CreateDirectory, Goto
<1>3. TypeOK'
  <2>1. \A f \in DOMAIN target : Parents(f) \subseteq dirs'
    BY <1>1 DEF CopyInv, TypeOK
  <2>2. clean' \in BOOLEAN
    BY <1>2 DEF CopyInv, TypeOK
  <2> QED
    BY <1>1, <1>2, <2>1, <2>2 DEF CopyInv, TypeOK, Steps
<1>4. ExistingKept' /\ CopiedAndKept'
  BY <1>2 DEF CopyInv, ExistingKept, CopiedAndKept, Files
<1>5. Own'
  BY <1>2 DEF Own
<1>6. clean' => src' = line'
  BY <1>2 DEF CopyInv, Progress, Steps
<1>7. Progress'
  BY <1>2, <1>6 DEF Progress
<1> QED
  BY <1>3, <1>4, <1>5, <1>7 DEF CopyInv

(* Making a link and looking at the name change no file.                   *)
LEMMA LookInv == CopyInv /\ (MakeLink \/ Look \/ Compare) => CopyInv'
<1> SUFFICES ASSUME CopyInv, MakeLink \/ Look \/ Compare PROVE CopyInv'
  OBVIOUS
<1>1. /\ UNCHANGED <<symlink, absolute, target, dirs, path, line, src, size, offset, at,
                     clean, lines, runs>>
  BY DEF MakeLink, Look, Compare, Onwards
<1>2. CASE PrintAgain
  <2>1. pc' = "read" /\ consumed' = consumed
    BY <1>2 DEF PrintAgain, Goto
  <2> QED
    BY <1>1, <2>1, Ended DEF CopyInv, TypeOK
<1>3. CASE Consume("trusted") \/ Consume("linked")
  <2>1. /\ pc' = "read" /\ consumed' \subseteq Reports
        /\ \A c \in consumed' : c.how = "copied" => c \in consumed
    BY <1>3, Reported
  <2> QED
    BY <1>1, <2>1, Ended DEF CopyInv, TypeOK
<1>4. CASE Look
  <2>1. /\ pc = "look" /\ pc' \in {"create", "compare"} /\ consumed' = consumed
        /\ pc' = "create" => path \notin Files
    BY <1>4 DEF Look, Goto, IsFree, Exists
  <2>2. TypeOK'
    BY <1>1, <2>1 DEF CopyInv, TypeOK, Steps
  <2>3. ExistingKept' /\ CopiedAndKept'
    BY <1>1, <2>1 DEF CopyInv, ExistingKept, CopiedAndKept, Files
  <2>4. Own' /\ Progress'
    BY <1>1, <2>1 DEF CopyInv, Own, Progress, Files, Steps
  <2> QED
    BY <2>2, <2>3, <2>4 DEF CopyInv
<1> QED
  BY <1>2, <1>3, <1>4 DEF MakeLink, Compare

(* The file that is created was not there, so it is the line's own.        *)
LEMMA CreateInv == CopyInv /\ Create => CopyInv'
<1> SUFFICES ASSUME CopyInv, Create PROVE CopyInv'
  OBVIOUS
<1>1. CASE Failed /\ UNCHANGED target
  <2>1. /\ pc' = "read" /\ consumed' \subseteq Reports
        /\ \A c \in consumed' : c.how = "copied" => c \in consumed
    BY <1>1, Reported DEF Create, Failed
  <2> QED
    BY <1>1, <2>1, Ended DEF Create, Failed, CopyInv, TypeOK
<1>2. CASE /\ SetFile(path, IF path \in Files THEN target[path] ELSE <<>>)
           /\ Goto("open") /\ UNCHANGED clean
  <2>1. path \notin Files /\ path \in Seq(Letters) /\ pc' = "open"
    BY <1>2 DEF Create, CopyInv, Own, TypeOK, Goto
  <2>2. /\ DOMAIN target' = Files \cup {path}
        /\ target'[path] = <<>> /\ \A f \in Files : target'[f] = target[f]
    BY <1>2, <2>1 DEF SetFile
  <2>3. TypeOK'
    <3>1. ASSUME NEW f \in Files \cup {path} PROVE target'[f] \in Seq(Pages)
      <4>1. CASE f = path
        BY <4>1, <2>2, EmptySeq
      <4>2. CASE f # path
        BY <4>2, <2>2 DEF CopyInv, TypeOK, Files
      <4> QED
        BY <4>1, <4>2
    <3> QED
      BY <1>2, <2>1, <2>2, <3>1 DEF Create, CopyInv, TypeOK, Files, Goto, Steps
  <2>4. ExistingKept' /\ CopiedAndKept'
    BY <1>2, <2>2 DEF Create, CopyInv, ExistingKept, CopiedAndKept, Files, Goto
  <2>5. Own'
    BY <1>2, <2>1, <2>2 DEF Create, CopyInv, ExistingKept, CopiedAndKept, Own, Files, Goto
  <2>6. clean' => src' = line'
    BY <1>2 DEF Create, CopyInv, Progress, Steps
  <2>7. Progress'
    BY <2>1, <2>2, <2>6 DEF Create, Progress
  <2> QED
    BY <2>3, <2>4, <2>5, <2>7 DEF CopyInv
<1> QED
  BY <1>1, <1>2 DEF Create

(* Both files are open: the copy is empty so far.                          *)
LEMMA OpenSourceInv == CopyInv /\ OpenSource => CopyInv'
<1> SUFFICES ASSUME CopyInv, OpenSource PROVE CopyInv'
  OBVIOUS
<1>1. /\ pc = "open" /\ offset' = 0 /\ at' = 0
      /\ UNCHANGED <<symlink, absolute, target, dirs, path, line, src, lines, runs>>
      /\ target[path] \in Seq(Pages) /\ path \in Files
  BY DEF OpenSource, CopyInv, TypeOK, Files
<1>2. CASE Failed /\ UNCHANGED size
  <2>1. /\ pc' = "read" /\ consumed' \subseteq Reports
        /\ \A c \in consumed' : c.how = "copied" => c \in consumed
    BY <1>2, Reported DEF Failed
  <2>2. TypeOK'
    BY <1>1, <1>2, <2>1 DEF Failed, CopyInv, TypeOK
  <2>3. ExistingKept' /\ CopiedAndKept'
    BY <1>1, <2>1 DEF CopyInv, ExistingKept, CopiedAndKept, Files
  <2>4. Own' /\ Progress'
    BY <2>1 DEF Own, Progress, Steps
  <2> QED
    BY <2>2, <2>3, <2>4 DEF CopyInv
<1>3. CASE /\ src \in DOMAIN Content
           /\ Goto("pwrite") \/ Goto("write")
           /\ size' = Len(Content[src]) /\ UNCHANGED clean
  <2>1. /\ pc' \in {"pwrite", "write"} /\ consumed' = consumed
        /\ Content[src] \in Seq(Pages) /\ Len(Content[src]) \in Nat
    BY <1>3, SourcesAssumption DEF Goto
  <2>2. TypeOK'
    BY <1>1, <1>3, <2>1 DEF CopyInv, TypeOK, Steps
  <2>3. ExistingKept' /\ CopiedAndKept'
    BY <1>1, <2>1 DEF CopyInv, ExistingKept, CopiedAndKept, Files
  <2>4. Own'
    BY <1>1, <2>1 DEF CopyInv, Own
  <2>5. SubSeq(Content[src], 1, 0) = <<>>
    BY SubSeqEmpty
  <2>6. clean => src = line /\ target[path] = <<>>
    BY <1>1 DEF CopyInv, Progress, Steps
  <2>7. Progress'
    BY <1>1, <1>3, <2>1, <2>5, <2>6 DEF Progress
  <2> QED
    BY <2>2, <2>3, <2>4, <2>7 DEF CopyInv
<1> QED
  BY <1>2, <1>3 DEF OpenSource

(* A step that writes to the copy leaves every other file alone.           *)
LEMMA FillKeeps ==
  ASSUME CopyInv, pc \in {"pwrite", "write"}, UNCHANGED <<path, src>>,
         DOMAIN target' = Files,
         \A f \in Files : f # path => target'[f] = target[f],
         target'[path] \in Seq(Pages),
         UNCHANGED <<symlink, absolute, dirs, consumed, line, lines, runs>>, pc' = pc,
         size' \in Nat, offset' \in Nat, at' \in Nat, clean' \in BOOLEAN,
         pc = "pwrite" =>
           offset' <= Len(target'[path]) /\ size' + offset' = Len(Content[src]),
         pc = "write" =>
           at' <= offset' /\ at' <= Len(target'[path]) /\ size' <= Len(Content[src])
  PROVE  TypeOK' /\ ExistingKept' /\ CopiedAndKept' /\ Own'
<1>1. /\ path \in Files /\ path \notin DOMAIN Existing
      /\ \A c \in consumed : c.how = "copied" => c.path # path
  BY DEF CopyInv, TypeOK, Own, Files
<1>2. \A f \in Files : target'[f] \in Seq(Pages)
  BY DEF CopyInv, TypeOK, Files
<1>3. TypeOK'
  BY <1>1, <1>2 DEF CopyInv, TypeOK, Files
<1>4. ExistingKept' /\ CopiedAndKept'
  BY <1>1 DEF CopyInv, ExistingKept, CopiedAndKept, Files
<1>5. Own'
  BY <1>1 DEF Own
<1> QED
  BY <1>3, <1>4, <1>5

(* A write of everything at once copies the source.                        *)
LEMMA PwriteSomeInv ==
  CopyInv /\ PwriteSome /\ UNCHANGED <<symlink, absolute, dirs, path, line, src, lines, runs>> => CopyInv'
<1> SUFFICES ASSUME CopyInv, PwriteSome, UNCHANGED <<symlink, absolute, dirs, path, line, src, lines, runs>>
             PROVE  CopyInv'
  OBVIOUS
<1>1. PICK count \in 1 .. size :
        /\ target' = [target EXCEPT ![path] =
                        Patched(target[path], offset, SubSeq(Content[src], 1, count))]
        /\ clean' = (clean /\ count = size)
        /\ size' = size - count
        /\ offset' = offset + count
  BY DEF PwriteSome
<1> DEFINE new == SubSeq(Content[src], 1, count)
<1>2. /\ src \in DOMAIN Content /\ Content[src] \in Seq(Pages) /\ size \in Nat /\ offset \in Nat
      /\ path \in Files /\ target[path] \in Seq(Pages) /\ offset \in 0 .. Len(target[path])
      /\ size + offset = Len(Content[src]) /\ pc = "pwrite" /\ clean \in BOOLEAN
  BY SourcesAssumption DEF PwriteSome, CopyInv, TypeOK, Files
<1>3. count <= Len(Content[src])
  BY <1>2
<1>4. new \in Seq(Pages) /\ Len(new) = count
  BY <1>2, <1>3
<1>5. /\ Patched(target[path], offset, new) \in Seq(Pages)
      /\ Len(Patched(target[path], offset, new)) >= offset + count
  BY <1>2, <1>4, PatchedType
<1>6. /\ DOMAIN target' = Files /\ target'[path] = Patched(target[path], offset, new)
      /\ \A f \in Files : f # path => target'[f] = target[f]
  BY <1>1, <1>2 DEF Files
<1>7. /\ size' \in Nat /\ offset' \in Nat /\ size' + offset' = Len(Content[src])
      /\ clean' \in BOOLEAN /\ offset' = offset + count
  BY <1>1, <1>2
<1>8. /\ pc' = pc /\ UNCHANGED <<consumed, at>> /\ at' \in Nat
  BY <1>2 DEF PwriteSome, Goto, CopyInv, TypeOK
<1>9. offset' <= Len(target'[path])
  BY <1>5, <1>6, <1>7, <1>2
<1>10. TypeOK' /\ ExistingKept' /\ CopiedAndKept' /\ Own'
  <2> HIDE DEF new
  <2> QED
    BY <1>2, <1>5, <1>6, <1>7, <1>8, <1>9, FillKeeps
<1>11. ASSUME clean' PROVE size' = 0 /\ target'[path] = Content[src]
  <2>1. clean /\ count = size
    BY <1>1, <1>2, <1>11
  <2>2. size = Len(Content[src]) /\ offset = 0 /\ target[path] = <<>>
    BY <1>2, <2>1 DEF CopyInv, Progress
  <2>3. new = Content[src]
    BY <1>2, <2>1, <2>2, SubSeqFull
  <2>4. size' = 0
    BY <1>1, <1>2, <2>1
  <2>5. Patched(<<>>, 0, Content[src]) = Content[src]
    BY <1>2, PatchedWhole
  <2>6. Patched(target[path], offset, new) = Patched(<<>>, 0, Content[src])
    <3> HIDE DEF new
    <3> QED
      BY <2>2, <2>3
  <2> HIDE DEF new
  <2> QED
    BY <1>6, <2>4, <2>5, <2>6
<1>12. Progress'
  <2>1. clean' => src' = line'
    BY <1>1, <1>2 DEF CopyInv, Progress, Steps
  <2> QED
    BY <1>2, <1>8, <1>11, <2>1 DEF Progress
<1> QED
  BY <1>10, <1>12 DEF CopyInv

(* The second attempt begins at the start of both files.                   *)
LEMMA PwriteErrorInv ==
  CopyInv /\ PwriteError /\ UNCHANGED <<symlink, absolute, dirs, path, line, src, lines, runs>> => CopyInv'
<1> SUFFICES ASSUME CopyInv, PwriteError, UNCHANGED <<symlink, absolute, dirs, path, line, src, lines, runs>>
             PROVE  CopyInv'
  OBVIOUS
<1>1. /\ pc = "pwrite" /\ pc' = "write" /\ ~clean' /\ clean' \in BOOLEAN
      /\ UNCHANGED <<target, size, consumed>>
      /\ offset' = 0 /\ at' = 0 /\ src \in DOMAIN Content
  BY DEF PwriteError, Goto, CopyInv, TypeOK
<1>2. Len(Content[src]) \in Nat /\ path \in Files /\ Len(target[path]) \in Nat
  BY <1>1, SourcesAssumption DEF CopyInv, TypeOK, Files
<1>3. TypeOK'
  BY <1>1, <1>2 DEF CopyInv, TypeOK, Steps
<1>4. ExistingKept' /\ CopiedAndKept'
  BY <1>1 DEF CopyInv, ExistingKept, CopiedAndKept, Files
<1>5. Own' /\ Progress'
  BY <1>1 DEF CopyInv, Own, Progress
<1> QED
  BY <1>3, <1>4, <1>5 DEF CopyInv

(* A page is added to the pages copied so far.                             *)
LEMMA WritePageInv ==
  CopyInv /\ WritePage /\ UNCHANGED <<symlink, absolute, dirs, path, line, src, lines, runs>> => CopyInv'
<1> SUFFICES ASSUME CopyInv, WritePage, UNCHANGED <<symlink, absolute, dirs, path, line, src, lines, runs>>
             PROVE  CopyInv'
  OBVIOUS
<1> DEFINE new == <<Content[src][offset + 1]>>
<1>1. /\ src \in DOMAIN Content /\ Content[src] \in Seq(Pages) /\ size \in Nat /\ offset \in Nat
      /\ at \in Nat /\ path \in Files /\ target[path] \in Seq(Pages)
      /\ at <= offset /\ at <= Len(target[path]) /\ size <= Len(Content[src])
      /\ offset < size /\ pc = "write" /\ clean \in BOOLEAN
  BY SourcesAssumption DEF WritePage, CopyInv, TypeOK, Files
<1>2. /\ pc' = pc /\ UNCHANGED <<consumed, size>> /\ offset' = offset + 1
  BY <1>1 DEF WritePage, Goto
<1>3. offset + 1 \in 1 .. Len(Content[src])
  BY <1>1
<1>4. new \in Seq(Pages) /\ Len(new) = 1
  BY <1>1, <1>3
<1>5. CASE UNCHANGED <<target, at>> /\ clean' = FALSE
  <2>1. /\ DOMAIN target' = Files /\ \A f \in Files : f # path => target'[f] = target[f]
        /\ target'[path] = target[path]
    BY <1>5 DEF Files
  <2>2. TypeOK' /\ ExistingKept' /\ CopiedAndKept' /\ Own'
    <3>1. offset' \in Nat /\ at' \in Nat /\ size' \in Nat /\ at' <= offset'
      BY <1>1, <1>2, <1>5
    <3>2. at' <= Len(target'[path]) /\ size' <= Len(Content[src]) /\ clean' \in BOOLEAN
      BY <1>1, <1>2, <1>5
    <3> QED
      BY <1>1, <1>2, <2>1, <3>1, <3>2, FillKeeps
  <2> QED
    BY <1>5, <2>2 DEF CopyInv, Progress
<1>6. CASE /\ target' = [target EXCEPT ![path] = Patched(target[path], at, new)]
           /\ at' = at + 1 /\ UNCHANGED clean
  <2>1. /\ Patched(target[path], at, new) \in Seq(Pages)
        /\ Len(Patched(target[path], at, new)) >= at + 1
    <3>1. at \in 0 .. Len(target[path])
      BY <1>1
    <3> QED
      BY <1>1, <1>4, <3>1, PatchedType
  <2>2. /\ DOMAIN target' = Files /\ target'[path] = Patched(target[path], at, new)
        /\ \A f \in Files : f # path => target'[f] = target[f]
    BY <1>1, <1>6 DEF Files
  <2>3. TypeOK' /\ ExistingKept' /\ CopiedAndKept' /\ Own'
    <3>1. offset' \in Nat /\ at' \in Nat /\ size' \in Nat /\ at' <= offset'
      BY <1>1, <1>2, <1>6
    <3>2. at' <= Len(target'[path]) /\ size' <= Len(Content[src]) /\ clean' \in BOOLEAN
      BY <1>1, <1>2, <1>6, <2>1, <2>2
    <3> HIDE DEF new
    <3> QED
      BY <1>1, <1>2, <2>1, <2>2, <3>1, <3>2, FillKeeps
  <2>4. ASSUME clean
        PROVE  /\ size' = Len(Content[src]) /\ at' = offset' /\ offset' <= size'
               /\ target'[path] = SubSeq(Content[src], 1, offset')
    <3>1. /\ size = Len(Content[src]) /\ at = offset
          /\ target[path] = SubSeq(Content[src], 1, offset)
      BY <1>1, <2>4 DEF CopyInv, Progress
    <3>2. offset \in 0 .. Len(Content[src]) - 1
      BY <1>1
    <3>3. target'[path] = SubSeq(Content[src], 1, offset + 1)
      BY <1>1, <2>2, <3>1, <3>2, PatchedNext
    <3> QED
      BY <1>1, <1>2, <1>6, <3>1, <3>3
  <2>5. Progress'
    <3>1. clean => src = line
      BY <1>1 DEF CopyInv, Progress, Steps
    <3> QED
      BY <1>1, <1>2, <1>6, <2>4, <3>1 DEF Progress
  <2> QED
    BY <2>3, <2>5 DEF CopyInv
<1> QED
  BY <1>5, <1>6 DEF WritePage

(* The loops end: a copy without a failed call is complete by then.        *)
LEMMA CompleteInv ==
  ASSUME CopyInv, PwriteNothing \/ WriteEnd \/ WriteError,
         UNCHANGED <<symlink, absolute, dirs, path, line, src, lines, runs>>
  PROVE  CopyInv'
<1>1. CASE WriteError
  <2>1. /\ pc' = "read" /\ consumed' \subseteq Reports
        /\ \A c \in consumed' : c.how = "copied" => c \in consumed
    BY <1>1, Reported DEF WriteError, Failed
  <2> QED
    BY <1>1, <2>1, Ended DEF WriteError, Failed, CopyInv, TypeOK
<1>2. CASE PwriteNothing \/ WriteEnd
  <2> DEFINE how == IF clean THEN "copied" ELSE "failed"
  <2>1. /\ Consume(how) /\ pc \in {"pwrite", "write"} /\ how \in {"copied", "failed", "trusted"}
        /\ UNCHANGED <<target, size, offset, at, clean>>
    BY <1>2 DEF PwriteNothing, WriteEnd, Copied
  <2>2. /\ pc' = "read" /\ consumed' \subseteq Reports
        /\ \A c \in consumed' : c.how = "copied" =>
             c \in consumed \/ (how = "copied" /\ c.path = path /\ c.src = line)
    <3> HIDE DEF how
    <3> QED
      BY <2>1, Reported
  <2>3. /\ path \in Files /\ src \in DOMAIN Content /\ Content[src] \in Seq(Pages)
        /\ offset \in Nat /\ size \in Nat /\ Len(Content[src]) \in Nat
    BY <2>1, SourcesAssumption DEF CopyInv, TypeOK, Files
  <2>4. ASSUME clean PROVE target[path] = Content[src]
    <3>1. CASE PwriteNothing
      <4>1. \/ size = 0 /\ target[path] = Content[src]
            \/ size = Len(Content[src]) /\ target[path] = <<>>
        BY <2>4, <3>1 DEF PwriteNothing, CopyInv, Progress
      <4>2. size = 0
        BY <3>1 DEF PwriteNothing
      <4>3. Len(Content[src]) = 0 => Content[src] = <<>>
        BY <2>3, EmptySeq
      <4> QED
        BY <4>1, <4>2, <4>3
    <3>2. CASE WriteEnd
      <4>1. /\ size = Len(Content[src]) /\ offset <= size /\ offset >= size
            /\ target[path] = SubSeq(Content[src], 1, offset)
        BY <2>4, <3>2 DEF WriteEnd, CopyInv, Progress
      <4>2. offset = Len(Content[src])
        BY <2>3, <4>1
      <4> QED
        BY <2>3, <4>1, <4>2, SubSeqFull
    <3> QED
      BY <1>2, <3>1, <3>2
  <2>5. clean => src = line
    BY <2>1 DEF CopyInv, Progress, Steps
  <2>6. \A c \in consumed' : c.how = "copied" =>
          c \in consumed \/ (c.path \in Files /\ target[c.path] = Content[c.src])
    BY <2>2, <2>3, <2>4, <2>5
  <2> HIDE DEF how
  <2> QED
    BY <2>1, <2>2, <2>6, Ended DEF CopyInv, TypeOK
<1> QED
  BY <1>1, <1>2

(* A kill leaves the files as they are, and forgets the line.              *)
LEMMA RunAgainInv == CopyInv /\ RunAgain => CopyInv'
<1> SUFFICES ASSUME CopyInv, RunAgain PROVE CopyInv'
  OBVIOUS
<1>1. TypeOK'
  BY SourcesAssumption, DestinationAssumption DEF RunAgain, CopyInv, TypeOK, Steps
<1>2. ExistingKept' /\ CopiedAndKept'
  BY DEF RunAgain, CopyInv, ExistingKept, CopiedAndKept, Files
<1>3. Own' /\ Progress'
  BY DEF RunAgain, Own, Progress, Steps
<1> QED
  BY <1>1, <1>2, <1>3 DEF CopyInv

(* Every step of samecp keeps the invariant.                               *)
LEMMA NextInv == CopyInv /\ [Next]_vars => CopyInv'
<1> SUFFICES ASSUME CopyInv, [Next]_vars PROVE CopyInv'
  OBVIOUS
<1>1. CASE ReadLine
  BY <1>1, ReadLineInv
<1>2. CASE CreateDirectory
  BY <1>2, CreateDirectoryInv
<1>3. CASE MakeLink \/ Look \/ Compare
  BY <1>3, LookInv
<1>4. CASE Create
  BY <1>4, CreateInv
<1>5. CASE OpenSource
  BY <1>5, OpenSourceInv
<1>6. CASE Fill
  BY <1>6, PwriteSomeInv, PwriteErrorInv, WritePageInv, CompleteInv DEF Fill
<1>7. CASE RunAgain
  BY <1>7, RunAgainInv
<1>8. CASE UNCHANGED vars
  BY <1>8 DEF vars, CopyInv, TypeOK, ExistingKept, CopiedAndKept, Own, Progress, Files
<1> QED
  BY <1>1, <1>2, <1>3, <1>4, <1>5, <1>6, <1>7, <1>8 DEF Next, Work

-------------------------------------------------------------------------------
(* The variables keep their types: in particular the file that is being    *)
(* written is there, and no position leaves it.                            *)
THEOREM TypeInvariant == Spec => []TypeOK
<1>1. CopyInv => TypeOK
  BY DEF CopyInv
<1> QED
  BY InitInv, NextInv, <1>1, PTL DEF Spec

(* samecp never writes to a file that was at the destination before,       *)
(* whatever the buffer makes of the names (copy() looks, then creates).    *)
THEOREM NothingOverwritten == Spec => []ExistingKept
<1>1. CopyInv => ExistingKept
  BY DEF CopyInv
<1> QED
  BY InitInv, NextInv, <1>1, PTL DEF Spec

(* A copy that no failing call disturbed equals its source, and no later   *)
(* line or run of samecp changes it.                                       *)
THEOREM CopiesStay == Spec => []CopiedAndKept
<1>1. CopyInv => CopiedAndKept
  BY DEF CopyInv
<1> QED
  BY InitInv, NextInv, <1>1, PTL DEF Spec
===============================================================================
