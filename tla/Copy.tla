--------------------------------- MODULE Copy ---------------------------------
(***************************************************************************)
(* samecp: copying one of two identical files below a destination.         *)
(*                                                                         *)
(* The name of the copy is put together in one buffer that serves all      *)
(* lines: getPath writes the name of the next file over the last one, but  *)
(* writes no terminator, so the end of a longer name stays.  A name that   *)
(* is shorter than the source argument underflows its length.  The copy is *)
(* made unless its name is taken; a taken name is compared with meta data  *)
(* that was never read.  copy() looks neither at the directories that      *)
(* could not be made nor at the result of fcpy.                            *)
(*                                                                         *)
(* The driver has compared the files of a line before (see Driver); here a *)
(* line is the file it copies.  Calls may fail, and samecp may be killed   *)
(* and started again for the same destination.                             *)
(***************************************************************************)
EXTENDS Naturals, Sequences

CONSTANTS
  Letters,    (* the letters of names                                      *)
  Slash,      (* the one between the components of a name                  *)
  Sources,    (* the names that lines give src                             *)
  Argument,   (* the source argument                                       *)
  Length,     (* the length of the destination argument                    *)
  Absolutes,  (* whether the destination begins with a Slash: the choices  *)
  Pages,      (* contents of a page                                        *)
  Content,    (* name -> pages: the files that can be copied from          *)
  Existing,   (* name -> pages: the files at the destination at first      *)
  Fresh,      (* what new char[] may hold behind the terminator            *)
  Symlinks,   (* whether option -s is given: the choices                   *)
  Fallible,   (* the calls that may fail or come short                     *)
  MaxLines,   (* bound: the lines that are read                            *)
  MaxRuns     (* bound: how often samecp is started again                  *)

ASSUME SourcesAssumption ==
  /\ Slash \in Letters
  /\ Argument \in Seq(Letters) /\ Length \in Nat
  /\ DOMAIN Content \subseteq Seq(Letters)
  /\ Content \in [DOMAIN Content -> Seq(Pages)]
  /\ Sources \subseteq DOMAIN Content
  /\ Symlinks \subseteq BOOLEAN /\ Absolutes \subseteq BOOLEAN
  /\ MaxLines \in Nat /\ MaxRuns \in Nat

ASSUME DestinationAssumption ==
  /\ DOMAIN Existing \subseteq Seq(Letters)
  /\ Existing \in [DOMAIN Existing -> Seq(Pages)]
  /\ Fresh \subseteq Seq(Letters)

VARIABLES
  symlink,   (* option -s                                                  *)
  absolute,  (* the destination begins with a Slash                        *)
  target,    (* the files at the destination: name -> pages                *)
  dirs,      (* the directories at the destination                         *)
  path,      (* the buffer, from the end of the destination on             *)
  pc,        (* the call samecp is about to make                           *)
  line,      (* the file of the line, as it was read                       *)
  src,       (* its name in memory, which createDirectory writes to        *)
  size,      (* pages still to be written                                  *)
  offset,    (* pages read, or written from the mapping                    *)
  at,        (* the position write() has reached                           *)
  clean,     (* no call failed or came short, and src is still the line's  *)
  consumed,  (* the lines that were consumed, with the name of their copy  *)
  lines,     (* the number of lines read                                   *)
  runs       (* how often samecp was started again                         *)

vars == <<symlink, absolute, target, dirs, path, pc, line, src, size, offset, at,
          clean, consumed, lines, runs>>

(* Where samecp never comes back from: getPath's loop, and a memcpy of     *)
(* nearly 2^64 bytes.                                                      *)
Lost == {"stuck", "crashed"}

Steps == {"mkdir", "link", "look", "compare", "create", "open", "pwrite", "write"}

Reports == [src : Sources, path : Seq(Letters),
            how : {"copied", "failed", "trusted", "linked"}]

Slashes(p) == {k \in 1 .. Len(p) : p[k] = Slash}

(* The directory whose name ends at the Slash at k; the first may be the   *)
(* destination, <<>>.                                                      *)
Directory(p, k) == SubSeq(p, 1, k - 1)

Parents(p) == {Directory(p, k) : k \in Slashes(p)}

(* The variables have their types, and every file is in a directory; while *)
(* it is written the copy is there, its source can be read, and neither    *)
(* position lies behind its end or the end of the source.                  *)
TypeOK ==
  /\ symlink \in BOOLEAN /\ absolute \in BOOLEAN
  /\ DOMAIN target \subseteq Seq(Letters)
  /\ \A f \in DOMAIN target : target[f] \in Seq(Pages) /\ Parents(f) \subseteq dirs
  /\ dirs \subseteq Seq(Letters)
  /\ path \in Seq(Letters)
  /\ pc \in Steps \cup Lost \cup {"read"}
  /\ line \in Sources /\ src \in Seq(Letters)
  /\ size \in Nat /\ offset \in Nat /\ at \in Nat
  /\ clean \in BOOLEAN
  /\ consumed \subseteq Reports
  /\ lines \in Nat /\ runs \in Nat
  /\ pc \in {"open", "pwrite", "write"} => path \in DOMAIN target
  /\ pc \in {"pwrite", "write"} => src \in DOMAIN Content
  /\ pc = "pwrite" =>
       offset <= Len(target[path]) /\ size + offset = Len(Content[src])
  /\ pc = "write" =>
       at <= offset /\ at <= Len(target[path]) /\ size <= Len(Content[src])

-------------------------------------------------------------------------------
(* The destination.                                                        *)

Files == DOMAIN target

Exists(p) == p \in Files \cup dirs

(* lstat says ENOENT: the name or a directory of it is missing, and no     *)
(* component before is a file.                                             *)
IsFree(p) == ~Exists(p) /\ Parents(p) \cap Files = {}

(* What a file holds after new is written at position o.                   *)
Patched(old, o, new) ==
  [k \in 1 .. IF o + Len(new) > Len(old) THEN o + Len(new) ELSE Len(old) |->
     IF k \in o + 1 .. o + Len(new) THEN new[k - o] ELSE old[k]]

SetFile(p, pages) ==
  target' = [f \in Files \cup {p} |-> IF f = p THEN pages ELSE target[f]]

Init ==
  /\ symlink \in Symlinks
  /\ absolute \in Absolutes
  /\ target = Existing
  /\ dirs = {<<>>} \cup UNION {Parents(f) : f \in DOMAIN Existing}
  /\ path = <<>>
  /\ pc = "read"
  /\ line \in Sources /\ src = line
  /\ size = 0 /\ offset = 0 /\ at = 0
  /\ clean = TRUE
  /\ consumed = {}
  /\ lines = 0
  /\ runs = 0

Goto(step) ==
  /\ pc' = step
  /\ UNCHANGED consumed

(* SUCCES_LEFT: the line goes to the leaf file or pipe.                    *)
Consume(how) ==
  /\ pc' = "read"
  /\ consumed' = consumed \cup {[src |-> line, path |-> path, how |-> how]}

(* PRINT_AGAIN, or FAILED_LINK_RIGHT: the line is left to the next program.*)
PrintAgain == Goto("read")

(* The result of fcpy is not looked at.                                    *)
Copied == Consume(IF clean THEN "copied" ELSE "failed")

Failed ==
  /\ clean' = FALSE
  /\ Consume("failed")

-------------------------------------------------------------------------------
(* A longer name that does not begin with the source argument.             *)
Refused(name) ==
  Len(name) > Len(Argument) /\ SubSeq(name, 1, Len(Argument)) # Argument

Rest(name) == SubSeq(name, Len(Argument) + 1, Len(name))

(* getPath: the rest of the name, and what the buffer held behind it: the  *)
(* end of the last name, or what was behind its terminator.                *)
Overlays(rest, old) ==
  IF Len(rest) > Len(old)
  THEN {rest \o tail : tail \in Fresh}
  ELSE {rest \o SubSeq(old, Len(rest) + 1, Len(old))}

(* A name as long as the source argument is never compared with it; with a *)
(* shorter one srcLen - srcOffset is negative, which makes the capacity 0  *)
(* in a loop without end or the length of memcpy huge.                     *)
ReadLine ==
  /\ pc = "read"
  /\ lines < MaxLines
  /\ lines' = lines + 1
  /\ line' \in Sources
  /\ src' = line'
  /\ \/ /\ Refused(line')
        /\ PrintAgain
        /\ UNCHANGED path
     \/ /\ Len(line') >= Len(Argument) /\ ~Refused(line')
        /\ path' \in Overlays(Rest(line'), path)
        /\ Goto("mkdir")
     \/ /\ Len(line') < Len(Argument)
        /\ Goto(IF Length + Len(line') < Len(Argument) THEN "stuck" ELSE "crashed")
        /\ UNCHANGED path
  /\ clean' = TRUE
  /\ UNCHANGED <<symlink, absolute, target, dirs, size, offset, at, runs>>

(* createDirectory looks for the directories of path, up to position last, *)
(* in the name src, counting from its end, and writes a Slash there; that  *)
(* is one already unless path has the end of another name.                 *)
Damaged(name, p, last) ==
  [i \in 1 .. Len(name) |->
     IF \E k \in Slashes(p) : k <= last /\ Len(p) + i = Len(name) + k
     THEN Slash ELSE name[i]]

(* mkdir fails with ENOTDIR.                                               *)
BelowFile(k) == Parents(Directory(path, k)) \cap Files # {}

(* One mkdir after the other, up to the first that fails, or to the end.   *)
(* That a file or a directory has the name is no failure.                  *)
MakeDirectories ==
  \E k \in Slashes(path) \cup {Len(path) + 1} :
    /\ k \in Slashes(path) =>
         /\ Directory(path, k) \notin dirs \cup Files
         /\ BelowFile(k) \/ "mkdir" \in Fallible
    /\ \A j \in Slashes(path) : j < k => ~BelowFile(j)
    /\ dirs' = dirs \cup ({Directory(path, j) : j \in Slashes(path) \cap 1 .. k - 1} \ Files)
    /\ src' = Damaged(src, path, k)

(* The result is 0 after a failure and never negative, so copy() goes on   *)
(* in any case.  With an absolute destination the first mkdir, of "",      *)
(* fails, and no directory is made.                                        *)
CreateDirectory ==
  /\ pc = "mkdir"
  /\ \/ absolute /\ UNCHANGED <<dirs, src>>
     \/ ~absolute /\ MakeDirectories
  /\ clean' = (clean /\ src' = src)
  /\ Goto(IF symlink THEN "link" ELSE "look")
  /\ UNCHANGED <<symlink, absolute, target, path, line, size, offset, at, lines, runs>>

Onwards == UNCHANGED <<symlink, absolute, target, dirs, path, line, src, size, offset,
                       at, clean, lines, runs>>

(* linkf(path, left): the arguments are in the other order than that of    *)
(* link and symlink, and the file left, which the driver has just seen,    *)
(* is in the way, unless left is src and its name was damaged.             *)
MakeLink ==
  /\ pc = "link"
  /\ PrintAgain \/ (src \notin DOMAIN Content /\ Consume("linked"))
  /\ Onwards

(* Mutant of Look: a name that is taken is not noticed.                    *)
LookNowhere ==
  /\ pc = "look"
  /\ Goto("create")
  /\ Onwards

Look ==
  /\ pc = "look"
  /\ Goto(IF IsFree(path) THEN "create" ELSE "compare")
  /\ Onwards

(* fcmp of the file in the way with src, whose meta data is whatever was   *)
(* on the stack: the same inode, another size, or anything in between.     *)
Compare ==
  /\ pc = "compare"
  /\ Consume("trusted") \/ PrintAgain
  /\ Onwards

(* open(dst, O_WRONLY | O_CREAT), in a directory that may be missing.      *)
Create ==
  /\ pc = "create"
  /\ \/ /\ Parents(path) \subseteq dirs
        /\ SetFile(path, IF path \in Files THEN target[path] ELSE <<>>)
        /\ Goto("open")
        /\ UNCHANGED clean
     \/ /\ "create" \in Fallible \/ ~(Parents(path) \subseteq dirs)
        /\ Failed
        /\ UNCHANGED target
  /\ UNCHANGED <<symlink, absolute, dirs, path, line, src, size, offset, at, lines, runs>>

(* Small files are mapped; large ones, and those that cannot be mapped,    *)
(* are read.  A damaged name may be that of no file.                       *)
OpenSource ==
  /\ pc = "open"
  /\ \/ /\ src \in DOMAIN Content
        /\ Goto("pwrite") \/ Goto("write")
        /\ size' = Len(Content[src])
        /\ UNCHANGED clean
     \/ /\ "open" \in Fallible \/ src \notin DOMAIN Content
        /\ Failed
        /\ UNCHANGED size
  /\ offset' = 0
  /\ at' = 0
  /\ UNCHANGED <<symlink, absolute, target, dirs, path, line, src, lines, runs>>

(* Mutant of PwriteNothing: the loop is left by its condition only, which  *)
(* is always true.                                                         *)
PwriteNothingStays ==
  /\ pc = "pwrite" /\ size < 0
  /\ Copied
  /\ UNCHANGED <<target, size, offset, at, clean>>

(* pwrite of no bytes returns 0 and ends the loop.                         *)
PwriteNothing ==
  /\ pc = "pwrite" /\ size = 0
  /\ Copied
  /\ UNCHANGED <<target, size, offset, at, clean>>

(* Mutant of PwriteSome: what is left is counted one page short.           *)
PwriteSomeMiscounted ==
  /\ pc = "pwrite" /\ size > 0
  /\ target' = [target EXCEPT ![path] = Patched(@, offset, SubSeq(Content[src], 1, size))]
  /\ size' = IF size > 1 THEN 1 ELSE 0
  /\ offset' = offset + size
  /\ Goto("pwrite")
  /\ UNCHANGED <<at, clean>>

(* pwrite of all the rest, or of a part of it.  The pages come from the    *)
(* beginning of the mapping every time.                                    *)
PwriteSome ==
  /\ pc = "pwrite" /\ size > 0
  /\ \E count \in 1 .. size :
       /\ count = size \/ "short" \in Fallible
       /\ target' = [target EXCEPT ![path] =
                       Patched(@, offset, SubSeq(Content[src], 1, count))]
       /\ clean' = (clean /\ count = size)
       /\ size' = size - count
       /\ offset' = offset + count
  /\ Goto("pwrite")
  /\ UNCHANGED at

(* pwrite fails: the rest is tried with read and write, from the beginning *)
(* of both files.                                                          *)
PwriteError ==
  /\ pc = "pwrite" /\ size > 0
  /\ "write" \in Fallible
  /\ clean' = FALSE
  /\ offset' = 0
  /\ at' = 0
  /\ Goto("write")
  /\ UNCHANGED <<target, size>>

(* Mutant of WriteEnd: the last page is left out.                          *)
WriteEndEarly ==
  /\ pc = "write" /\ offset + 1 >= size
  /\ Copied
  /\ UNCHANGED <<target, size, offset, at, clean>>

(* while (offset < size)                                                   *)
WriteEnd ==
  /\ pc = "write" /\ offset >= size
  /\ Copied
  /\ UNCHANGED <<target, size, offset, at, clean>>

(* Read a page and write it; a write that comes short is not noticed.      *)
WritePage ==
  /\ pc = "write" /\ offset < size
  /\ offset' = offset + 1
  /\ \/ /\ target' = [target EXCEPT ![path] = Patched(@, at, <<Content[src][offset + 1]>>)]
        /\ at' = at + 1
        /\ UNCHANGED clean
     \/ /\ "short" \in Fallible
        /\ clean' = FALSE
        /\ UNCHANGED <<target, at>>
  /\ Goto("write")
  /\ UNCHANGED size

(* read or write fails: fcpy returns an error.                             *)
WriteError ==
  /\ pc = "write" /\ offset < size
  /\ "write" \in Fallible
  /\ Failed
  /\ UNCHANGED <<target, size, offset, at>>

Fill ==
  /\ PwriteNothing \/ PwriteSome \/ PwriteError \/ WriteEnd \/ WritePage \/ WriteError
  /\ UNCHANGED <<symlink, absolute, dirs, path, line, src, lines, runs>>

(* samecp ends, or is killed, and runs again with a buffer of its own.     *)
RunAgain ==
  /\ runs < MaxRuns
  /\ runs' = runs + 1
  /\ pc' = "read"
  /\ path' = <<>>
  /\ symlink' \in Symlinks
  /\ UNCHANGED <<absolute, target, dirs, line, src, size, offset, at, clean, consumed, lines>>

Work ==
  \/ CreateDirectory \/ MakeLink \/ Look \/ Compare
  \/ Create \/ OpenSource \/ Fill

Next == ReadLine \/ Work \/ RunAgain

Spec == Init /\ [][Next]_vars

(* A process that is not killed goes on with its line.                     *)
FairSpec == Spec /\ WF_vars(Work)

-------------------------------------------------------------------------------
(* samecp never writes to a file that was at the destination before it     *)
(* came, whatever name the buffer holds (copy() looks before it creates).  *)
ExistingKept ==
  \A f \in DOMAIN Existing : f \in Files /\ target[f] = Existing[f]

(* A copy that was made without a failing call, of a name that was not     *)
(* damaged, is a copy of its source, and stays one: no later line or run   *)
(* writes to it, although names run into each other in the buffer and      *)
(* earlier attempts leave parts of files behind.                           *)
CopiedAndKept ==
  \A c \in consumed : c.how = "copied" =>
    c.path \in Files /\ target[c.path] = Content[c.src]

(* A line that was consumed has a copy, under the name of its source       *)
(* (samesame.1: copies the first file of a pair of identical files to      *)
(* another location; mainAction.h: getPath appends src to path).           *)
ConsumedIsCopied ==
  \A c \in consumed :
    Rest(c.src) \in Files /\ target[Rest(c.src)] = Content[c.src]

(* Every line that getPath is done with comes to an end: the loop that     *)
(* writes the mapping, whose condition is always true, ends when nothing   *)
(* is left or pwrite fails.                                                *)
LinesEnd == pc \in Steps ~> pc = "read"
===============================================================================
