# A TLA+ development of samesame

samesame is a family of small programs that find files with the same content
and act on them.  A *finder* (`samefile`, `samearchive`) reads file names from
its standard input and writes one line per pair of identical files; an *action
program* (`sameln`, `samerm`, `samecp`, ...) reads such lines and does something
to the two files of each.  This directory holds TLA+ modules of the parts in
which files can be lost or wrongly reported, the TLC configurations that check
them on small instances, and proofs checked by TLAPS.

Line numbers below and in `PROJECT.json` refer to `src/src/`.  The build that is
modelled is the default of `configure.ac`: `READ_ONCES` on; `CHECKSUM`,
`PREREAD`, `DEBUG`, `DISK_STORAGE` and `LOW_MEMORY_PROFILE` off; not BSD.

## Inventory

    names --> [ finder: main, Holder, SizeGroup, MatchMatrix ] --> lines
    lines --> [ samedelay ] --> lines --> [ action driver + action ] --> lines

| component | state | operations | what is hard | what makes it correct |
|---|---|---|---|---|
| sameln, `sameln.cpp` | the files themselves; backups `x.sameln.0` | `relink`: five system calls | every call can fail, kills between calls, other sameln processes, old backups, symbolic links | no name and no content is ever lost; a result says what was done |
| action driver, `mainAction.cpp` | line counters, `stopping`, leaf file and pipe, result cache | read a line, lstat, choose what is kept, compare, act, print | signals between calls, stale cache, lines that are neither processed nor printed | every line is processed or handed on |
| result cache, `cache.cpp` | 8192 slots, direct mapped, by inodes and devices | look up, set | slots taken over, inodes that change or are used again | a cached result is a result of these files |
| file tools, `toolkit.cpp` | - | `fcmp`, `fcpy`, `fgetline` | short reads, failing calls | equal means equal |
| samerm, samecp | - | one action each | the same races as sameln, without a backup | one copy survives |
| samechown, samechmod, samechflags | - | one call on each file of a line, or with `-d` on its directory | attributes computed from meta data that another program of the pipeline changes meanwhile | in the end the files have the attributes they were to get |
| samedelay | a buffer of lines, the previous line's files | hold lines back | ordering | lines come out once, in order, and when later ones have other files |
| finder main, `main.cpp` | `minSize`, the Holder | read names, sort, compare, `solveMemoryProblem` | memory runs out anywhere and the work starts again | no group is forgotten, doubled or compared twice |
| groups, `holder.cpp`, `filegroup.cpp`, ... | tables of sizes, of inodes, of names | find or add, remove, sort | deletions in a hash table, order | a name is in the group of its size and inode |
| Container, `container.cpp` | mode, slots, capacity, size | `[]`, `+=`, `deleteItem`, `fix`, `convert`, `sort` | probe sequences with holes, three modes | an item that was added is found |
| compare engine, `sizegroup.cpp` | descriptors, page buffers, the matrix | open, read and compare page by page, close, mark, report | giving files up early, failing calls, descriptors running out, one matrix for all groups | exactly the identical files are reported |
| MatchMatrix, `matchmatrix.cpp` | triangular matrix with overlapping rows, counters, descriptors | set, get, count, reset | overlap, reuse | clean for every group |
| samearchive-lite | the directories, the result cache | compare a name with its counterpart under every other directory | names cut by their text, doubled directories, cache slots that collide, errors that are remembered, writers | exactly the identical counterparts are reported |
| fsort | a list of names | sort by size | `int` truncation | larger files first |
| disk storage | - | - | off in the default build | - |

Calls are synchronous; the only concurrency is that of several processes on one
file system, connected by pipes or not, and of signals.  The hazards list of `PROJECT.json` has, line by
line, what is hard to test.

## Modules

| module | stands for | extends |
|---|---|---|
| `Relink` | sameln: `relink()` and what of the driver, the cache and `fcmp` it depends on | |
| `MCRelink` | an instance: four files on two file systems, two processes | `Relink` |
| `RelinkProofs` | theorems about `Relink` | `Relink`, `TLAPS` |
| `ReadOnces` | `SizeGroup::compareFiles` with its matrix and buffers | |
| `MCReadOnces` | instances: up to four files of two pages | `ReadOnces` |
| `ReadOncesProofs` | theorems about `ReadOnces` | `ReadOnces`, `TLAPS` |
| `KeepOne` | abstract: what removing duplicates promises | |
| `Driver` | the action driver with samerm, several processes | `KeepOne` (instance) |
| `MCDriver` | instances: four names of three inodes, two processes | `Driver` |
| `DriverProofs` | theorems about `Driver` | `Driver`, `TLAPS` |
| `Files` | the constants of programs that print every line again, with their assumptions | |
| `Delay` | samedelay within the driver | `Files` |
| `DelayProofs` | theorems about `Delay` | `Delay`, `TLAPS` |
| `Attributes` | samechflags, samechmod and samechown within the driver, several processes | |
| `Pipeline` | the manual's command line: three attribute programs, sameln and two samedelay | `Files`; instances of `Attributes`, `Relink`, `Delay` |
| `MCPipeline` | instances: six files in two directories, four reports; five files of one content | `Pipeline` |
| `PipelineProofs` | theorems about `Pipeline` | `Pipeline`, `DelayProofs` (instances), `TLAPS` |
| `Copy` | samecp: the name in its buffer, directories, link or copy, `fcpy` | |
| `MCCopy` | instances: eight sources, four of them below the source argument with names that run into each other | `Copy` |
| `CopyProofs` | theorems about `Copy` | `Copy`, `TLAPS` |
| `Order` | the comparison functions that return a difference as an `int` | |
| `Fsort` | fsort | `Order` |
| `Lite` | samearchive-lite | |
| `Archives` | find, fsort and samearchive-lite | `Lite`; an instance of `Fsort` |
| `MCArchives` | an instance: ten files in five directories, one of them named twice | `Archives` |
| `ArchivesProofs` | theorems about `Lite`, `Fsort` and `Archives` | `Archives`, `TLAPS` |
| `Container` | `Container<T>` as operators on a table | `Order` |
| `List` | `List<Filename>` and the report of hard links as operators on a sequence | |
| `Finder` | the finders' main loop: reading, sorting, comparing, memory running out | `Container`, `List` |
| `MCFinder` | instances: five sizes and small tables; several names of one file | `Finder` |
| `FinderProofs` | theorems about `Container`, `List` and `Finder` | `Finder`, `TLAPS` |

Definitions called *mutants* are wrong versions of a definition next to them.
No specification uses them; substituted for the right one they make the
property they were written for fail, which shows that the property can fail.

### Relink

`entry` maps a name to an inode, `content` an inode to data or, for a symbolic
link, to a path.  Every process has a program counter that names the system call
it is about to make.

| action | code |
|---|---|
| `ReadLine` | `mainAction.cpp` 479-571: a line, `lstat` of both its files |
| `Compare`, `CompareCached` | `mainAction.cpp` 265-317, `cache.cpp`, `fcmp` in `toolkit.cpp` |
| `Decide` (part of both) | `sameln.cpp` 43-62 |
| `MakeBackup` | `link(src, backup)`, `sameln.cpp` 66-84 |
| `RemoveSource` | `unlink(src)`, 86-91 |
| `PlaceLink` | `link` or `symlink(dst, src)`, 92-94 |
| `RestoreSource` | `link(backup, src)` after a failure, 92-99 |
| `DeleteBackup` | `unlink(backup)`, 100-118 |
| `Crash` | a kill between any two calls; the process may then be run again |

What is abstracted: both `lstat` calls are one step; `-A` and `-Z` only
exchange the names of a line, so a line is `[dst, src]`, what is kept and what
is replaced; the size filters, `-n` and `-w` are left out.  Only the backup name
with suffix 0 is tried by the code, because a taken name is not noticed (see the
findings), so there is one backup name per path.  A slot of the cache may be
taken over at any time: a comparison made anew is always allowed, and a
remembered result is believed.  Symbolic links have a size of their own: never
that of a regular file, and all the same.  `fcmp` is one step; what happens
when another program writes to a file meanwhile is not modelled.

### Driver and KeepOne

One directory, several samerm processes, each with its options, the meta data
it has, its result cache (a table of slots; the hash function is the constant
`Slot`), its counters, the lines it printed and those in its leaf file or pipe.

| action | code |
|---|---|
| `Quit` | the signal handler, `mainAction.cpp` 39-42 |
| `ReadLine`, `EndOfInput` | 479-538: count, look at the flag, decode |
| `Stat1`, `Stat2` | the two `lstat` calls and the size test, 541-567 |
| `Check` | `actionProcessInputAction` 265-371: compare or look up, choose, `-d` |
| `Remove`, `Consume` | `samerm.cpp` 31-49; 373-399 with `printLeafs` |

Steps are separated where another process can come between two system calls.
`Skip` is what the driver does with a line it hands on.  In `Check` the answer
"other" stands for different files and for every error: the code treats them
alike, it counts the line as untouched and does not print it.  An option `-o`
whose file cannot be written to is dropped; a `-p` pipe makes the code close a
file that is not open, the step to `"crashed"`.

What is abstracted: the text of a line, the bytes counted, `-n`, `-w`,
the sleeping of the BSD build; `-o` and `-p` are taken to exclude each other.
The names of a line are two directory entries (a report that calls one entry by
two names, `x` and `./x`, makes samerm remove the only copy), no other program
writes to the files, and no inode number is used again.

`KeepOne` is the promise: names disappear one at a time, each while another
name of the same original content is there.  `Driver` implements it with
`there <- {n \in Names : Present(n)}` (property `RemovesDuplicates`).

### Delay

`arr`, `capacity`, `first` and `old` are the variables of `samedelay.cpp`;
`read` is a history variable.  `TakeLine` is one turn of the driver's loop with
`buffer_action`, or with `buffer_add` for a line the driver skips; `OthersWork`
stands for the programs in front of it, whose removals `lstat` sees.  `Assigned`
is `match_t::operator=`, which leaves the sizes alone.

### Attributes and Pipeline

`Attributes` is the driver's loop around the actions of samechflags, samechmod
and samechown, which set `WITHOUT_FILE_CHECK`: `ReadLine`, `Stat1`, `Stat2`, and
then one system call for each file (`ChangeLeft`, `ChangeRight`), whose new
attributes come from what `lstat` gave before (`Changed`, `Calls`) and whose
result nobody looks at.  With `-d` the target is the directory, the attributes
are still computed from those of the file.

`Pipeline` is the command line of `man/samechmod.1` (option `-p`):

    samefile | clear | sameln -p "samedelay | setLinked" | samedelay | setOther

`clear`, `setLinked` and `setOther` are processes of `Attributes`; sameln is
`Relink` and both samedelay are `Delay`.  They share `entry`, the names, and are
joined by their lines: `taken`, `lines` and `read` say how many lines of the
program before them they have read.  `HandOn` is where sameln's lines go, by the
result of `relink` (`mainAction.cpp` 374-399, `printLeafs`).  What couples them
beyond that is the file system: a call of sameln on an immutable file, or in an
immutable directory, is refused (`Permitted`).  `unbacked`, the names whose backup
was refused, is a history variable.  A link is refused by the directories of
both names here, where link(2) asks only for the one it writes to; the instances
do not tell the two apart.  `Relink` is instantiated twice,
with no failures, for calls that are permitted, and with all failures, for calls
that are not.

What is abstracted: the manual has two attribute programs at each place, for the
files and with `-d` for their directories; here it is one, with or without `-d`.
Pipes are unbounded, and programs that work on a pipe see its lines in the order
of writing.  The calls of the attribute programs succeed: they are root's.  Only
the samedelay behind sameln's output gets a signal; the one in the leaf pipe
would make sameln die of a broken pipe.  A name's inode may change, its size
does not, as linked files are identical.

### Lite, Fsort, Order and Archives

`Lite` is the loop of samearchive-lite: a name that begins with the first
directory (`Wanted`) is compared with the name that has each other directory in
its place (`Moved`), unless the directory is a double of an earlier one
(`Double`).  `Comparable` is the second `lstat`, `Remembered` and `CompareWith`
are the cache and `fcmp`, `Advance` is the inner loop.  `alike` and `calm` are
history variables.  `Write` is another program that writes to a file between any
two steps.

`Fsort` reads all names, sorts them with `EntryCmp` and prints them from the last
to the first; names that `lstat` does not find, and with `-o` all names, are
printed as they are read.  `Order` has the two comparison functions that return
the difference of 64-bit numbers as an `int` (`Truncated`): `EntryCmp` of fsort
and `SizeCmp` of the finders, used by `Container`.  `Half` is 2^31 in the code.
If the comparison contradicts itself qsort may leave any order.

`Archives` joins the two: samearchive-lite reads what fsort has printed so far.

What is abstracted: names are given by the operators `Begins` and `Moved`, in
`MCArchives` sequences of parts; the buffers they are put together in; writers
keep the length of files (a file that becomes shorter makes `fcmp` loop for
ever); a comparison is one step; names and inodes do not change; all error codes
are `"error"`.

### Copy

`target` maps the names below the destination to the pages of a file, `dirs`
are the directories there; `path` is the program's buffer behind the
destination.  `line` is the file of the line, and `src` its name in memory.
`consumed` is what the driver did with the lines, `clean` says that no call
failed or came short for this one and that its name is still its own.

| action | code |
|---|---|
| `ReadLine` | `samecp.cpp` 37-47, `getPath` in `mainAction.cpp` 44-64 (`Overlays`) |
| `CreateDirectory` | `samecp.cpp` 50 and `toolkit.cpp` 415-452: the directories up to the one whose `mkdir` fails, none below an absolute destination; `Damaged` is what the pointer of 427-433 writes |
| `MakeLink` | 53-71, option `-s` |
| `Look`, `Compare` | `lstat` of the copy's name; 84-123, a copy that exists |
| `Create`, `OpenSource` | the two `open` calls of `fcpy`, `toolkit.cpp` 87-111 |
| `PwriteSome`, `PwriteNothing`, `PwriteError` | the loop over a mapping, 47-67 |
| `WritePage`, `WriteEnd`, `WriteError` | the loop of `read` and `write`, 70-84 |
| `RunAgain` | the program ends, or is killed, and is run again |

`ReadLine` has the three ways of `samecp.cpp` 43: a longer name that does not
begin with the source argument is printed again; one of its length or longer has
its rest put into the buffer, and a name of the same length, which is compared
with nothing, has no rest and leaves the last copy's name there; a shorter one
makes `srcLen - srcOffset` negative, and `pc` becomes `"crashed"` or, if the
destination is so short that the sum wraps as well, `"stuck"`.  Behind a name that is longer than the
buffer's content comes what was behind its terminator, memory that nothing has
written yet: any member of `Fresh`.

`createDirectory` returns 0 after a failure and `copy()` tests for less than 0,
so a line goes on whatever was made: `Create` fails where a directory is
missing, and the line is consumed.  `MakeLink` fails as long as the names are
right: `linkf(path, left)` makes a link *to* the copy under the name of the file
that is there.  `Compare` is given a `struct stat` that was never filled, so it
may answer anything; both outcomes are allowed.

What is abstracted: the driver's comparison (a line is the file it copies), the
text before the destination's end, where all directories are there, `-n` and
`-d`, names longer than the buffer, the `./` and `//` that `getPath` leaves out,
names that end in a slash, modes of files and directories, and a source that
shrinks while it is copied (the read loop then never ends).  Where `Damaged`
would write in front of the name it writes to other memory, which has no part in
this state, and the link that `MakeLink` makes in place of a damaged name is not
followed up.

### ReadOnces

The whole state of a group: the matrix `cell`, the counters `equal`, the
descriptors `fd`, `max`, `buffer`, and the loop counters `row` and `page`.  The
actions follow the code's passes: `AvoidDiskAccess`, `Open` (file by file),
`GetBuffer`, `Read` (a page of every file), `Compare` (row by row), `Close`,
`Mark`, `MarkByLogic` (row by row), `Report`, `Reset`.  `Slot` is the overlap of
the matrix's rows: in a matrix without room to spare, the cell that stands for
`(n-1, n-1)` *is* that of `(n-2, n-1)`.

What is abstracted: a page is a model value, a file a sequence of `Pages` of
them; every error code is `"error"`; a file has one name; for samearchive,
`rel` is the name inside the archive, and the files of a group come in the
order of the directories on the command line.  A failing `open` or `read` costs
one unit of `MaxFaults`, of which each program has its own number.  `capacity`
is the room of the matrix, chosen at the start.  The code's index underflow, when descriptors run out
and no file holds one, is the phase `"crashed"`; when another file has given up its
descriptor, the second `open` is taken to succeed.  After `bad_alloc` the matrix
keeps what the interrupted call left, as in the code.

### Container and Finder

A table is a record: mode, slots, capacity, counter, hash function.  `Key` is
the probe, `Added` is `operator+=` with `Enlarged`, `FixHash`, `FixVector` and
`FixSorted` are the three branches of `fix()`, with `Moved`, `HoleFilled` and
`RunMoved` for one turn of their loops, `Sorted` is `sort()`.  `Finder`
holds one such table of groups, a group being its file size, and `names`, which
gives every file in the table the `List` of its names:

| action | code |
|---|---|
| `ReadFile` | `main.cpp` 254-318 with `Holder::operator[]` (`WithGroup`), `SizeGroup::operator[]` (`WithFile`) and `FileGroup::operator+=` (`WithName`) |
| `ReadFails` | `bad_alloc` in one of these three; what the earlier ones did stays, and the name is tried again |
| `SkipFile` | the name that is tried again is by now too small |
| `StartComparing` | end of the input; `Holder::sort` unless `-a`, hard links with `-r` |
| `CompareGroup` | one slot of `Holder::compareFiles`: compare, delete |
| `OutOfMemory`, `RaiseMinSize` | `bad_alloc` elsewhere; one round of `solveMemoryProblem`: a larger `minSize`, `Holder::remove` with its `fix` |
| `Finish` | the loop is over |

What is abstracted: by how much `minSize` grows (any larger size); the table of
the files of one group, a set here; sizes that differ by more than an `int`
holds; `-Z`, which is `-A` with the opposite order.  `wrapped` is a history
variable: `fix()` met an item in front of the slot it hashes to, the case in
which it can go wrong.  From then on there may be two groups of one size, which
`names` does not tell apart; no property speaks of it there.

## What the runs check

| run | instance | shows |
|---|---|---|
| `relink` | 4 files, 5 inodes, 2 file systems, 2 processes with 2 and 1 lines, option `-s`, every call but the backup's link may fail, 1 kill | `TypeOK`; `NameOrBackup`: every path or its backup is a name at every moment; `ContentKept`: what is read under a path or its backup is what the path held at first; `NoDanglingLink`; `OutcomeTellsState`: only FAILED_RESTORE leaves a file missing; `LinesEnd` |
| `driver` | 4 names, 3 inodes of 2 contents, 3 lines and 1, 2 cache slots, orders `-A`, `-At`, `-Z`, `-Zt` for both processes, `-L` next to a process that removes nothing (`-d`); `-At` with `-q`; open, unlink and the leaf file may fail; signals | `OneCopyKept`: of the names of a content one is left; `RemovesDuplicates`; `LinesAccounted`: each line is printed, consumed or dropped as different, once; `ConsumedIsRemoved`: a line in the leaf file has a file that is gone |
| `pipeline` | 4 reports of 3 lines on 6 files in 2 directories: a group of four, all pairs of three, two groups, files that differ by now; `clear` is samechflags with or without `-d`, the other two samechflags, with or without `-d`, samechmod or samechown; the files or their directories immutable at first; 2 files too small for samedelay; buffers of 1 line; a signal | `LostOnlyUnbacked`: whichever calls of sameln are refused, no name is lost unless the one that makes its backup was; `LinesInOrder` of both samedelay; `EndsSettled`: if every line about a file is right it has in the end the attributes it was to get |
| `pipeline_loses` | the manual's command without its `-d` stages, five files that are alike and immutable, the 10 lines of `samefile -x` | finding 1 |
| `pipeline_prevented` | the manual's command, 4 reports of 3 lines, all files immutable at first | finding 4 |
| `lite` | 4 arguments `a/ b/ c/ b`, 3 inputs of 3 or 4 names, one with a directory `a0` and one with a file too large for fsort's comparison; inodes that agree in their number, names of one inode; 2 contents; 2 cache slots for all pairs; a writer, reads that fail; fsort with and without `-o` | `ReportedWereAlike`: a line is about different files that were alike while the program ran; `ReportComplete`: undisturbed, exactly the pairs with the same relative name and content are reported; `ReportSorted`: larger files first, if sizes, devices and inode numbers are near enough for fsort |
| `readonces` | 4 files of 2 pages of 2 values, 2 relative names, three programs, group after group, a matrix with and without room to spare; for `samefile` up to 2 failures of open, read, descriptors or memory per matrix | without failures `CountsDifferences`: the counter that decides when a file is given up; `ReportedAreAlike`, `OneOfEachLeft`, `FullListComplete`, `WasteIsCounted`: the report and the statistics; also with failures `DifferentIsTrue`: a stale page never tells files apart; `DescriptorsClosed`; `NeverReadsStdin` |
| `readonces_unreadable` | 3 files, one failing open | finding 2 |
| `finder` | 5 sizes read in any order and any number of times, hash values that collide and wrap, capacity 2 growing to 8, with and without `-a`; and 2 files of one size, one of them with 3 names, next to 2 of other sizes, with every sorting, `-i` and `-r`; 2 shortages of memory | `GroupsFound`, `NothingLost`, `ProbesEnd`, `ComparedOnce`, `ReportDescends`: the table and the loop; `NamesKept`, `HardLinksReported`: the names, which of them come first, and their report |
| `finder_fix` | the same | finding 3 |
| `copy` | 3 lines of 8 sources (four below the source argument, one of them with the name of a directory, two that do not begin with it, two that are shorter), a file that is there, memory that is clean or not, a relative destination and an absolute one, every call failing or coming short, 2 runs, with and without `-s` | `ExistingKept`: nothing that was there is written to; `CopiedAndKept`: a copy made without a failure is and stays a copy; `LinesEnd`: every line that `getPath` is done with comes to an end |
| `copy_shorter` | 2 lines, no failures | finding 5 |

Why these bounds are enough.  `Relink`: the path of one line is five calls, so
two processes and three lines give every interleaving of a line with a line of
another process and with an earlier line of the same one; `a`, `b` share a file
system, `c` is on another one (so that links cross) and `d` has other content
(so that a report that is out of date must be noticed); the fifth inode is the
one a symbolic link takes.  One kill leaves one old backup, which a later line
meets.  `Driver`: three lines let a process use a cache slot, lose it to another pair,
and come back; two names of one inode make a removal that changes no content,
and the fourth name is one whose content the report has wrong; the line of the
second process shares names with those of the first, so that each may remove
what the other has just looked at.  Processes with opposite orders are left out:
they do remove both copies of a pair, and so do two with `-L`.  `Pipeline`: three
lines are the least with which a file occurs in a line that samedelay holds, in
one that sameln works on and in one that comes later; buffers of one line are
enlarged and flushed; lines that go to the leaf pipe and lines that are printed,
as their files are linked already, are refused, or were too small, take different
ways; for `pipeline_loses` it takes five files of one content and the ten lines that
`samefile -x` prints about them.  `Archives`: two slots for ten pairs make pairs that share a slot follow
each other and come back; three other directories are needed for a double that
is not next to its original; sizes 20, 90 and 220 with `Half` 128 have a
difference that an int holds, and one that it does not.  `ReadOnces`: four files is the least number with two pairs that share no
file, and with a chain of three identical files and one more, on which marking by logic
has two premises; with two pages a file may drop out in the first round or the
last, so that the second one meets pages of the first; `Slack` is 1 instead of 32 so that both branches of the formula for
`max` occur.  `Finder`: five items enlarge the table twice, and eight slots with
hash values 1, 6 and 7 give collisions in the middle and across the end; two
shortages strike before and after the sorting, or twice in one loop; three names
make a list whose order is not that in which they were read.  `Copy`: with three
lines a name can be written over the end of a longer one and once more over the
result, and the names `a`, `ba`, `aa` and `aa/a` then meet each other, the file
that is there and each other's directories; `bbb//a` is the file `bbb/a`, so that a
damaged name may be that of another file or of none; one of the shorter names
makes the size wrap and one does not; files of two pages are the least of which a part
can be written.

Deadlock is not checked: all these programs stop.

**Fairness.**  `Relink`'s `FairSpec` has weak fairness of `Work(p)` alone: a
process that is working on a line is scheduled until it is done with it.  A
process runs by itself and none of its system calls blocks, so nothing more than
an operating system that schedules its processes is assumed.  Reading another
line and being killed are not fair.  `Copy`'s `FairSpec` is the same for its one
process; from `"stuck"` and `"crashed"` it is only started again, so `LinesEnd`
says nothing of a name that is shorter than the source argument.  `Pipeline`'s
has weak fairness of every program:
it goes on as long as it has a line to read, an end of input to notice or a call
to make, which is what a scheduler and a pipe give.  The signal is not fair, and
how many steps of one program come between two of another is open.  The other
modules have no liveness properties: their loops have the bounds the safety
properties name.

## Findings

1. `pipeline_loses`: `sameln.cpp:79` tests `(backup_error = link(...) < 0) < 0`,
   which is never true.  If the backup fails for a reason other than its name
   being taken, the source is unlinked without one, and if the new link fails as
   well the file's name is lost, which the manual says cannot happen.  The run
   shows that no device has to fail for it.  In the manual's command line, without
   its `-d` stages and with `samefile -x` in front of it,
   `setOther` makes the file immutable again because of an earlier line, so that
   the backup is refused; `clear` takes the flag away because of a later line,
   before the unlink; and the file to link to is immutable since `setLinked` had
   its line, so that the link and with it the restore fail.  With four files
   of one content the lines that samedelay holds back come too late for that.
2. `readonces_unreadable`: a file that cannot be opened makes
   `sizegroup.cpp:413` mark the wrong cells.  Other files of the group are then
   not compared and are reported as identical although they differ.
3. `finder_fix`: `fix()` goes over a hash table once, from slot 0.  Items whose
   probe sequence goes past the end of the table may not be found afterwards; a
   second group of the same size is made and files of the two are not compared.
4. `pipeline_prevented`: the sizes samedelay compares with are never set, because
   `match_t::operator=` does not copy them.  Every line flushes the line before
   it, whether or not they share a file.  In the manual's command line the file
   that sameln keeps is then made immutable again before the other files of the
   group are linked to it, which samedelay is there to prevent; sameln is refused.
5. `copy_shorter`: `mainAction.cpp:62` copies a name without its terminator into
   a buffer that serves all lines.  After a longer name the end of that name
   stays, and the file is copied to a name that is not its own.  In the run
   `bbb/ba` follows `bbb/aa/a` and is copied to `ba/a`.  Its end does worse:
   `createDirectory` finds the directories of `src` by counting from the end of
   `path` and writes a slash there (`toolkit.cpp:429-432`), so the name to be
   copied has become `bbb//a`, and `ba/a` gets the content of another file, without
   a call that fails.

Without a run of their own:

* `samecp.cpp:50` tests `createDirectory` for less than 0, which it never returns
  (`toolkit.h:102-104`).  With a directory missing `fcpy` fails, its result is not
  looked at (81), and the line is consumed without a copy.  `toolkit.cpp:435` always
  fails for an absolute destination, as its first `mkdir` is that of the empty name: no
  directory is ever made, and every line whose copy would need one is lost like that.
* `samecp.cpp:43` refuses longer names only.  A name shorter than the source
  argument makes the size in `mainAction.cpp:48-51` wrap, so that the capacity is
  doubled to 0 and the loop never ends, or else the length of `memcpy` (62).  A
  name of its length is copied to the destination's own name, or the last copy's.
* `samerm.cpp:41` tests the verbosity together with the
  result of `unlink`, so that with `-q` a line whose file could not be removed goes
  to the leaf file or pipe.  `Driver` does the same, and `ConsumedIsRemoved` is
  stated for processes without `-q`.
* `main.cpp:292` skips files of size `minSize`, `Holder::remove`
  keeps them.  A file of that size that was in the table when memory ran out for
  its name stays there without one (`Finder` does the same); sorting it with
  another file of its size dereferences a null pointer, and alone it is silently
  left out.
* `samearchive-lite.cpp:199` takes every name that begins with the characters of
  the first directory, so that for `a` a file `a0/x` is compared with `b0/x`, which is in
  neither archive; `man/samearchive-lite.1:44-45` promises lines about files of the archives
  only.  `ReportComplete` is stated for inputs without such a name
  (`InFirstArchive`); `MCArchives` has one input with one.
* `samearchive-lite.cpp:99` accepts neither `-0` nor `-m`, which the manual has.
* `samechown.cpp:33-36` leaves both files alone as soon as one of them has the
  owner, or the group, already, so that files of one owner and two groups keep
  them; `EndsSettled` leaves samechown out.  `samechown.cpp:72` looks the group up under the
  user's name.
* `samechmod.cpp:31` with `-d` gives the directory the mode of the file, changed:
  its x bits go.  `samechflags -d` does the same with flags.

## What is proved

Every invariant and action property that the passing runs check is a theorem.

`RelinkProofs` proves for all processes, paths, reports, failures and kills:

* `TypeInvariant`: `Spec => []TypeOK`.  `TypeOK` says of a process at work that
  its line is one of its report and that it has the inodes `lstat` gave; it is
  inductive as it stands.
* `NoNameLost`: `Spec => []NameOrBackup`, assuming `DisjointSources` (processes
  that run at once replace different paths) and `BackupsWork` (the backup's link
  fails only if its name is taken; finding 1 shows what happens without it).
  `NameOrBackup` alone is not inductive: a process that is about to unlink must
  be known to have a backup.  `BackupInv` adds, for every process, what is
  present at its step: the source up to the unlink, the backup from there to
  the restore or the new link.  A step of another process leaves both alone
  (`OthersUntouched`), as it replaces another path.
* `OutcomeAlwaysTells`: `Spec => OutcomeTellsState`, assuming `DisjointSources`
  only, from the part of `BackupInv` that does not need the backup.
* `ContentAlwaysKept`: `Spec => []ContentKept` without option `-s`, with no
  assumption on the reports, on failures, or on what earlier runs left.
  `ContentInv` adds that the inodes a process remembers, and the pairs its cache
  calls identical, hold the content their paths held at first.
* `LinkedContentKept`: `Spec => []ContentKept` with option `-s` too, assuming
  `ReportsRight` (the files of a line had the same content at first).  Without that
  it is false: once a symbolic link takes the inode of a file, the cache may
  hold a result about an inode number that is used again, and only the report keeps
  sameln from believing it.  `RightContent` says what every path is read as, links followed.
* `LinksNeverDangle`: `Spec => []NoDanglingLink`, assuming `LinksDescend`, that
  the paths have levels and links across file systems go down, which `-A` and `-Z` see
  to.  `PointsDown` says that every link has a path of a lower level for its target;
  that following it ends (`DownIsReadable`) is an induction over levels.

`DriverProofs` proves for all processes, names, lines, caches and failures:

* `TypeInvariant`: `Spec => []TypeOK`, inductive as it stands.
* `RemovesOnlyDuplicates`, that `Driver` implements `KeepOne`, assuming
  `OptionsAgree`: one process alone removes files, by any order, `-L` included, or
  all that do keep the earlier file of each of their lines by one order of the names.
  `SameOrderAgrees` shows that all with `-A`, all with `-Z`, or
  all with `-At` or `-Zt` and different times do so.  For any options, `TrueInv` says that the
  meta data a process took and the pairs its cache calls identical are true
  (`StatsAreTrue`, `CacheIsTrue`) although names have gone since, and that it removes one of two
  names of one original content (`ChoiceIsSafe`).  That is not enough when two
  processes are about to remove the last two copies.  `AloneInv` adds that what one
  process has looked at is there; `OrderInv` that a name is only removed for
  one in front of it, so that the first names of every content are never removed.
* `KeepsOne`, that what `KeepOne` promises is enough for `OneCopyKept`, and
  `SomeCopyKept`: `Spec => []OneCopyKept`, under `OptionsAgree`, from both.
* `EveryLineAccounted`: `Spec => []LinesAccounted`.  `PendingInv` says how many lines
  are neither consumed nor left at each step (the one in work, or the one that was
  read when the signal was found), `PrintedInv` where those that are left went.
* `OnlyRemovedConsumed`: `Spec => []ConsumedIsRemoved`, as a name that is gone never
  comes back.

`ReadOncesProofs` proves for all numbers of files, contents, pages, matrices, groups in
any order, and the failures each property allows:

* `TypeInvariant`: `Spec => []TypeOK`.  `LoopsInv` adds where the loops are.
* `DescriptorsAlwaysClosed` and `StdinNeverRead`, from `DescriptorsInv`: which
  file has a descriptor follows from how far opening got and from `max`.
* Without failures, `CountsAreTrue` (`CountsDifferences`), from `CleanInv`: the cells of the
  matrix that this group does not use are clean, a counter is the number of the cells of its file that
  tell it apart, and pairs nobody told apart agree in every page that was
  compared.  A file that is given up is then different from all others.
* Without failures, `LinesAreAlike`, `FullListIsComplete`, `OneIsLeft` and `WasteIsTrue`
  (`ReportedAreAlike`, `FullListComplete`, `OneOfEachLeft`, `WasteIsCounted`), from `MarkedInv`,
  which says of every cell, once marked, whether its pair is alike and whether that
  was a conclusion; the last two then count classes by their first files.
* With failures of `open` and `read`, `DifferencesAreTrue` (`DifferentIsTrue`).  A failure
  makes counters count a pair twice, so that a file is taken for settled, its
  page is not read, and old pages *are* compared.  `AheadInv` is why that does no harm:
  of two alike files the first one differs from every file the second one was told apart from,
  and its counter exceeds their number at least as much; so the second one's page is only old
  if the first one is settled too.

`DelayProofs` proves `LinesKeptInOrder` and `NewestIsHeld` for all lines, sizes
and capacities, from `HeldInv`: what was read is what was printed and what is
held, but for the line that a signal makes the process drop.

`PipelineProofs` proves for all reports, options, attributes, buffers and interleavings:

* `PipelineDelays`: `Spec => HD!Spec /\ OD!Spec`, that the pipeline implements two
  `Delay`, the rest of it being the `OthersWork` of each.  It needs `FlowInv`: what sameln
  hands on are lines of `samefile` that `clear` has printed.
* `DelaysKeepOrder`: `Spec => []LinesInOrder`, which is then `LinesKeptInOrder` of
  `DelayProofs`, twice.
* `LossNeedsRefusal`: `Spec => []LostOnlyUnbacked`.  `NamesInv` adds which of the
  source and its backup are names at each step of sameln; a call that is permitted
  keeps it as in `Relink`, one that is refused changes no name, and only the refusal of
  the backup puts a name into `unbacked`, which is what finding 1 is about.
* `TypeInvariant`: `Spec => []TypeOK`, from these invariants and `HeldInv`.

The assumptions are those on files, and that attributes and options are of the
kinds `Attributes` works with.

`ArchivesProofs` proves for all names, directories, caches, writers and failures:

* `TypesKept`: `ArchivesSpec => []ArchivesTypeOK`, and `ArchivesImplementLite`:
  `ArchivesSpec => Spec`, that samearchive-lite behind fsort behaves as it does
  with any input.
* `OnlyAlikeReported`: `Spec => []ReportedWereAlike`.  `LiteInv` adds that every pair
  that the cache calls identical was alike at some time (`CacheTrue`), which needs that a pair
  is found only in a slot that has this pair, and that `alike` has what is alike now.
* `NearEntriesAreOrdered`: fsort's comparison is antisymmetric and transitive, whatever
  the width of an `int`, if differences fit into it: the condition under which
  qsort's result is sorted at all.
* `LargerFirst`: `ArchivesSpec => []ReportSorted`.  `SortInv` says that what fsort
  holds can be sorted while it is read (some arrangement of it is in order), is sorted
  then, and is printed from its largest on; `NamesInv` which names are where.
* `ReportIsComplete`: `ArchivesSpec => []ReportComplete`.  `CalmInv` says that, as long as
  nothing is written and every read succeeds, what is remembered is true of the pair it is
  remembered of, and every pair that was looked at and is identical is in the report.

The assumption `MovedAssumption` says that the names under other
directories are names of the model, `LocatedAssumption` that a name leads to a directory
and a place in it, and the name under another directory to the same place there.

`CopyProofs` proves for all names, contents, buffers, failures and restarts:

* `TypeInvariant`, `NothingOverwritten` (`Spec => []ExistingKept`) and
  `CopiesStay` (`Spec => []CopiedAndKept`).  All three are parts of `CopyInv`.
  It adds `Own`: from `Create` on, the name in the buffer is neither one that
  was there nor that of a copy that was finished before, which follows from
  `Look` alone, whatever the buffer holds and whichever directories could not be
  made; and `Progress`: as long as nothing went wrong, `src` is the line's own
  name and what is written so far are the first pages of it.

`FinderProofs` proves for tables of any initial capacity, any hash functions, files, names,
options and shortages of memory that all eight invariants of the run `finder` hold.  They
follow from one inductive invariant, `FinderInv` (`Invariance`), which TLC checked
on the instance of that run first.  It rests on what is proved of the operators:

* Tables.  `Sound` says that no item is in two slots and that no slot probed
  before an item's own is empty or has it, which is what `key()` needs to find it
  (`SoundFinds`).  Adding an item, with or without enlarging, keeps a table sound (`AddedIs`);
  deleting one does not, and `fix` makes it so again (`FixHashIs`), provided that no
  item is in front of the slot it hashes to.  The induction over the visits of `fix` says
  that between the home of an item that was visited and the item there is no empty slot
  (`Repaired`), which a visit to a later slot could break and does not, as an item only
  moves to the first empty slot on its own way.
* `FixVectorIs`, `FixSortedIs` and `SortedIs`: closing the holes of a vector and
  sorting it keep what is in it; of a sorted vector also the order.
  `NearSizesDescend`, that the comparison puts larger sizes first if the differences fit
  into an `int`, is what makes the result of qsort sorted.
* `ListAddKeeps` and `ListSortedIs`: a list has the names it had and the new one,
  once each, and the insertion sort returns them in order.

`FinderInv` has these parts.  `TableOK`: the counter is never less than the
number of slots in use, and less than the capacity while there is hashing; `ProbesEnd`
follows, whatever `fix` met.  `GroupsOK`: as long as `fix` met no item in front of its home, nothing
is in two slots, the counter is exact, the table is sound while names are read, and it
holds what was read, neither removed nor compared; `GroupsFound` and `NothingLost` follow.
`LoopOK`: the slots behind the loop's place are empty, so that at the end all are
(`ComparedOnce`).  `OrderOK`: the table descends while groups are compared, and what was
compared is larger than what is left (`ReportDescends`).  `ListsOK`, `NamesOK` and
`LinksOK`: the lists have no name twice, only names of their file that were read
and not removed, at least one and with `-i` all (`NamesKept`), and the links
between them are there from the end of reading on (`HardLinksReported`).

The assumptions are that `Hash` are functions to natural numbers, that the capacity is not zero
and that no two sizes are too far apart for an `int` (`SizesAssumption`; `sizegroup.cpp:101`
truncates the difference, so the code needs it too).

Only model-checked: both `LinesEnd` and `EndsSettled` (liveness is out of the prover's
reach).  No module has a `RECURSIVE` operator.  What a recursive
function computes is reasoned about where it has to be: `Upwards` is induction over
numbers, for sets, from the library's theorem on minimal elements, and `HopExists` shows that the
function is there at all (`RelinkProofs`).

## What is not modelled

The dry run, options and printing; `CHECKSUM`, `PREREAD` and `DISK_STORAGE`
builds; `samemv` (its source does not compile, the build makes it from
`samerm.cpp`), `samecmd` (an empty file) and `sameecho` (the driver with an action
that does nothing); how the arguments of samechown, samechmod and samechflags are
parsed; statistics; the hash function; writers
other than the modelled processes.  `PROJECT.json` has the reason for each.

## Plan

In this order:

1. `ContentStore`, an abstract specification of sameln (a set of readable names
   with constant contents) that `Relink` implements under a refinement mapping;
   then a program that writes to files between the comparison and the unlink.
2. `Sieve`, an abstract specification of the compare engine (the undecided pairs
   only shrink and leave for a reason) that `ReadOnces` implements.
3. In `Finder`, the order of the files in a group; in `ReadOnces`, files with
   several names; in `Lite`, names that are not under the first directory.
4. In `Pipeline`, the programs of the manual with and without `-d` one behind the
   other, and samerm or samecp in the place of sameln.
5. Proofs: that `Relink` implements `ContentStore`.
