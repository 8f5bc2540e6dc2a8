# A verification development for kernel_stuff

kernel_stuff is a collection of independent tools around Linux kernels and
their core dumps. They share no code and exchange nothing but files, so each
modelled tool has a specification of its own. Where tools meet they are composed:
the `crashstash` module with the script that reads its stash out of a vmcore; the
reproducer of a kernel bug with the script that writes part of its source; and
the three programs that, one after the other, repair a bad vmcore.

Paths below are relative to the repository's root. TLA+ definitions have the
names of the functions, labels and variables they stand for; `PROJECT.json`
lists, under `map`, the lines each of them models.

## The system

| component | state | operations | what is hard | what makes it correct |
|---|---|---|---|---|
| `crashstash/crashstash.c`, kernel module | a mutex, `count`, `pde`, the page list, `size`, `pages`; offsets of open files | open, release, write, read, load, unload | several tasks; delayed release; a panic between any two stores; `copy_from_user` faulting; unload with open files; the size limit | one holder; no `BUG_ON`; what a vmcore yields is what was written or an error, if anything was written; nothing left after unload |
| `crashstash/crashstash.py` | none (reads a crashed machine) | `get_crashstash` | stale, missing or inconsistent metadata | raises or returns the stash |
| `negdentcreate/negdentcreate.c` | the list of `struct work`, `loop`, `exiting`; main's `progress`, `err`; the directory | create, poll, cancel, join; the worker loop; SIGINT | unsynchronised polling, deferred cancellation, a blocked signal, failing calls | exit status 0 means all names are done; ends when done, interrupted, or after an error, unless a thread was never created |
| `assoc_array_gc/repro_fixed.c`, and `repro.c` without the patch | the old tree, the new tree, cursors into both | `make_array`, `assoc_array_gc`, printing | two trees walked at once, one rewired under the walk; retries; allocation failure | the copy holds exactly the kept leaves, well linked, compact, without leaks; no assertion fails |
| `assoc_array_gc/assoc_array_constructor.py`, `construct_array.c` | a list of statements; the one variable `node` | print an array as statements; run them | every step down needs one up | the array built is the array dumped |
| `editbuildid/editbuildid.c` | the ELF file; search position; `struct buildid_info` | search, print, write | two tables, padding, 16-bit sizes, an uninitialised result, failing and short calls | the first build ID is found; nothing but its bytes changes; every run ends; all three as long as no size is cut |
| `vmcoreinfo/editvmcoreinfo.c` | the vmcore; `struct saved_elfdata`; a temporary file | read, update offsets, save the tail, truncate, write, restore | changes in place with kills, partial transfers | the new note can be read back; other segments keep their bytes; the tail is never only in memory |
| `vmcoreinfo/dumpphys.c` | page bitmap position, output file, `found_count` | walk page ranges; dump or search each page | unreadable pages, short writes, strings over page boundaries | the output is the pages, or the notes, in order, once, and nothing is lost between; the summary is true |
| `elf/phys2virt.c` | the vmcore, a table of program headers | rewrite `p_vaddr` in place | byte order; a write that stops in the middle, noticed or not; running it again | nothing but virtual addresses changes; a run that gets through leaves all of them right |
| `vmcoreinfo/findvmcoreinfo.py` | a pipe, a buffer, the output file | read, split, test, save | a second process; separators and marks cut by reads; either process dying | the pieces are those of the whole stream; neither process waits for ever |
| `drgn_vmalloc_test`, `get_vmcoreinfo.c`, `vmcoreinfosize.py`, `ctf/*`, `openclose`, `ftrace_killer`, `tiny_fake_vmcore` | | | | see "Not modelled" |

How the parts of each component interact:

* crashstash: tasks meet in the mutex; the VFS calls `crashstash_release` some
  time after the last `close`, and stores a new file offset only when a handler
  did not fail; `proc_remove` waits for handlers and releases open files; the
  kernel log carries the addresses to `crashstash.py`, through a vmcore.
* negdentcreate: main writes `start`, `stop` and the rest before a worker
  exists; afterwards a worker writes `cur`, `cnt` and `error`, main reads them;
  the signal handler writes `exiting`, everybody reads it. Nothing is locked.
* the repair of a vmcore (`vmcoreinfo/README.md`): `findvmcoreinfo.py` starts
  `strings`, reads from it through a pipe and writes a file; `phys2virt` and
  `editvmcoreinfo` change the vmcore in place, the latter with that file.
* the reproducer: the script's output is compiled into `make_array`.
* the other tools are single processes that interact with files, and with a
  kernel that may refuse any of their calls.

## Modules

| module | models |
|---|---|
| `CrashStash` | `crashstash.c` and `crashstash.py` |
| `StashFile` | what crashstash promises: an abstract file |
| `NegDentCreate` | `negdentcreate.c` |
| `AssocArrayGc` | the function `assoc_array_gc` of `repro.c` and `repro_fixed.c` |
| `AssocArrayRepro` | extends it: the constructor script, `make_array`, `main` |
| `EditBuildId` | `editbuildid.c` |
| `Vmcore` | an ELF vmcore, shared by the next two |
| `EditVmcoreinfo` | `editvmcoreinfo.c` |
| `Phys2virt` | `phys2virt.c` |
| `FindVmcoreinfo` | `findvmcoreinfo.py` and, as an external process, `strings` |
| `VmcoreRepair` | composes the last three on one vmcore |
| `Dumpphys` | `dumpphys.c` |
| `MC...` | the constants of the instances that TLC checks |
| `CrashStashProofs` | theorems about `CrashStash`, in three parts: control, bytes, the refinement of `StashFile` |
| `NegDentCreateProofs` | theorems about `NegDentCreate` |
| `VmcoreRepairProofs` | theorems about `VmcoreRepair`, `Phys2virt` and `EditVmcoreinfo` |
| `FindVmcoreinfoProofs` | theorems about `FindVmcoreinfo`, as a part of `VmcoreRepair` |
| `EditBuildIdProofs` | theorems about `EditBuildId` |
| `DumpphysProofs` | theorems about `Dumpphys` |
| `AssocArrayGcProofs` | theorems about `AssocArrayGc`, in three parts: the walks, the tree they leave, its leaves and counts |
| `Induction` | lemmas of the proofs: induction over numbers, recursive functions, walks, least and greatest elements |

Definitions named `X_Something` next to a definition `X`, commented "Mutant",
are forms of `X` with a plausible bug; each property is shown to notice one.

### CrashStash

A handler that only touches state another task can see under the mutex is one
action (`crashstash_read`, `crashstash_open_fail`, `crashstash_release`).
`crashstash_free` and `crashstash_write` go store by store, because a panic
freezes memory and the vmcore shows what is there: "the machine crashes here"
needs no action, it is what `GetCrashstash` makes of the present state. The
result of `copy_from_user` may be a fault that leaves the chunk partly copied;
`alloc_page` returns a page of `Junk`, or nothing, which the code does not look
at: `crashstash_write_oops` ends the task at the null pointer with the mutex held,
so that nobody gets any further, and what a vmcore then yields is still covered
by `SalvageSound` and `Retrievable`. `record` says whether the newest address
record in the log belongs to this load of the module; the rate limit may drop a
record, but only once one was printed, and the log may overwrite it
(`log_overwrite`). A record of an earlier load can be the newest one only until
this load stores something, since the first writer prints another: that is
`NoStashButRecord`, the one state in which `crashstash.py` may return bytes that
nobody wrote. `written` is a history variable, the bytes `size` accounts
for. The state is all variables of the C file plus the `struct file` of each
task, whose offset the VFS keeps.

`StashFile` is the promise: a byte string with one holder, which a writer
extends, a reader is delivered in order, and which is emptied only while nobody
holds it. `CrashStash` implements it with `content <- written` and, as holder,
the task whose file is not yet released. A write that faulted sets `damaged`,
after which reads are not promised to be right (see the findings).

### NegDentCreate

One action per system call of a worker and per access to shared data:
`worker_call` makes the next call of the operation in `Calls(op)`, whose effect
on the directory is `Effect`; calls fail when the directory makes them fail
(open or unlink of a name that is not there) and, as `Failures` allows, for no
reason. `main_poll` reads one work at a time; `main_sleep` decides on the sums
of before the sleep. `pthread_cancel` sets a flag, on which a worker acts only
at a cancellation point: `openat` and `close` are, `fstatat` and `unlinkat` are
not. SIGINT is blocked until all threads exist, as in the code. `main_divide`
divides as unsigned numbers do: no threads kill the program, and a number of
threads below zero is a huge one, which leaves no names and starts nobody. A
`pthread_create` may fail, which main does not notice (`NotCreated`).

### AssocArrayGc, AssocArrayRepro

The labels of the C function are the values of `pc`. The new tree is a heap of
its own in which the copy of object x has the id x, so that folding, freeing
and excising are visible (`Freed`), and the `BUG_ON`s are the action `BUG_ON`.
The iterator's answers are free. Two histories, `kept` and `dropped`, record
them. Keys are left out: the collection looks at none. `enomem` is taken at any
allocation. `prog` says which of the two programs it is; they differ in the retry
alone, and in `repro.c` `RoomForAll` is never true.

`AssocArrayRepro` puts the program around the function. `construct_node` is the
script's recursion, its result a sequence of statements; one action runs one kind
of statement, on a heap that `calloc` extends (`mknode`, `set_data`, `set_node`,
`set_leaf`, `get_node`, `get_parent`). The array that was dumped is kept, to be
compared. `print_before` and `print_after` stand for the printing functions, which
stop with an assertion at a shortcut. Arrays with shortcuts cannot be dumped by
the script, so those are given to the function directly, as the kernel does. A
`calloc` that fails while the array is built is left out.

### EditBuildId

Runs of the program follow one another on one file, with arguments from `Args`
(-p, -n, both, neither; several new IDs). The searches through the two tables
are the same code twice and are modelled once, with `tbl` saying which. Note
positions are bytes, with the padding and the 16-bit parameters of `next_note`.
The uninitialised `rv` of a table without notes is a free choice of -1, 0 and 1.
When a size that was cut to 16 bits leads the walk into a description (`Astray`),
what the program takes for headers is data. It may come out at a real header or at
the end (`stray_on`), find bytes that look like a build ID note (`stray_misread`),
whose "ID" main then prints, or overwrites with -n; find one that looks too large
(`stray_oversize`), at which it stays for ever; or leave the buffer (`stray_crash`).
`FalseNotes` says where a false note fits: only inside a description whose contents
the model leaves out. Headers that lie partly in a description, and those made of
the bytes of a build ID or of memory behind the buffer, are not followed. `astray` is
a history variable. `IsElf` says which records stand for a file, and `Files` is assumed
to hold such records only: entries of type note refer to regions, a build ID of
admissible size has as many bytes as its size says, and its name, which the code
compares up to the NUL behind "GNU" whatever `n_namesz` says, fits the 16-bit
parameter of `note_desc`.

### Vmcore, EditVmcoreinfo

Bytes are records that remember where they come from, so that "the same bytes"
is equality. The table is kept beside the bytes, and `TableFound` says whether
it can still be found where the ELF header says. Numbers of the header and
addresses are two bytes in the file's order. `call_fails` and `killed` end
the program at any point and leave the file as it is; `tmp`, which has no name any
more, is gone when the program is, however it ended. The writes of the table and
of the note may be short; a write that tears an entry of the table is not told from
one that stops between two. `sendfile` may move any part, and refuses a count that
was computed below zero and has become a huge unsigned one (`save_refused`). `Accepted` has every check of
`read_elfdata`, that of `read` on the notes among them. `IsVmcore` says which
records stand for a file: sizes and offsets are unsigned, numbers of the header have
two bytes, the header says where the table is; both `Files` and `Dumps` are assumed
to hold such records only.

What is promised depends on the layout. `Conventional`: the table lies before the
notes, and each other segment lies on the side of the notes that its place in the
table has, behind their padding if it is behind. `NotesInSegment`: the last note,
padding aside, ends within the segment of the notes. Without the first the table
is shifted wrongly (finding 5); without the second the new note may lie outside its
segment, where no reader looks.

### Phys2virt

A run reads header and table, rewrites the addresses, and writes the table
through a buffer: any number of bytes reaches the file, also half an address
(`Torn`). If that is noticed in `fwrite` the program fails, if it happens in
`fclose` it reports success, and the model does not rely on which. `outcome`
remembers whether all bytes got out. The host's byte order is a constant, the
file's is not.

### FindVmcoreinfo

Two processes. `strings` writes any amount that fits the pipe, ends, or dies;
without a reader it is killed by SIGPIPE. The script's `read_wait` gathers a block
as `read(bs)` does, and `read`, `split`, `last` are the parts of `yield_blocks`;
after each piece `main` looks at it (`Yield`). A mark is a single byte, since one
that is cut by two reads is put together again before anybody looks for it; the
separator has several, all alike, as in the code. The constant `Byte` is what a
string may hold; the specification needs no more of it than that the separator's
character is in it.

### VmcoreRepair

The hunt, then any number of runs of `phys2virt` up to `MaxRuns`, then
`editvmcoreinfo` with what the hunt saved, all on the vmcore in `file`. Each may
fail and be followed by the next nonetheless. With `AloneInit` there is no hunt,
and `editvmcoreinfo` is run on the larger set of files of its own instance.

### Dumpphys

A vmcore is a function from frames to pages, a page being what its kind says:
present, readable, where markers begin in it, whether its last string runs on
into the next frame. `write` moves any part; only a failing `dump_page` write is
noticed. A string at a page start that runs on overruns the buffer
(`page_overrun`): the program crashes, or writes `Beyond` after the string, then
with -I the dashes as after any other. The output file may hold old units (`Old`),
which no O_TRUNC removes.

## Runs

| run | states | shows |
|---|---|---|
| `crashstash` | 93 k | exclusion, no `BUG_ON`, in every state sound and complete salvage at any crash, the writer at the end, clean unload, refinement of `StashFile`; every call returns and a closed file can be opened again, unless a task oopsed |
| `crashstash_read` | | finding 1 |
| `negdent` | 2.3 M | exit status 0 only when every name is done, no name half done, progress never ahead |
| `negdent_live` | 368 k | ends when done (with no threads, by SIGFPE) unless a thread that has work was not created, when interrupted, and after an error where cancellation can act |
| `negdent_error` | | finding 2 |
| `assoc_gc` | 581 k | the statements rebuild the array; every leaf kept exactly once, no leak, links and counts right, walks in step, compact; all assertions but one hold; the program ends |
| `assoc_gc_bug` | | finding 3 |
| `editbuildid` | 194 k | the first ID is found unless a variable was never assigned or a size was cut; only its bytes change unless the walk went astray, and not even those in a run that fails or prints; what is printed is what was written; runs end |
| `editbuildid_skip` | | finding 4 |
| `vmcore_repair` | 84 k | the hunt cuts the stream exactly and ends; a torn table is healed by the next run, of either byte order; the new note can be read, other segments keep their bytes in the usual layout, the tail is in the file or the temporary file as long as the editor runs and whatever ends it leaves a beginning of the new file, the editor ends; the repair as a whole keeps all memory at its addresses |
| `editvmcoreinfo_offsets` | | finding 5 |
| `dumpphys` | 1.06 M | what is written is exactly what is promised and what lies behind overrun pages, old units stay behind it, "could not find" true without -I and -f together, the search ends |

### Bounds, and why they are enough

* `crashstash`: two tasks (a third adds only another opener that is turned
  away); two byte values, to tell order and duplication; pages of two bytes and
  MAXSIZE 3, so that requests of up to three bytes start, end and cross inside,
  at and over a page boundary, and the limit falls inside a page; one faulting
  write between two emptyings, since each adds a page that `crashstash_free`
  alone removes. Symmetry is used only in `crashstash_read`, which has no
  liveness property. Only these bounds keep the model finite, there is no state
  constraint.
* `negdent`: -1, 0 and one to three threads and counts 0, 2 and 3, which gives
  equal shares, a remainder, more threads than names, and no names at all; the
  directory starts empty or with all names. `ULONG` is 5, above any count.
  `negdent_live` takes two threads or none, and one operation of either kind (with and
  without cancellation points), either of which may fail, as may `pthread_create`;
  counts of 1 and 2 leave each thread no name or one; its `ULONG` of 3 makes
  progress wrap in loops.
* `assoc_gc`: fan-out 3 instead of 16 and up to three levels, since a fold looks
  at one node, its child and the child's slots; four leaves below the middle node
  is one more than the fan-out, the least with which an array of this shape comes
  about, and collecting takes it through every number below. Shortcuts stand in
  front of the root, of the middle node, and in some arrays below it.
  The arrays without a shortcut are also dumped, rebuilt and collected by either
  program.
* `editbuildid`: sizes as in the code (512, 2^16, 12); IDs of one and two bytes;
  tables of up to three entries, with notes first, last, twice, and not at all; one
  file has a description 8 bytes longer than 2^16, so that the walk goes inside it,
  with room for a false note, before a build ID.
* `vmcore_repair`: alignment 2 and headers of 2 bytes; notes that grow, shrink and
  stay; four file layouts and three table orders, one padding outside the segment of
  the notes, one table behind the notes, one note without its last padding (which
  `sendfile` refuses to move). For the
  whole repair five vmcores: of either byte order, of another class, with other
  program headers, and one that is too short; two runs of `phys2virt`, since what a
  run finds is what the last one left; a separator of two bytes, blocks of three and
  a pipe of two, so that reads cut separators at every place and the writer has to
  wait; texts with bars inside and at the end of strings, and with two candidates.
* `dumpphys`: three frames of eight kinds each, pages of four units, markers of
  two, at the start, inside, twice, and across the end; an output file that is new or holds
  more old units than some output has new ones; three frames give two
  ranges, a range of each length, and one at either end.

`CHECK_DEADLOCK FALSE` is said where a program ends: negdentcreate,
assoc_array_gc, the programs of the repair, dumpphys; and for crashstash, where
nothing moves any more once a task has died with the mutex.

### Fairness

* crashstash: weak fairness for a task inside a handler (the kernel schedules
  it); strong fairness for `crashstash_release`, which waits for a mutex that is
  handed to its waiters in turn. No task has to call anything or close anything.
* negdentcreate: weak fairness for main, for each thread, and for the delivery
  of a pending unblocked signal. Nobody has to send one.
* the other programs: weak fairness of their own next step. In `EditBuildId`
  nobody has to start the program again; where a walk went astray the step may
  always be the one that stays at a note taken for too large, and `Returns` says so. In `VmcoreRepair` the script, `strings`
  (which writes when the pipe has room, and ends) and `editvmcoreinfo` each take
  their next step; no call has to fail, nobody has to die, and nobody has to
  start the next program.

## Findings

1. `crashstash_read`: a write that faults on the first chunk of a page leaves
   that page chained (`crashstash.c:131`-`137`) and uncounted, so that the next
   write chains another for the same offset and reads deliver the first page's
   contents. (`crashstash.py` notices: the page count is inconsistent.)
2. `negdent_error`: after an error main cancels and joins the other threads
   without setting `exiting`; a thread that loops over `fstatat` or `unlinkat`
   has no cancellation point and is joined for ever (`negdentcreate.c:333`-`349`).
3. `assoc_gc_bug`: the retry of the patch compares with `<`
   (`repro_fixed.c:357`). A node that keeps exactly as many leaves as it has slots
   is not compressed again, may be folded into its parent with a child still in
   it, and `BUG_ON` of line 341 fires, the one the patch is for.
4. `editbuildid_skip`: "skipping" an oversize build ID note continues the loop
   at the same note (`editbuildid.c:236`-`241`).
5. `editvmcoreinfo_offsets`: "all the other program headers" are those behind
   the notes in the table, wherever their data are (`editvmcoreinfo.c:272`).

Other behaviour that a user of these tools would not expect has no run of its own. The
models contain it, and the property that it would break names it as an exception or
promises less. (For `SalvageSound`, `Terminates` of negdentcreate, `FindsFirst`, `OnlyBuildIdEdited`
and `NoneMeansNone` this was tried: without the exception TLC finds the counterexample.)

* crashstash: after an unload, or a load that has stored nothing yet, a log record of
  an earlier load may be the newest, and `crashstash.py` returns what is now at
  its addresses. `SalvageSound` holds in every other state (`NoStashButRecord`), also
  of an unloaded module.
* negdentcreate: the result of `pthread_create` is ignored (`negdentcreate.c:309`). If
  it fails, main without -l waits for ever for work that nobody does, and prints its
  progress ten times a second (lines 315-329). `Terminates` excepts exactly that
  (`NotCreated`, and names to deal with).
* editbuildid: a table with entries but no notes ends in `return rv` of a variable never
  assigned (`editbuildid.c:286`, `319`, and `346`, `381`). If it is not 0, the section
  headers are not searched, although "we should support both" (lines 430-431); if it
  is positive, the program goes on as though it had found a build ID of no bytes. In
  `FindsFirst` this is `Unassigned`.
* editbuildid: sizes of 32 bits go through parameters of 16 (`editbuildid.c:110`), so
  that behind a note with a description of 2^16 bytes or more the walk goes on inside
  that description. It may pass the build ID by: `FindsFirst` is about files whose sizes fit
  (`Fits16`). It may read data as headers, and if they look like a build ID note, -n
  writes over bytes of the description (lines 226-253, 448): `OnlyBuildIdEdited`
  promises of a run that went `astray` only that it changes nothing if it fails or
  prints. What -p prints then is left out. And it may stay for ever at something it
  takes for a build ID too large, like an oversize note (finding 4); `Returns` excepts
  both.
* dumpphys: with -I and -f together it says that it found nothing even after
  printing notes (`dumpphys.c:205`-`210` leave `found_count` alone); `NoneMeansNone` excepts
  these options.
* dumpphys: what lies behind the page buffer is written after a string that runs on
  (`dumpphys.c:188`). The usage text does not promise it; `OutputExact` counts it in
  (`Excess`), and says that there is nothing else.
* dumpphys: the output file is not truncated (line 338), so a longer one keeps its old end
  behind the output, and nothing tells them apart; `OutputExact` says so of every run.
  Of a run in which a write of check_vmcoreinfo failed or any fell short it says nothing
  more, since nobody notices such a write. A search with -i that found its note exits
  with failure (line 387).
* editvmcoreinfo: when it is killed or fails between cutting the file and the last
  byte of the tail, that tail is lost with the temporary file; `TailSafe` says that
  what is left is a beginning of the new file. It takes a vmcore of the other byte
  order, which phys2virt mends, for unsupported.
* phys2virt rewrites every program header, not only the load segments its usage text
  names (`phys2virt.c:26`, `87`), and reports success when the table is torn at
  `fclose` (line 99).
* findvmcoreinfo: a string that `strings` had not finished when it died is saved if it
  holds the three marks.

## Proofs

| module | theorem | states |
|---|---|---|
| `CrashStashProofs` | `Invariance` | `IInv` |
| | `TypeCorrect` | `TypeOK`, with `size` at most `MAXSIZE` |
| | `Exclusive`, `NoBugFires`, `CleanUnload` | `ExclusiveOpen`, `NoBug`, `UnloadClean` |
| | `SalvageInvariance` | `SalvageInv` |
| | `SalvageIsSound`, `AlwaysRetrievable` | `SalvageSound`, `Retrievable` |
| | `WriterStaysAtEnd` | `WriterAtEnd` |
| | `Refinement` | `ImplementsStashFile` |
| `NegDentCreateProofs` | `Invariance`, `TypeCorrect` | `IInv`, `TypeOK` |
| | `ProgressIsHonest`, `ZeroMeansDone` | `ProgressHonest`, `SuccessMeansDone` |
| | `NoNameHalfDone` | `NoHalfDoneName` |
| `VmcoreRepairProofs` | `RepairInvariance` | `RepairInv` |
| | `TableHeals`, `TailIsSafe` | `RunsHealTable`, `TailSafe` |
| | `SegmentsSurvive` | `SegmentsKeepData` |
| | `NewNoteIsFound`, `RepairIsWhole` | `NewNoteReadable`, `Repaired` |
| `EditBuildIdProofs` | `Invariance` | `IInv` |
| | `Edits`, `Finds` | `OnlyBuildIdEdited`, `FindsFirst` |
| | `Prints` | `PrintShowsWritten` |
| `FindVmcoreinfoProofs` | `HuntInvariance` | `HuntInv` |
| | `BlocksAreExact` | `BlocksExact` |
| `DumpphysProofs` | `Invariance` | `IInv` |
| | `OutputIsExact`, `NoneIsNone` | `OutputExact`, `NoneMeansNone` |
| `AssocArrayGcProofs` | `WalkInvariance` | `WalkInv` |
| | `WalksKeepStep`, `CursorNeverLost` | `WalksInStep`, `~BugCursor` |
| | `TreeInvariance`, `NothingLostOrDangling` | `TreeInv`, `NothingLostNothingDangling` |
| | `LeafInvariance` | `Inv` |
| | `KeepsExactlyOnce`, `LinkedAndCounted` | `KeptExactlyOnce`, `LinksAndCounts` |
| | `PatchedIsCompact` | `Compact` |
| | `ShortcutNeverFits`, `FoldFindsRoom` | `~BugShortcut`, `~BugFull` |
| | `MetaFoldedOnlyWhenFull`, `BringsNoShortcut` | when `BugMeta` can be true; no new shortcuts |

Each is of the form `Spec => []P` (for the repair `RepairFairSpec => []P`, whose
fairness is not used), for every value of the constants that satisfies the named
assumption of its module. TLC evaluates these assumptions in every run:

* `StashAssumption`: the page size is not 0, junk is no byte, `NoTask` is no task;
* `NegDentAssumption`: counts and thread numbers fit an `unsigned long`, negative
  ones as the code's conversion has them; the operations are the six of the code;
* `EditVmcoreinfoAssumption`, `VmcoreRepairAssumption`: alignment and header size are
  not 0, lengths are numbers, the host has one of the two byte orders, the files are
  files (`IsVmcore`);
* `EditBuildIdAssumption`: the files are files (`IsElf`), new IDs are sequences of
  characters, the limits are numbers and 2^16 is not 0;
* `FindVmcoreinfoAssumption`: strings are sequences over `Byte`, of which the
  separator's character is one; separator and blocks are not empty, the pipe's
  capacity is a number;
* `DumpphysAssumption`: the page size is not 0, a marker is no longer than a page; the
  frames of a vmcore are numbered from 0 and markers begin inside pages; an old
  output file holds old units;
* `GcAssumption`: there is at least one slot, and an array that is not empty is one
  (`IsArray`): finitely many objects, each pointed to from where its back pointer and
  parent slot say, none below itself, and no leaf in two places. It says nothing of
  counts, of how full nodes are or of how deep the array is.

### crashstash

None of these properties is inductive. `IInv` adds what the code relies on without
saying so: the mutex is held by exactly the task that is inside a handler
(`LockInv`); `count` is 1 exactly when one file is open or awaits its release
(`HolderInv`); a task that frees pages does so while nothing is open, a task that
writes has the file open to write, one task unloads and finds `count` 0 when it
is done (`PositionInv`); a write in flight stands at the end of the stash, its
rest fits below MAXSIZE, it has a page to copy to, no offset is behind the end,
and bytes imply pages unless they are just being freed (`DataInv`). The proof goes
in layers: `TypeStep`, then `ControlStep` with the types known, then `DataStep`
with both, each with one step per action; `ChunkFits`, `MovePos`, `StoredType`
and `Empties` say what the helpers return.

What the pages hold is a matter of counting them (`SalvageInv`, inductive relative
to `IInv`). Until a write faults the list has exactly the pages `size` needs, one
more from `list_add_tail` until the chunk is counted. A fault leaves at least one
too many, and nothing but `crashstash_free` takes a page away. So there are never
too few, and *if there are as many as size needs then all bytes are in place*
(`BytesInv`): this, not the absence of faults, is what survives a step. The check
of `crashstash.py` is on the number of pages, which is why it is enough: within
`crashstash_free` a page already taken makes it fail. `RecordInv` says when the newest
record can be of an earlier load: only as long as this one has logged none, and then
nothing was stored (`NoStashButRecord`), nor is anything stored in a module that is not
loaded. `EndInv` puts each writer at the end. The page of
a byte is found by division (`SamePage`, `EarlierPage`, `RoundsUp`, `ChunkPages`).

The refinement shows that initial states map to initial states and each step
of `Next` maps to a step of `StashFile` or to a stutter (`StepMaps`, one step per
action). The mapping of the holder, a task whose file is not yet released, and of
its offset are made explicit in `ViewHeld` and `ViewFree`; what a reader is handed is
what was written since `BytesInv` holds as long as no write faulted.

### negdentcreate

`main` reads counters of running threads without a lock; that this is sound rests
on two facts. The ranges of the workers are disjoint, and a worker increments `cur`
only after the last call of a name, so the names done are, in each range, those
below `cur` (`DidInv`). And `cur` never goes back unless the program loops, so the
sum main has formed over the first `i` works, each read at another moment, is at most
the number of names done in the first `i` ranges (`ProgInv`). When the sum reaches
`count` all names are done, and stay so. `WorkInv` adds that a worker that failed
stands before its stop, whence a complete count implies no error; `MainInv`
says what main has seen at each point. For `NoHalfDoneName`, `FileInv` compares the
directory with the names done, except for those that a worker is `Busy` with, or
was when it failed or was cancelled. The ranges come from a division and a product
of variables, which the lemmas `Times`, `Division`, `Ranges` keep away from the rest.

### The repair of a vmcore

`HealInv` is about phys2virt: the file differs from the dump in virtual addresses
only, also after a write of the table that stopped at any byte, and the table a
run works on is that of the file. `EditInv` is about editvmcoreinfo: at each point
of the program it says which bytes are in the file, and which in the temporary
file; so as long as the program runs the tail is in one of the two (`BodyInv`). Whatever
ends it takes the temporary file away and leaves the old body or a beginning of the
new one under the new table (`Begun`), and when it ends well front, new note and rear in
order (`Done`). That the note lies in the file
(`HeadsInFile`) is needed before the first cut.

`SegmentsSurvive` follows byte by byte: what is behind the note moved by `sizediff`,
what is before it did not move, and in the usual layout no segment is on both
sides. `NewNoteIsFound` is about the *walk* over notes, `NoteHeads`, a recursive
function. A walk is put as a relation (`IsWalk` in `Induction`): every walk that
steps forward exists and has a least and a greatest stop. The new file has the same
headers up to the note, and moved ones behind it, so the walk over the new file is
the one over the old, moved behind the note (`WalkMoved`, `NotesMoved`). It follows
that no other VMCOREINFO comes after the new one, and that its description is
read whole (`DescriptionFound`). `RepairIsWhole` composes these with `HealInv` by
`GivenInv`: editvmcoreinfo was given what the hunt saved, and worked on the dump with
nothing but addresses changed.

Induction over numbers is needed for the walks, and the library states it for
predicates, which the provers here cannot instantiate. `Induction` proves it for
sets instead (`SetInduction`): a set that has 0 and with each number the next is
all of them, since otherwise adding 1 would map its finite part below a missing
number injectively to a smaller set. Each use names the set of numbers for which a
statement holds.

### editbuildid

A run searches the file from the beginning, another run searches it again after it was
changed, and any of their calls may fail. So the proof separates the search from the
runs. `Leads(f, s, u)` says that in file f the search goes from place s to place u,
and `OnPath(f, s)` that s is in every set of places that has the first one and is
closed under `Leads`; no induction is needed to use it. Each step of a run follows
`Leads` (`SearchInv`), unless its walk went astray before, and where a run stops is at the
end of the path, unless the path was left by a failing call, by the unassigned variable
(`NoEntries`) or by a walk astray, which may end at a build ID off the path or inside
a description (`Misread`; `ResultInv`). That a walk goes
astray only where a size is cut is `AstrayInv`: if all sizes fit, a place on the path
that is not the end of the notes is the beginning of one (`NeverInside`, `GoneAstray`).

What holds for the path is a matter of the file alone. There is one way from each
place (`OneWay`), none from a build ID (`WayEnds`), hence at most one build ID on the
path (`OneTarget`). In a file whose sizes fit 16 bits every place lies at the beginning
of a note, and no build ID was passed before it (`NonePassed`); so the one found is the
first (`FirstFound`), and a path that ends without one has seen all (`NoneFound`). The
bytes of descriptions do not matter for it: files of the same shape have the same path
(`SamePath`), a write keeps the shape (`WhatIsWritten`), and a later search therefore
comes to the place where the earlier one wrote (`AckedInv`); a run that went astray acknowledges
nothing, and what it may overwrite is inside one description (`WhatIsOverwritten`). The place of the bytes, a
number, is the place of one note only (`TheNoteHere`), since notes begin further
and further on (`StartsInOrder`).

For `PrintShowsWritten` the conversions are inverse to each other on bytes
(`PrintedReadsBack`) and, up to the case of digits, on strings (`ReadPrintsBack`).

### findvmcoreinfo

The pieces are promised for the stream *as far as strings has written it*, which
grows while the script cuts. So the invariant speaks of every continuation: for some
place c, what was handed out is how every beginning of the stream that has at least the
bytes sent is cut up to c (`Going`), and what the buffer, an unfinished read and the
pipe hold is the stream from c to what was sent (`Held`). While the script reads,
there is no separator in the buffer; when it gives up, all was sent that ever
will be, and none of the pieces looked like a vmcoreinfo (`Ended`, `NoneYet`).

That a piece cut off the buffer is the next piece of the whole, however much is to
come, is because separators of a part are separators of the whole (`SepsInPart`,
`CutInPart`, `CutOff`); that what is left at the end is the last piece is `CutRest`.
`Written` and `CutFrom` are recursive functions, over numbers upward and downward.
The library has their equations for definitions given as operators only; `Induction`
derives them from its `SetInduction` (`RecursionExists`, `DescentExists`). The theorem
is about findvmcoreinfo as a part of `VmcoreRepair`, with the other programs around it.

### dumpphys

`Done(n)` says what holds when n frames are dealt with: the output is what is promised
of the first n (`PromisedOf`), unless a write fell short; a search for the first marker
only has written nothing; if nothing was counted no readable page so far shows a
marker; and without `-p` every page so far could be read. The invariant is that
`Done` holds of the frame the walk is at (`At`: `offset` inside a range, `addr` between
two), and of all frames when the function returns 0. A range has no absent frames
(`Place`), and absent frames between ranges promise nothing (`NothingAdded`); the
rest is one lemma for each way a page function may end (`FrameWritten`, `InRange`,
`ReturnedError`, `ReturnedZero`). After an error only the weaker `Begun` holds.

### assoc_array_gc

The function walks down the old tree and up it again, and at the same time down and up
a new tree, in which it has meanwhile freed and rewired objects. That the two walks
meet again at every node is `WalksInStep`; the climb in the old tree is computed from
the old pointers, that in the new tree was stored when the node was left.

The array is any finite tree, so the proof first makes what is *above* an object a
set: `Anc(a, x)` is in every set that has x and with an object what its back pointer
leads to. No induction is needed to use it; that nothing is above itself (`AncOnce`)
and that what is above one object is in line (`AncChain`) follow from the assumption
that no objects are each below another of them. `After` is what the depth-first walk has still to do
on its way back from x, as slots of the nodes above it, and `Behind` what is below a slot.

`WalkInv` has four parts. `Place` says where the walk is at each label. `Opened`: the
copies of what is above the walk stand where the originals do, the slots that wait are
empty, and exactly what is behind them is not copied (`Absent`). `Links`: every pointer
of the new tree leads to an object that was further below in the old one, and whose
back pointer and parent slot are right. So an excision, which rewires the object
below a freed node, cannot reach anything that the walk still stands on; this is what
`ExcisedFrame` and `CopyFrame` say of a step, `EditFrame` of the steps that change one
node only. The climb past a shortcut of the new tree reads one more back pointer, of
an object that is open and hence is what it was in the old tree (`UpperShape`).

What the walk leaves behind is the subject of two more layers. `TreeInv` adds the shape
of the new tree (`ShapeInv`): what an object left hangs from is the nearest object left
above it in the old tree (`Nearest`; everything in between is `Freed`), and the pointer
to it is where its back pointer and parent slot say (`PointedTo`), except for the child
that is being folded in. That is enough at every step, also in the middle of an
excision's climb; it is why the whole of an excision is one action and one lemma
(`ShapeExcised`). At the end nothing is `Detached`, all that is left is below the new
root (`RootAbove`), and the objects reachable from one are those left below it
(`FromBelow`). `From` is a recursive function of the number of steps; `FromIs` shows that
it is the least set that has x and what its elements point to.

`Inv` adds the leaves and the counts. `Asked`: the iterator has answered for exactly the
leaves the walk has passed. `Housed`: each leaf kept is in one place, and that is in the
nearest node left above its old place (`Settled`); a fold frees a node after it has moved
its leaves to the next one up, so this survives without saying how far a leaf travels.
Of a child being folded in only the slots from `i` on count (`NewLeaf`). `Finished`: what
the walk has left for good (`Closed`) has a right count, the number of leaves kept at home
below it (`KeptUnder`), in the patched program no pointers to nodes if there is room, and
behind a shortcut more leaves than slots. `Counting`: the count under way is the number of
leaves in the slots and under the slots dealt with (`Counted`), what is still to be moved
of a child fits the free slots (`Movable`), and before `next_slot` no slot is free. `Kinds`
says that a copy is of the type it was copied from.

Counts are cardinalities of sets of leaves, and two sets have the same one when a
function maps one to the other, each element to one of its own (`SameSize`); no induction
over the tree is needed. `AllCounted` is the turn of the argument: at the end of the
compression the leaves counted are those kept under the node, since a leaf below it
is in one of its slots or below an object it points to (`WhereKept`).

The three theorems about the finished array follow from `Inv` (`Over`, `LeavesBelow`). So
do the assertions: a shortcut never fits, and a fold finds room. Of the fourth,
`BugMeta`, which the run `assoc_gc_bug` shows to fail, `MetaFoldedOnlyWhenFull` says how
far it can: in the patched program only for a child with exactly `FAN_OUT` leaves. That
nothing is assumed of the counts and of how full the nodes of the old array are means
that all this holds for arrays that insertions and deletions would not leave behind.

### Left to TLC

Liveness (fairness and ENABLED are out of the prover's reach): `Terminates` of all
programs, `CallsReturn`, `Reopenable`, `InterruptStops`, `ErrorStops`, `Returns`,
`HuntEnds`. And of `AssocArrayRepro`, which turns an array into statements and runs
them, `RebuildsArray`, for which one has to show what the recursive `construct_node` and
`Unfold` compute for every array. `OtherAssertionsHold` is about this module also: its
parts are proved for `assoc_array_gc` itself, called with any array (`ShortcutNeverFits`,
`FoldFindsRoom`, `CursorNeverLost`, and `BringsNoShortcut` for the assertion in main);
that the array that the statements build is one is again `RebuildsArray`.

## Plan

Modelled first was what several tasks share: crashstash, then negdentcreate,
then the collection and the tools that rewrite files in place, then the programs
around them and the repair as a whole. Proved, in this order: crashstash,
negdentcreate, the repair, editbuildid, findvmcoreinfo, dumpphys, then assoc_array_gc:
its walks, the tree they leave, the leaves and counts in it. What is left to prove is
that the constructor's statements build the array they were made from.

An abstract specification of negdentcreate (each name once) and of editvmcoreinfo
(replace a note), each with a refinement, would restate `SuccessMeansDone` and
`NewNoteReadable` with `SegmentsKeepData`, and come after these.

## Not modelled

* `drgn_vmalloc_test`: allocations in a row on load, one clean-up function, called
  once on failure or once on unload, both under the kernel's module lock. There is
  no second actor and no order to get wrong; a model would restate two loops.
* `get_vmcoreinfo.c`, `ctf/*`: one call of a library, or an iteration in it, whose
  result is printed. The behaviour is the library's.
* `openclose`: two system calls for ever. `ftrace_killer`: one call of a kernel
  function outside this repository.
* `vmcoreinfosize.py`: sums sizes of symbols. `tiny_fake_vmcore/mkvmcore`: calls an
  external program.
* In the modelled tools: the wording of messages, option parsing other than what is
  named above, the progress meter of dumpphys, ELF classes and byte orders in
  editbuildid.
