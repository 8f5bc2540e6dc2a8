------------------------------ MODULE CrashStash ------------------------------
(***************************************************************************)
(* The crashstash kernel module (crashstash/crashstash.c): a proc file     *)
(* that one task at a time may open, to write or to read, and whose bytes  *)
(* live in a list of kernel pages so that a vmcore holds them; and the     *)
(* drgn script that digs them out of the vmcore (crashstash.py).           *)
(*                                                                         *)
(* A handler that only touches state another task can see under            *)
(* crashstash_lock is one step, unless a crash in the middle of it would   *)
(* leave something for crashstash.py to find: crashstash_free and          *)
(* crashstash_write advance store by store.  A panic freezes memory, so    *)
(* "whenever the machine crashes" is "in every reachable state".           *)
(***************************************************************************)
EXTENDS Integers, Sequences, FiniteSets

CONSTANTS
  Task,        \* tasks that use /proc/crashstash or unload the module
  NoTask,      \* owner of a free mutex
  Byte,        \* values a user byte may have
  Junk,        \* what alloc_page leaves in a page: never initialised
  PAGE_SIZE,
  MAXSIZE,
  MaxAmt,      \* model bound: longest read or write a task asks for
  MaxFaults    \* model bound: faulting writes between two crashstash_free

ASSUME StashAssumption ==
  /\ NoTask \notin Task
  /\ Junk \notin Byte
  /\ PAGE_SIZE \in Nat \ {0}
  /\ MAXSIZE \in Nat
  /\ MaxAmt \in Nat
  /\ MaxFaults \in Nat

VARIABLES
  pde,         \* the proc entry: "absent", "present", or being removed
  lock,        \* crashstash_lock
  count,       \* open files
  crashstash,  \* the list of pages
  size,        \* bytes stored
  pages,       \* pages in the list
  file,        \* file[t]: the struct file of t (state, access mode, f_pos)
  pc,          \* pc[t]: where t is inside a handler; "user" outside
  call,        \* call[t]: locals of crashstash_write
  ret,         \* what the last call to return returned
  got,         \* bytes the last read by the present reader delivered
  entsize,     \* file size the proc entry shows (proc_set_size)
  logged,      \* has this load of the module passed the rate limit once?
  record,      \* the newest address record in the kernel log: "none", one of
               \* the module as it is loaded now, or one of an earlier load
  written,     \* history: the bytes size accounts for
  faults       \* history: writes that faulted since the last crashstash_free

vars == <<pde, lock, count, crashstash, size, pages, file, pc, call, ret, got,
          entsize, logged, record, written, faults>>

stashVars == <<crashstash, size, pages, written, faults>>

logVars == <<logged, record>>

Mode == {"O_RDONLY", "O_WRONLY", "O_RDWR", "O_ACCMODE"}
Cell == Byte \cup {Junk}
Page == [0 .. PAGE_SIZE - 1 -> Cell]
Errno == {"OK", "EBUSY", "EINVAL", "ENOSPC", "EFAULT"}

\* Positions inside crashstash_open, crashstash_exit and crashstash_write.
PC == {"user", "open_free", "open_pages", "exit_remove", "exit_free",
       "exit_pages", "write_page", "write_count", "write_copy",
       "write_advance", "write_fault", "oops"}

NoFile == [st |-> "none", mode |-> "O_RDONLY", pos |-> 0]
NoCall == [off |-> 0, data |-> << >>]
Buffers == UNION {[1 .. n -> Byte] : n \in 0 .. MaxAmt}

Init ==
  /\ pde = "absent"
  /\ lock = NoTask
  /\ count = 0
  /\ crashstash = << >>
  /\ size = 0
  /\ pages = 0
  /\ file = [t \in Task |-> NoFile]
  /\ pc = [t \in Task |-> "user"]
  /\ call = [t \in Task |-> NoCall]
  /\ ret = "OK"
  /\ got = << >>
  /\ entsize = 0
  /\ logged = FALSE
  /\ record = "none"
  /\ written = << >>
  /\ faults = 0

-----------------------------------------------------------------------------
(* What a task needs to enter a handler: the VFS calls nothing once the    *)
(* entry is being removed, and every handler starts with mutex_lock.       *)

Enter(t) == pde = "present" /\ pc[t] = "user" /\ lock = NoTask

GoTo(t, l) == pc' = [pc EXCEPT ![t] = l]

-----------------------------------------------------------------------------
(* Module load.  The static data of a fresh module are zero, and live      *)
(* somewhere else than those of the load before it.                        *)

crashstash_init ==
  /\ pde = "absent"
  /\ \A t \in Task : pc[t] = "user"
  /\ pde' = "present"
  /\ count' = 0
  /\ crashstash' = << >>
  /\ size' = 0
  /\ pages' = 0
  /\ entsize' = 0
  /\ written' = << >>
  /\ faults' = 0
  /\ logged' = FALSE
  /\ UNCHANGED <<lock, file, pc, call, ret, got, record>>

-----------------------------------------------------------------------------
(* crashstash_free, by the task that holds the lock: the pages go one by   *)
(* one, then size, and at last pages (which the callers' own steps reset). *)

\* Mutant: crashstash_free forgets "size = 0".
FreeStep_KeepSize(t, from, to) ==
  /\ pc[t] = from
  /\ \/ /\ crashstash # << >>
        /\ crashstash' = Tail(crashstash)
        /\ UNCHANGED <<written, faults, pc>>
     \/ /\ crashstash = << >>
        /\ written' = << >>
        /\ faults' = 0
        /\ GoTo(t, to)
        /\ UNCHANGED crashstash
  /\ UNCHANGED <<pde, lock, count, size, pages, file, call, ret, got, entsize, logVars>>

FreeStep(t, from, to) ==
  /\ pc[t] = from
  /\ \/ /\ crashstash # << >>
        /\ crashstash' = Tail(crashstash)
        /\ UNCHANGED <<size, written, faults, pc>>
     \/ /\ crashstash = << >>
        /\ size' = 0
        /\ written' = << >>
        /\ faults' = 0
        /\ GoTo(t, to)
        /\ UNCHANGED crashstash
  /\ UNCHANGED <<pde, lock, count, pages, file, call, ret, got, entsize, logVars>>

-----------------------------------------------------------------------------
(* crashstash_open.                                                        *)

\* A second opener, and a read-write one, are turned away.
crashstash_open_fail(t, m) ==
  /\ Enter(t)
  /\ file[t].st = "none"
  /\ count # 0 \/ m = "O_RDWR"
  /\ ret' = IF count # 0 THEN "EBUSY" ELSE "EINVAL"
  /\ UNCHANGED <<pde, lock, count, stashVars, file, pc, call, got, entsize, logVars>>

OpenFile(t, m) == file' = [file EXCEPT ![t] = [st |-> "open", mode |-> m, pos |-> 0]]

\* Mutant: readers are let in whatever count says.
crashstash_open_read_Shared(t, m) ==
  /\ Enter(t)
  /\ file[t].st = "none"
  /\ m \in {"O_RDONLY", "O_ACCMODE"}
  /\ count' = count + 1
  /\ OpenFile(t, m)
  /\ ret' = "OK"
  /\ got' = << >>
  /\ UNCHANGED <<pde, lock, stashVars, pc, call, entsize, logVars>>

\* Mutant: readers are not counted.
crashstash_open_read_Uncounted(t, m) ==
  /\ Enter(t)
  /\ file[t].st = "none"
  /\ count = 0
  /\ m \in {"O_RDONLY", "O_ACCMODE"}
  /\ OpenFile(t, m)
  /\ ret' = "OK"
  /\ got' = << >>
  /\ UNCHANGED <<pde, lock, count, stashVars, pc, call, entsize, logVars>>

\* Access mode 3 is neither O_RDWR nor O_WRONLY: it opens, like a reader,
\* a file that the VFS then lets nobody read or write.
crashstash_open_read(t, m) ==
  /\ Enter(t)
  /\ file[t].st = "none"
  /\ count = 0
  /\ m \in {"O_RDONLY", "O_ACCMODE"}
  /\ count' = count + 1
  /\ OpenFile(t, m)
  /\ ret' = "OK"
  /\ got' = << >>
  /\ UNCHANGED <<pde, lock, stashVars, pc, call, entsize, logVars>>

\* A writer keeps the lock and frees the old contents.
crashstash_open_write(t) ==
  /\ Enter(t)
  /\ file[t].st = "none"
  /\ count = 0
  /\ lock' = t
  /\ GoTo(t, "open_free")
  /\ UNCHANGED <<pde, count, stashVars, file, call, ret, got, entsize, logVars>>

\* pages = 0, the log record (which the rate limit may drop, but only when
\* this load already got one through), count++, unlock.
crashstash_open_finish(t) ==
  /\ pc[t] = "open_pages"
  /\ pages' = 0
  /\ record' \in {"current"} \cup (IF logged THEN {record} ELSE {})
  /\ logged' = TRUE
  /\ count' = count + 1
  /\ lock' = NoTask
  /\ OpenFile(t, "O_WRONLY")
  /\ GoTo(t, "user")
  /\ ret' = "OK"
  /\ UNCHANGED <<pde, crashstash, size, call, got, entsize, written, faults>>

-----------------------------------------------------------------------------
(* The last close() of a file, and crashstash_release some time later.     *)

close(t) ==
  /\ pc[t] = "user"
  /\ file[t].st = "open"
  /\ file' = [file EXCEPT ![t].st = "closed"]
  /\ UNCHANGED <<pde, lock, count, stashVars, pc, call, ret, got, entsize, logVars>>

\* Mutant: crashstash_release keeps the reference.
Drop_KeepCount(t) ==
  /\ lock = NoTask
  /\ file' = [file EXCEPT ![t] = NoFile]
  /\ got' = << >>
  /\ UNCHANGED <<pde, lock, count, stashVars, call, ret, entsize, logVars>>

Drop(t) ==
  /\ lock = NoTask
  /\ count' = count - 1
  /\ file' = [file EXCEPT ![t] = NoFile]
  /\ got' = << >>
  /\ UNCHANGED <<pde, lock, stashVars, call, ret, entsize, logVars>>

crashstash_release(t) ==
  /\ file[t].st = "closed"
  /\ pc[t] = "user"
  /\ Drop(t)
  /\ UNCHANGED pc

-----------------------------------------------------------------------------
(* crashstash_write.                                                       *)

Writer(t) == file[t].st = "open" /\ file[t].mode = "O_WRONLY"

crashstash_write_fail(t) ==
  /\ Enter(t)
  /\ Writer(t)
  /\ file[t].pos # size \/ size >= MAXSIZE
  /\ ret' = IF file[t].pos # size THEN "EINVAL" ELSE "ENOSPC"
  /\ UNCHANGED <<pde, lock, count, stashVars, file, pc, call, got, entsize, logVars>>

\* Mutant: a write is not cut at MAXSIZE.
Clamp_Uncut(data) == data

\* The bytes of a request that fit: a write is cut at MAXSIZE.
Clamp(data) ==
  IF size + Len(data) > MAXSIZE THEN SubSeq(data, 1, MAXSIZE - size) ELSE data

crashstash_write_begin(t, data) ==
  /\ Enter(t)
  /\ Writer(t)
  /\ file[t].pos = size
  /\ size < MAXSIZE
  /\ lock' = t
  /\ call' = [call EXCEPT ![t] = [off |-> file[t].pos, data |-> Clamp(data)]]
  /\ GoTo(t, "write_page")
  /\ UNCHANGED <<pde, count, stashVars, file, ret, got, entsize, logVars>>

pgoff(t) == call[t].off % PAGE_SIZE

\* Mutant: the room left in the page is one byte short.
chunk_amt_Short(t) ==
  IF Len(call[t].data) < PAGE_SIZE - 1 - pgoff(t)
  THEN Len(call[t].data) ELSE PAGE_SIZE - 1 - pgoff(t)

chunk_amt(t) ==
  IF Len(call[t].data) < PAGE_SIZE - pgoff(t)
  THEN Len(call[t].data) ELSE PAGE_SIZE - pgoff(t)

\* Continue the last page, or chain a new one (alloc_page, list_add_tail).
crashstash_write_page(t) ==
  /\ pc[t] = "write_page"
  /\ call[t].data # << >>
  /\ \/ /\ pgoff(t) # 0
        /\ GoTo(t, "write_copy")
        /\ UNCHANGED crashstash
     \/ /\ pgoff(t) = 0
        /\ crashstash' = Append(crashstash, [i \in 0 .. PAGE_SIZE - 1 |-> Junk])
        /\ GoTo(t, "write_count")
  /\ UNCHANGED <<pde, lock, count, size, pages, file, call, ret, got, entsize,
                 logVars, written, faults>>

\* alloc_page fails and nobody looks: list_add_tail follows a null pointer.  What it
\* has changed by then is the way back through the list, which crashstash.py does
\* not take.  The task is gone, and with it whoever would unlock.
crashstash_write_oops(t) ==
  /\ pc[t] = "write_page"
  /\ call[t].data # << >>
  /\ pgoff(t) = 0
  /\ GoTo(t, "oops")
  /\ UNCHANGED <<pde, lock, count, stashVars, file, call, ret, got, entsize, logVars>>

\* Mutant: the page is chained but not counted.
crashstash_write_count_Skip(t) ==
  /\ pc[t] = "write_count"
  /\ GoTo(t, "write_copy")
  /\ UNCHANGED <<pde, lock, count, stashVars, file, call, ret, got, entsize, logVars>>

crashstash_write_count(t) ==
  /\ pc[t] = "write_count"
  /\ pages' = pages + 1
  /\ GoTo(t, "write_copy")
  /\ UNCHANGED <<pde, lock, count, crashstash, size, file, call, ret, got,
                 entsize, logVars, written, faults>>

\* The last page after copy_from_user moved n of the chunk's bytes; what a
\* faulting copy leaves in the rest of the chunk is unspecified.
Copied(t, n) ==
  [i \in 0 .. PAGE_SIZE - 1 |->
     IF i \in pgoff(t) .. pgoff(t) + chunk_amt(t) - 1
     THEN IF i - pgoff(t) < n THEN call[t].data[i - pgoff(t) + 1] ELSE Junk
     ELSE crashstash[Len(crashstash)][i]]

\* Mutant: the result of copy_from_user is not looked at.
crashstash_write_copy_Unchecked(t) ==
  /\ pc[t] = "write_copy"
  /\ \E n \in 0 .. chunk_amt(t) :
       crashstash' = [crashstash EXCEPT ![Len(crashstash)] = Copied(t, n)]
  /\ GoTo(t, "write_advance")
  /\ UNCHANGED <<pde, lock, count, size, pages, file, call, ret, got, entsize,
                 logVars, written, faults>>

crashstash_write_copy(t) ==
  /\ pc[t] = "write_copy"
  /\ \/ /\ crashstash' = [crashstash EXCEPT ![Len(crashstash)] = Copied(t, chunk_amt(t))]
        /\ GoTo(t, "write_advance")
        /\ UNCHANGED faults
     \/ /\ faults < MaxFaults
        /\ \E n \in 0 .. chunk_amt(t) - 1 :
             crashstash' = [crashstash EXCEPT ![Len(crashstash)] = Copied(t, n)]
        /\ GoTo(t, "write_fault")
        /\ faults' = faults + 1
  /\ UNCHANGED <<pde, lock, count, size, pages, file, call, ret, got, entsize,
                 logVars, written>>

crashstash_write_advance(t) ==
  /\ pc[t] = "write_advance"
  /\ call' = [call EXCEPT ![t] =
                [off |-> @.off + chunk_amt(t),
                 data |-> SubSeq(@.data, chunk_amt(t) + 1, Len(@.data))]]
  /\ size' = size + chunk_amt(t)
  /\ written' = written \o SubSeq(call[t].data, 1, chunk_amt(t))
  /\ GoTo(t, "write_page")
  /\ UNCHANGED <<pde, lock, count, crashstash, pages, file, ret, got, entsize,
                 logVars, faults>>

\* proc_set_size, unlock and return.  The VFS stores the new offset in the
\* file only when the handler did not return an error.
crashstash_write_end(t) ==
  /\ \/ /\ pc[t] = "write_page"
        /\ call[t].data = << >>
        /\ file' = [file EXCEPT ![t].pos = call[t].off]
        /\ ret' = "OK"
     \/ /\ pc[t] = "write_fault"
        /\ ret' = "EFAULT"
        /\ UNCHANGED file
  /\ entsize' = size
  /\ lock' = NoTask
  /\ call' = [call EXCEPT ![t] = NoCall]
  /\ GoTo(t, "user")
  /\ UNCHANGED <<pde, count, stashVars, got, logVars>>

-----------------------------------------------------------------------------
(* crashstash_read.                                                        *)

\* Byte i of the stash, found by walking the page list; past its end the
\* walk arrives at the list head, which is no page.
Stored(i) ==
  IF i \div PAGE_SIZE < Len(crashstash)
  THEN crashstash[i \div PAGE_SIZE + 1][i % PAGE_SIZE] ELSE Junk

\* Mutant: a read is not cut at the end of the stash.
ReadAmt_Uncut(off, amt) == amt

\* The length a read is cut to.
ReadAmt(off, amt) == IF off + amt > size THEN size - off ELSE amt

\* copy_to_user may fault: -EFAULT, and the offset stays where it was.
crashstash_read(t, amt) ==
  /\ Enter(t)
  /\ file[t].st = "open"
  /\ file[t].mode = "O_RDONLY"
  /\ LET off == file[t].pos
         n   == ReadAmt(off, amt)
     IN \/ /\ got' = [i \in 1 .. n |-> Stored(off + i - 1)]
           /\ file' = [file EXCEPT ![t].pos = off + n]
           /\ ret' = "OK"
        \/ /\ n # 0
           /\ ret' = "EFAULT"
           /\ got' = << >>
           /\ UNCHANGED file
  /\ UNCHANGED <<pde, lock, count, stashVars, pc, call, entsize, logVars>>

-----------------------------------------------------------------------------
(* crashstash_exit: proc_remove waits for the calls in flight, lets no new *)
(* one in, and releases every file still open; then the pages are freed.   *)

crashstash_exit_begin(t) ==
  /\ pde = "present"
  /\ pc[t] = "user"
  /\ pde' = "removing"
  /\ GoTo(t, "exit_remove")
  /\ UNCHANGED <<lock, count, stashVars, file, call, ret, got, entsize, logVars>>

NoCallInFlight(t) == \A u \in Task \ {t} : pc[u] = "user"

proc_remove_release(t, u) ==
  /\ pc[t] = "exit_remove"
  /\ NoCallInFlight(t)
  /\ file[u].st # "none"
  /\ Drop(u)
  /\ UNCHANGED pc

\* Mutant: the pages are freed before the files are gone.
crashstash_exit_free_Early(t) ==
  /\ pc[t] = "exit_remove"
  /\ lock = NoTask
  /\ lock' = t
  /\ GoTo(t, "exit_free")
  /\ UNCHANGED <<pde, count, stashVars, file, call, ret, got, entsize, logVars>>

crashstash_exit_free(t) ==
  /\ pc[t] = "exit_remove"
  /\ NoCallInFlight(t)
  /\ \A u \in Task : file[u].st = "none"
  /\ lock = NoTask
  /\ lock' = t
  /\ GoTo(t, "exit_free")
  /\ UNCHANGED <<pde, count, stashVars, file, call, ret, got, entsize, logVars>>

crashstash_exit_finish(t) ==
  /\ pc[t] = "exit_pages"
  /\ pages' = 0
  /\ lock' = NoTask
  /\ pde' = "absent"
  /\ record' = IF record = "current" THEN "stale" ELSE record
  /\ GoTo(t, "user")
  /\ UNCHANGED <<count, crashstash, size, file, call, ret, got, entsize, logged,
                 written, faults>>

\* The log buffer is a ring: its records are overwritten, oldest first.
log_overwrite ==
  /\ record # "none"
  /\ record' = "none"
  /\ UNCHANGED <<pde, lock, count, stashVars, file, pc, call, ret, got, entsize,
                 logged>>

-----------------------------------------------------------------------------
(* get_crashstash, of crashstash.py, on a vmcore of the current state: it  *)
(* raises, or returns bytes.  A stale record leads it to memory that       *)
(* belongs to somebody else.                                               *)

Garbage == <<Junk>>

InconsistentMetadata ==
  \/ Len(crashstash) # pages
  \/ pages # (size + PAGE_SIZE - 1) \div PAGE_SIZE

GetCrashstashRaises ==
  record = "none" \/ (record = "current" /\ InconsistentMetadata)

GetCrashstash ==
  IF record = "stale" THEN Garbage ELSE [i \in 1 .. size |-> Stored(i - 1)]

-----------------------------------------------------------------------------

Next ==
  \/ crashstash_init
  \/ log_overwrite
  \/ \E t \in Task :
       \/ \E m \in Mode : crashstash_open_fail(t, m) \/ crashstash_open_read(t, m)
       \/ crashstash_open_write(t)
       \/ FreeStep(t, "open_free", "open_pages")
       \/ crashstash_open_finish(t)
       \/ close(t)
       \/ crashstash_release(t)
       \/ crashstash_write_fail(t)
       \/ \E data \in Buffers : crashstash_write_begin(t, data)
       \/ crashstash_write_page(t)
       \/ crashstash_write_oops(t)
       \/ crashstash_write_count(t)
       \/ crashstash_write_copy(t)
       \/ crashstash_write_advance(t)
       \/ crashstash_write_end(t)
       \/ \E amt \in 0 .. MaxAmt : crashstash_read(t, amt)
       \/ crashstash_exit_begin(t)
       \/ \E u \in Task : proc_remove_release(t, u)
       \/ crashstash_exit_free(t)
       \/ FreeStep(t, "exit_free", "exit_pages")
       \/ crashstash_exit_finish(t)

Spec == Init /\ [][Next]_vars

(* A task inside a handler runs on; a mutex is handed to its waiters in    *)
(* turn, so who waits for it again and again gets it.  Nothing obliges a   *)
(* task to call anything, or to close its file.                            *)
Running(t) ==
  \/ FreeStep(t, "open_free", "open_pages")
  \/ crashstash_open_finish(t)
  \/ crashstash_write_page(t)
  \/ crashstash_write_count(t)
  \/ crashstash_write_copy(t)
  \/ crashstash_write_advance(t)
  \/ crashstash_write_end(t)
  \/ \E u \in Task : proc_remove_release(t, u)
  \/ crashstash_exit_free(t)
  \/ FreeStep(t, "exit_free", "exit_pages")
  \/ crashstash_exit_finish(t)

Fairness ==
  \A t \in Task : WF_vars(Running(t)) /\ SF_vars(crashstash_release(t))

FairSpec == Spec /\ Fairness

-----------------------------------------------------------------------------
(* Properties.                                                             *)

\* The type of every variable; in particular the stash never outgrows MAXSIZE,
\* whatever writes are cut at the limit.
TypeOK ==
  /\ pde \in {"absent", "present", "removing"}
  /\ lock \in Task \cup {NoTask}
  /\ count \in Nat
  /\ crashstash \in Seq(Page)
  /\ size \in 0 .. MAXSIZE
  /\ pages \in Nat
  /\ file \in [Task -> [st : {"none", "open", "closed"}, mode : Mode, pos : Nat]]
  /\ pc \in [Task -> PC]
  /\ call \in [Task -> [off : Nat, data : Seq(Byte)]]
  /\ ret \in Errno
  /\ got \in Seq(Cell)
  /\ entsize \in 0 .. MAXSIZE
  /\ logged \in BOOLEAN
  /\ record \in {"none", "current", "stale"}
  /\ written \in Seq(Byte)
  /\ faults \in 0 .. MaxFaults

Holders == {t \in Task : file[t].st # "none"}

\* No two tasks ever have the file open at once, a closed file that awaits its
\* crashstash_release included, and count says whether one has: the EBUSY check
\* of crashstash_open is the only thing that keeps a reader's pages from being
\* freed under it.
ExclusiveOpen ==
  \/ count = 0 /\ Holders = {}
  \/ count = 1 /\ \E t \in Task : Holders = {t}

\* No BUG_ON can fire: crashstash_release always finds a reference to drop, a
\* write that continues a page always finds one, and crashstash_free always runs
\* under the lock.
NoBug ==
  \A t \in Task :
    /\ file[t].st # "none" => count > 0
    /\ pc[t] \in {"write_page", "write_copy"} /\ call[t].data # << >> /\ pgoff(t) # 0
         => crashstash # << >>
    /\ pc[t] \in {"open_free", "open_pages", "exit_free", "exit_pages"} => lock # NoTask

\* The record in the log is of a load that ended, and what is loaded now, if
\* anything, has stored nothing: there is no stash, but crashstash.py looks for one
\* in memory that is no longer the module's.
NoStashButRecord == record = "stale" /\ written = << >>

\* Whenever the machine crashes, the module loaded, half unloaded or gone,
\* crashstash.py either raises or returns exactly the bytes that size accounts for:
\* no crash inside a write or inside crashstash_free and no faulting write makes it
\* return anything else, nor does the record of an earlier load once the present
\* one has stored a byte.  NoStashButRecord is the one state in which it does.
SalvageSound == ~GetCrashstashRaises => GetCrashstash = written \/ NoStashButRecord

\* The kernel has followed the null pointer of a failed alloc_page.
Oopsed == \E t \in Task : pc[t] = "oops"

\* A crash while no handler runs loses nothing, and neither does the crash that
\* crashstash_write itself causes when there is no memory for a page: with the
\* record in the log and no write faulted, crashstash.py does not raise.
Retrievable ==
  pde = "present" /\ (lock = NoTask \/ Oopsed) /\ record = "current" /\ faults = 0
    => ~GetCrashstashRaises

\* Unless a write faulted, a writer always stands at the end of the stash, so
\* the "only at the end" check of crashstash_write never turns it away.
WriterAtEnd ==
  \A t \in Task : Writer(t) /\ lock = NoTask /\ faults = 0 => file[t].pos = size

\* An unloaded module leaves no page allocated, no file open and no count: the
\* order proc_remove, then crashstash_free, lets no writer chain a page that
\* nobody will free.
UnloadClean == pde = "absent" => crashstash = << >> /\ Holders = {} /\ count = 0

\* The module is a stash file as StashFile describes it: a byte string with one
\* holder, appended to by a writer, delivered in order and unchanged to a reader.
holder == IF Holders = {} THEN NoTask ELSE CHOOSE t \in Task : t \in Holders
access ==
  IF holder = NoTask THEN "nothing"
  ELSE CASE file[holder].mode = "O_RDONLY" -> "read"
         [] file[holder].mode = "O_WRONLY" -> "write"
         [] OTHER -> "nothing"
Abstract ==
  INSTANCE StashFile WITH
    pos <- IF access = "read" THEN file[holder].pos ELSE 0,
    content <- written, damaged <- faults > 0

ImplementsStashFile == Abstract!Spec

\* Every call returns unless the kernel has oopsed: no write loops without
\* progress, no task waits for the lock for ever, and unloading ends although files
\* may still be open.
CallsReturn == \A t \in Task : pc[t] # "user" ~> pc[t] = "user" \/ Oopsed

\* A file closed is released in the end, and the stash can be opened again.
Reopenable == \A t \in Task : file[t].st = "closed" ~> count = 0 \/ Oopsed

\* README.md:7 says "Contents written into it are stored in kernel memory, and
\* can be retrieved by a read": what a read delivers is part of what was written.
ReadReturnsWritten ==
  \E i \in 0 .. Len(written) - Len(got) : got = SubSeq(written, i + 1, i + Len(got))

=============================================================================
