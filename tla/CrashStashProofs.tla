--------------------------- MODULE CrashStashProofs ---------------------------
(***************************************************************************)
(* Proofs about CrashStash, for every set of tasks, page size, limit and   *)
(* bound: who holds the lock and the file; what the pages hold, also in a  *)
(* vmcore; that the module implements the file that StashFile describes.   *)
(***************************************************************************)
EXTENDS CrashStash, SequenceTheorems, TLAPS

\* Positions at which a task holds crashstash_lock, and those of one handler.
Locked == PC \ {"user", "exit_remove"}
Freeing == {"open_free", "open_pages", "exit_free", "exit_pages"}
Writing == {"write_page", "write_count", "write_copy", "write_advance", "write_fault", "oops"}
Exiting == {"exit_remove", "exit_free", "exit_pages"}

\* The type of the variables that the control flow depends on.
ControlType ==
  /\ pde \in {"absent", "present", "removing"}
  /\ lock \in Task \cup {NoTask}
  /\ count \in Nat
  /\ file \in [Task -> [st : {"none", "open", "closed"}, mode : Mode, pos : Nat]]
  /\ pc \in [Task -> PC]

\* The lock is held by exactly the task that is inside a handler.
LockInv == \A t \in Task : pc[t] \in Locked <=> lock = t

\* One holder at most, and count is 1 when there is one.
HolderInv ==
  /\ \A t, u \in Task : file[t].st # "none" /\ file[u].st # "none" => t = u
  /\ count = 0 <=> \A t \in Task : file[t].st = "none"
  /\ count \in {0, 1}

\* What a task's position in a handler says about the files and the entry.
PositionInv ==
  /\ \A t \in Task :
       /\ pc[t] \in Freeing => count = 0
       /\ pc[t] \in Writing => Writer(t)
       /\ pc[t] \in Exiting => pde = "removing"
       /\ pc[t] # "user" => pde # "absent"
  /\ \A t, u \in Task : pc[t] \in Exiting /\ pc[u] \in Exiting => t = u
  /\ pde = "absent" => count = 0

ControlInv == LockInv /\ HolderInv /\ PositionInv

\* A write stands at the end of the stash, fits below MAXSIZE and finds a page;
\* no offset lies behind the end; an unloaded module has no pages.
DataInv ==
  /\ \A t \in Task :
       /\ pc[t] \in Writing =>
            call[t].off = size /\ size + Len(call[t].data) <= MAXSIZE
       /\ pc[t] \in {"write_count", "write_copy", "write_advance"} =>
            crashstash # << >> /\ call[t].data # << >>
       /\ pc[t] \in {"open_pages", "exit_pages"} => crashstash = << >> /\ size = 0
       /\ file[t].st # "none" => file[t].pos <= size
  /\ size > 0 /\ (\A t \in Task : pc[t] \notin Freeing) => crashstash # << >>
  /\ pde = "absent" => crashstash = << >>

IInv == TypeOK /\ ControlInv /\ DataInv

-----------------------------------------------------------------------------
(* The helpers.                                                            *)

\* The empty sequence is an empty stash, request and delivery.
LEMMA Empties ==
  << >> \in Seq(Page) /\ << >> \in Seq(Byte) /\ << >> \in Seq(Cell)
  BY EmptySeq

\* The offset in the page is an offset in the page, and a write that has bytes
\* left moves at least one of them, no more than it has and no more than fit.
LEMMA ChunkFits ==
  ASSUME TypeOK, NEW t \in Task, call[t].data # << >>
  PROVE  /\ pgoff(t) \in 0 .. PAGE_SIZE - 1
         /\ chunk_amt(t) \in 1 .. Len(call[t].data)
         /\ chunk_amt(t) <= PAGE_SIZE - pgoff(t)
  <1>1. PAGE_SIZE \in Nat \ {0} /\ call[t].off \in Nat
    BY StashAssumption DEF StashAssumption, TypeOK
  <1>2. pgoff(t) \in 0 .. PAGE_SIZE - 1
    BY <1>1 DEF pgoff
  <1>3. Len(call[t].data) \in Nat \ {0}
    BY EmptySeq DEF TypeOK
  <1> QED
    BY <1>1, <1>2, <1>3 DEF chunk_amt

\* Moving a file offset changes nothing else of any file.
LEMMA MovePos ==
  ASSUME file \in [Task -> [st : {"none", "open", "closed"}, mode : Mode, pos : Nat]],
         NEW t \in Task, NEW p \in Nat, file' = [file EXCEPT ![t].pos = p]
  PROVE  \A u \in Task : /\ file'[u].st = file[u].st
                          /\ file'[u].mode = file[u].mode
                          /\ file'[u].pos = IF u = t THEN p ELSE file[u].pos
  OBVIOUS

\* A byte of the stash is a byte of one of its pages.
LEMMA StoredType ==
  ASSUME TypeOK, NEW i \in Nat
  PROVE  Stored(i) \in Cell
  <1>1. PAGE_SIZE \in Nat \ {0}
    BY StashAssumption DEF StashAssumption
  <1>2. i \div PAGE_SIZE \in Nat /\ i % PAGE_SIZE \in 0 .. PAGE_SIZE - 1
    BY <1>1
  <1>3. CASE i \div PAGE_SIZE < Len(crashstash)
    <2>1. crashstash[i \div PAGE_SIZE + 1] \in Page
      BY <1>2, <1>3, ElementOfSeq, LenProperties DEF TypeOK
    <2> QED
      BY <2>1, <1>2, <1>3 DEF Stored, Page
  <1>4. CASE ~(i \div PAGE_SIZE < Len(crashstash))
    BY <1>4 DEF Stored, Cell
  <1> QED
    BY <1>3, <1>4

-----------------------------------------------------------------------------

\* A machine that has not loaded the module satisfies the invariant.
LEMMA InitIInv == Init => IInv
  <1> SUFFICES ASSUME Init PROVE IInv
    OBVIOUS
  <1> USE StashAssumption DEF Init, NoFile, NoCall, Mode, PC, StashAssumption
  <1>1. TypeOK
    <2>1. call \in [Task -> [off : Nat, data : Seq(Byte)]]
      BY Empties
    <2>2. crashstash \in Seq(Page) /\ got \in Seq(Cell) /\ written \in Seq(Byte)
      BY Empties
    <2>3. file \in [Task -> [st : {"none", "open", "closed"}, mode : Mode, pos : Nat]]
      OBVIOUS
    <2>4. logged \in BOOLEAN /\ pc \in [Task -> PC]
      OBVIOUS
    <2> QED
      BY <2>1, <2>2, <2>3, <2>4 DEF TypeOK, Errno
  <1>2. ControlInv
    BY DEF ControlInv, LockInv, HolderInv, PositionInv, Locked, Freeing, Writing, Exiting
  <1>3. DataInv
    BY DEF DataInv, Writing
  <1> QED
    BY <1>1, <1>2, <1>3 DEF IInv

\* Every step keeps the types.
LEMMA TypeStep == IInv /\ [Next]_vars => TypeOK'
  <1> SUFFICES ASSUME IInv, [Next]_vars PROVE TypeOK'
    OBVIOUS
  <1>a. \A t \in Task : call[t].data # << >> =>
          pgoff(t) \in 0 .. PAGE_SIZE - 1 /\ chunk_amt(t) \in 1 .. Len(call[t].data)
    BY ChunkFits DEF IInv
  <1>b. \A i \in Nat : Stored(i) \in Cell
    BY StoredType DEF IInv
  <1>c. TypeOK /\ ControlInv /\ DataInv
    BY DEF IInv
  <1>d. PAGE_SIZE \in Nat \ {0} /\ MAXSIZE \in Nat /\ MaxFaults \in Nat
    BY StashAssumption DEF StashAssumption
  <1>e. pc \in [Task -> PC] /\ size \in 0 .. MAXSIZE /\ faults \in 0 .. MaxFaults
    BY <1>c DEF TypeOK
  <1>f. file \in [Task -> [st : {"none", "open", "closed"}, mode : Mode, pos : Nat]]
    BY <1>c DEF TypeOK
  <1>g. call \in [Task -> [off : Nat, data : Seq(Byte)]]
    BY <1>c DEF TypeOK
  <1>h. crashstash \in Seq(Page) /\ written \in Seq(Byte)
    BY <1>c DEF TypeOK
  <1> USE DEF Enter, GoTo, stashVars, logVars
  <1>1. CASE crashstash_init
    <2>1. crashstash' \in Seq(Page) /\ written' \in Seq(Byte)
      BY <1>1, Empties DEF crashstash_init
    <2>2. size' \in 0 .. MAXSIZE /\ entsize' \in 0 .. MAXSIZE /\ faults' \in 0 .. MaxFaults
      BY <1>d, <1>1 DEF crashstash_init
    <2>3. logged' \in BOOLEAN
      BY <1>1 DEF crashstash_init
    <2> QED
      BY <1>c, <1>1, <2>1, <2>2, <2>3 DEF crashstash_init, TypeOK
  <1>2. CASE log_overwrite
    BY <1>c, <1>2 DEF log_overwrite, TypeOK, PC, Mode, Errno
  <1>3. ASSUME NEW t \in Task, NEW m \in Mode, crashstash_open_fail(t, m) PROVE TypeOK'
    BY <1>c, <1>3 DEF crashstash_open_fail, TypeOK, PC, Mode, Errno
  <1>4. ASSUME NEW t \in Task, NEW m \in Mode, crashstash_open_read(t, m) PROVE TypeOK'
    <2>1. got' \in Seq(Cell)
      BY <1>4, Empties DEF crashstash_open_read
    <2> QED
      BY <1>c, <1>4, <2>1 DEF crashstash_open_read, OpenFile, TypeOK, Mode, Errno
  <1>5. ASSUME NEW t \in Task, crashstash_open_write(t) PROVE TypeOK'
    BY <1>c, <1>5 DEF crashstash_open_write, TypeOK, PC, Mode, Errno
  <1>6. ASSUME NEW t \in Task, FreeStep(t, "open_free", "open_pages") PROVE TypeOK'
    <2>1. crashstash # << >> => Tail(crashstash) \in Seq(Page)
      BY <1>h, HeadTailProperties
    <2>2. crashstash' \in Seq(Page) /\ written' \in Seq(Byte)
      BY <1>h, <1>6, <2>1, Empties DEF FreeStep
    <2>3. pc' \in [Task -> PC] /\ size' \in 0 .. MAXSIZE /\ faults' \in 0 .. MaxFaults
      BY <1>d, <1>e, <1>6 DEF FreeStep, PC
    <2> QED
      BY <1>c, <1>6, <2>2, <2>3 DEF FreeStep, TypeOK
  <1>7. ASSUME NEW t \in Task, crashstash_open_finish(t) PROVE TypeOK'
    BY <1>c, <1>7 DEF crashstash_open_finish, OpenFile, TypeOK, PC, Mode, Errno
  <1>8. ASSUME NEW t \in Task, close(t) PROVE TypeOK'
    BY ZenonT(30), <1>c, <1>8 DEF close, TypeOK, PC, Mode, Errno
  <1>9. ASSUME NEW t \in Task, crashstash_release(t) PROVE TypeOK'
    <2>1. got' \in Seq(Cell)
      BY <1>9, Empties DEF crashstash_release, Drop
    <2> QED
      BY <1>c, <1>9, <2>1 DEF crashstash_release, Drop, NoFile, ControlInv, HolderInv, TypeOK, Mode
  <1>10. ASSUME NEW t \in Task, crashstash_write_fail(t) PROVE TypeOK'
    BY <1>c, <1>10 DEF crashstash_write_fail, TypeOK, PC, Mode, Errno
  <1>11. ASSUME NEW t \in Task, NEW data \in Buffers, crashstash_write_begin(t, data)
         PROVE TypeOK'
    <2>1. data \in Seq(Byte)
      BY DEF Buffers
    <2>2. Clamp(data) \in Seq(Byte)
      BY <1>d, <1>e, <2>1, <1>11, SubSeqProperties, ElementOfSeq, LenProperties
      DEF Clamp, crashstash_write_begin
    <2>3. call' \in [Task -> [off : Nat, data : Seq(Byte)]]
      BY <1>f, <1>g, <2>2, <1>11 DEF crashstash_write_begin
    <2> QED
      BY <1>c, <2>3, <1>11 DEF crashstash_write_begin, TypeOK, PC
  <1>12. ASSUME NEW t \in Task, crashstash_write_page(t) PROVE TypeOK'
    <2>1. [i \in 0 .. PAGE_SIZE - 1 |-> Junk] \in Page
      BY DEF Page, Cell
    <2>2. Append(crashstash, [i \in 0 .. PAGE_SIZE - 1 |-> Junk]) \in Seq(Page)
      BY <1>h, <2>1, AppendProperties
    <2> QED
      BY <1>c, <2>2, <1>12 DEF crashstash_write_page, TypeOK, PC
  <1>24. ASSUME NEW t \in Task, crashstash_write_oops(t) PROVE TypeOK'
    BY <1>c, <1>24 DEF crashstash_write_oops, TypeOK, PC, Mode, Errno
  <1>13. ASSUME NEW t \in Task, crashstash_write_count(t) PROVE TypeOK'
    BY <1>c, <1>13 DEF crashstash_write_count, TypeOK, PC, Mode, Errno
  <1>14. ASSUME NEW t \in Task, crashstash_write_copy(t) PROVE TypeOK'
    <2>1. crashstash # << >> /\ call[t].data # << >>
      BY <1>c, <1>14 DEF crashstash_write_copy, DataInv
    <2>2. Len(crashstash) \in 1 .. Len(crashstash)
      BY <1>h, <2>1, EmptySeq
    <2>3. chunk_amt(t) \in 1 .. Len(call[t].data) /\ pgoff(t) \in 0 .. PAGE_SIZE - 1
      BY <2>1, <1>a
    <2>4. crashstash[Len(crashstash)] \in Page
      BY <1>h, <2>2, ElementOfSeq
    <2>5. Len(call[t].data) \in Nat /\ call[t].data \in [1 .. Len(call[t].data) -> Byte]
      BY <1>g, LenProperties
    <2>6. \A n \in 0 .. chunk_amt(t) : Copied(t, n) \in Page
      <3> SUFFICES ASSUME NEW n \in 0 .. chunk_amt(t), NEW i \in 0 .. PAGE_SIZE - 1,
                          i \in pgoff(t) .. pgoff(t) + chunk_amt(t) - 1, i - pgoff(t) < n
                   PROVE  call[t].data[i - pgoff(t) + 1] \in Byte
        BY <1>d, <2>3, <2>4 DEF Copied, Page, Cell
      <3>1. i - pgoff(t) + 1 \in 1 .. Len(call[t].data)
        BY <1>d, <2>3, <2>5
      <3> QED
        BY <3>1, <2>5
    <2>7. \A n \in 0 .. chunk_amt(t) :
            [crashstash EXCEPT ![Len(crashstash)] = Copied(t, n)] \in Seq(Page)
      BY <1>h, <2>2, <2>6, ExceptSeq
    <2>8. crashstash' \in Seq(Page)
      BY SMTT(30), <2>3, <2>5, <2>7, <1>14 DEF crashstash_write_copy
    <2>9. faults' \in 0 .. MaxFaults /\ pc' \in [Task -> PC]
      BY <1>d, <1>e, <1>14 DEF crashstash_write_copy, PC
    <2> QED
      BY <1>c, <2>8, <2>9, <1>14 DEF crashstash_write_copy, TypeOK
  <1>15. ASSUME NEW t \in Task, crashstash_write_advance(t) PROVE TypeOK'
    <2>1. pc[t] = "write_advance" /\ call[t].data \in Seq(Byte)
      BY <1>g, <1>15 DEF crashstash_write_advance
    <2>2. chunk_amt(t) \in 1 .. Len(call[t].data)
      BY <1>c, <2>1, <1>a DEF DataInv
    <2>3. /\ SubSeq(call[t].data, chunk_amt(t) + 1, Len(call[t].data)) \in Seq(Byte)
          /\ SubSeq(call[t].data, 1, chunk_amt(t)) \in Seq(Byte)
      BY <2>1, <2>2, SubSeqProperties, ElementOfSeq, LenProperties
    <2>4. written' \in Seq(Byte)
      BY <1>h, <2>3, <1>15, ConcatProperties DEF crashstash_write_advance
    <2>5. size + Len(call[t].data) <= MAXSIZE
      BY <1>c, <2>1 DEF DataInv, Writing
    <2>6. Len(call[t].data) \in Nat
      BY <2>1, LenProperties
    <2>7. size' \in 0 .. MAXSIZE
      BY <1>d, <1>e, <2>2, <2>5, <2>6, <1>15 DEF crashstash_write_advance
    <2>8. call' \in [Task -> [off : Nat, data : Seq(Byte)]]
      BY <1>g, <2>2, <2>3, <2>6, <1>15 DEF crashstash_write_advance
    <2> QED
      BY <1>c, <2>4, <2>7, <2>8, <1>15 DEF crashstash_write_advance, TypeOK, PC
  <1>16. ASSUME NEW t \in Task, crashstash_write_end(t) PROVE TypeOK'
    <2>1. call' \in [Task -> [off : Nat, data : Seq(Byte)]]
      BY <1>g, <1>16, Empties DEF crashstash_write_end, NoCall
    <2>2. file' \in [Task -> [st : {"none", "open", "closed"}, mode : Mode, pos : Nat]]
      BY <1>f, <1>g, <1>16 DEF crashstash_write_end
    <2> QED
      BY <1>c, <1>16, <2>1, <2>2 DEF crashstash_write_end, TypeOK, PC, Errno
  <1>17. ASSUME NEW t \in Task, NEW amt \in 0 .. MaxAmt, crashstash_read(t, amt)
         PROVE TypeOK'
    <2> DEFINE n == ReadAmt(file[t].pos, amt)
    <2>1. file[t].pos <= size
      BY <1>c, <1>17 DEF crashstash_read, DataInv
    <2>2. n \in Nat /\ file[t].pos + n \in Nat
      BY <1>e, <1>f, <2>1 DEF ReadAmt
    <2>3. \A i \in 1 .. n : Stored(file[t].pos + i - 1) \in Cell
      BY <1>f, <2>2, <1>b
    <2> DEFINE bytes == [i \in 1 .. n |-> Stored(file[t].pos + i - 1)]
    <2> HIDE DEF n
    <2>4. bytes \in Seq(Cell)
      BY <2>2, <2>3
    <2>5. \/ got' = bytes /\ file' = [file EXCEPT ![t].pos = file[t].pos + n]
          \/ got' = << >> /\ file' = file
      BY <1>17 DEF crashstash_read, n
    <2>6. got' \in Seq(Cell)
      BY <2>4, <2>5, Empties
    <2>7. file' \in [Task -> [st : {"none", "open", "closed"}, mode : Mode, pos : Nat]]
      BY <1>f, <2>2, <2>5
    <2>8. ret' \in Errno
      BY <1>17 DEF crashstash_read, Errno
    <2> QED
      BY <1>c, <2>6, <2>7, <2>8, <1>17 DEF crashstash_read, TypeOK
  <1>18. ASSUME NEW t \in Task, crashstash_exit_begin(t) PROVE TypeOK'
    BY <1>c, <1>18 DEF crashstash_exit_begin, TypeOK, PC, Mode, Errno
  <1>19. ASSUME NEW t \in Task, NEW u \in Task, proc_remove_release(t, u) PROVE TypeOK'
    <2>1. got' \in Seq(Cell)
      BY <1>19, Empties DEF proc_remove_release, Drop
    <2> QED
      BY SMTT(30), <1>c, <1>19, <2>1 DEF proc_remove_release, Drop, NoFile, ControlInv, HolderInv, TypeOK, Mode
  <1>20. ASSUME NEW t \in Task, crashstash_exit_free(t) PROVE TypeOK'
    BY <1>c, <1>20 DEF crashstash_exit_free, TypeOK, PC, Mode, Errno
  <1>21. ASSUME NEW t \in Task, FreeStep(t, "exit_free", "exit_pages") PROVE TypeOK'
    <2>1. crashstash # << >> => Tail(crashstash) \in Seq(Page)
      BY <1>h, HeadTailProperties
    <2>2. crashstash' \in Seq(Page) /\ written' \in Seq(Byte)
      BY <1>h, <1>21, <2>1, Empties DEF FreeStep
    <2>3. pc' \in [Task -> PC] /\ size' \in 0 .. MAXSIZE /\ faults' \in 0 .. MaxFaults
      BY <1>d, <1>e, <1>21 DEF FreeStep, PC
    <2> QED
      BY <1>c, <1>21, <2>2, <2>3 DEF FreeStep, TypeOK
  <1>22. ASSUME NEW t \in Task, crashstash_exit_finish(t) PROVE TypeOK'
    BY <1>c, <1>22 DEF crashstash_exit_finish, TypeOK, PC, Mode, Errno
  <1>23. CASE UNCHANGED vars
    BY <1>c, <1>23 DEF vars, TypeOK, PC, Mode, Errno
  <1> QED
    BY <1>1, <1>2, <1>3, <1>4, <1>5, <1>6, <1>7, <1>8, <1>9, <1>10, <1>11, <1>12,
       <1>13, <1>14, <1>15, <1>16, <1>17, <1>18, <1>19, <1>20, <1>21, <1>22, <1>23,
       <1>24 DEF Next

\* Every step keeps the control invariant.
LEMMA ControlStep == IInv /\ TypeOK' /\ [Next]_vars => ControlInv'
  <1> SUFFICES ASSUME ControlType, ControlInv, ControlType', [Next]_vars PROVE ControlInv'
    BY DEF IInv, TypeOK, ControlType
  <1> USE StashAssumption
      DEF ControlType, ControlInv, LockInv, HolderInv, PositionInv, Locked, Freeing,
          Writing, Exiting, PC, Mode, Enter, GoTo, stashVars, logVars, StashAssumption
  <1>1. CASE crashstash_init
    BY <1>1 DEF crashstash_init, Writer
  <1>2. CASE log_overwrite
    BY <1>2 DEF log_overwrite, Writer
  <1>3. ASSUME NEW t \in Task, NEW m \in Mode, crashstash_open_fail(t, m)
         PROVE ControlInv'
    BY <1>3 DEF crashstash_open_fail, Writer
  <1>4. ASSUME NEW t \in Task, NEW m \in Mode, crashstash_open_read(t, m)
         PROVE ControlInv'
    BY <1>4 DEF crashstash_open_read, OpenFile, Writer
  <1>5. ASSUME NEW t \in Task, crashstash_open_write(t) PROVE ControlInv'
    BY <1>5 DEF crashstash_open_write, Writer
  <1>6. ASSUME NEW t \in Task, FreeStep(t, "open_free", "open_pages") PROVE ControlInv'
    BY <1>6 DEF FreeStep, Writer
  <1>7. ASSUME NEW t \in Task, crashstash_open_finish(t) PROVE ControlInv'
    BY <1>7 DEF crashstash_open_finish, OpenFile, Writer
  <1>8. ASSUME NEW t \in Task, close(t) PROVE ControlInv'
    BY <1>8 DEF close, Writer
  <1>9. ASSUME NEW t \in Task, crashstash_release(t) PROVE ControlInv'
    BY <1>9 DEF crashstash_release, Drop, NoFile, Writer
  <1>10. ASSUME NEW t \in Task, crashstash_write_fail(t) PROVE ControlInv'
    BY <1>10 DEF crashstash_write_fail, Writer
  <1>11. ASSUME NEW t \in Task, NEW data \in Buffers, crashstash_write_begin(t, data)
         PROVE ControlInv'
    BY <1>11 DEF crashstash_write_begin, Writer
  <1>12. ASSUME NEW t \in Task, crashstash_write_page(t) PROVE ControlInv'
    BY <1>12 DEF crashstash_write_page, Writer
  <1>24. ASSUME NEW t \in Task, crashstash_write_oops(t) PROVE ControlInv'
    BY <1>24 DEF crashstash_write_oops, Writer
  <1>13. ASSUME NEW t \in Task, crashstash_write_count(t) PROVE ControlInv'
    BY <1>13 DEF crashstash_write_count, Writer
  <1>14. ASSUME NEW t \in Task, crashstash_write_copy(t) PROVE ControlInv'
    BY <1>14 DEF crashstash_write_copy, Writer
  <1>15. ASSUME NEW t \in Task, crashstash_write_advance(t) PROVE ControlInv'
    BY <1>15 DEF crashstash_write_advance, Writer
  <1>16. ASSUME NEW t \in Task, crashstash_write_end(t) PROVE ControlInv'
    <2>1. \A u \in Task : file'[u].st = file[u].st /\ file'[u].mode = file[u].mode
      BY <1>16 DEF crashstash_write_end
    <2> QED
      BY <1>16, <2>1 DEF crashstash_write_end, Writer
  <1>17. ASSUME NEW t \in Task, NEW amt \in 0 .. MaxAmt, crashstash_read(t, amt)
         PROVE ControlInv'
    <2>1. \A u \in Task : file'[u].st = file[u].st /\ file'[u].mode = file[u].mode
      BY <1>17 DEF crashstash_read
    <2> QED
      BY <1>17, <2>1 DEF crashstash_read, Writer
  <1>18. ASSUME NEW t \in Task, crashstash_exit_begin(t) PROVE ControlInv'
    BY <1>18 DEF crashstash_exit_begin, Writer
  <1>19. ASSUME NEW t \in Task, NEW u \in Task, proc_remove_release(t, u)
         PROVE ControlInv'
    BY <1>19 DEF proc_remove_release, Drop, NoFile, Writer
  <1>20. ASSUME NEW t \in Task, crashstash_exit_free(t) PROVE ControlInv'
    BY <1>20 DEF crashstash_exit_free, Writer
  <1>21. ASSUME NEW t \in Task, FreeStep(t, "exit_free", "exit_pages") PROVE ControlInv'
    BY <1>21 DEF FreeStep, Writer
  <1>22. ASSUME NEW t \in Task, crashstash_exit_finish(t) PROVE ControlInv'
    BY <1>22 DEF crashstash_exit_finish, Writer
  <1>23. CASE UNCHANGED vars
    BY <1>23 DEF vars, Writer
  <1> QED
    BY <1>1, <1>2, <1>3, <1>4, <1>5, <1>6, <1>7, <1>8, <1>9, <1>10, <1>11, <1>12,
       <1>13, <1>14, <1>15, <1>16, <1>17, <1>18, <1>19, <1>20, <1>21, <1>22, <1>23,
       <1>24 DEF Next

\* Every step keeps the data invariant.
LEMMA DataStep == IInv /\ TypeOK' /\ ControlInv' /\ [Next]_vars => DataInv'
  <1> SUFFICES ASSUME IInv, ControlInv', [Next]_vars PROVE DataInv'
    OBVIOUS
  <1>a. \A t \in Task : call[t].data # << >> =>
          pgoff(t) \in 0 .. PAGE_SIZE - 1 /\ chunk_amt(t) \in 1 .. Len(call[t].data)
    BY ChunkFits DEF IInv
  <1>b. TypeOK /\ ControlInv /\ DataInv
    BY DEF IInv
  <1>c. size \in Nat /\ MAXSIZE \in Nat
    BY <1>b, StashAssumption DEF StashAssumption, TypeOK
  <1>d. pc \in [Task -> PC]
    BY <1>b DEF TypeOK
  <1>e. file \in [Task -> [st : {"none", "open", "closed"}, mode : Mode, pos : Nat]]
    BY <1>b DEF TypeOK
  <1>f. call \in [Task -> [off : Nat, data : Seq(Byte)]]
    BY <1>b DEF TypeOK
  <1>g. LockInv /\ HolderInv /\ PositionInv
    BY <1>b DEF ControlInv
  <1> USE <1>c, <1>d, <1>e, <1>f, <1>g, StashAssumption
      DEF DataInv, LockInv, HolderInv, PositionInv, Locked, Freeing, Writing, Exiting, PC,
          Enter, GoTo, stashVars, logVars, StashAssumption
  <1>1. CASE crashstash_init
    BY <1>b, <1>1 DEF crashstash_init, Writer
  <1>2. CASE log_overwrite
    BY <1>b, <1>2 DEF log_overwrite, Writer
  <1>3. ASSUME NEW t \in Task, NEW m \in Mode, crashstash_open_fail(t, m)
         PROVE DataInv'
    BY <1>b, <1>3 DEF crashstash_open_fail, Writer
  <1>4. ASSUME NEW t \in Task, NEW m \in Mode, crashstash_open_read(t, m)
         PROVE DataInv'
    BY <1>b, <1>4 DEF crashstash_open_read, OpenFile, Writer
  <1>5. ASSUME NEW t \in Task, crashstash_open_write(t) PROVE DataInv'
    BY <1>b, <1>5 DEF crashstash_open_write, Writer
  <1>6. ASSUME NEW t \in Task, FreeStep(t, "open_free", "open_pages") PROVE DataInv'
    BY <1>b, <1>6 DEF FreeStep, Writer
  <1>7. ASSUME NEW t \in Task, crashstash_open_finish(t) PROVE DataInv'
    BY <1>b, <1>7 DEF crashstash_open_finish, OpenFile, Writer
  <1>8. ASSUME NEW t \in Task, close(t) PROVE DataInv'
    BY <1>b, <1>8 DEF close, Writer
  <1>9. ASSUME NEW t \in Task, crashstash_release(t) PROVE DataInv'
    BY <1>b, <1>9 DEF crashstash_release, Drop, NoFile, Writer
  <1>10. ASSUME NEW t \in Task, crashstash_write_fail(t) PROVE DataInv'
    BY <1>b, <1>10 DEF crashstash_write_fail, Writer
  <1>11. ASSUME NEW t \in Task, NEW data \in Buffers, crashstash_write_begin(t, data)
         PROVE DataInv'
    <2>1. data \in Seq(Byte) /\ Len(data) \in Nat
      BY LenProperties DEF Buffers
    <2>2. size + Len(Clamp(data)) <= MAXSIZE
      <3>1. CASE size + Len(data) > MAXSIZE
        <4>1. \A i \in 1 .. MAXSIZE - size : data[i] \in Byte
          BY <2>1, <3>1, ElementOfSeq
        <4>2. Len(SubSeq(data, 1, MAXSIZE - size)) = MAXSIZE - size
          BY <4>1, <1>11, SubSeqProperties DEF crashstash_write_begin
        <4> QED
          BY <3>1, <4>2 DEF Clamp
      <3>2. CASE ~(size + Len(data) > MAXSIZE)
        BY <2>1, <3>2 DEF Clamp
      <3> QED
        BY <3>1, <3>2
    <2>3. call'[t].off = size /\ call'[t].data = Clamp(data)
      BY <1>11 DEF crashstash_write_begin
    <2>4. \A u \in Task : u # t => pc[u] \notin Locked
      BY <1>11, <1>g DEF crashstash_write_begin
    <2> QED
      BY <1>b, <1>11, <2>2, <2>3, <2>4 DEF crashstash_write_begin, Writer
  <1>12. ASSUME NEW t \in Task, crashstash_write_page(t) PROVE DataInv'
    <2>1. \A u \in Task : u # t => pc[u] \notin Locked
      BY <1>12 DEF crashstash_write_page
    <2>2. pgoff(t) # 0 => size > 0
      BY <1>b, <1>12 DEF crashstash_write_page, pgoff
    <2>3. crashstash' # << >>
      <3>1. CASE pgoff(t) # 0
        BY <1>b, <1>12, <2>1, <2>2, <3>1 DEF crashstash_write_page
      <3>2. CASE pgoff(t) = 0
        <4>1. [i \in 0 .. PAGE_SIZE - 1 |-> Junk] \in Page
          BY DEF Page, Cell
        <4> QED
          BY <1>b, <1>12, <3>2, <4>1, AppendProperties DEF crashstash_write_page, TypeOK
      <3> QED
        BY <3>1, <3>2
    <2> QED
      BY SMTT(30), <1>b, <1>12, <2>1, <2>3 DEF crashstash_write_page, Writer
  <1>24. ASSUME NEW t \in Task, crashstash_write_oops(t) PROVE DataInv'
    BY <1>b, <1>24 DEF crashstash_write_oops, Writer
  <1>13. ASSUME NEW t \in Task, crashstash_write_count(t) PROVE DataInv'
    BY <1>b, <1>13 DEF crashstash_write_count, Writer
  <1>14. ASSUME NEW t \in Task, crashstash_write_copy(t) PROVE DataInv'
    BY <1>b, <1>14 DEF crashstash_write_copy, Writer
  <1>15. ASSUME NEW t \in Task, crashstash_write_advance(t) PROVE DataInv'
    <2>1. \A u \in Task : u # t => pc[u] \notin Locked
      BY <1>15 DEF crashstash_write_advance
    <2>2. chunk_amt(t) \in 1 .. Len(call[t].data) /\ Len(call[t].data) \in Nat
      BY <1>a, <1>b, <1>15, LenProperties DEF crashstash_write_advance
    <2>3. call'[t] = [off |-> call[t].off + chunk_amt(t),
                      data |-> SubSeq(call[t].data, chunk_amt(t) + 1, Len(call[t].data))]
      BY <1>15 DEF crashstash_write_advance
    <2>4. Len(call'[t].data) = Len(call[t].data) - chunk_amt(t)
      <3>1. \A i \in chunk_amt(t) + 1 .. Len(call[t].data) : call[t].data[i] \in Byte
        BY <2>2, ElementOfSeq
      <3> QED
        BY <2>2, <2>3, <3>1, SubSeqProperties
    <2>5. call'[t].off = size' /\ size' + Len(call'[t].data) <= MAXSIZE
      BY SMTT(30), <1>b, <1>15, <2>2, <2>3, <2>4 DEF crashstash_write_advance
    <2>6. crashstash' # << >> /\ size' >= size /\ size' \in Nat
      BY SMTT(30), <1>b, <1>15, <2>2 DEF crashstash_write_advance
    <2>7. \A u \in Task : file'[u].st # "none" => file'[u].pos <= size'
      BY <1>b, <1>15, <2>6 DEF crashstash_write_advance
    <2> QED
      BY <1>b, <1>15, <2>1, <2>5, <2>6, <2>7 DEF crashstash_write_advance
  <1>16. ASSUME NEW t \in Task, crashstash_write_end(t) PROVE DataInv'
    <2>1. \/ call[t].off \in Nat /\ call[t].off = size /\ file' = [file EXCEPT ![t].pos = call[t].off]
          \/ file' = file
      BY <1>b, <1>16 DEF crashstash_write_end
    <2>2. \A u \in Task : u # t => pc[u] \notin Locked
      BY <1>16 DEF crashstash_write_end
    <2>3. \A u \in Task : file'[u].st # "none" => file'[u].pos <= size
      <3>1. CASE file' = file
        BY <1>b, <3>1
      <3>2. CASE call[t].off \in Nat /\ call[t].off = size /\ file' = [file EXCEPT ![t].pos = call[t].off]
        <4>1. \A u \in Task : /\ file'[u].st = file[u].st
                              /\ file'[u].pos = IF u = t THEN call[t].off ELSE file[u].pos
          BY <3>2, MovePos
        <4> QED
          BY <1>b, <3>2, <4>1
      <3> QED
        BY <2>1, <3>1, <3>2
    <2>4. \A u \in Task : file'[u].st = file[u].st /\ file'[u].mode = file[u].mode
      <3>1. CASE file' = file
        BY <3>1
      <3>2. CASE call[t].off \in Nat /\ file' = [file EXCEPT ![t].pos = call[t].off]
        BY <3>2, MovePos
      <3> QED
        BY <2>1, <3>1, <3>2
    <2> QED
      BY <1>b, <1>16, <2>2, <2>3, <2>4 DEF crashstash_write_end, Writer
  <1>17. ASSUME NEW t \in Task, NEW amt \in 0 .. MaxAmt, crashstash_read(t, amt)
         PROVE DataInv'
    <2> DEFINE n == ReadAmt(file[t].pos, amt)
    <2>2. file[t].pos + n <= size /\ file[t].pos + n \in Nat
      BY <1>b, <1>17 DEF crashstash_read, ReadAmt
    <2>3. file' = [file EXCEPT ![t].pos = file[t].pos + n] \/ file' = file
      BY <1>17 DEF crashstash_read
    <2> HIDE DEF n
    <2>1. \A u \in Task : file'[u].st = file[u].st /\ file'[u].mode = file[u].mode
      <3>1. CASE file' = file
        BY <3>1
      <3>2. CASE file' = [file EXCEPT ![t].pos = file[t].pos + n]
        BY <2>2, <3>2, MovePos
      <3> QED
        BY <2>3, <3>1, <3>2
    <2>4. \A u \in Task : file'[u].st # "none" => file'[u].pos <= size
      <3>1. CASE file' = file
        BY <1>b, <3>1
      <3>2. CASE file' = [file EXCEPT ![t].pos = file[t].pos + n]
        <4>1. \A u \in Task : /\ file'[u].st = file[u].st
                              /\ file'[u].pos = IF u = t THEN file[t].pos + n ELSE file[u].pos
          BY <2>2, <3>2, MovePos
        <4> QED
          BY <1>b, <2>2, <4>1
      <3> QED
        BY <2>3, <3>1, <3>2
    <2> QED
      BY <1>b, <1>17, <2>1, <2>4 DEF crashstash_read, Writer
  <1>18. ASSUME NEW t \in Task, crashstash_exit_begin(t) PROVE DataInv'
    BY <1>b, <1>18 DEF crashstash_exit_begin, Writer
  <1>19. ASSUME NEW t \in Task, NEW u \in Task, proc_remove_release(t, u)
         PROVE DataInv'
    BY <1>b, <1>19 DEF proc_remove_release, Drop, NoFile, Writer
  <1>20. ASSUME NEW t \in Task, crashstash_exit_free(t) PROVE DataInv'
    BY <1>b, <1>20 DEF crashstash_exit_free, Writer
  <1>21. ASSUME NEW t \in Task, FreeStep(t, "exit_free", "exit_pages") PROVE DataInv'
    BY <1>b, <1>21 DEF FreeStep, Writer
  <1>22. ASSUME NEW t \in Task, crashstash_exit_finish(t) PROVE DataInv'
    BY <1>b, <1>22 DEF crashstash_exit_finish, Writer
  <1>23. CASE UNCHANGED vars
    BY <1>b, <1>23 DEF vars, Writer
  <1> QED
    BY <1>1, <1>2, <1>3, <1>4, <1>5, <1>6, <1>7, <1>8, <1>9, <1>10, <1>11, <1>12,
       <1>13, <1>14, <1>15, <1>16, <1>17, <1>18, <1>19, <1>20, <1>21, <1>22, <1>23,
       <1>24 DEF Next

-----------------------------------------------------------------------------
(* The theorems.                                                           *)

\* The inductive invariant: at every step of crashstash_open, crashstash_release,
\* crashstash_write, crashstash_read and crashstash_exit the lock is held by the
\* task inside a handler, count tells whether there is a holder, and a write in
\* flight stands at the end of the stash with room below MAXSIZE.
THEOREM Invariance == Spec => []IInv
  <1>1. IInv /\ [Next]_vars => IInv'
    BY TypeStep, ControlStep, DataStep DEF IInv
  <1> QED
    BY <1>1, InitIInv, PTL DEF Spec

\* The type invariant, with the MAXSIZE limit in it: crashstash_write cuts a
\* request so that the stash never outgrows the limit, on any page size.
THEOREM TypeCorrect == Spec => []TypeOK
  <1>1. IInv => TypeOK
    BY DEF IInv
  <1> QED
    BY <1>1, Invariance, PTL

\* Never two open files: crashstash_open turns every second opener away, for any
\* number of tasks, and count is the number of files that await a release.
THEOREM Exclusive == Spec => []ExclusiveOpen
  <1>1. IInv => ExclusiveOpen
    BY DEF IInv, ControlInv, HolderInv, ExclusiveOpen, Holders
  <1> QED
    BY <1>1, Invariance, PTL

\* None of the three BUG_ONs of crashstash.c can fire.
THEOREM NoBugFires == Spec => []NoBug
  <1>1. IInv => NoBug
    <2> SUFFICES ASSUME IInv, NEW t \in Task
                 PROVE  NoBug!(t)
      BY DEF NoBug
    <2>1. file[t].st # "none" => count > 0
      BY DEF IInv, ControlInv, HolderInv
    <2>2. pc[t] \in Freeing => lock # NoTask
      BY StashAssumption DEF IInv, ControlInv, LockInv, Freeing, Locked, PC, StashAssumption
    <2>3. ASSUME pc[t] \in {"write_page", "write_copy"}, pgoff(t) # 0
          PROVE  crashstash # << >>
      <3>1. call[t].off = size /\ size \in Nat
        BY <2>3 DEF IInv, DataInv, TypeOK, Writing
      <3>2. size > 0
        BY <2>3, <3>1, StashAssumption DEF pgoff, StashAssumption
      <3>3. \A u \in Task : pc[u] \notin Freeing
        BY <2>3 DEF IInv, ControlInv, LockInv, Locked, Freeing, PC
      <3> QED
        BY <3>2, <3>3 DEF IInv, DataInv
    <2> QED
      BY <2>1, <2>2, <2>3 DEF Freeing
  <1> QED
    BY <1>1, Invariance, PTL

\* An unloaded module has left nothing behind, however rmmod raced its users.
THEOREM CleanUnload == Spec => []UnloadClean
  <1>1. IInv => UnloadClean
    BY DEF IInv, ControlInv, HolderInv, PositionInv, DataInv, UnloadClean, Holders
  <1> QED
    BY <1>1, Invariance, PTL

-----------------------------------------------------------------------------
(***************************************************************************)
(* Proofs that the bytes of the stash survive: what crashstash.py digs out *)
(* of a vmcore taken in any state, and what a reader finds, is what the    *)
(* writes put in.  The argument counts pages.  A write that faults leaves  *)
(* a page too many, every page after it is then off by one, and the count  *)
(* that crashstash.py compares with size can never be right again until    *)
(* crashstash_free; so whenever the count is right, so is every byte.      *)
(***************************************************************************)

\* Where the task that holds crashstash_lock stands.
Where == IF lock = NoTask THEN "user" ELSE pc[lock]

\* The page for the next chunk is chained; it is only left to fill it.
Placed == {"write_count", "write_copy", "write_advance"}

\* Positions at which the list is as long as size tells.
Settled == {"user", "write_page", "oops"}

\* The pages that n bytes take, and those that the stash should have by now.
PagesFor(n) == (n + PAGE_SIZE - 1) \div PAGE_SIZE
Needed == IF Where \in Placed THEN size \div PAGE_SIZE + 1 ELSE PagesFor(size)

\* Every byte lies where readers and crashstash.py look for it.
BytesInPlace == \A i \in 0 .. size - 1 : Stored(i) = written[i + 1]

\* The chunk of the present write is in the last page.
ChunkInPlace ==
  \A j \in 0 .. chunk_amt(lock) - 1 :
    crashstash[Len(crashstash)][pgoff(lock) + j] = call[lock].data[j + 1]

\* No page is ever missing, one too many is the mark of a fault, and pages counts
\* them all except between list_add_tail and the increment; crashstash_free only
\* makes the list shorter than pages.
PageInv ==
  /\ Len(written) = size
  /\ Where \notin Freeing =>
       /\ Len(crashstash) >= Needed
       /\ faults = 0 => Len(crashstash) = Needed /\ Where # "write_fault"
       /\ Len(crashstash) = IF Where = "write_count" THEN pages + 1 ELSE pages
  /\ Where \in Freeing => Len(crashstash) <= pages

\* With no page too many, the bytes are in place, also during a crashstash_free
\* that has not yet taken a page.
BytesInv ==
  /\ Where \notin Freeing /\ Len(crashstash) = Needed => BytesInPlace
  /\ Where \in Freeing /\ Len(crashstash) = pages /\ pages = PagesFor(size) => BytesInPlace
  /\ Where = "write_advance" => ChunkInPlace

\* The record in the log is never that of an earlier load once this load has
\* written one, and it writes one before its first writer can store a byte; an
\* unloaded module stores nothing.
RecordInv ==
  /\ pde # "absent" /\ record = "stale" => ~logged
  /\ pde # "absent" /\ ~logged => size = 0 /\ \A t \in Task : ~Writer(t)
  /\ pde = "absent" => size = 0

\* A writer outside crashstash_write stands at the end of the stash, until a write
\* faults half-way.
EndInv ==
  \A t \in Task : Writer(t) /\ pc[t] \notin Writing /\ faults = 0 => file[t].pos = size

SalvageInv == PageInv /\ BytesInv /\ RecordInv /\ EndInv

-----------------------------------------------------------------------------
(* Division by the page size.                                              *)

\* Division with remainder.
LEMMA DivMod ==
  ASSUME NEW p \in Nat \ {0}, NEW n \in Nat
  PROVE  /\ n \div p \in Nat
         /\ n % p \in 0 .. p - 1
         /\ n = (n \div p) * p + (n % p)
  OBVIOUS

\* Quotient and remainder are unique.
LEMMA DivUnique ==
  ASSUME NEW p \in Nat \ {0}, NEW q \in Nat, NEW r \in 0 .. p - 1
  PROVE  (q * p + r) \div p = q /\ (q * p + r) % p = r
  <1> DEFINE n == q * p + r
             k == n \div p
  <1>1. q * p \in Nat /\ n \in Nat
    OBVIOUS
  <1>2. k \in Nat /\ n % p \in 0 .. p - 1 /\ n = k * p + (n % p)
    BY <1>1, DivMod
  <1> HIDE DEF k
  <1>3. k * p \in Nat
    BY <1>2
  <1>4. k < q + 1
    <2>1. k >= q + 1 => k * p >= q * p + p
      BY <1>2
    <2> QED
      BY <1>1, <1>2, <1>3, <2>1
  <1>5. q < k + 1
    <2>1. q >= k + 1 => q * p >= k * p + p
      BY <1>2
    <2> QED
      BY <1>1, <1>2, <1>3, <2>1
  <1>6. k = q
    BY <1>2, <1>4, <1>5
  <1>7. n % p = r
    BY <1>1, <1>2, <1>6
  <1> QED
    BY <1>6, <1>7 DEF k

\* The bytes after position n up to the end of its page lie in that page.
LEMMA SamePage ==
  ASSUME NEW p \in Nat \ {0}, NEW n \in Nat, NEW j \in Nat, (n % p) + j < p
  PROVE  (n + j) \div p = n \div p /\ (n + j) % p = (n % p) + j
  <1>1. n \div p \in Nat /\ n % p \in 0 .. p - 1 /\ n = (n \div p) * p + (n % p)
    BY DivMod
  <1> DEFINE q == n \div p
             r == (n % p) + j
  <1>2. q \in Nat /\ r \in 0 .. p - 1 /\ n + j = q * p + r
    BY <1>1
  <1> HIDE DEF q, r
  <1>3. (q * p + r) \div p = q /\ (q * p + r) % p = r
    BY <1>2, DivUnique
  <1> QED
    BY <1>2, <1>3 DEF q, r

\* A byte before position n lies in an earlier page, or earlier in the same one.
LEMMA EarlierPage ==
  ASSUME NEW p \in Nat \ {0}, NEW n \in Nat, NEW i \in 0 .. n - 1
  PROVE  /\ i \div p <= n \div p
         /\ i \div p = n \div p => i % p < n % p
  <1>1. n \div p \in Nat /\ n % p \in 0 .. p - 1 /\ n = (n \div p) * p + (n % p)
    BY DivMod
  <1>2. i \in Nat
    OBVIOUS
  <1>3. i \div p \in Nat /\ i % p \in 0 .. p - 1 /\ i = (i \div p) * p + (i % p)
    BY <1>2, DivMod
  <1> DEFINE a == i \div p
             b == n \div p
  <1>4. /\ a \in Nat /\ i % p \in 0 .. p - 1 /\ i = a * p + (i % p)
        /\ b \in Nat /\ n % p \in 0 .. p - 1 /\ n = b * p + (n % p)
        /\ a * p \in Nat /\ b * p \in Nat
    BY <1>1, <1>3
  <1> HIDE DEF a, b
  <1>5. a <= b
    <2>1. a >= b + 1 => a * p >= b * p + p
      BY <1>4
    <2> QED
      BY <1>4, <2>1
  <1>6. a = b => i % p < n % p
    BY <1>4
  <1> QED
    BY <1>5, <1>6 DEF a, b

\* PagesFor rounds up.
LEMMA RoundsUp ==
  ASSUME NEW n \in Nat
  PROVE  PagesFor(n) = IF n % PAGE_SIZE = 0 THEN n \div PAGE_SIZE ELSE (n \div PAGE_SIZE) + 1
  <1> DEFINE p == PAGE_SIZE
             q == n \div p
             r == n % p
  <1>1. p \in Nat \ {0}
    BY StashAssumption DEF StashAssumption
  <1>2. n \div p \in Nat /\ n % p \in 0 .. p - 1 /\ n = (n \div p) * p + (n % p)
    BY <1>1, DivMod
  <1>3. q \in Nat /\ r \in 0 .. p - 1 /\ n = q * p + r /\ q * p \in Nat
        /\ (q + 1) * p = q * p + p
    BY <1>1, <1>2
  <1>4. PagesFor(n) = (n + p - 1) \div p
    BY DEF PagesFor
  <1> HIDE DEF p, q, r
  <1>5. CASE r = 0
    <2>1. n + p - 1 = q * p + (p - 1)
      BY <1>1, <1>3, <1>5
    <2>2. (q * p + (p - 1)) \div p = q
      BY <1>1, <1>3, DivUnique
    <2> QED
      BY <1>4, <1>5, <2>1, <2>2 DEF p, q, r
  <1>6. CASE r # 0
    <2>1. n + p - 1 = (q + 1) * p + (r - 1)
      BY <1>1, <1>3
    <2>2. ((q + 1) * p + (r - 1)) \div p = q + 1
      BY <1>1, <1>3, <1>6, DivUnique
    <2> QED
      BY <1>4, <1>6, <2>1, <2>2 DEF p, q, r
  <1> QED
    BY <1>5, <1>6

\* A chunk that fits in the page of position n makes that page the last.
LEMMA ChunkPages ==
  ASSUME NEW n \in Nat, NEW k \in 1 .. PAGE_SIZE - (n % PAGE_SIZE)
  PROVE  PagesFor(n + k) = (n \div PAGE_SIZE) + 1
  <1> DEFINE p == PAGE_SIZE
             q == n \div p
             r == n % p
  <1>1. p \in Nat \ {0}
    BY StashAssumption DEF StashAssumption
  <1>2. n \div p \in Nat /\ n % p \in 0 .. p - 1 /\ n = (n \div p) * p + (n % p)
    BY <1>1, DivMod
  <1>3. q \in Nat /\ r \in 0 .. p - 1 /\ n = q * p + r /\ k \in 1 .. p - r
    BY <1>1, <1>2
  <1>4. PagesFor(n + k) = (n + k + p - 1) \div p
    BY DEF PagesFor
  <1> HIDE DEF p, q, r
  <1>5. q * p \in Nat /\ (q + 1) * p = q * p + p /\ q + 1 \in Nat
    BY <1>1, <1>3
  <1> DEFINE s == r + k - 1
  <1>6. n + k + p - 1 = (q + 1) * p + s /\ s \in 0 .. p - 1
    BY <1>1, <1>3, <1>5
  <1> HIDE DEF s
  <1>7. ((q + 1) * p + s) \div p = q + 1
    BY <1>1, <1>5, <1>6, DivUnique
  <1> QED
    BY <1>4, <1>6, <1>7 DEF p, q

-----------------------------------------------------------------------------
(* Where the holder of the lock stands, before and after a step.           *)

\* The task inside a handler is the one that Where speaks of.
LEMMA WhereHeld ==
  ASSUME ControlType, LockInv
  PROVE  /\ \A t \in Task : pc[t] \in Locked => Where = pc[t] /\ lock = t
         /\ lock = NoTask => Where = "user"
         /\ Where \in Locked \cup {"user"}
         /\ Where # "user" => lock \in Task /\ pc[lock] = Where
  <1>1. \A t \in Task : t # NoTask
    BY StashAssumption DEF StashAssumption
  <1>2. lock \in Task \cup {NoTask}
    BY DEF ControlType
  <1> QED
    BY <1>1, <1>2 DEF Where, LockInv

\* A step that touches neither the stash nor the position of the lock holder.
LEMMA OtherStep ==
  ASSUME PageInv, BytesInv, UNCHANGED <<stashVars, call, lock>>, Where' = Where
  PROVE  PageInv' /\ BytesInv'
  <1> USE DEF stashVars
  <1>1. Needed' = Needed
    BY DEF Needed, PagesFor
  <1>2. BytesInPlace' = BytesInPlace
    BY DEF BytesInPlace, Stored
  <1>3. ChunkInPlace' = ChunkInPlace
    BY DEF ChunkInPlace, chunk_amt, pgoff
  <1>4. PagesFor(size)' = PagesFor(size)
    BY DEF PagesFor
  <1>5. PageInv'
    BY <1>1 DEF PageInv
  <1>6. BytesInv'
    BY <1>1, <1>2, <1>3, <1>4 DEF BytesInv
  <1> QED
    BY <1>5, <1>6

\* A step that touches nothing of the stash and neither starts nor ends a change.
LEMMA SettledStep ==
  ASSUME PageInv, BytesInv, UNCHANGED stashVars,
         Where \in Settled \cup {"write_fault"}, Where' \in Settled
  PROVE  PageInv' /\ BytesInv'
  <1> USE DEF stashVars, Settled, Placed, Freeing
  <1>1. Needed' = Needed
    BY DEF Needed, PagesFor
  <1>2. BytesInPlace' = BytesInPlace
    BY DEF BytesInPlace, Stored
  <1>3. PageInv'
    BY <1>1 DEF PageInv
  <1>4. BytesInv'
    BY <1>1, <1>2 DEF BytesInv
  <1> QED
    BY <1>3, <1>4

-----------------------------------------------------------------------------
(* The steps that change the stash.                                        *)

\* The sizes are numbers, and a page has room for a byte.
LEMMA Sizes ==
  ASSUME TypeOK
  PROVE  /\ PAGE_SIZE \in Nat \ {0}
         /\ size \in Nat /\ pages \in Nat /\ faults \in Nat
         /\ Len(crashstash) \in Nat /\ Len(written) \in Nat
  BY StashAssumption, LenProperties DEF StashAssumption, TypeOK

\* An empty stash is in order.
LEMMA EmptyInOrder ==
  ASSUME crashstash = << >>, written = << >>, size = 0, pages = 0, Where = "user"
  PROVE  PageInv /\ BytesInv
  <1>1. PAGE_SIZE \in Nat \ {0}
    BY StashAssumption DEF StashAssumption
  <1>2. PagesFor(0) = 0
    <2>1. 0 % PAGE_SIZE = 0 /\ 0 \div PAGE_SIZE = 0
      BY <1>1
    <2> QED
      BY <2>1, RoundsUp
  <1>3. Needed = 0
    BY <1>2 DEF Needed, Placed
  <1>4. Len(crashstash) = 0 /\ Len(written) = 0
    BY EmptySeq
  <1> QED
    BY <1>3, <1>4 DEF PageInv, BytesInv, BytesInPlace, Freeing

\* A step to an empty stash: loading the module, and the end of crashstash_free.
LEMMA EmptyStep ==
  ASSUME crashstash' = << >>, Len(written') = 0, size' = 0, pages' = 0, Where' = "user"
  PROVE  PageInv' /\ BytesInv'
  <1>1. PAGE_SIZE \in Nat \ {0}
    BY StashAssumption DEF StashAssumption
  <1>2. PagesFor(0) = 0
    <2>1. 0 % PAGE_SIZE = 0 /\ 0 \div PAGE_SIZE = 0
      BY <1>1
    <2> QED
      BY <2>1, RoundsUp
  <1>3. Needed' = 0
    BY <1>2 DEF Needed, PagesFor, Placed
  <1>4. Len(crashstash') = 0
    BY EmptySeq
  <1> QED
    BY <1>3, <1>4 DEF PageInv, BytesInv, BytesInPlace, Freeing

\* A writer's open and the end of proc_remove come to crashstash_free.
LEMMA StartFree ==
  ASSUME TypeOK, PageInv, BytesInv, UNCHANGED stashVars,
         Where \in Settled, Where' \in {"open_free", "exit_free"}
  PROVE  PageInv' /\ BytesInv'
  <1> USE DEF stashVars, Settled, Placed, Freeing
  <1>1. Len(crashstash) = pages /\ Needed = PagesFor(size) /\ pages \in Nat
    BY Sizes DEF PageInv, Needed
  <1>2. BytesInPlace' = BytesInPlace
    BY DEF BytesInPlace, Stored
  <1>3. PagesFor(size)' = PagesFor(size)
    BY DEF PagesFor
  <1>4. PageInv'
    BY <1>1 DEF PageInv
  <1>5. BytesInv'
    BY <1>1, <1>2, <1>3 DEF BytesInv
  <1> QED
    BY <1>4, <1>5

\* crashstash_free: with a page gone the list is shorter than pages for good.
LEMMA FreeInOrder ==
  ASSUME TypeOK, PageInv, BytesInv, Where \in {"open_free", "exit_free"}, UNCHANGED pages,
         \/ /\ crashstash # << >>
            /\ crashstash' = Tail(crashstash)
            /\ UNCHANGED <<size, written>>
            /\ Where' = Where
         \/ /\ crashstash = << >>
            /\ size' = 0
            /\ written' = << >>
            /\ UNCHANGED crashstash
            /\ Where' \in {"open_pages", "exit_pages"}
  PROVE  PageInv' /\ BytesInv'
  <1> USE Sizes DEF Freeing
  <1>1. CASE crashstash # << >> /\ crashstash' = Tail(crashstash) /\ UNCHANGED <<size, written>> /\ Where' = Where
    <2>1. Len(crashstash') = Len(crashstash) - 1
      BY <1>1, HeadTailProperties DEF TypeOK
    <2>2. Len(crashstash') < pages /\ Len(crashstash) <= pages
      BY <2>1 DEF PageInv
    <2>3. PageInv'
      BY <1>1, <2>2 DEF PageInv
    <2> QED
      BY <1>1, <2>2, <2>3 DEF BytesInv
  <1>2. CASE crashstash' = << >> /\ size' = 0 /\ written' = << >> /\ Where' \in {"open_pages", "exit_pages"}
    <2>1. Len(crashstash') = 0 /\ Len(written') = 0
      BY <1>2, EmptySeq
    <2>2. PageInv'
      BY <1>2, <2>1 DEF PageInv
    <2>3. BytesInv'
      BY <1>2 DEF BytesInv, BytesInPlace
    <2> QED
      BY <2>2, <2>3
  <1> QED
    BY <1>1, <1>2

\* Continuing the last page, or chaining a new one when the stash ends with a page.
LEMMA PageInOrder ==
  ASSUME TypeOK, PageInv, BytesInv, Where = "write_page",
         UNCHANGED <<size, pages, written, faults>>,
         \/ size % PAGE_SIZE # 0 /\ crashstash' = crashstash /\ Where' = "write_copy"
         \/ /\ size % PAGE_SIZE = 0
            /\ crashstash' = Append(crashstash, [i \in 0 .. PAGE_SIZE - 1 |-> Junk])
            /\ Where' = "write_count"
  PROVE  PageInv' /\ BytesInv'
  <1> USE Sizes DEF Placed, Freeing
  <1>1. Needed = PagesFor(size) /\ Needed' = (size \div PAGE_SIZE) + 1
    BY DEF Needed
  <1>2. size \div PAGE_SIZE \in Nat
    BY DivMod
  <1>3. CASE size % PAGE_SIZE # 0 /\ crashstash' = crashstash /\ Where' = "write_copy"
    <2>1. Needed' = Needed
      BY <1>1, <1>3, RoundsUp
    <2>2. BytesInPlace' = BytesInPlace
      BY <1>3 DEF BytesInPlace, Stored
    <2>3. PageInv'
      BY <1>3, <2>1 DEF PageInv
    <2>4. BytesInv'
      BY <1>3, <2>1, <2>2 DEF BytesInv
    <2> QED
      BY <2>3, <2>4
  <1>4. CASE /\ size % PAGE_SIZE = 0
             /\ crashstash' = Append(crashstash, [i \in 0 .. PAGE_SIZE - 1 |-> Junk])
             /\ Where' = "write_count"
    <2>1. Needed' = Needed + 1 /\ Needed = size \div PAGE_SIZE
      BY <1>1, <1>2, <1>4, RoundsUp
    <2>2. [i \in 0 .. PAGE_SIZE - 1 |-> Junk] \in Page
      BY DEF Page, Cell
    <2>3. /\ Len(crashstash') = Len(crashstash) + 1
          /\ \A k \in 1 .. Len(crashstash) : crashstash'[k] = crashstash[k]
      BY <1>4, <2>2, AppendProperties DEF TypeOK
    <2>4. PageInv'
      BY <1>2, <1>4, <2>1, <2>3 DEF PageInv
    <2>5. ASSUME Len(crashstash) = Needed, NEW i \in 0 .. size - 1
          PROVE  Stored(i)' = Stored(i)
      <3>1. i \div PAGE_SIZE <= size \div PAGE_SIZE
            /\ (i \div PAGE_SIZE = size \div PAGE_SIZE => i % PAGE_SIZE < size % PAGE_SIZE)
        BY EarlierPage
      <3>2. i \in Nat
        OBVIOUS
      <3>3. i \div PAGE_SIZE \in Nat /\ i % PAGE_SIZE \in 0 .. PAGE_SIZE - 1
        BY <3>2, DivMod
      <3>4. i \div PAGE_SIZE < Len(crashstash)
        BY <1>2, <1>4, <2>1, <2>5, <3>1, <3>3
      <3> QED
        BY SMTT(30), <2>3, <3>3, <3>4 DEF Stored
    <2>6. BytesInv'
      BY <1>4, <2>1, <2>3, <2>5, <1>2 DEF BytesInv, BytesInPlace
    <2> QED
      BY <2>4, <2>6
  <1> QED
    BY <1>3, <1>4

\* The new page is counted.
LEMMA CountInOrder ==
  ASSUME TypeOK, PageInv, BytesInv, Where = "write_count", Where' = "write_copy",
         pages' = pages + 1, UNCHANGED <<crashstash, size, written, faults>>
  PROVE  PageInv' /\ BytesInv'
  <1> USE Sizes DEF Placed, Freeing
  <1>1. Needed' = Needed
    BY DEF Needed
  <1>2. BytesInPlace' = BytesInPlace
    BY DEF BytesInPlace, Stored
  <1>3. PageInv'
    BY <1>1 DEF PageInv
  <1>4. BytesInv'
    BY <1>1, <1>2 DEF BytesInv
  <1> QED
    BY <1>3, <1>4

\* Overwriting an element keeps the length and the other elements.
LEMMA Overwrite ==
  ASSUME NEW S, NEW s \in Seq(S), NEW k \in 1 .. Len(s), NEW e
  PROVE  /\ Len([s EXCEPT ![k] = e]) = Len(s)
         /\ \A i \in 1 .. Len(s) : [s EXCEPT ![k] = e][i] = IF i = k THEN e ELSE s[i]
  <1>1. s \in Seq(S \cup {e})
    BY SeqDef
  <1> QED
    BY <1>1, ExceptSeq

\* Appending the first k elements of d to s.
LEMMA AppendFirst ==
  ASSUME NEW S, NEW s \in Seq(S), NEW d \in Seq(S), NEW k \in 1 .. Len(d),
         NEW w, w = s \o SubSeq(d, 1, k)
  PROVE  /\ Len(w) = Len(s) + k
         /\ \A i \in 1 .. Len(s) : w[i] = s[i]
         /\ \A j \in 1 .. k : w[Len(s) + j] = d[j]
  <1> DEFINE c == SubSeq(d, 1, k)
  <1>1. Len(s) \in Nat /\ Len(d) \in Nat /\ k \in Nat /\ k <= Len(d)
    BY LenProperties
  <1>2. \A j \in 1 .. k : d[j] \in S
    BY <1>1, ElementOfSeq
  <1>3. c \in Seq(S) /\ Len(c) = k /\ \A j \in 1 .. k : c[j] = d[j]
    BY <1>1, <1>2, SubSeqProperties
  <1> HIDE DEF c
  <1>4. /\ Len(w) = Len(s) + k
        /\ \A i \in 1 .. Len(s) + k : w[i] = IF i <= Len(s) THEN s[i] ELSE c[i - Len(s)]
    BY <1>3, ConcatProperties DEF c
  <1>5. \A i \in 1 .. Len(s) : w[i] = s[i]
    BY <1>1, <1>4
  <1>6. \A j \in 1 .. k : w[Len(s) + j] = d[j]
    <2> SUFFICES ASSUME NEW j \in 1 .. k PROVE w[Len(s) + j] = d[j]
      OBVIOUS
    <2>1. Len(s) + j \in 1 .. Len(s) + k /\ ~(Len(s) + j <= Len(s)) /\ (Len(s) + j) - Len(s) = j
      BY <1>1
    <2> QED
      BY <1>3, <1>4, <2>1
  <1> QED
    BY <1>4, <1>5, <1>6

\* What a copy writes lies behind the bytes of the stash, in the last page.
LEMMA CopyKeepsBytes ==
  ASSUME TypeOK, NEW t \in Task, pgoff(t) = size % PAGE_SIZE,
         chunk_amt(t) \in Nat, NEW n \in Nat,
         Len(crashstash) = (size \div PAGE_SIZE) + 1,
         crashstash' = [crashstash EXCEPT ![Len(crashstash)] = Copied(t, n)],
         NEW i \in 0 .. size - 1
  PROVE  Stored(i)' = Stored(i)
  <1> USE Sizes
  <1>1. i \div PAGE_SIZE <= size \div PAGE_SIZE
        /\ (i \div PAGE_SIZE = size \div PAGE_SIZE => i % PAGE_SIZE < size % PAGE_SIZE)
    BY EarlierPage
  <1>2. i \in Nat
    OBVIOUS
  <1>3. i \div PAGE_SIZE \in Nat /\ i % PAGE_SIZE \in 0 .. PAGE_SIZE - 1
        /\ size \div PAGE_SIZE \in Nat /\ size % PAGE_SIZE \in 0 .. PAGE_SIZE - 1
    BY <1>2, DivMod
  <1> DEFINE k == i \div PAGE_SIZE
             o == i % PAGE_SIZE
             q == size \div PAGE_SIZE
             L == Len(crashstash)
  <1>0. /\ k \in Nat /\ o \in 0 .. PAGE_SIZE - 1 /\ q \in Nat
        /\ pgoff(t) \in 0 .. PAGE_SIZE - 1
        /\ k <= q /\ (k = q => o < pgoff(t)) /\ L = q + 1
    BY <1>1, <1>3
  <1> HIDE DEF k, o, q, L
  <1>4. /\ k \in Nat /\ o \in 0 .. PAGE_SIZE - 1 /\ L \in Nat /\ k < L
        /\ pgoff(t) \in Nat
        /\ k + 1 = L => o < pgoff(t)
    BY <1>0
  <1>5. k + 1 = L => o \notin pgoff(t) .. pgoff(t) + chunk_amt(t) - 1
    BY <1>4
  <1>6. L \in 1 .. L /\ k + 1 \in 1 .. L
    BY <1>4
  <1>7. /\ Len(crashstash') = L
        /\ crashstash'[k + 1] = IF k + 1 = L THEN Copied(t, n) ELSE crashstash[k + 1]
    <2>1. crashstash \in Seq(Page)
      BY DEF TypeOK
    <2>2. LET c == [crashstash EXCEPT ![L] = Copied(t, n)]
          IN  Len(c) = L /\ \A x \in 1 .. L : c[x] = IF x = L THEN Copied(t, n) ELSE crashstash[x]
      BY <2>1, <1>6, Overwrite DEF L
    <2> QED
      BY <2>2, <1>6 DEF L
  <1>8. k + 1 = L => Copied(t, n)[o] = crashstash[k + 1][o]
    BY <1>4, <1>5 DEF Copied, L
  <1>9. crashstash'[k + 1][o] = crashstash[k + 1][o]
    BY <1>7, <1>8
  <1>10. Stored(i) = crashstash[k + 1][o]
    BY <1>4 DEF Stored, k, o, L
  <1>11. Stored(i)' = crashstash'[k + 1][o]
    BY <1>4, <1>7 DEF Stored, k, o, L
  <1> QED
    BY <1>9, <1>10, <1>11

\* copy_from_user, whether it moves the whole chunk or faults.
LEMMA CopyInOrder ==
  ASSUME TypeOK, PageInv, BytesInv, Where = "write_copy", NEW t \in Task,
         lock = t, call[t].off = size, call[t].data # << >>,
         UNCHANGED <<size, pages, written, call, lock>>,
         \/ /\ crashstash' = [crashstash EXCEPT ![Len(crashstash)] = Copied(t, chunk_amt(t))]
            /\ Where' = "write_advance"
            /\ UNCHANGED faults
         \/ /\ \E n \in 0 .. chunk_amt(t) - 1 :
                 crashstash' = [crashstash EXCEPT ![Len(crashstash)] = Copied(t, n)]
            /\ Where' = "write_fault"
            /\ faults' = faults + 1
  PROVE  PageInv' /\ BytesInv'
  <1> USE Sizes DEF Placed, Freeing
  <1>1. /\ pgoff(t) = size % PAGE_SIZE /\ pgoff(t) \in 0 .. PAGE_SIZE - 1
        /\ chunk_amt(t) \in Nat /\ chunk_amt(t) <= PAGE_SIZE - pgoff(t)
    BY SMTT(30), ChunkFits, LenProperties DEF pgoff, TypeOK
  <1>2. size \div PAGE_SIZE \in Nat /\ Needed = (size \div PAGE_SIZE) + 1
    BY DivMod DEF Needed
  <1>3. PICK n \in 0 .. chunk_amt(t) :
          /\ crashstash' = [crashstash EXCEPT ![Len(crashstash)] = Copied(t, n)]
          /\ Where' = "write_advance" => n = chunk_amt(t)
    <2>1. CASE Where' = "write_fault"
      BY <1>1, <2>1
    <2>2. CASE Where' = "write_advance"
      <3>1. chunk_amt(t) \in 0 .. chunk_amt(t)
        BY <1>1
      <3> QED
        BY <2>2, <3>1
    <2> QED
      BY <2>1, <2>2
  <1>4. Len(crashstash') = Len(crashstash)
    <2>1. Len(crashstash) \in 1 .. Len(crashstash)
      BY <1>2 DEF PageInv
    <2> QED
      BY <1>3, <2>1, Overwrite DEF TypeOK
  <1>5. ASSUME Len(crashstash) = Needed, BytesInPlace
        PROVE  BytesInPlace'
    <2>1. n \in Nat /\ chunk_amt(t) \in Nat /\ pgoff(t) = size % PAGE_SIZE
      BY <1>1
    <2>2. \A i \in 0 .. size - 1 : Stored(i)' = Stored(i)
      BY <1>2, <1>3, <1>5, <2>1, CopyKeepsBytes
    <2> QED
      BY <1>5, <2>2 DEF BytesInPlace
  <1>6. PagesFor(size) \in {(size \div PAGE_SIZE) + 1, size \div PAGE_SIZE}
    BY RoundsUp
  <1>7. CASE Where' = "write_advance" /\ UNCHANGED faults
    <2>1. Needed' = Needed
      BY <1>7 DEF Needed
    <2>2. PageInv'
      BY <1>4, <1>7, <2>1 DEF PageInv
    <2>3. ChunkInPlace'
      <3>1. chunk_amt(lock)' = chunk_amt(t) /\ pgoff(lock)' = pgoff(t) /\ call'[lock'] = call[t]
        BY DEF chunk_amt, pgoff
      <3>2. Len(crashstash) \in 1 .. Len(crashstash)
        BY <1>2, <1>7 DEF PageInv
      <3>3. crashstash'[Len(crashstash)] = Copied(t, chunk_amt(t))
        BY <1>3, <1>7, <3>2, LenProperties DEF TypeOK
      <3>4. ASSUME NEW j \in 0 .. chunk_amt(t) - 1
            PROVE  Copied(t, chunk_amt(t))[pgoff(t) + j] = call[t].data[j + 1]
        <4>0. pgoff(t) \in Nat /\ chunk_amt(t) \in Nat /\ j \in 0 .. chunk_amt(t) - 1
              /\ chunk_amt(t) <= PAGE_SIZE - pgoff(t) /\ PAGE_SIZE \in Nat
          BY <1>1
        <4>1. pgoff(t) + j \in 0 .. PAGE_SIZE - 1
          BY <4>0
        <4>2. pgoff(t) + j \in pgoff(t) .. pgoff(t) + chunk_amt(t) - 1
              /\ (pgoff(t) + j) - pgoff(t) = j
          BY <4>0
        <4> QED
          BY <1>1, <4>1, <4>2 DEF Copied
      <3> QED
        BY <1>4, <3>1, <3>3, <3>4 DEF ChunkInPlace
    <2> QED
      BY <1>4, <1>5, <1>7, <2>1, <2>2, <2>3 DEF BytesInv
  <1>8. CASE Where' = "write_fault" /\ faults' = faults + 1
    <2>1. Needed' = PagesFor(size)
      BY <1>8 DEF Needed, PagesFor
    <2>2. PageInv'
      BY <1>2, <1>4, <1>6, <1>8, <2>1 DEF PageInv
    <2>3. Len(crashstash') = Needed' => Len(crashstash) = Needed
      BY <1>2, <1>4, <1>6, <2>1, <1>8 DEF PageInv
    <2> QED
      BY <1>5, <1>8, <2>2, <2>3 DEF BytesInv
  <1> QED
    BY <1>7, <1>8

\* The chunk becomes part of the stash.
LEMMA AdvanceInOrder ==
  ASSUME TypeOK, PageInv, BytesInv, Where = "write_advance", Where' = "write_page",
         NEW t \in Task, lock = t, call[t].off = size, call[t].data # << >>,
         size' = size + chunk_amt(t),
         Len(written') = size + chunk_amt(t),
         \A i \in 1 .. size : written'[i] = written[i],
         \A j \in 1 .. chunk_amt(t) : written'[size + j] = call[t].data[j],
         UNCHANGED <<crashstash, pages, faults>>
  PROVE  PageInv' /\ BytesInv'
  <1> USE Sizes DEF Placed, Freeing
  <1> DEFINE k == chunk_amt(t)
             data == call[t].data
  <1>1. /\ pgoff(t) = size % PAGE_SIZE /\ pgoff(t) \in 0 .. PAGE_SIZE - 1
        /\ data \in Seq(Byte) /\ Len(data) \in Nat
        /\ k \in 1 .. Len(data) /\ k <= PAGE_SIZE - pgoff(t)
    BY ChunkFits, LenProperties DEF pgoff, TypeOK
  <1>2. size \div PAGE_SIZE \in Nat /\ Needed = (size \div PAGE_SIZE) + 1
    BY DivMod DEF Needed
  <1>3. PagesFor(size + k) = (size \div PAGE_SIZE) + 1
    BY <1>1, ChunkPages
  <1>4. Needed' = Needed
    BY <1>2, <1>3 DEF Needed, PagesFor
  <1>5. /\ Len(written') = size + k
        /\ \A i \in 1 .. size : written'[i] = written[i]
        /\ \A j \in 1 .. k : written'[size + j] = data[j]
    OBVIOUS
  <1> HIDE DEF k, data
  <1>6. PageInv'
    BY <1>4, <1>5 DEF PageInv, k
  <1>7. ASSUME Len(crashstash) = Needed, NEW i \in 0 .. size' - 1
        PROVE  Stored(i)' = written'[i + 1]
    <2>1. Stored(i)' = Stored(i)
      BY DEF Stored
    <2>2. CASE i < size
      <3>1. i \in 0 .. size - 1 /\ i + 1 \in 1 .. size
        BY <2>2
      <3>2. Stored(i) = written[i + 1]
        BY <3>1, <1>7 DEF BytesInv, BytesInPlace
      <3> QED
        BY <1>5, <2>1, <3>1, <3>2
    <2>3. CASE i >= size
      <3>1. PICK j \in 0 .. k - 1 : i = size + j
        <4>1. i \in 0 .. size + k - 1
          BY <1>1 DEF k
        <4>2. i - size \in 0 .. k - 1 /\ i = size + (i - size)
          BY SMTT(30), <1>1, <2>3, <4>1
        <4> QED
          BY <4>2
      <3>2. j \in Nat /\ (size % PAGE_SIZE) + j < PAGE_SIZE /\ j + 1 \in 1 .. k
        BY SMTT(30), <1>1, <3>1
      <3>3. i \div PAGE_SIZE = size \div PAGE_SIZE /\ i % PAGE_SIZE = pgoff(t) + j
        <4>1. /\ (size + j) \div PAGE_SIZE = size \div PAGE_SIZE
              /\ (size + j) % PAGE_SIZE = (size % PAGE_SIZE) + j
          BY <3>2, SamePage
        <4> QED
          BY <1>1, <3>1, <4>1
      <3>4. Stored(i) = crashstash[Len(crashstash)][pgoff(t) + j]
        BY <1>2, <1>7, <3>3 DEF Stored
      <3>5. Stored(i) = data[j + 1]
        BY <3>4 DEF BytesInv, ChunkInPlace, k, data
      <3>6. written'[i + 1] = data[j + 1]
        <4>1. i + 1 = size + (j + 1)
          BY <3>1, <3>2
        <4> QED
          BY <1>5, <3>2, <4>1
      <3> QED
        BY <2>1, <3>5, <3>6
    <2> QED
      BY <2>2, <2>3
  <1> QED
    BY <1>4, <1>6, <1>7 DEF BytesInv, BytesInPlace

-----------------------------------------------------------------------------

\* Every step of every handler keeps the pages and the bytes in order.
LEMMA StashStep ==
  ASSUME IInv, PageInv, BytesInv, [Next]_vars
  PROVE  PageInv' /\ BytesInv'
  <1>a. TypeOK /\ ControlType /\ LockInv /\ HolderInv /\ PositionInv /\ DataInv
    BY DEF IInv, ControlInv, TypeOK, ControlType
  <1>b. /\ \A t \in Task : pc[t] \in Locked => Where = pc[t] /\ lock = t
        /\ lock = NoTask => Where = "user"
        /\ Where # "user" => lock \in Task /\ pc[lock] = Where
    BY <1>a, WhereHeld
  <1>c. \A t \in Task : t # NoTask
    BY StashAssumption DEF StashAssumption
  <1>d. pc \in [Task -> PC] /\ call \in [Task -> [off : Nat, data : Seq(Byte)]] /\ written \in Seq(Byte)
    BY <1>a DEF TypeOK
  <1> USE DEF Enter, GoTo, logVars, Locked, PC
  <1>1. CASE crashstash_init
    <2>1. lock = NoTask
      BY <1>a, <1>1 DEF crashstash_init, LockInv, ControlType
    <2>2. Where' = "user" /\ Len(written') = 0
      BY <1>1, <2>1, EmptySeq DEF crashstash_init, Where
    <2> QED
      BY <1>1, <2>2, EmptyStep DEF crashstash_init
  <1>2. CASE log_overwrite
    <2>1. Where' = Where
      BY <1>2 DEF log_overwrite, Where
    <2> QED
      BY <1>2, <2>1, OtherStep DEF log_overwrite
  <1>3. ASSUME NEW t \in Task, NEW m \in Mode, crashstash_open_fail(t, m) \/ crashstash_open_read(t, m)
        PROVE  PageInv' /\ BytesInv'
    <2>1. Where' = Where /\ UNCHANGED <<stashVars, call, lock>>
      BY <1>3 DEF crashstash_open_fail, crashstash_open_read, Where
    <2> QED
      BY <2>1, OtherStep
  <1>4. ASSUME NEW t \in Task, crashstash_open_write(t)
        PROVE  PageInv' /\ BytesInv'
    <2>1. Where = "user" /\ Where' = "open_free" /\ UNCHANGED stashVars
      BY <1>b, <1>c, <1>d, <1>4 DEF crashstash_open_write, Where
    <2> QED
      BY <1>a, <2>1, StartFree DEF Settled
  <1>5. ASSUME NEW t \in Task,
               FreeStep(t, "open_free", "open_pages") \/ FreeStep(t, "exit_free", "exit_pages")
        PROVE  PageInv' /\ BytesInv'
    <2>1. Where = pc[t] /\ lock = t /\ pc[t] \in {"open_free", "exit_free"} /\ UNCHANGED pages
      BY <1>b, <1>5 DEF FreeStep
    <2>2. Where' = pc'[t]
      BY <1>c, <2>1, <1>5 DEF FreeStep, Where
    <2>3. \/ /\ crashstash # << >> /\ crashstash' = Tail(crashstash)
             /\ UNCHANGED <<size, written>> /\ Where' = Where
          \/ /\ crashstash = << >> /\ size' = 0 /\ written' = << >> /\ UNCHANGED crashstash
             /\ Where' \in {"open_pages", "exit_pages"}
      BY <1>d, <1>5, <2>1, <2>2 DEF FreeStep
    <2> QED
      BY <1>a, <2>1, <2>3, FreeInOrder
  <1>6. ASSUME NEW t \in Task, crashstash_open_finish(t) \/ crashstash_exit_finish(t)
        PROVE  PageInv' /\ BytesInv'
    <2>1. pc[t] \in {"open_pages", "exit_pages"} /\ Where' = "user"
      BY <1>6 DEF crashstash_open_finish, crashstash_exit_finish, Where
    <2>2. crashstash = << >> /\ size = 0 /\ Len(written) = 0
      BY <1>a, <2>1 DEF DataInv, PageInv
    <2> QED
      BY <1>6, <2>1, <2>2, EmptyStep DEF crashstash_open_finish, crashstash_exit_finish
  <1>7. ASSUME NEW t \in Task, close(t) \/ crashstash_release(t)
        PROVE  PageInv' /\ BytesInv'
    <2>1. Where' = Where /\ UNCHANGED <<stashVars, call, lock>>
      BY <1>7 DEF close, crashstash_release, Drop, Where
    <2> QED
      BY <2>1, OtherStep
  <1>8. ASSUME NEW t \in Task,
               crashstash_write_fail(t) \/ \E data \in Buffers : crashstash_write_begin(t, data)
        PROVE  PageInv' /\ BytesInv'
    <2>1. Where = "user" /\ Where' \in {"user", "write_page"} /\ UNCHANGED stashVars
      BY <1>b, <1>c, <1>d, <1>8 DEF crashstash_write_fail, crashstash_write_begin, Where
    <2> QED
      BY <2>1, SettledStep DEF Settled
  <1>9. ASSUME NEW t \in Task, crashstash_write_page(t)
        PROVE  PageInv' /\ BytesInv'
    <2>1. Where = "write_page" /\ lock = t /\ call[t].off = size
      BY <1>a, <1>b, <1>9 DEF crashstash_write_page, DataInv, Writing
    <2>2. Where' = pc'[t]
      BY <1>c, <1>9, <2>1 DEF crashstash_write_page, Where
    <2>3. /\ UNCHANGED <<size, pages, written, faults>>
          /\ \/ size % PAGE_SIZE # 0 /\ crashstash' = crashstash /\ Where' = "write_copy"
             \/ /\ size % PAGE_SIZE = 0 /\ Where' = "write_count"
                /\ crashstash' = Append(crashstash, [i \in 0 .. PAGE_SIZE - 1 |-> Junk])
      BY <1>d, <1>9, <2>1, <2>2 DEF crashstash_write_page, pgoff
    <2> QED
      BY <1>a, <2>1, <2>3, PageInOrder
  <1>10. ASSUME NEW t \in Task, crashstash_write_oops(t)
         PROVE  PageInv' /\ BytesInv'
    <2>1. Where = "write_page" /\ Where' = "oops" /\ UNCHANGED stashVars
      BY <1>b, <1>c, <1>d, <1>10 DEF crashstash_write_oops, Where
    <2> QED
      BY <2>1, SettledStep DEF Settled
  <1>11. ASSUME NEW t \in Task, crashstash_write_count(t)
         PROVE  PageInv' /\ BytesInv'
    <2>1. Where = "write_count" /\ Where' = "write_copy"
      BY <1>b, <1>c, <1>d, <1>11 DEF crashstash_write_count, Where
    <2> QED
      BY <1>a, <1>11, <2>1, CountInOrder DEF crashstash_write_count
  <1>12. ASSUME NEW t \in Task, crashstash_write_copy(t)
         PROVE  PageInv' /\ BytesInv'
    <2>1. Where = "write_copy" /\ lock = t /\ call[t].off = size /\ call[t].data # << >>
      BY <1>a, <1>b, <1>12 DEF crashstash_write_copy, DataInv, Writing
    <2>2. Where' = pc'[t] /\ UNCHANGED <<size, pages, written, call, lock>>
      BY <1>c, <1>12, <2>1 DEF crashstash_write_copy, Where
    <2>3. \/ /\ crashstash' = [crashstash EXCEPT ![Len(crashstash)] = Copied(t, chunk_amt(t))]
             /\ Where' = "write_advance"
             /\ UNCHANGED faults
          \/ /\ \E n \in 0 .. chunk_amt(t) - 1 :
                  crashstash' = [crashstash EXCEPT ![Len(crashstash)] = Copied(t, n)]
             /\ Where' = "write_fault"
             /\ faults' = faults + 1
      BY <1>d, <1>12, <2>2 DEF crashstash_write_copy
    <2> QED
      BY <1>a, <2>1, <2>2, <2>3, CopyInOrder
  <1>13. ASSUME NEW t \in Task, crashstash_write_advance(t)
         PROVE  PageInv' /\ BytesInv'
    <2>1. Where = "write_advance" /\ lock = t /\ call[t].off = size /\ call[t].data # << >>
      BY <1>a, <1>b, <1>13 DEF crashstash_write_advance, DataInv, Writing
    <2>2. Where' = "write_page"
      BY <1>c, <1>d, <1>13, <2>1 DEF crashstash_write_advance, Where
    <2>3. chunk_amt(t) \in 1 .. Len(call[t].data) /\ call[t].data \in Seq(Byte)
      BY <1>a, <1>d, <2>1, ChunkFits
    <2>4. /\ size' = size + chunk_amt(t)
          /\ written' = written \o SubSeq(call[t].data, 1, chunk_amt(t))
          /\ UNCHANGED <<crashstash, pages, faults>>
      BY <1>13 DEF crashstash_write_advance
    <2>5. /\ Len(written') = Len(written) + chunk_amt(t)
          /\ \A i \in 1 .. Len(written) : written'[i] = written[i]
          /\ \A j \in 1 .. chunk_amt(t) : written'[Len(written) + j] = call[t].data[j]
      BY <1>d, <2>3, <2>4, AppendFirst
    <2>6. Len(written) = size
      BY DEF PageInv
    <2> QED
      BY <1>a, <2>1, <2>2, <2>4, <2>5, <2>6, AdvanceInOrder
  <1>14. ASSUME NEW t \in Task, crashstash_write_end(t)
         PROVE  PageInv' /\ BytesInv'
    <2>1. Where \in {"write_page", "write_fault"} /\ Where' = "user" /\ UNCHANGED stashVars
      BY <1>b, <1>14 DEF crashstash_write_end, Where
    <2> QED
      BY <2>1, SettledStep DEF Settled
  <1>15. ASSUME NEW t \in Task, NEW amt \in 0 .. MaxAmt, crashstash_read(t, amt)
         PROVE  PageInv' /\ BytesInv'
    <2>1. Where' = Where /\ UNCHANGED <<stashVars, call, lock>>
      BY <1>15 DEF crashstash_read, Where
    <2> QED
      BY <2>1, OtherStep
  <1>16. ASSUME NEW t \in Task, crashstash_exit_begin(t)
         PROVE  PageInv' /\ BytesInv'
    <2>1. Where' = Where
      BY <1>a, <1>d, <1>16 DEF crashstash_exit_begin, Where, LockInv
    <2> QED
      BY <1>16, <2>1, OtherStep DEF crashstash_exit_begin
  <1>17. ASSUME NEW t \in Task, NEW u \in Task, proc_remove_release(t, u)
         PROVE  PageInv' /\ BytesInv'
    <2>1. Where' = Where /\ UNCHANGED <<stashVars, call, lock>>
      BY <1>17 DEF proc_remove_release, Drop, Where
    <2> QED
      BY <2>1, OtherStep
  <1>18. ASSUME NEW t \in Task, crashstash_exit_free(t)
         PROVE  PageInv' /\ BytesInv'
    <2>1. Where = "user" /\ Where' = "exit_free" /\ UNCHANGED stashVars
      BY <1>b, <1>c, <1>d, <1>18 DEF crashstash_exit_free, Where
    <2> QED
      BY <1>a, <2>1, StartFree DEF Settled
  <1>19. CASE UNCHANGED vars
    <2>1. Where' = Where /\ UNCHANGED <<stashVars, call, lock>>
      BY <1>19 DEF vars, stashVars, Where
    <2> QED
      BY <2>1, OtherStep
  <1> QED
    BY <1>1, <1>2, <1>3, <1>4, <1>5, <1>6, <1>7, <1>8, <1>9, <1>10, <1>11, <1>12,
       <1>13, <1>14, <1>15, <1>16, <1>17, <1>18, <1>19 DEF Next

\* Every step keeps what the record in the log says.
LEMMA RecordStep ==
  ASSUME IInv, RecordInv, [Next]_vars
  PROVE  RecordInv'
  <1>a. HolderInv /\ PositionInv /\ \A t \in Task : pc[t] = "exit_pages" => size = 0
    BY DEF IInv, ControlInv, DataInv
  <1>b. pc \in [Task -> PC]
        /\ file \in [Task -> [st : {"none", "open", "closed"}, mode : Mode, pos : Nat]]
        /\ call \in [Task -> [off : Nat, data : Seq(Byte)]]
    BY DEF IInv, TypeOK
  <1> USE <1>a, <1>b
      DEF RecordInv, Writer, Enter, GoTo, stashVars, logVars, HolderInv, PositionInv,
          Freeing, Writing, Exiting
  <1>1. CASE crashstash_init
    BY <1>1 DEF crashstash_init
  <1>2. CASE log_overwrite
    BY <1>2 DEF log_overwrite
  <1>3. ASSUME NEW t \in Task, NEW m \in Mode, crashstash_open_fail(t, m) PROVE RecordInv'
    BY <1>3 DEF crashstash_open_fail
  <1>4. ASSUME NEW t \in Task, NEW m \in Mode, crashstash_open_read(t, m) PROVE RecordInv'
    BY <1>4 DEF crashstash_open_read, OpenFile
  <1>5. ASSUME NEW t \in Task, crashstash_open_write(t) PROVE RecordInv'
    BY <1>5 DEF crashstash_open_write
  <1>6. ASSUME NEW t \in Task, FreeStep(t, "open_free", "open_pages") PROVE RecordInv'
    BY <1>6 DEF FreeStep
  <1>7. ASSUME NEW t \in Task, crashstash_open_finish(t) PROVE RecordInv'
    BY <1>7 DEF crashstash_open_finish
  <1>8. ASSUME NEW t \in Task, close(t) PROVE RecordInv'
    BY <1>8 DEF close
  <1>9. ASSUME NEW t \in Task, crashstash_release(t) PROVE RecordInv'
    BY <1>9 DEF crashstash_release, Drop, NoFile
  <1>10. ASSUME NEW t \in Task, crashstash_write_fail(t) PROVE RecordInv'
    BY <1>10 DEF crashstash_write_fail
  <1>11. ASSUME NEW t \in Task, NEW data \in Buffers, crashstash_write_begin(t, data)
         PROVE  RecordInv'
    BY <1>11 DEF crashstash_write_begin
  <1>12. ASSUME NEW t \in Task, crashstash_write_page(t) PROVE RecordInv'
    BY <1>12 DEF crashstash_write_page
  <1>13. ASSUME NEW t \in Task, crashstash_write_oops(t) PROVE RecordInv'
    BY <1>13 DEF crashstash_write_oops
  <1>14. ASSUME NEW t \in Task, crashstash_write_count(t) PROVE RecordInv'
    BY <1>14 DEF crashstash_write_count
  <1>15. ASSUME NEW t \in Task, crashstash_write_copy(t) PROVE RecordInv'
    BY <1>15 DEF crashstash_write_copy
  <1>16. ASSUME NEW t \in Task, crashstash_write_advance(t) PROVE RecordInv'
    BY <1>16 DEF crashstash_write_advance
  <1>17. ASSUME NEW t \in Task, crashstash_write_end(t) PROVE RecordInv'
    <2>1. file' = file \/ file' = [file EXCEPT ![t].pos = call[t].off]
      BY <1>17 DEF crashstash_write_end
    <2>2. \A u \in Task : file'[u].st = file[u].st /\ file'[u].mode = file[u].mode
      <3>1. CASE file' = file
        BY <3>1
      <3>2. CASE file' = [file EXCEPT ![t].pos = call[t].off]
        BY <3>2, MovePos
      <3> QED
        BY <2>1, <3>1, <3>2
    <2> QED
      BY <1>17, <2>2 DEF crashstash_write_end
  <1>18. ASSUME NEW t \in Task, NEW amt \in 0 .. MaxAmt, crashstash_read(t, amt)
         PROVE  RecordInv'
    <2>1. \A u \in Task : file'[u].st = file[u].st /\ file'[u].mode = file[u].mode
      BY <1>18 DEF crashstash_read
    <2> QED
      BY <1>18, <2>1 DEF crashstash_read
  <1>19. ASSUME NEW t \in Task, crashstash_exit_begin(t) PROVE RecordInv'
    BY <1>19 DEF crashstash_exit_begin
  <1>20. ASSUME NEW t \in Task, NEW u \in Task, proc_remove_release(t, u) PROVE RecordInv'
    BY <1>20 DEF proc_remove_release, Drop, NoFile
  <1>21. ASSUME NEW t \in Task, crashstash_exit_free(t) PROVE RecordInv'
    BY <1>21 DEF crashstash_exit_free
  <1>22. ASSUME NEW t \in Task, FreeStep(t, "exit_free", "exit_pages") PROVE RecordInv'
    BY <1>22 DEF FreeStep
  <1>23. ASSUME NEW t \in Task, crashstash_exit_finish(t) PROVE RecordInv'
    BY <1>23 DEF crashstash_exit_finish
  <1>24. CASE UNCHANGED vars
    BY <1>24 DEF vars
  <1> QED
    BY <1>1, <1>2, <1>3, <1>4, <1>5, <1>6, <1>7, <1>8, <1>9, <1>10, <1>11, <1>12,
       <1>13, <1>14, <1>15, <1>16, <1>17, <1>18, <1>19, <1>20, <1>21, <1>22, <1>23,
       <1>24 DEF Next

\* Every step keeps a writer at the end.
LEMMA EndStep ==
  ASSUME IInv, PageInv, EndInv, [Next]_vars
  PROVE  EndInv'
  <1>a. HolderInv /\ PositionInv /\ LockInv /\ DataInv
    BY DEF IInv, ControlInv
  <1>b. /\ pc \in [Task -> PC]
        /\ file \in [Task -> [st : {"none", "open", "closed"}, mode : Mode, pos : Nat]]
        /\ call \in [Task -> [off : Nat, data : Seq(Byte)]]
        /\ faults \in Nat
    BY StashAssumption DEF IInv, TypeOK, StashAssumption
  <1> USE <1>a, <1>b
      DEF EndInv, Writer, Enter, GoTo, stashVars, logVars, HolderInv, PositionInv,
          LockInv, Locked, PC, Freeing, Writing, Exiting
  <1>1. CASE crashstash_init
    BY <1>1 DEF crashstash_init
  <1>2. CASE log_overwrite
    BY <1>2 DEF log_overwrite
  <1>3. ASSUME NEW t \in Task, NEW m \in Mode, crashstash_open_fail(t, m) PROVE EndInv'
    BY <1>3 DEF crashstash_open_fail
  <1>4. ASSUME NEW t \in Task, NEW m \in Mode, crashstash_open_read(t, m) PROVE EndInv'
    BY <1>4 DEF crashstash_open_read, OpenFile
  <1>5. ASSUME NEW t \in Task, crashstash_open_write(t) PROVE EndInv'
    BY <1>5 DEF crashstash_open_write
  <1>6. ASSUME NEW t \in Task, FreeStep(t, "open_free", "open_pages") PROVE EndInv'
    BY <1>6 DEF FreeStep
  <1>7. ASSUME NEW t \in Task, crashstash_open_finish(t) PROVE EndInv'
    BY <1>7 DEF crashstash_open_finish, OpenFile, DataInv
  <1>8. ASSUME NEW t \in Task, close(t) PROVE EndInv'
    BY <1>8 DEF close
  <1>9. ASSUME NEW t \in Task, crashstash_release(t) PROVE EndInv'
    BY <1>9 DEF crashstash_release, Drop, NoFile
  <1>10. ASSUME NEW t \in Task, crashstash_write_fail(t) PROVE EndInv'
    BY <1>10 DEF crashstash_write_fail
  <1>11. ASSUME NEW t \in Task, NEW data \in Buffers, crashstash_write_begin(t, data)
         PROVE  EndInv'
    BY <1>11 DEF crashstash_write_begin
  <1>12. ASSUME NEW t \in Task, crashstash_write_page(t) PROVE EndInv'
    BY <1>12 DEF crashstash_write_page
  <1>13. ASSUME NEW t \in Task, crashstash_write_oops(t) PROVE EndInv'
    BY <1>13 DEF crashstash_write_oops
  <1>14. ASSUME NEW t \in Task, crashstash_write_count(t) PROVE EndInv'
    BY <1>14 DEF crashstash_write_count
  <1>15. ASSUME NEW t \in Task, crashstash_write_copy(t) PROVE EndInv'
    BY <1>15 DEF crashstash_write_copy
  <1>16. ASSUME NEW t \in Task, crashstash_write_advance(t) PROVE EndInv'
    BY <1>16 DEF crashstash_write_advance
  <1>17. ASSUME NEW t \in Task, crashstash_write_end(t) PROVE EndInv'
    <2>1. CASE pc[t] = "write_page" /\ file' = [file EXCEPT ![t].pos = call[t].off]
      <3>1. \A u \in Task : /\ file'[u].st = file[u].st
                            /\ file'[u].mode = file[u].mode
                            /\ file'[u].pos = IF u = t THEN call[t].off ELSE file[u].pos
        BY <2>1, MovePos
      <3>2. call[t].off = size
        BY <2>1 DEF DataInv
      <3> QED
        BY <1>17, <3>1, <3>2 DEF crashstash_write_end
    <2>2. CASE pc[t] = "write_fault" /\ file' = file
      <3>1. Where = "write_fault"
        BY <2>2, WhereHeld DEF ControlType, IInv, TypeOK
      <3>2. faults # 0
        BY <3>1 DEF PageInv
      <3> QED
        BY <1>17, <2>2, <3>2 DEF crashstash_write_end
    <2> QED
      BY <1>17, <2>1, <2>2 DEF crashstash_write_end
  <1>18. ASSUME NEW t \in Task, NEW amt \in 0 .. MaxAmt, crashstash_read(t, amt)
         PROVE  EndInv'
    <2>1. \A u \in Task : file'[u].st = file[u].st /\ file'[u].mode = file[u].mode
      BY <1>18 DEF crashstash_read
    <2>2. \A u \in Task : u # t => ~Writer(u)
      BY <1>18 DEF crashstash_read
    <2>3. ~Writer(t)
      BY <1>18 DEF crashstash_read
    <2> QED
      BY <1>18, <2>1, <2>2, <2>3 DEF crashstash_read
  <1>19. ASSUME NEW t \in Task, crashstash_exit_begin(t) PROVE EndInv'
    BY <1>19 DEF crashstash_exit_begin
  <1>20. ASSUME NEW t \in Task, NEW u \in Task, proc_remove_release(t, u) PROVE EndInv'
    BY <1>20 DEF proc_remove_release, Drop, NoFile
  <1>21. ASSUME NEW t \in Task, crashstash_exit_free(t) PROVE EndInv'
    BY <1>21 DEF crashstash_exit_free
  <1>22. ASSUME NEW t \in Task, FreeStep(t, "exit_free", "exit_pages") PROVE EndInv'
    BY <1>22 DEF FreeStep
  <1>23. ASSUME NEW t \in Task, crashstash_exit_finish(t) PROVE EndInv'
    BY <1>23 DEF crashstash_exit_finish
  <1>24. CASE UNCHANGED vars
    BY <1>24 DEF vars
  <1> QED
    BY <1>1, <1>2, <1>3, <1>4, <1>5, <1>6, <1>7, <1>8, <1>9, <1>10, <1>11, <1>12,
       <1>13, <1>14, <1>15, <1>16, <1>17, <1>18, <1>19, <1>20, <1>21, <1>22, <1>23,
       <1>24 DEF Next

-----------------------------------------------------------------------------
(* The theorems.                                                           *)

\* The invariant behind the theorems below: crashstash_write, a fault in it and
\* crashstash_free keep pages, size and the bytes in step in every state.
THEOREM SalvageInvariance == Spec => []SalvageInv
  <1>1. Init => SalvageInv
    <2> SUFFICES ASSUME Init PROVE SalvageInv
      OBVIOUS
    <2>1. PageInv /\ BytesInv
      BY EmptyInOrder DEF Init, Where
    <2> QED
      BY <2>1 DEF Init, SalvageInv, RecordInv, EndInv, Writer, NoFile
  <1>2. IInv /\ SalvageInv /\ [Next]_vars => SalvageInv'
    BY StashStep, RecordStep, EndStep DEF SalvageInv
  <1> QED
    BY <1>1, <1>2, Invariance, PTL DEF Spec

\* Whatever the moment of the crash, get_crashstash raises or returns the bytes that
\* crashstash_write stored and nobody has freed since: for every page size and limit,
\* any number of tasks, any faults, with the module loaded or not.  The exception is
\* the one SalvageSound names, the record of an earlier load and nothing stored.
THEOREM SalvageIsSound == Spec => []SalvageSound
  <1>1. IInv /\ SalvageInv => SalvageSound
    <2> SUFFICES ASSUME IInv, SalvageInv, ~GetCrashstashRaises, ~NoStashButRecord
                 PROVE  GetCrashstash = written
      BY DEF SalvageSound
    <2>1. TypeOK /\ PageInv /\ BytesInv /\ RecordInv
      BY DEF IInv, SalvageInv
    <2>2. written \in Seq(Byte) /\ Len(written) = size /\ size \in Nat
      BY <2>1, Sizes DEF TypeOK, PageInv
    <2>3. record = "current"
      <3>1. size = 0 => written = << >>
        BY <2>2, EmptySeq
      <3>2. record = "stale" => size = 0
        BY <2>1 DEF RecordInv
      <3>3. record # "none" /\ record \in {"none", "current", "stale"}
        BY <2>1 DEF GetCrashstashRaises, TypeOK
      <3> QED
        BY <3>1, <3>2, <3>3 DEF NoStashButRecord
    <2>4. Len(crashstash) = pages /\ pages = PagesFor(size)
      BY <2>3 DEF GetCrashstashRaises, InconsistentMetadata, PagesFor
    <2>5. BytesInPlace
      <3>1. CASE Where \in Freeing
        BY <2>1, <2>4, <3>1 DEF BytesInv
      <3>2. CASE Where \notin Freeing
        <4>1. size \div PAGE_SIZE \in Nat
          BY <2>1, Sizes, DivMod
        <4>2. PagesFor(size) \in {size \div PAGE_SIZE, (size \div PAGE_SIZE) + 1}
          BY <2>2, RoundsUp
        <4>3. Needed >= PagesFor(size) /\ Needed \in Nat
          BY <4>1, <4>2 DEF Needed
        <4>4. Len(crashstash) >= Needed /\ Len(crashstash) \in Nat
          BY <2>1, <3>2, Sizes DEF PageInv
        <4>5. Len(crashstash) = Needed
          BY <2>4, <4>3, <4>4
        <4> QED
          BY <2>1, <3>2, <4>5 DEF BytesInv
      <3> QED
        BY <3>1, <3>2
    <2>6. \A i \in 1 .. size : Stored(i - 1) = written[i]
      BY <2>2, <2>5 DEF BytesInPlace
    <2>7. written = [i \in 1 .. size |-> written[i]]
      BY <2>2, LenProperties
    <2> QED
      BY <2>3, <2>6, <2>7 DEF GetCrashstash
  <1> QED
    BY <1>1, Invariance, SalvageInvariance, PTL

\* With no handler running, or after the one oops the module can run into, a record
\* in the log and no faulted write are enough for get_crashstash not to raise.
THEOREM AlwaysRetrievable == Spec => []Retrievable
  <1>1. IInv /\ SalvageInv => Retrievable
    <2> SUFFICES ASSUME IInv, SalvageInv, lock = NoTask \/ Oopsed, record = "current", faults = 0
                 PROVE  ~GetCrashstashRaises
      BY DEF Retrievable
    <2>1. ControlType /\ LockInv /\ PageInv
      BY DEF IInv, TypeOK, ControlInv, ControlType, SalvageInv
    <2>2. Where \in {"user", "oops"}
      BY <2>1, WhereHeld DEF Oopsed, Locked, PC
    <2>3. Len(crashstash) = PagesFor(size) /\ Len(crashstash) = pages
      BY <2>1, <2>2 DEF PageInv, Needed, Freeing, Placed
    <2> QED
      BY <2>3 DEF GetCrashstashRaises, InconsistentMetadata, PagesFor
  <1> QED
    BY <1>1, Invariance, SalvageInvariance, PTL

\* The offset check of crashstash_write turns no writer away before a write faults.
THEOREM WriterStaysAtEnd == Spec => []WriterAtEnd
  <1>1. IInv /\ SalvageInv => WriterAtEnd
    <2> SUFFICES ASSUME IInv, SalvageInv, NEW t \in Task, Writer(t), lock = NoTask, faults = 0
                 PROVE  file[t].pos = size
      BY DEF WriterAtEnd
    <2>1. pc[t] \notin Writing
      BY StashAssumption DEF IInv, ControlInv, LockInv, Locked, Writing, PC, StashAssumption
    <2> QED
      BY <2>1 DEF SalvageInv, EndInv
  <1> QED
    BY <1>1, Invariance, SalvageInvariance, PTL

-----------------------------------------------------------------------------
(***************************************************************************)
(* Proof that CrashStash implements StashFile, step by step: opening is    *)
(* Acquire, crashstash_release is Release, loading the module and the end  *)
(* of crashstash_free are Empty, the step that advances size and the one   *)
(* that faults are Write, crashstash_read is Read, and every other step of *)
(* the module leaves what its users can see alone.                         *)
(***************************************************************************)

\* What the refinement mapping gives the three variables that depend on the files.
AccessFor(m) ==
  IF m = "O_RDONLY" THEN "read" ELSE IF m = "O_WRONLY" THEN "write" ELSE "nothing"
ReadPos == IF access = "read" THEN file[holder].pos ELSE 0
View == <<holder, access, ReadPos>>

\* Only a reader has anything delivered to it.
GotInv == got # << >> => \E t \in Task : file[t].st # "none" /\ file[t].mode = "O_RDONLY"

-----------------------------------------------------------------------------
(* The mapping.                                                            *)

\* The only holder is the one that the mapping chooses.
LEMMA TheHolder ==
  ASSUME NEW f, NEW t \in Task, f[t].st # "none",
         \A u \in Task : f[u].st # "none" => u = t
  PROVE  LET H == {u \in Task : f[u].st # "none"}
         IN  H # {} /\ (CHOOSE u \in Task : u \in H) = t
  <1> DEFINE H == {u \in Task : f[u].st # "none"}
  <1>1. H = {t}
    OBVIOUS
  <1> HIDE DEF H
  <1>2. (CHOOSE u \in Task : u \in H) = t
    BY <1>1
  <1> QED
    BY <1>1, <1>2 DEF H

\* What users see of a stash that t holds.
LEMMA ViewHeld ==
  ASSUME HolderInv, NEW t \in Task, file[t].st # "none"
  PROVE  /\ holder = t
         /\ access = AccessFor(file[t].mode)
         /\ ReadPos = IF file[t].mode = "O_RDONLY" THEN file[t].pos ELSE 0
  <1>1. Holders # {} /\ (CHOOSE u \in Task : u \in Holders) = t
    BY TheHolder DEF HolderInv, Holders
  <1>2. holder = t /\ t # NoTask
    BY <1>1, StashAssumption DEF holder, StashAssumption
  <1>3. access = AccessFor(file[t].mode)
    BY <1>2 DEF access, AccessFor
  <1> QED
    BY <1>2, <1>3 DEF ReadPos, AccessFor

\* What users see of it after a step, when t holds it then.
LEMMA ViewHeldNext ==
  ASSUME HolderInv', NEW t \in Task, file'[t].st # "none"
  PROVE  /\ holder' = t
         /\ access' = AccessFor(file'[t].mode)
         /\ ReadPos' = IF file'[t].mode = "O_RDONLY" THEN file'[t].pos ELSE 0
  <1>1. Holders' # {} /\ (CHOOSE u \in Task : u \in Holders') = t
    BY TheHolder DEF HolderInv, Holders
  <1>2. holder' = t /\ t # NoTask
    BY <1>1, StashAssumption DEF holder, StashAssumption
  <1>3. access' = AccessFor(file'[t].mode)
    BY <1>2 DEF access, AccessFor
  <1> QED
    BY <1>2, <1>3 DEF ReadPos, AccessFor

\* What users see of a stash that nobody holds, before and after a step.
LEMMA ViewFree ==
  /\ (\A t \in Task : file[t].st = "none") =>
       holder = NoTask /\ access = "nothing" /\ ReadPos = 0
  /\ (\A t \in Task : file'[t].st = "none") =>
       holder' = NoTask /\ access' = "nothing" /\ ReadPos' = 0
  BY DEF Holders, holder, access, ReadPos

\* A step that opens and releases no file and moves no reader looks like no step.
LEMMA SameView ==
  ASSUME HolderInv, HolderInv',
         \A u \in Task : /\ file'[u].st = "none" <=> file[u].st = "none"
                         /\ file[u].st # "none" => file'[u].mode = file[u].mode
                         /\ file[u].st # "none" /\ file[u].mode = "O_RDONLY"
                              => file'[u].pos = file[u].pos
  PROVE  View' = View
  <1>1. CASE \A u \in Task : file[u].st = "none"
    BY <1>1, ViewFree DEF View
  <1>2. ASSUME NEW t \in Task, file[t].st # "none"
        PROVE  View' = View
    BY <1>2, ViewHeld, ViewHeldNext DEF View
  <1> QED
    BY <1>1, <1>2

\* A step with the same view of the files, the same bytes and no new fault stutters.
LEMMA Stutters ==
  ASSUME View' = View, UNCHANGED <<written, faults, got>>
  PROVE  UNCHANGED Abstract!vars
  BY DEF View, ReadPos, Abstract!vars

-----------------------------------------------------------------------------
(* The steps.                                                              *)

\* No byte is delivered and no file changes, or all that was delivered is forgotten.
Quiet == UNCHANGED <<got, file>> \/ got' = << >>

\* Every step keeps the delivered bytes with a reader.
LEMMA GotStep ==
  ASSUME IInv, IInv', GotInv, [Next]_vars
  PROVE  GotInv'
  <1>a. HolderInv /\ PositionInv /\ HolderInv'
    BY DEF IInv, ControlInv
  <1>b. pc \in [Task -> PC]
        /\ file \in [Task -> [st : {"none", "open", "closed"}, mode : Mode, pos : Nat]]
        /\ call \in [Task -> [off : Nat, data : Seq(Byte)]]
    BY DEF IInv, TypeOK
  <1> USE <1>a, <1>b DEF GotInv, HolderInv, PositionInv, Enter, stashVars, logVars
  <1>1. CASE Quiet
    BY <1>1 DEF Quiet
  <1>3. ASSUME NEW t \in Task, crashstash_open_finish(t)
        PROVE  GotInv'
    <2>1. \A u \in Task : file[u].st = "none"
      BY <1>3 DEF crashstash_open_finish, Freeing
    <2> QED
      BY <1>3, <2>1 DEF crashstash_open_finish
  <1>4. ASSUME NEW t \in Task, close(t)
        PROVE  GotInv'
    BY <1>4 DEF close
  <1>5. ASSUME NEW t \in Task, crashstash_write_end(t)
        PROVE  GotInv'
    <2>1. CASE file' = file
      BY <1>5, <2>1 DEF crashstash_write_end
    <2>2. CASE file' = [file EXCEPT ![t].pos = call[t].off]
      <3>1. \A u \in Task : file'[u].st = file[u].st /\ file'[u].mode = file[u].mode
        BY <2>2, MovePos
      <3> QED
        BY <1>5, <3>1 DEF crashstash_write_end
    <2> QED
      BY <1>5, <2>1, <2>2 DEF crashstash_write_end
  <1>6. ASSUME NEW t \in Task, NEW amt \in 0 .. MaxAmt, crashstash_read(t, amt)
        PROVE  GotInv'
    <2>1. file'[t].st = file[t].st /\ file'[t].mode = file[t].mode
      BY <1>6 DEF crashstash_read
    <2> QED
      BY <1>6, <2>1 DEF crashstash_read
  <1>7. ASSUME Next
        PROVE  \/ Quiet
               \/ \E t \in Task : \/ crashstash_open_finish(t)
                                  \/ close(t)
                                  \/ crashstash_write_end(t)
                                  \/ \E amt \in 0 .. MaxAmt : crashstash_read(t, amt)
    <2>1. crashstash_init \/ log_overwrite => Quiet
      BY DEF crashstash_init, log_overwrite, Quiet
    <2>2. ASSUME NEW t \in Task
          PROVE  /\ (\E m \in Mode : crashstash_open_fail(t, m) \/ crashstash_open_read(t, m)) => Quiet
                 /\ crashstash_open_write(t) \/ FreeStep(t, "open_free", "open_pages") => Quiet
                 /\ crashstash_release(t) => Quiet
                 /\ (\E u \in Task : proc_remove_release(t, u)) => Quiet
      BY DEF crashstash_open_fail, crashstash_open_read, crashstash_open_write, FreeStep,
         crashstash_release, proc_remove_release, Drop, Quiet
    <2>3. ASSUME NEW t \in Task
          PROVE  /\ crashstash_write_fail(t) => Quiet
                 /\ (\E data \in Buffers : crashstash_write_begin(t, data)) => Quiet
                 /\ crashstash_write_page(t) \/ crashstash_write_oops(t) => Quiet
                 /\ crashstash_write_count(t) \/ crashstash_write_copy(t) => Quiet
                 /\ crashstash_write_advance(t) => Quiet
      BY DEF crashstash_write_fail, crashstash_write_begin, crashstash_write_page,
         crashstash_write_oops, crashstash_write_count, crashstash_write_copy,
         crashstash_write_advance, Quiet
    <2>4. ASSUME NEW t \in Task
          PROVE  /\ crashstash_exit_begin(t) \/ crashstash_exit_free(t) => Quiet
                 /\ FreeStep(t, "exit_free", "exit_pages") \/ crashstash_exit_finish(t) => Quiet
      BY DEF crashstash_exit_begin, crashstash_exit_free, FreeStep, crashstash_exit_finish, Quiet
    <2> QED
      BY <1>7, <2>1, <2>2, <2>3, <2>4 DEF Next
  <1>8. CASE UNCHANGED vars
    BY <1>8 DEF vars
  <1> QED
    BY <1>1, <1>3, <1>4, <1>5, <1>6, <1>7, <1>8

\* A task opens the stash.
LEMMA Acquires ==
  ASSUME NEW t \in Task, holder = NoTask, holder' = t,
         access' \in {"read", "write", "nothing"}, ReadPos' = 0, got' = << >>,
         UNCHANGED <<written, faults>>
  PROVE  Abstract!Next
  BY DEF ReadPos, Abstract!Next, Abstract!Acquire

\* The holder's file is released.
LEMMA Releases ==
  ASSUME holder # NoTask, holder' = NoTask, access' = "nothing", ReadPos' = 0, got' = << >>,
         UNCHANGED <<written, faults>>
  PROVE  Abstract!Next
  BY DEF ReadPos, Abstract!Next, Abstract!Release

\* The stash is emptied while nobody holds it.
LEMMA EmptiesIt ==
  ASSUME holder = NoTask, View' = View, written' = << >>, faults' = 0, UNCHANGED got
  PROVE  Abstract!Next
  BY DEF View, ReadPos, Abstract!Next, Abstract!Empty

\* The writer's bytes are appended, or its write faults.
LEMMA Writes ==
  ASSUME access = "write", View' = View, UNCHANGED got,
         \/ Abstract!Extends(written, written') /\ UNCHANGED faults
         \/ (faults > 0)' = TRUE /\ UNCHANGED written
  PROVE  Abstract!Next
  BY DEF View, ReadPos, Abstract!Next, Abstract!Write

\* The reader is delivered the next n bytes, or its buffer faults.
LEMMA Reads ==
  ASSUME access = "read", UNCHANGED <<holder, access, written, faults>>,
         NEW n \in 0 .. Len(written) - ReadPos,
         \/ got' = SubSeq(written, ReadPos + 1, ReadPos + n) /\ ReadPos' = ReadPos + n
         \/ faults > 0 /\ Len(got') = n /\ ReadPos' = ReadPos + n
         \/ got' = << >> /\ ReadPos' = ReadPos
  PROVE  Abstract!Next
  BY DEF ReadPos, Abstract!Next, Abstract!Read

\* What was written stays a prefix of what is written.
LEMMA AppendExtends ==
  ASSUME NEW s \in Seq(Byte), NEW d \in Seq(Byte), NEW k \in 1 .. Len(d),
         NEW w, w = s \o SubSeq(d, 1, k)
  PROVE  Abstract!Extends(s, w)
  <1>1. Len(s) \in Nat /\ s = [i \in 1 .. Len(s) |-> s[i]]
    BY LenProperties
  <1>2. Len(w) = Len(s) + k /\ \A i \in 1 .. Len(s) : w[i] = s[i]
    BY AppendFirst
  <1>3. k \in Nat
    BY LenProperties
  <1>4. \A i \in 1 .. Len(s) : w[i] \in Byte
    BY <1>1, <1>2, ElementOfSeq
  <1>5. /\ SubSeq(w, 1, Len(s)) \in Seq(Byte)
        /\ Len(SubSeq(w, 1, Len(s))) = Len(s)
        /\ \A i \in 1 .. Len(s) : SubSeq(w, 1, Len(s))[i] = s[i]
    <2>1. /\ SubSeq(w, 1, Len(s)) \in Seq(Byte)
          /\ Len(SubSeq(w, 1, Len(s))) = IF 1 <= Len(s) THEN Len(s) - 1 + 1 ELSE 0
          /\ \A i \in 1 .. Len(s) - 1 + 1 : SubSeq(w, 1, Len(s))[i] = w[1 + i - 1]
      BY <1>1, <1>4, SubSeqProperties
    <2> QED
      BY <1>1, <1>2, <2>1
  <1>6. SubSeq(w, 1, Len(s)) = s
    BY <1>5, SeqEqual
  <1> QED
    BY <1>1, <1>2, <1>3, <1>6 DEF Abstract!Extends

\* crashstash_read delivers the bytes of the stash in order, unless a write faulted.
LEMMA ReadMaps ==
  ASSUME IInv, IInv', SalvageInv, NEW t \in Task, NEW amt \in 0 .. MaxAmt,
         crashstash_read(t, amt)
  PROVE  Abstract!Next
  <1>a. TypeOK /\ HolderInv /\ HolderInv' /\ LockInv /\ DataInv /\ PageInv /\ BytesInv
    BY DEF IInv, ControlInv, SalvageInv
  <1>b. /\ file \in [Task -> [st : {"none", "open", "closed"}, mode : Mode, pos : Nat]]
        /\ size \in Nat /\ faults \in Nat /\ written \in Seq(Byte) /\ Len(written) = size
    BY <1>a, Sizes DEF TypeOK, PageInv
  <1> DEFINE off == file[t].pos
             n == ReadAmt(off, amt)
  <1>1. /\ lock = NoTask /\ file[t].st = "open" /\ file[t].mode = "O_RDONLY"
        /\ UNCHANGED <<written, faults>>
    BY DEF crashstash_read, Enter, stashVars
  <1>2. holder = t /\ access = "read" /\ ReadPos = off
    BY <1>a, <1>1, ViewHeld DEF AccessFor
  <1>3. off \in Nat /\ off <= size
    BY <1>a, <1>b, <1>1 DEF DataInv
  <1>4. n \in 0 .. size - off
    BY <1>b, <1>3 DEF ReadAmt
  <1>5. \/ /\ got' = [i \in 1 .. n |-> Stored(off + i - 1)]
           /\ file' = [file EXCEPT ![t].pos = off + n]
        \/ got' = << >> /\ file' = file
    BY DEF crashstash_read
  <1> HIDE DEF off, n
  <1>6. CASE got' = << >> /\ file' = file
    <2>1. View' = View
      BY <1>6 DEF View, holder, Holders, access, ReadPos
    <2> QED
      BY <1>1, <1>2, <1>3, <1>4, <1>6, <1>b, <2>1, Reads DEF View
  <1>7. CASE /\ got' = [i \in 1 .. n |-> Stored(off + i - 1)]
             /\ file' = [file EXCEPT ![t].pos = off + n]
    <2>1. off + n \in Nat
      BY <1>3, <1>4
    <2>2. file'[t].st = "open" /\ file'[t].mode = "O_RDONLY" /\ file'[t].pos = off + n
      BY <1>b, <1>1, <1>7, <2>1, MovePos
    <2>3. holder' = t /\ access' = "read" /\ ReadPos' = off + n
      BY <1>a, <2>2, ViewHeldNext DEF AccessFor
    <2>4. CASE faults = 0
      <3>1. Where = "user"
        BY <1>1 DEF Where
      <3>2. BytesInPlace
        BY <1>a, <2>4, <3>1 DEF PageInv, BytesInv, Freeing
      <3>3. \A i \in 1 .. n : Stored(off + i - 1) = written[off + i]
        <4> SUFFICES ASSUME NEW i \in 1 .. n PROVE Stored(off + i - 1) = written[off + i]
          OBVIOUS
        <4>1. off + i - 1 \in 0 .. size - 1 /\ (off + i - 1) + 1 = off + i
          BY <1>b, <1>3, <1>4
        <4> QED
          BY <3>2, <4>1 DEF BytesInPlace
      <3>4. SubSeq(written, off + 1, off + n) = [i \in 1 .. n |-> written[off + i]]
        BY <1>3, <1>4
      <3>5. got' = SubSeq(written, off + 1, off + n)
        BY <1>7, <3>3, <3>4
      <3> QED
        BY <1>1, <1>2, <1>4, <1>b, <2>3, <3>5, Reads
    <2>5. CASE faults > 0
      <3>1. Len(got') = n
        BY <1>4, <1>7
      <3> QED
        BY <1>1, <1>2, <1>4, <1>b, <2>3, <2>5, <3>1, Reads
    <2> QED
      BY <1>b, <2>4, <2>5
  <1> QED
    BY <1>5, <1>6, <1>7

\* Every step of the module is a step of the stash file, or one nobody notices.
LEMMA StepMaps ==
  ASSUME IInv, IInv', SalvageInv, GotInv, [Next]_vars
  PROVE  [Abstract!Next]_(Abstract!vars)
  <1>a. TypeOK /\ HolderInv /\ HolderInv' /\ PositionInv /\ LockInv /\ DataInv
    BY DEF IInv, ControlInv
  <1>b. /\ pc \in [Task -> PC]
        /\ file \in [Task -> [st : {"none", "open", "closed"}, mode : Mode, pos : Nat]]
        /\ call \in [Task -> [off : Nat, data : Seq(Byte)]]
        /\ written \in Seq(Byte) /\ faults \in Nat
    BY <1>a, Sizes DEF TypeOK
  <1>c. count = 0 <=> \A t \in Task : file[t].st = "none"
    BY <1>a DEF HolderInv
  <1>d. ASSUME UNCHANGED <<file, written, faults, got>>
        PROVE  UNCHANGED Abstract!vars
    <2>1. View' = View
      BY <1>d DEF View, holder, Holders, access, ReadPos
    <2> QED
      BY <1>d, <2>1, Stutters
  <1> USE DEF Enter, GoTo, stashVars, logVars
  <1>1. CASE crashstash_init
    <2>1. \A t \in Task : file[t].st = "none"
      BY <1>a, <1>c, <1>1 DEF crashstash_init, PositionInv
    <2>2. View' = View
      BY <1>1 DEF crashstash_init, View, holder, Holders, access, ReadPos
    <2> QED
      BY <1>1, <2>1, <2>2, ViewFree, EmptiesIt DEF crashstash_init
  <1>2. CASE log_overwrite
    BY <1>d, <1>2 DEF log_overwrite
  <1>3. ASSUME NEW t \in Task, NEW m \in Mode, crashstash_open_fail(t, m)
        PROVE  UNCHANGED Abstract!vars
    BY <1>d, <1>3 DEF crashstash_open_fail
  <1>4. ASSUME NEW t \in Task, NEW m \in Mode, crashstash_open_read(t, m)
        PROVE  Abstract!Next
    <2>1. \A u \in Task : file[u].st = "none"
      BY <1>c, <1>4 DEF crashstash_open_read
    <2>2. file'[t].st = "open" /\ file'[t].mode = m /\ file'[t].pos = 0
      BY <1>b, <1>4 DEF crashstash_open_read, OpenFile
    <2>3. holder' = t /\ access' = AccessFor(m) /\ ReadPos' = 0
      BY <1>a, <2>2, ViewHeldNext
    <2> QED
      BY <1>4, <2>1, <2>3, ViewFree, Acquires DEF crashstash_open_read, AccessFor
  <1>5. ASSUME NEW t \in Task, crashstash_open_write(t)
        PROVE  UNCHANGED Abstract!vars
    BY <1>d, <1>5 DEF crashstash_open_write
  <1>6. ASSUME NEW t \in Task,
               FreeStep(t, "open_free", "open_pages") \/ FreeStep(t, "exit_free", "exit_pages")
        PROVE  [Abstract!Next]_(Abstract!vars)
    <2>1. \A u \in Task : file[u].st = "none"
      BY <1>a, <1>c, <1>6 DEF FreeStep, PositionInv, Freeing
    <2>2. View' = View
      <3>1. file' = file
        BY <1>6 DEF FreeStep
      <3> QED
        BY <3>1 DEF View, holder, Holders, access, ReadPos
    <2>3. CASE UNCHANGED <<written, faults>>
      BY <1>d, <1>6, <2>3 DEF FreeStep
    <2>4. CASE written' = << >> /\ faults' = 0
      BY <1>6, <2>1, <2>2, <2>4, ViewFree, EmptiesIt DEF FreeStep
    <2> QED
      BY <1>6, <2>3, <2>4 DEF FreeStep
  <1>7. ASSUME NEW t \in Task, crashstash_open_finish(t)
        PROVE  Abstract!Next
    <2>1. \A u \in Task : file[u].st = "none"
      BY <1>a, <1>c, <1>7 DEF crashstash_open_finish, PositionInv, Freeing
    <2>2. file'[t].st = "open" /\ file'[t].mode = "O_WRONLY" /\ file'[t].pos = 0
      BY <1>b, <1>7 DEF crashstash_open_finish, OpenFile
    <2>3. holder' = t /\ access' = "write" /\ ReadPos' = 0
      BY <1>a, <2>2, ViewHeldNext DEF AccessFor
    <2>4. got' = << >>
      BY <1>7, <2>1 DEF GotInv, crashstash_open_finish
    <2> QED
      BY <1>7, <2>1, <2>3, <2>4, ViewFree, Acquires DEF crashstash_open_finish
  <1>8. ASSUME NEW t \in Task, close(t)
        PROVE  UNCHANGED Abstract!vars
    <2>1. View' = View
      BY <1>a, <1>b, <1>8, SameView DEF close
    <2> QED
      BY <1>8, <2>1, Stutters DEF close
  <1>9. ASSUME NEW u \in Task, file[u].st # "none", Drop(u)
        PROVE  Abstract!Next
    <2>1. holder = u /\ u # NoTask
      BY <1>a, <1>9, ViewHeld, StashAssumption DEF StashAssumption
    <2>2. \A v \in Task : file'[v].st = "none"
      BY <1>a, <1>b, <1>9 DEF Drop, NoFile, HolderInv
    <2> QED
      BY <1>9, <2>1, <2>2, ViewFree, Releases DEF Drop
  <1>10. ASSUME NEW t \in Task,
                \/ crashstash_write_fail(t)
                \/ \E data \in Buffers : crashstash_write_begin(t, data)
                \/ crashstash_write_page(t)
                \/ crashstash_write_oops(t)
                \/ crashstash_write_count(t)
         PROVE  UNCHANGED Abstract!vars
    BY <1>d, <1>10 DEF crashstash_write_fail, crashstash_write_begin,
       crashstash_write_page, crashstash_write_oops, crashstash_write_count
  <1>11. ASSUME NEW t \in Task, pc[t] \in Writing, UNCHANGED file
         PROVE  access = "write" /\ View' = View
    <2>1. file[t].st = "open" /\ file[t].mode = "O_WRONLY"
      BY <1>a, <1>11 DEF PositionInv, Writer
    <2>2. access = "write"
      BY <1>a, <2>1, ViewHeld DEF AccessFor
    <2> QED
      BY <1>11, <2>2 DEF View, holder, Holders, access, ReadPos
  <1>12. ASSUME NEW t \in Task, crashstash_write_copy(t)
         PROVE  [Abstract!Next]_(Abstract!vars)
    <2>1. access = "write" /\ View' = View
      BY <1>11, <1>12 DEF crashstash_write_copy, Writing
    <2>2. CASE UNCHANGED faults
      BY <1>d, <1>12, <2>2 DEF crashstash_write_copy
    <2>3. CASE faults' = faults + 1
      <3>1. (faults > 0)' = TRUE
        BY <1>b, <2>3
      <3> QED
        BY <1>12, <2>1, <3>1, Writes DEF crashstash_write_copy
    <2> QED
      BY <1>12, <2>2, <2>3 DEF crashstash_write_copy
  <1>13. ASSUME NEW t \in Task, crashstash_write_advance(t)
         PROVE  Abstract!Next
    <2>1. access = "write" /\ View' = View
      BY <1>11, <1>13 DEF crashstash_write_advance, Writing
    <2>2. chunk_amt(t) \in 1 .. Len(call[t].data) /\ call[t].data \in Seq(Byte)
      BY <1>a, <1>b, <1>13, ChunkFits DEF crashstash_write_advance, DataInv
    <2>3. written' = written \o SubSeq(call[t].data, 1, chunk_amt(t))
          /\ UNCHANGED <<faults, got>>
      BY <1>13 DEF crashstash_write_advance
    <2>4. Abstract!Extends(written, written')
      BY <1>b, <2>2, <2>3, AppendExtends
    <2> QED
      BY <2>1, <2>3, <2>4, Writes
  <1>14. ASSUME NEW t \in Task, crashstash_write_end(t)
         PROVE  UNCHANGED Abstract!vars
    <2>1. file[t].mode = "O_WRONLY"
      BY <1>a, <1>14 DEF crashstash_write_end, PositionInv, Writing, Writer
    <2>2. View' = View
      <3>1. CASE file' = file
        BY <1>a, <3>1, SameView
      <3>2. CASE file' = [file EXCEPT ![t].pos = call[t].off]
        <4>1. \A u \in Task : /\ file'[u].st = file[u].st
                              /\ file'[u].mode = file[u].mode
                              /\ file'[u].pos = IF u = t THEN call[t].off ELSE file[u].pos
          BY <1>b, <3>2, MovePos
        <4> QED
          BY <1>a, <2>1, <4>1, SameView
      <3> QED
        BY <1>14, <3>1, <3>2 DEF crashstash_write_end
    <2> QED
      BY <1>14, <2>2, Stutters DEF crashstash_write_end
  <1>15. ASSUME NEW t \in Task,
                crashstash_exit_begin(t) \/ crashstash_exit_free(t) \/ crashstash_exit_finish(t)
         PROVE  UNCHANGED Abstract!vars
    BY <1>d, <1>15 DEF crashstash_exit_begin, crashstash_exit_free, crashstash_exit_finish
  <1>16. ASSUME NEW t \in Task, crashstash_release(t)
         PROVE  Abstract!Next
    BY <1>9, <1>16 DEF crashstash_release
  <1>17. ASSUME NEW t \in Task, NEW u \in Task, proc_remove_release(t, u)
         PROVE  Abstract!Next
    BY <1>9, <1>17 DEF proc_remove_release
  <1>18. ASSUME NEW t \in Task, NEW amt \in 0 .. MaxAmt, crashstash_read(t, amt)
         PROVE  Abstract!Next
    BY <1>18, ReadMaps
  <1>19. CASE UNCHANGED vars
    BY <1>d, <1>19 DEF vars
  <1> QED
    BY <1>1, <1>2, <1>3, <1>4, <1>5, <1>6, <1>7, <1>8, <1>10, <1>12, <1>13, <1>14,
       <1>15, <1>16, <1>17, <1>18, <1>19 DEF Next

\* crashstash is a stash file: whatever its users, rmmod and faulting buffers do,
\* they see one byte string with one holder at a time, appended to by a writer,
\* delivered in order to a reader and emptied only while nobody holds it.
THEOREM Refinement == Spec => ImplementsStashFile
  <1>1. Init => Abstract!Init
    <2> SUFFICES ASSUME Init PROVE Abstract!Init
      OBVIOUS
    <2>1. \A t \in Task : file[t].st = "none"
      BY DEF Init, NoFile
    <2>2. holder = NoTask /\ access = "nothing" /\ ReadPos = 0
      BY <2>1, ViewFree
    <2> QED
      BY <2>2 DEF Init, ReadPos, Abstract!Init
  <1>2. Init => GotInv
    BY DEF Init, GotInv
  <1>3. IInv /\ IInv' /\ GotInv /\ [Next]_vars => GotInv'
    BY GotStep
  <1>4. IInv /\ IInv' /\ SalvageInv /\ GotInv /\ [Next]_vars => [Abstract!Next]_(Abstract!vars)
    BY StepMaps
  <1> QED
    BY <1>1, <1>2, <1>3, <1>4, Invariance, SalvageInvariance, PTL
    DEF Spec, ImplementsStashFile, Abstract!Spec

=============================================================================
