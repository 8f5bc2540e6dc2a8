--------------------------- MODULE EditVmcoreinfo ---------------------------
(***************************************************************************)
(* vmcoreinfo/editvmcoreinfo.c: replace the VMCOREINFO note of a vmcore,   *)
(* moving everything behind it.  The table of program headers is rewritten *)
(* first, then the data after the note goes to a temporary file, the file  *)
(* is cut and put together again.  Any system call may fail or fall short, *)
(* and the program may be killed between any two.                          *)
(*                                                                         *)
(* The first byte of a note stands for its header and holds [t, vi,        *)
(* namesz, descsz].  Alignment and header size are constants, 4 and 12 in  *)
(* the code.                                                               *)
(***************************************************************************)
EXTENDS Vmcore

CONSTANTS
  Files,    \* the vmcores of this instance
  NewLens,  \* lengths of the file with the new vmcoreinfo
  ALIGN,    \* the alignment of pad4
  NHDR      \* sizeof(struct elf_notehdr)

ASSUME EditVmcoreinfoAssumption ==
  /\ NewLens \subseteq Nat
  /\ ALIGN \in Nat \ {0}
  /\ NHDR \in Nat \ {0}
  /\ \A f \in Files : IsVmcore(f)

VARIABLES
  newlen,    \* length of the file with the new vmcoreinfo
  phdr,      \* se.phdr
  notes_seg, \* its index in phdr
  vi_start, vi_end,  \* the note in the file: notes_start + vi_note_start, _end
  newsize,   \* size of the new description, its terminator included
  tmp,       \* the temporary file, which has no name and goes with the program
  cur, amt,  \* progress of sendfile_loop
  pc,
  status,
  orig       \* history: the file as it was

vars == <<file, newlen, phdr, notes_seg, vi_start, vi_end, newsize, tmp, cur, amt, pc, status, orig>>
elfVars == <<newlen, phdr, notes_seg, vi_start, vi_end>>

pad4(val) == ALIGN * ((val + ALIGN - 1) \div ALIGN)

NoteSegs(f) == {k \in DOMAIN f.ph : f.ph[k].type = "note"}
NoteSeg(f) == CHOOSE k \in NoteSegs(f) : \A j \in NoteSegs(f) : k <= j

\* The size of the note that begins with byte h.
NoteSize(h) == NHDR + pad4(h.namesz) + pad4(h.descsz)

\* Offsets in the file at which the walk over notes sees headers.
NoteHeads(f) ==
  LET seg  == f.ph[NoteSeg(f)]
      last == seg.offset + seg.filesz
      walk[o \in seg.offset .. last] ==
        LET h    == Bytes(f.body, o, 1)[1]
            next == o + NoteSize(h)
        IN IF o = last \/ h.t # "hdr" THEN {}
           ELSE {o} \cup (IF next > last THEN {} ELSE walk[next])
  IN walk[seg.offset]

VmcoreinfoNotes(f) == {o \in NoteHeads(f) : f.body[o + 1].vi}

InitEdit ==
  /\ phdr = <<>> /\ notes_seg = 0
  /\ vi_start = 0 /\ vi_end = 0
  /\ newsize = 0
  /\ tmp = <<>>
  /\ cur = 0 /\ amt = 0
  /\ status = 0

\* The program is started on some file.
Init ==
  /\ file \in Files
  /\ newlen \in NewLens
  /\ InitEdit
  /\ pc = "start"
  /\ orig = file

exit(s) == pc' = "exit" /\ status' = s /\ tmp' = <<>>

\* A call fails: the program ends, without undoing what was done.
call_fails ==
  /\ pc \notin {"idle", "exit"}
  /\ exit(1)
  /\ UNCHANGED <<file, elfVars, newsize, cur, amt, orig>>

\* SIGKILL, or the machine goes down.
killed ==
  /\ pc \notin {"idle", "exit"}
  /\ exit(137)
  /\ UNCHANGED <<file, elfVars, newsize, cur, amt, orig>>

read_newdata ==
  /\ pc = "start"
  /\ newsize' = newlen + 1
  /\ pc' = "elfdata"
  /\ UNCHANGED <<file, elfVars, tmp, cur, amt, status, orig>>

SegEnd(f) == f.ph[NoteSeg(f)].offset + f.ph[NoteSeg(f)].filesz

\* An ELF header the program knows, notes that are all in the file, and VMCOREINFO
\* among them.  (Program headers of another size fail an assertion, which ends the
\* program as well.)
Accepted(f) ==
  /\ f.ident = "elf64" /\ f.data = "LSB" /\ ~f.shdrs
  /\ Number("LSB", f.e_phentsize) = PHENT
  /\ Number("LSB", f.e_phnum) = Len(f.ph)
  /\ NoteSegs(f) # {}
  /\ SegEnd(f) <= Len(f.body)
  /\ VmcoreinfoNotes(f) # {}

refuse_elfdata ==
  /\ pc = "elfdata"
  /\ ~Accepted(file)
  /\ exit(1)
  /\ UNCHANGED <<file, elfVars, newsize, cur, amt, orig>>

\* The last VMCOREINFO note in the first note segment.
read_elfdata ==
  /\ pc = "elfdata"
  /\ Accepted(file)
  /\ \E o \in VmcoreinfoNotes(file) :
       /\ \A p \in VmcoreinfoNotes(file) : p <= o
       /\ vi_start' = o
       /\ vi_end' = o + NoteSize(file.body[o + 1])
  /\ phdr' = file.ph
  /\ notes_seg' = NoteSeg(file)
  /\ pc' = "offsets"
  /\ UNCHANGED <<file, newlen, newsize, tmp, cur, amt, status, orig>>

sizediff == pad4(newsize) - pad4(file.body[vi_start + 1].descsz)

\* Mutant: the size of the notes segment stays.
Shifted_KeepSize(table) ==
  [k \in DOMAIN table |->
     IF k > notes_seg THEN [table[k] EXCEPT !.offset = @ + sizediff] ELSE table[k]]

\* The table with the new size of the notes; the entries after it are moved.
Shifted(table) ==
  [k \in DOMAIN table |->
     IF k = notes_seg
     THEN [table[k] EXCEPT !.filesz = @ + sizediff,
                           !.memsz = IF @ = 0 THEN 0 ELSE @ + sizediff]
     ELSE IF k > notes_seg THEN [table[k] EXCEPT !.offset = @ + sizediff]
     ELSE table[k]]

\* The write may fall short after n entries.  (One that tears an entry ends the
\* program like the others, with a table that describes nothing.)
update_offsets ==
  /\ pc = "offsets"
  /\ phdr' = Shifted(phdr)
  /\ \E n \in 0 .. Len(phdr) :
       /\ file' = [file EXCEPT !.ph = SubSeq(phdr', 1, n) \o SubSeq(@, n + 1, Len(@))]
       /\ IF n = Len(phdr) THEN pc' = "shift" /\ UNCHANGED <<status, tmp>> ELSE exit(1)
  /\ UNCHANGED <<newlen, notes_seg, vi_start, vi_end, newsize, cur, amt, orig>>

\* Mutant: one byte less is saved.
savesz_Less == Len(file.body) - vi_end - 1

\* How much is to be saved.
savesz == Len(file.body) - vi_end

\* shift_data up to the first sendfile_loop.
shift_data ==
  /\ pc = "shift"
  /\ amt' = savesz
  /\ cur' = 0
  /\ pc' = "save"
  /\ UNCHANGED <<file, elfVars, newsize, tmp, status, orig>>

\* Mutant: one call of sendfile is taken to move it all.
Moved_Once(n) == TRUE

\* Mutant: the loop goes on when all is moved.
Moved_Strict(n) == n > amt

Moved(n) == n >= amt

\* One round of sendfile_loop, with the rest of the source: moves some of it, at
\* least a byte if there is one, and is done when cur has reached amt.
sendfile_loop(rest, to, next) ==
  /\ to = <<>> => rest = <<>>
  /\ cur' = cur + Len(to)
  /\ pc' = IF Moved(cur') THEN next ELSE pc

Sendable(s) == {SubSeq(s, 1, n) : n \in 0 .. Len(s)}

\* The file lacks the padding of its last note: the difference, kept in a size_t, is
\* more than sendfile takes (EINVAL).
save_refused ==
  /\ pc = "save"
  /\ amt < 0
  /\ exit(1)
  /\ UNCHANGED <<file, elfVars, newsize, cur, amt, orig>>

save ==
  /\ pc = "save"
  /\ amt >= 0
  /\ LET rest == SubSeq(file.body, vi_end + cur + 1, Len(file.body))
     IN \E to \in Sendable(rest) :
          /\ sendfile_loop(rest, to, "truncate")
          /\ tmp' = tmp \o to
  /\ UNCHANGED <<file, elfVars, newsize, amt, status, orig>>

truncate ==
  /\ pc = "truncate"
  /\ file' = [file EXCEPT !.body = SubSeq(@, 1, vi_start)]
  /\ pc' = "write"
  /\ UNCHANGED <<elfVars, newsize, tmp, cur, amt, status, orig>>

NewByte(k) == [t |-> "new", k |-> k]
Nul == [t |-> "nul"]

\* The new note: header and name of the old one but for the size, the new
\* description with its terminator, and zeros.
NewNote ==
  LET old == orig.body[vi_start + 1]
  IN <<[old EXCEPT !.descsz = newsize]>>
     \o Bytes(orig.body, vi_start + 1, NHDR - 1 + pad4(old.namesz))
     \o [k \in 1 .. pad4(newsize) |-> IF k < newsize THEN NewByte(k) ELSE Nul]

\* The write may fall short after n bytes.
write_note ==
  /\ pc = "write"
  /\ \E n \in 1 .. Len(NewNote) :
       /\ file' = [file EXCEPT !.body = @ \o SubSeq(NewNote, 1, n)]
       /\ IF n = Len(NewNote) THEN pc' = "restore" /\ UNCHANGED <<status, tmp>> ELSE exit(1)
  /\ cur' = 0
  /\ UNCHANGED <<elfVars, newsize, amt, orig>>

restore ==
  /\ pc = "restore"
  /\ LET rest == SubSeq(tmp, cur + 1, Len(tmp))
     IN \E to \in Sendable(rest) :
          /\ sendfile_loop(rest, to, "exit")
          /\ file' = [file EXCEPT !.body = @ \o to]
          /\ tmp' = IF pc' = "exit" THEN <<>> ELSE tmp
  /\ UNCHANGED <<elfVars, newsize, amt, status, orig>>

Step ==
  \/ read_newdata
  \/ refuse_elfdata
  \/ read_elfdata
  \/ update_offsets
  \/ shift_data
  \/ save_refused
  \/ save
  \/ truncate
  \/ write_note
  \/ restore

Next ==
  \/ Step
  \/ call_fails
  \/ killed

Spec == Init /\ [][Next]_vars

-----------------------------------------------------------------------------
(* Properties.                                                             *)

Succeeded == pc = "exit" /\ status = 0

\* A layout as dump tools write it: the table before the notes, and every other
\* segment on the side of the notes, their padding included, that its place in the
\* table has.
Conventional(f) ==
  NoteSegs(f) # {} =>
    LET seg == f.ph[NoteSeg(f)]
    IN /\ PhOff(f) < seg.offset
       /\ \A k \in DOMAIN f.ph :
            /\ k < NoteSeg(f) => f.ph[k].offset + f.ph[k].filesz <= seg.offset
            /\ k > NoteSeg(f) => \A o \in NoteHeads(f) :
                                   f.ph[k].offset >= o + NoteSize(f.body[o + 1])

\* Where the last note ends.
NotesEnd(f) ==
  LET last == CHOOSE o \in NoteHeads(f) : \A p \in NoteHeads(f) : p <= o
  IN last + NoteSize(f.body[last + 1])

\* The notes are all in their segment, but for the padding of the last one.
NotesInSegment(f) == NotesEnd(f) - SegEnd(f) < ALIGN

\* After success the program itself, run again, reads the new note, provided it
\* finds the table: the walk over the notes meets the same ones and ends as far from
\* the end of their segment as before, and the last VMCOREINFO is the new one; the file
\* has grown by what the note has.  (Of notes that leave their segment the new one
\* can be outside altogether.)
NewNoteReadable ==
  Succeeded /\ TableFound(file) /\ NotesInSegment(orig) =>
    /\ NotesEnd(file) - SegEnd(file) = NotesEnd(orig) - SegEnd(orig)
    /\ \E o \in VmcoreinfoNotes(file) :
         LET h == file.body[o + 1]
         IN /\ \A p \in VmcoreinfoNotes(file) : p <= o
            /\ h.descsz = newsize
            /\ Bytes(file.body, o + NHDR + pad4(h.namesz), newsize) =
                 [k \in 1 .. newsize |-> IF k < newsize THEN NewByte(k) ELSE Nul]
            /\ Len(file.body) - Len(orig.body) = NoteSize(h) - (vi_end - vi_start)
    /\ {file.body[o + 1].namesz : o \in NoteHeads(file)} =
       {orig.body[o + 1].namesz : o \in NoteHeads(orig)}

SegmentsIntact ==
  /\ TableFound(file)
  /\ \A k \in DOMAIN file.ph \ {notes_seg} :
       /\ file.ph[k].filesz = orig.ph[k].filesz
       /\ Bytes(file.body, file.ph[k].offset, file.ph[k].filesz) =
          Bytes(orig.body, orig.ph[k].offset, orig.ph[k].filesz)

\* After success no other segment has lost or shifted a byte, in a vmcore of the
\* usual layout.
SegmentsKeepData == Succeeded /\ Conventional(orig) => SegmentsIntact

\* What is behind the old note, and the body the program is to leave.
Behind == SubSeq(orig.body, vi_end + 1, Len(orig.body))
NewBody == SubSeq(orig.body, 1, vi_start) \o NewNote \o Behind

\* The bytes before the note are never touched.  The file is cut only when the table
\* is written and everything behind the note is in the temporary file, which stays
\* so as long as the program runs; success means that all of it is back.  If the
\* program dies or fails in between, the temporary file dies with it, and what was
\* not yet back is lost: then the file is a beginning of what it was to become.
TailSafe ==
  /\ SubSeq(file.body, 1, vi_start) = SubSeq(orig.body, 1, vi_start)
  /\ file.body # orig.body =>
       /\ file.ph = phdr
       /\ \E n \in vi_start .. Len(NewBody) : file.body = SubSeq(NewBody, 1, n)
       /\ pc # "exit" => tmp = Behind
  /\ Succeeded => file.body = NewBody

\* The program ends, however little sendfile moves at a time.
Terminates == pc = "start" ~> pc = "exit"

\* editvmcoreinfo.c:21: "Adjust the offsets of all the other program headers for
\* the new size".
AllOffsetsAdjusted == Succeeded => SegmentsIntact

=============================================================================
