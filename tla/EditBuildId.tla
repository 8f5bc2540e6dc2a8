---------------------------- MODULE EditBuildId -----------------------------
(***************************************************************************)
(* editbuildid/editbuildid.c: find the build ID note of an ELF file and    *)
(* print it (-p) or overwrite it (-n).  The program is run again and again *)
(* on one file; any of its system calls may fail.                          *)
(*                                                                         *)
(* A file is [ehdr, ph, sh, data]: whether its ELF header is one the       *)
(* program accepts, the program and section header tables, and the note    *)
(* regions they refer to.  Class and byte order of the fields are left     *)
(* out; note sizes, offsets, padding and the 16-bit parameters they go     *)
(* through are not.                                                        *)
(***************************************************************************)
EXTENDS Integers, Sequences

CONSTANTS
  Files,             \* the files the program is run on
  NewIds,            \* values of -n, as sequences of character codes
  MAX_BUILDID_SIZE,
  UINT16             \* 2^16

IsSequence(s) == s \in Seq({s[k] : k \in DOMAIN s})

\* The records that stand for notes.  What others than build IDs of admissible size
\* hold is left out; the name behind "GNU" is taken to fit its 16-bit parameter.
IsNote(n) ==
  /\ n = [kind |-> n.kind, namesz |-> n.namesz, descsz |-> n.descsz, desc |-> n.desc]
  /\ n.namesz \in Nat /\ n.descsz \in Nat
  /\ n.desc \in Seq(0 .. 255)
  /\ n.kind = "buildid" => /\ n.namesz < UINT16
                           /\ n.descsz <= MAX_BUILDID_SIZE => Len(n.desc) = n.descsz

\* The records that stand for files.
IsElf(f) ==
  /\ DOMAIN f = {"ehdr", "ph", "sh", "data"}
  /\ f.ehdr \in BOOLEAN
  /\ f.data = [r \in DOMAIN f.data |-> f.data[r]]
  /\ \A t \in {f.ph, f.sh} :
       IsSequence(t) /\ \A e \in DOMAIN t : t[e].note \in BOOLEAN
                                          /\ (t[e].note => t[e].at \in DOMAIN f.data)
  /\ \A r \in DOMAIN f.data :
       IsSequence(f.data[r]) /\ \A k \in DOMAIN f.data[r] : IsNote(f.data[r][k])

ASSUME EditBuildIdAssumption ==
  /\ MAX_BUILDID_SIZE \in Nat
  /\ UINT16 \in Nat \ {0}
  /\ \A f \in Files : IsElf(f)
  /\ \A h \in NewIds : h \in Seq(0 .. 255)

NHDR == 12  \* sizeof(Elf64_Nhdr)

VARIABLES
  file,
  args,      \* [print, isnew, hex]
  pc,
  tbl,       \* which table find_build_id is searching: "ph" or "sh"
  start,     \* index in that table, from 1
  pos,       \* nhdr - data
  rv,
  info,      \* struct buildid_info: the region and offset of the bytes, their number
  out,       \* what -p printed
  status,    \* exit status
  warned,    \* the oversize message was printed
  astray,    \* history: the walk of this run went inside a description
  before,    \* history: the file when this run of the program began
  fault,     \* history: a system call of this run failed or fell short
  garbage,   \* history: an uninitialized rv other than 0 was returned
  acked      \* history: the last -n that was carried out, <<>> if unknown

searchVars == <<tbl, start, pos, info, warned, astray, garbage>>
resultVars == <<out, status, acked>>
vars == <<file, args, pc, rv, searchVars, resultVars, before, fault>>

-----------------------------------------------------------------------------
(* Helpers.                                                                *)

pad4(val) == 4 * ((val + 3) \div 4)

\* The sizes are uint16_t parameters.
note_desc(nhdr, namesz) == nhdr + NHDR + pad4(namesz % UINT16)

next_note(nhdr, namesz, descsz) ==
  nhdr + NHDR + pad4(namesz % UINT16) + pad4(descsz % UINT16)

nibble_to_hex(n) == IF n < 10 THEN 48 + n ELSE 97 + n - 10

IsHex(c) == c \in (48 .. 57) \cup (97 .. 102) \cup (65 .. 70)

\* Mutant: off by one in the upper case digits.
hex_to_nibble_Upper(c) ==
  IF c <= 57 THEN c - 48 ELSE IF c >= 97 THEN c - 97 + 10 ELSE c - 65 + 9

hex_to_nibble(c) ==
  IF c <= 57 THEN c - 48 ELSE IF c >= 97 THEN c - 97 + 10 ELSE c - 65 + 10

to_hex(data) ==
  [k \in 1 .. 2 * Len(data) |->
     LET byte == data[(k + 1) \div 2]
     IN nibble_to_hex(IF k % 2 = 1 THEN byte \div 16 ELSE byte % 16)]

\* from_hex returns a result; its length is even.
FromHexOK(hex) == Len(hex) % 2 = 0 /\ \A k \in DOMAIN hex : IsHex(hex[k])

from_hex(hex) ==
  [k \in 1 .. Len(hex) \div 2 |->
     hex_to_nibble(hex[2 * k - 1]) * 16 + hex_to_nibble(hex[2 * k])]

\* Where the k-th note of a region really begins, and where the region ends.
NoteStart(notes, k) ==
  LET begin[j \in 1 .. Len(notes) + 1] ==
        IF j = 1 THEN 0
        ELSE begin[j - 1] + NHDR + pad4(notes[j - 1].namesz) + pad4(notes[j - 1].descsz)
  IN begin[k]

RegionLen(notes) == NoteStart(notes, Len(notes) + 1)

\* The notes whose header is at byte p.
NotesAt(notes, p) == {k \in DOMAIN notes : NoteStart(notes, k) = p}

-----------------------------------------------------------------------------
(* main, and the ELF header.                                               *)

Init ==
  /\ file \in Files
  /\ args = [print |-> FALSE, isnew |-> FALSE, hex |-> <<>>]
  /\ pc = "exit"
  /\ tbl = "ph" /\ start = 1 /\ pos = 0 /\ rv = 0
  /\ info = [at |-> 0, offset |-> 0, size |-> 0]
  /\ out = <<>> /\ status = 0
  /\ warned = FALSE /\ astray = FALSE
  /\ before = file
  /\ fault = FALSE /\ garbage = FALSE
  /\ acked = <<>>

\* Run the program: check the options and open the file.
main(a) ==
  /\ pc = "exit"
  /\ args' = a
  /\ before' = file
  /\ rv' = 0
  /\ info' = [at |-> 0, offset |-> 0, size |-> 0]
  /\ warned' = FALSE /\ astray' = FALSE /\ garbage' = FALSE
  /\ out' = <<>>
  /\ \/ /\ a.print = a.isnew
        /\ pc' = "exit" /\ status' = 1 /\ fault' = FALSE
     \/ /\ a.print # a.isnew
        /\ pc' = "exit" /\ status' = 1 /\ fault' = TRUE   \* open fails
     \/ /\ a.print # a.isnew
        /\ pc' = "ehdr" /\ fault' = FALSE
        /\ UNCHANGED status
  /\ UNCHANGED <<file, tbl, start, pos, acked>>

exit(s) == pc' = "exit" /\ status' = s

find_build_id ==
  /\ pc = "ehdr"
  /\ \/ /\ file.ehdr
        /\ tbl' = "ph" /\ pc' = "table"
        /\ UNCHANGED <<rv, fault>>
     \/ /\ ~file.ehdr                   \* not an ELF file, class or encoding unknown
        /\ rv' = -1 /\ pc' = "result"
        /\ UNCHANGED <<tbl, fault>>
     \/ /\ rv' = -1 /\ pc' = "result"   \* read fails
        /\ fault' = TRUE
        /\ UNCHANGED tbl
  /\ UNCHANGED <<file, args, start, pos, info, warned, astray, garbage, resultVars, before>>

\* find_buildid_phdr or find_buildid_shdr returns v to find_build_id.
return(v) ==
  IF v = 0 /\ tbl = "ph" THEN tbl' = "sh" /\ pc' = "table" /\ rv' = v
                         ELSE pc' = "result" /\ rv' = v /\ UNCHANGED tbl

-----------------------------------------------------------------------------
(* find_buildid_phdr and find_buildid_shdr: the same code for two tables.  *)

Table(f, t) == IF t = "ph" THEN f.ph ELSE f.sh
table == Table(file, tbl)

\* rv is not set here.
fetch_table ==
  /\ pc = "table"
  /\ start' = 1
  /\ \/ /\ table = <<>>
        /\ return(0)
        /\ UNCHANGED fault
     \/ /\ table # <<>>                 \* fetch_data fails
        /\ return(-1)
        /\ fault' = TRUE
     \/ /\ table # <<>>
        /\ pc' = "scan"
        /\ UNCHANGED <<tbl, rv, fault>>
  /\ UNCHANGED <<file, args, pos, info, warned, astray, garbage, resultVars, before>>

\* Mutant: the search resumes at the entry after the next.
NotesFrom_Skip(s) == {k \in DOMAIN table : k > s /\ table[k].note}

\* The note entries from s on.
NotesFrom(s) == {k \in DOMAIN table : k >= s /\ table[k].note}

find_notes ==
  /\ pc = "scan"
  /\ \E k \in NotesFrom(start) :
       /\ \A j \in NotesFrom(start) : k <= j
       /\ start' = k
       /\ pc' = "fetch"
  /\ UNCHANGED <<file, args, tbl, pos, rv, info, warned, astray, garbage, resultVars, before,
                 fault>>

\* No note entry is left.  rv is that of the last one; if there was none it was
\* never assigned and holds anything.
no_more_notes ==
  /\ pc = "scan"
  /\ NotesFrom(start) = {}
  /\ IF NotesFrom(1) = {}
     THEN \E v \in {-1, 0, 1} : return(v) /\ garbage' = (v # 0)
     ELSE return(0) /\ UNCHANGED garbage
  /\ UNCHANGED <<file, args, start, pos, info, warned, astray, resultVars, before, fault>>

-----------------------------------------------------------------------------
(* find_buildid: walk the notes of one region.                             *)

region == file.data[table[start].at]

fetch_notes ==
  /\ pc = "fetch"
  /\ \/ /\ pos' = 0 /\ pc' = "notes"
        /\ UNCHANGED <<tbl, rv, fault>>
     \/ /\ return(-1)                   \* fetch_data fails
        /\ fault' = TRUE
        /\ UNCHANGED pos
  /\ UNCHANGED <<file, args, start, info, warned, astray, garbage, resultVars, before>>

\* The note at pos.
AtNote == pc = "notes" /\ pos < RegionLen(region) /\ NotesAt(region, pos) # {}
note == region[CHOOSE k \in NotesAt(region, pos) : TRUE]

\* Not the build ID note: its name or its type is another.
other_note ==
  /\ AtNote
  /\ note.kind # "buildid"
  /\ pos' = next_note(pos, note.namesz, note.descsz)
  /\ UNCHANGED <<file, args, pc, tbl, start, rv, info, warned, astray, garbage, resultVars,
                 before, fault>>

\* "skipping": the loop continues, with the same note.
oversize_note ==
  /\ AtNote
  /\ note.kind = "buildid"
  /\ note.descsz > MAX_BUILDID_SIZE
  /\ warned' = TRUE
  /\ UNCHANGED <<file, args, pc, tbl, start, pos, rv, info, astray, garbage, resultVars,
                 before, fault>>

buildid_note ==
  /\ AtNote
  /\ note.kind = "buildid"
  /\ note.descsz <= MAX_BUILDID_SIZE
  /\ info' = [at |-> table[start].at, offset |-> note_desc(pos, note.namesz),
              size |-> note.descsz]
  /\ return(1)
  /\ UNCHANGED <<file, args, start, pos, warned, astray, garbage, resultVars, before, fault>>

\* Mutant: the same entry is searched again.
NextEntry_Same(s) == s

NextEntry(s) == s + 1

\* Not found in this region: go on with the next entry.
end_notes ==
  /\ pc = "notes"
  /\ pos >= RegionLen(region)
  /\ rv' = 0
  /\ start' = NextEntry(start)
  /\ pc' = "scan"
  /\ UNCHANGED <<file, args, tbl, pos, info, warned, astray, garbage, resultVars, before,
                 fault>>

\* The walk is inside a description, as a size was cut: what it takes for the headers
\* of notes is whatever is there.  It is not followed where a header, name or build ID
\* is only partly inside a description, or is made of the bytes of a build ID or of those
\* behind the region.
Astray ==
  /\ pc = "notes"
  /\ pos < RegionLen(region) /\ NotesAt(region, pos) = {}

\* It passes over some of them and comes to a real header, or to the end.
stray_on ==
  /\ Astray /\ ~warned
  /\ pos' \in {NoteStart(region, k) : k \in 1 .. Len(region) + 1}
  /\ pos' > pos
  /\ astray' = TRUE /\ acked' = <<>>
  /\ UNCHANGED <<file, args, pc, tbl, start, rv, info, warned, garbage, out, status, before,
                 fault>>

\* The places where it can find a header and the name GNU, and s bytes behind them, in
\* the description of the k-th note.
FalseNotes(k, s) ==
  LET begin == NoteStart(region, k) + NHDR + pad4(region[k].namesz)
  IN {p \in {pos, begin} : /\ region[k].kind # "buildid"
                           /\ p >= pos /\ p >= begin
                           /\ p + NHDR + 4 + s <= begin + region[k].descsz}

\* Bytes that read like a build ID note, of the size of the new ID or of another.
stray_misread ==
  /\ Astray /\ ~warned
  /\ \E k \in DOMAIN region, s \in {Len(args.hex) \div 2, MAX_BUILDID_SIZE} :
       /\ s <= MAX_BUILDID_SIZE
       /\ \E p \in FalseNotes(k, s) :
            info' = [at |-> table[start].at, offset |-> note_desc(p, 4), size |-> s]
  /\ return(1)
  /\ astray' = TRUE /\ acked' = <<>>
  /\ UNCHANGED <<file, args, start, pos, warned, garbage, out, status, before, fault>>

\* The same, with a size above the maximum.
stray_oversize ==
  /\ Astray
  /\ \E k \in DOMAIN region : FalseNotes(k, 0) # {}
  /\ warned' = TRUE
  /\ astray' = TRUE /\ acked' = <<>>
  /\ UNCHANGED <<file, args, pc, tbl, start, pos, rv, info, garbage, out, status, before, fault>>

\* It reads beyond the memory that holds the region.
stray_crash ==
  /\ Astray /\ ~warned
  /\ exit(139)
  /\ astray' = TRUE /\ acked' = <<>>
  /\ UNCHANGED <<file, args, rv, tbl, start, pos, info, warned, garbage, out, before, fault>>

-----------------------------------------------------------------------------
(* Back in main.                                                           *)

\* The notes whose description is at info, and the bytes there.
NotesHere(f) ==
  {k \in DOMAIN f.data[info.at] :
     NoteStart(f.data[info.at], k) + NHDR + pad4(f.data[info.at][k].namesz) = info.offset}

BytesHere(f) == f.data[info.at][CHOOSE k \in NotesHere(f) : TRUE].desc

not_found ==
  /\ pc = "result"
  /\ rv <= 0
  /\ exit(IF rv < 0 THEN 255 ELSE 0)
  /\ UNCHANGED <<file, args, rv, searchVars, out, acked, before, fault>>

\* With a garbage rv info.hex is a null pointer, printed as such; what a walk astray
\* took for a build ID is left out.
print_id ==
  /\ pc = "result"
  /\ rv > 0 /\ args.print
  /\ out' = IF garbage \/ NotesHere(file) = {} THEN <<>> ELSE to_hex(BytesHere(file))
  /\ exit(0)
  /\ UNCHANGED <<file, args, rv, searchVars, acked, before, fault>>

Acceptable == FromHexOK(args.hex) /\ Len(args.hex) \div 2 = info.size

refuse ==
  /\ pc = "result"
  /\ rv > 0 /\ args.isnew
  /\ ~Acceptable
  /\ exit(1)
  /\ UNCHANGED <<file, args, rv, searchVars, out, acked, before, fault>>

accept ==
  /\ pc = "result"
  /\ rv > 0 /\ args.isnew
  /\ Acceptable
  /\ pc' = "write"
  /\ UNCHANGED <<file, args, rv, searchVars, resultVars, before, fault>>

\* A description of which the first n bytes were replaced.
Patched(bytes, desc, n) == SubSeq(bytes, 1, n) \o SubSeq(desc, n + 1, Len(desc))

\* Mutant: the byte after the ID is written too.
Written_Long(f, bytes, n) ==
  LET notes == f.data[info.at]
  IN [f EXCEPT !.data[info.at] =
        [k \in DOMAIN notes |->
           IF k \in NotesHere(f) THEN [notes[k] EXCEPT !.desc = SubSeq(bytes, 1, n) \o <<0>>]
                                 ELSE notes[k]]]

\* The notes whose description has info inside.
NotesHolding(f) ==
  {k \in DOMAIN f.data[info.at] :
     LET begin == NoteStart(f.data[info.at], k) + NHDR + pad4(f.data[info.at][k].namesz)
     IN begin < info.offset /\ info.offset < begin + f.data[info.at][k].descsz}

\* The file after the first n of these bytes were written at info.  Of a description
\* whose contents are left out the bytes written are all there is.
Written(f, bytes, n) ==
  LET notes == f.data[info.at]
  IN [f EXCEPT !.data[info.at] =
        [k \in DOMAIN notes |->
           IF k \in NotesHere(f) THEN [notes[k] EXCEPT !.desc = Patched(bytes, @, n)]
           ELSE IF NotesHere(f) = {} /\ k \in NotesHolding(f)
                THEN [notes[k] EXCEPT !.desc = SubSeq(bytes, 1, n)]
                ELSE notes[k]]]

seek_fails ==
  /\ pc = "write"
  /\ fault' = TRUE
  /\ exit(255)
  /\ UNCHANGED <<file, args, rv, searchVars, out, acked, before>>

\* write() stores all bytes, or some, or fails: the result is 0 all the same.
write_new_buildid ==
  /\ pc = "write"
  /\ \E n \in 0 .. info.size :
       /\ file' = IF n = 0 THEN file ELSE Written(file, from_hex(args.hex), n)
       /\ fault' = (n < info.size)
       /\ acked' = IF n = info.size /\ ~astray THEN args.hex ELSE <<>>
  /\ exit(0)
  /\ UNCHANGED <<args, rv, searchVars, out, before>>

-----------------------------------------------------------------------------

Args ==
  {[print |-> p, isnew |-> FALSE, hex |-> <<>>] : p \in BOOLEAN} \cup
  {[print |-> p, isnew |-> TRUE, hex |-> h] : p \in BOOLEAN, h \in NewIds}

Step ==
  \/ find_build_id
  \/ fetch_table
  \/ find_notes
  \/ no_more_notes
  \/ fetch_notes
  \/ other_note
  \/ oversize_note
  \/ buildid_note
  \/ end_notes
  \/ stray_on
  \/ stray_misread
  \/ stray_oversize
  \/ stray_crash
  \/ not_found
  \/ print_id
  \/ refuse
  \/ accept
  \/ seek_fails
  \/ write_new_buildid

Next ==
  \/ \E a \in Args : main(a)
  \/ Step

Spec == Init /\ [][Next]_vars

\* A run that has begun goes on; nobody has to begin one.
FairSpec == Spec /\ WF_vars(Step)

-----------------------------------------------------------------------------
(* Properties.                                                             *)

\* The entries of a table that refer to notes, and the notes of one.
Noted(f, t) == {e \in DOMAIN Table(f, t) : Table(f, t)[e].note}
NotesOf(f, t, e) == f.data[Table(f, t)[e].at]

\* The notes that are a build ID of admissible size.
BuildIds(notes) ==
  {k \in DOMAIN notes : notes[k].kind = "buildid" /\ notes[k].descsz <= MAX_BUILDID_SIZE}

NoBuildId(f, t) == \A e \in Noted(f, t) : BuildIds(NotesOf(f, t, e)) = {}

\* No build ID comes before the k-th note of entry e in table t: program headers are
\* searched before section headers.
NothingBefore(f, t, e, k) ==
  /\ t = "sh" => NoBuildId(f, "ph")
  /\ \A d \in Noted(f, t) : d < e => BuildIds(NotesOf(f, t, d)) = {}
  /\ \A j \in BuildIds(NotesOf(f, t, e)) : k <= j

\* No size is cut by its 16-bit parameter.
Fits16(f) ==
  \A r \in DOMAIN f.data : \A k \in DOMAIN f.data[r] :
    f.data[r][k].namesz < UINT16 /\ f.data[r][k].descsz < UINT16

\* The result is the first build ID note there is in either table, with the place and
\* the number of its bytes, or that there is none.
ResultRight ==
  \/ rv = 0 /\ NoBuildId(file, "ph") /\ NoBuildId(file, "sh")
  \/ /\ rv = 1
     /\ \E t \in {"ph", "sh"} : \E e \in Noted(file, t) :
          \E k \in BuildIds(NotesOf(file, t, e)) :
            /\ NothingBefore(file, t, e, k)
            /\ info.at = Table(file, t)[e].at
            /\ NotesHere(file) = {k}
            /\ info.size = Len(NotesOf(file, t, e)[k].desc)

\* The variable rv of find_buildid_phdr or find_buildid_shdr was returned without ever
\* being assigned: the table has entries, but none that refers to notes.
Unassigned ==
  /\ garbage /\ rv # 0 /\ info.size = 0
  /\ table # <<>> /\ Noted(file, tbl) = {}
  /\ tbl = "sh" => NoBuildId(file, "ph")

\* In an ELF file none of whose sizes is cut to 16 bits the search, unless a system call
\* fails, yields the first build ID note of either table, program headers before section
\* headers, and reports none only when there is none.  The one exception: in a table
\* with entries but no notes, which it has come to without passing a build ID, it may
\* return an rv that was never assigned, with no bytes found.
FindsFirst ==
  pc = "result" /\ file.ehdr /\ ~fault /\ Fits16(file) => ResultRight \/ Unassigned

\* All of a file but its regions.
Headers(f) == [f EXCEPT !.data = 0]

\* Two notes that differ in their bytes at most.
DescOnly(now, was) == now = [was EXCEPT !.desc = now.desc]

\* Nothing of the file has changed in this run but the bytes of the build ID found, and
\* no size, so that no note has moved.
OnlyIdOverwritten ==
  /\ Headers(file) = Headers(before)
  /\ DOMAIN file.data = DOMAIN before.data
  /\ \A r \in DOMAIN file.data :
       /\ DOMAIN file.data[r] = DOMAIN before.data[r]
       /\ \A k \in DOMAIN file.data[r] :
            LET now == file.data[r][k]
                was == before.data[r][k]
            IN /\ DescOnly(now, was)
               /\ Len(now.desc) = Len(was.desc)
               /\ now # was => r = info.at /\ k \in NotesHere(file)

\* Whatever call fails, a run whose walk did not go inside a description changes nothing
\* of the file but the bytes of the build ID found.  A run that reports failure, or only
\* prints, leaves even those as they were, wherever its walk went.  (With -n a walk that
\* went astray may end in overwriting bytes of a description.)
OnlyBuildIdEdited ==
  /\ ~astray => OnlyIdOverwritten
  /\ pc = "exit" /\ (status # 0 \/ args.print) => file = before

\* The same digits in lower case.
LowerCase(hex) == [k \in DOMAIN hex |-> IF hex[k] \in 65 .. 70 THEN hex[k] + 32 ELSE hex[k]]

\* What -p prints of a build ID note reads back as the bytes in the file, and after an
\* -n that was carried out it is that value, whichever case its digits had.  What -p
\* prints when it was misled, by an unassigned rv or a walk astray, is left out.
PrintShowsWritten ==
  pc = "exit" /\ args.print /\ out # <<>> =>
    /\ FromHexOK(out)
    /\ from_hex(out) = BytesHere(file)
    /\ acked # <<>> => out = LowerCase(acked)

HasOversize(f) ==
  \E r \in DOMAIN f.data : \E k \in DOMAIN f.data[r] :
    f.data[r][k].kind = "buildid" /\ f.data[r][k].descsz > MAX_BUILDID_SIZE

\* Every run ends, for a file whose build IDs have an admissible size, unless its walk
\* goes inside a description and there takes something for a build ID that is too large.
Returns == (pc # "exit" /\ ~HasOversize(file)) ~> (pc = "exit" \/ (astray /\ warned))

\* editbuildid.c:238 announces a build ID "of large size %"PRIu32", skipping": the
\* search goes on behind it, so that every run ends.
OversizeIsSkipped == (pc # "exit") ~> (pc = "exit")

=============================================================================
