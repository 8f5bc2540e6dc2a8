------------------------------- MODULE Dumpphys -------------------------------
(***************************************************************************)
(* vmcoreinfo/dumpphys.c: walk the page frames that a vmcore has, range by *)
(* range, and write out each page (dump_page), or the vmcoreinfo found in  *)
(* it (check_vmcoreinfo).  libkdumpfile and write() are external: a page   *)
(* may be unreadable, a write may fail or fall short.                      *)
(*                                                                         *)
(* A page is [present, ok, marks, spills]: whether the vmcore has it,      *)
(* whether kdump_read can read it, where an "OSRELEASE=" begins in it, and *)
(* whether the string that begins with the last of them runs on into the   *)
(* next frame.  A page is PAGE units long and a marker MARK of them.       *)
(***************************************************************************)
EXTENDS Integers, Sequences, FiniteSets

\* A unit of what the output file held before.
Old == <<"old">>

CONSTANTS
  Dumps,   \* the vmcores of this instance: functions from frames to pages
  Outputs, \* what the file given to -o may hold before
  PAGE,
  MARK

ASSUME DumpphysAssumption ==
  /\ PAGE \in Nat \ {0} /\ MARK \in 1 .. PAGE
  /\ \A d \in Dumps :
       /\ Cardinality(DOMAIN d) \in Nat /\ DOMAIN d = 0 .. Cardinality(DOMAIN d) - 1
       /\ \A p \in DOMAIN d : d[p].marks \subseteq 0 .. PAGE - 1
                              /\ {d[p].present, d[p].ok, d[p].spills} \subseteq BOOLEAN
  /\ \A o \in Outputs : o \in Seq({Old})

VARIABLES
  dump,
  args,        \* [op, cont, flexible, persist]: -i or -I, -I, -f, -p
  pc,
  addr,        \* where the search for the next range starts
  offset,      \* the frame of the present range that is next
  end,         \* the first frame after it
  out, woff,   \* the output file, and the offset in it
  found_count,
  rv,          \* result of the page function, then of count_pages
  status,
  said,        \* the summary main prints: "", "found", or "none"
  short        \* history: a write of check_vmcoreinfo failed, or any fell short

argVars == <<dump, args>>
rangeVars == <<addr, offset, end>>
outVars == <<out, woff, short>>
vars == <<argVars, pc, rangeVars, outVars, found_count, rv, status, said>>

Options == [op : {"dump_page", "check_vmcoreinfo"}, cont : BOOLEAN, flexible : BOOLEAN,
            persist : BOOLEAN]

\* What is written of a page, of the string at a marker, and of the memory behind
\* the page buffer.
PageData(p) == [k \in 1 .. PAGE |-> <<"page", p, k>>]
Info(p, o) == <<"info", p, o>>
Beyond == <<"beyond">>
Dashes == << <<"---">> >>

Init ==
  /\ dump \in Dumps
  /\ args \in {a \in Options : a.cont => a.op = "check_vmcoreinfo"}
  /\ out \in Outputs
  /\ pc = "start"
  /\ addr = 0 /\ offset = 0 /\ end = 0
  /\ woff = 0 /\ short = FALSE
  /\ found_count = 0
  /\ rv = 0
  /\ status = 0
  /\ said = ""

exit(s) == pc' = "exit" /\ status' = s

\* The output file, opened without O_TRUNC, after s was written at woff.
Overwritten(s) ==
  LET last == IF woff + Len(s) > Len(out) THEN woff + Len(s) ELSE Len(out)
  IN [k \in 1 .. last |-> IF k \in woff + 1 .. woff + Len(s) THEN s[k - woff] ELSE out[k]]

\* write() of s and then of t, each of which may move only some of it.
write(s, t) ==
  \E n \in 0 .. Len(s), m \in 0 .. Len(t) :
    LET moved == SubSeq(s, 1, n) \o SubSeq(t, 1, m)
    IN /\ out' = Overwritten(moved)
       /\ woff' = woff + n + m
       /\ short' = (short \/ n < Len(s) \/ m < Len(t))

-----------------------------------------------------------------------------
(* main up to count_pages: any of its calls may fail.                      *)

main ==
  /\ pc = "start"
  /\ \/ pc' = "find" /\ UNCHANGED status
     \/ exit(1)
  /\ UNCHANGED <<argVars, rangeVars, outVars, found_count, rv, said>>

-----------------------------------------------------------------------------
(* count_pages.                                                            *)

Present(p) == p \in DOMAIN dump /\ dump[p].present

no_more_ranges ==
  /\ pc = "find"
  /\ \A p \in DOMAIN dump : p >= addr => ~Present(p)
  /\ pc' = "report"
  /\ rv' = 0
  /\ UNCHANGED <<argVars, rangeVars, outVars, found_count, status, said>>

\* The first present frame from addr on, and the first absent one after it.
next_range ==
  /\ pc = "find"
  /\ \E b \in DOMAIN dump :
       /\ b >= addr /\ Present(b) /\ \A p \in addr .. b - 1 : ~Present(p)
       /\ \E n \in DOMAIN dump :
            /\ ~Present(b + n + 1) /\ \A p \in b .. b + n : Present(p)
            /\ offset' = b /\ end' = b + n + 1 /\ addr' = b + n + 1
  /\ pc' = "pages"
  /\ UNCHANGED <<argVars, outVars, found_count, rv, status, said>>

\* The library cannot tell.
bitmap_fails ==
  /\ pc = "find"
  /\ exit(1)
  /\ UNCHANGED <<argVars, rangeVars, outVars, found_count, rv, said>>

range_done ==
  /\ pc = "pages"
  /\ offset = end
  /\ pc' = "find"
  /\ UNCHANGED <<argVars, rangeVars, outVars, found_count, rv, status, said>>

\* Mutant: with -p an unreadable page is tried again.
Passed_Again(p) == p

\* The frame after one that was dealt with.
Passed(p) == p + 1

\* Only with -p does an unreadable page not end the program.
read_fails ==
  /\ pc = "pages"
  /\ offset < end
  /\ ~dump[offset].ok
  /\ IF args.persist THEN offset' = Passed(offset) /\ UNCHANGED <<pc, status>>
                     ELSE exit(1) /\ UNCHANGED offset
  /\ UNCHANGED <<argVars, addr, end, outVars, found_count, rv, said>>

\* A page is read and handed to the page function op.
Page(op) ==
  /\ pc = "pages"
  /\ args.op = op
  /\ offset < end
  /\ dump[offset].ok

\* What count_pages does with the result v of the page function.
return(v) ==
  /\ rv' = v
  /\ IF v < 0 THEN pc' = "report" /\ UNCHANGED offset
              ELSE offset' = offset + 1 /\ UNCHANGED pc

-----------------------------------------------------------------------------
(* dump_page.                                                              *)

\* Only a failing write is noticed.
dump_page ==
  /\ Page("dump_page")
  /\ \/ write(PageData(offset), <<>>) /\ return(0)
     \/ return(-1) /\ UNCHANGED outVars
  /\ UNCHANGED <<argVars, addr, end, found_count, status, said>>

-----------------------------------------------------------------------------
(* check_vmcoreinfo.                                                       *)

\* Whether the marker lies inside the page, where strncmp or memmem sees it.
Seen(marks) == {o \in marks : o + MARK <= PAGE}

Marks == dump[offset].marks

\* The markers the search looks at in the page that was read.
Hits == IF args.flexible THEN Seen(Marks) ELSE Seen(Marks) \cap {0}

\* memmem finds the first.
First(markers) == CHOOSE o \in markers : \A q \in markers : o <= q

Hit == First(Hits)

\* The string at marker o of frame p ends in a later frame.
RunsOn(p, o) == dump[p].spills /\ \A q \in dump[p].marks : q <= o

no_vmcoreinfo ==
  /\ Page("check_vmcoreinfo")
  /\ Hits = {}
  /\ return(0)
  /\ UNCHANGED <<argVars, addr, end, outVars, found_count, status, said>>

\* Mutant: the search goes on after a hit whether or not -I asks for it.
Reported_GoOn(s) == write(s, IF args.cont THEN Dashes ELSE <<>>) /\ return(0)

\* The string, then with -I a line of dashes.
Reported(s) ==
  IF args.cont THEN write(s, Dashes) /\ return(0) ELSE write(s, <<>>) /\ return(-1)

\* Mutant: the hit is not counted.
Counted_Not == found_count

Counted == found_count + 1

page_begins_with_vmcoreinfo ==
  /\ Page("check_vmcoreinfo")
  /\ ~args.flexible
  /\ Hits # {}
  /\ ~RunsOn(offset, Hit)
  /\ Reported(<<Info(offset, Hit)>>)
  /\ found_count' = Counted
  /\ UNCHANGED <<argVars, addr, end, status, said>>

\* If the string runs on, strlen runs out of the page buffer: what it meets there
\* is written too, or the program crashes.
page_overrun ==
  /\ Page("check_vmcoreinfo")
  /\ ~args.flexible
  /\ Hits # {}
  /\ RunsOn(offset, Hit)
  /\ \/ /\ Reported(<<Info(offset, Hit), Beyond>>)
        /\ found_count' = Counted
        /\ UNCHANGED status
     \/ /\ exit(139)
        /\ UNCHANGED <<outVars, found_count, rv, offset>>
  /\ UNCHANGED <<argVars, addr, end, said>>

\* kdump_read_string follows the string into the next frame, if that can be read.
Readable(o) == RunsOn(offset, o) => Present(offset + 1) /\ dump[offset + 1].ok

\* found_count is not touched.
page_contains_vmcoreinfo ==
  /\ Page("check_vmcoreinfo")
  /\ args.flexible
  /\ Hits # {}
  /\ Readable(Hit)
  /\ Reported(<<Info(offset, Hit)>>)
  /\ UNCHANGED <<argVars, addr, end, found_count, status, said>>

\* A string that cannot be read ends the search, in spite of -I and -p.
read_string_fails ==
  /\ Page("check_vmcoreinfo")
  /\ args.flexible
  /\ Hits # {}
  /\ ~Readable(Hit)
  /\ return(-1)
  /\ UNCHANGED <<argVars, addr, end, outVars, found_count, status, said>>

-----------------------------------------------------------------------------
(* The end of main.                                                        *)

report ==
  /\ pc = "report"
  /\ said' = IF args.op = "dump_page" THEN ""
             ELSE IF found_count > 1 THEN "found"
             ELSE IF rv = 0 /\ found_count = 0 THEN "none" ELSE ""
  /\ exit(IF rv # 0 THEN 1 ELSE 0)
  /\ UNCHANGED <<argVars, rangeVars, outVars, found_count, rv>>

Next ==
  \/ main
  \/ no_more_ranges
  \/ next_range
  \/ bitmap_fails
  \/ range_done
  \/ read_fails
  \/ dump_page
  \/ no_vmcoreinfo
  \/ page_begins_with_vmcoreinfo
  \/ page_overrun
  \/ page_contains_vmcoreinfo
  \/ read_string_fails
  \/ report

Spec == Init /\ [][Next]_vars

\* One process, whose calls return.
FairSpec == Spec /\ WF_vars(Next)

-----------------------------------------------------------------------------
(* Properties.                                                             *)

\* The frames that the vmcore has and kdump_read can read.
Reads(p) == Present(p) /\ dump[p].ok

\* The markers of frame p that the search is to see, and the first of them.
SeenIn(p) == {o \in Seen(dump[p].marks) : args.flexible \/ o = 0}

FirstSeen(p) ==
  IF SeenIn(p) = {} THEN <<>>
  ELSE <<Info(p, First(SeenIn(p)))>>

\* What follows that string: nothing, or without -f, if it runs on, what lies
\* behind the page buffer.
Excess(p) ==
  IF ~args.flexible /\ RunsOn(p, First(SeenIn(p))) THEN <<Beyond>> ELSE <<>>

\* What is to be written of frame p.
Wanted(p) ==
  IF ~Reads(p) THEN <<>>
  ELSE IF args.op = "dump_page" THEN PageData(p)
  ELSE IF SeenIn(p) = {} THEN <<>>
  ELSE (FirstSeen(p) \o Excess(p)) \o (IF args.cont THEN Dashes ELSE <<>>)

Frames == Cardinality(DOMAIN dump)

\* What the usage text promises of the first n frames: the pages' contents; the
\* first vmcoreinfo, or with -I one for each page that has one.  (It does not promise
\* Excess; that comes with a string that runs on all the same.)
PromisedOf(n) ==
  LET upto[m \in 0 .. Frames] ==
        IF m = 0 THEN <<>>
        ELSE IF args.op = "check_vmcoreinfo" /\ ~args.cont /\ upto[m - 1] # <<>>
        THEN upto[m - 1]
        ELSE upto[m - 1] \o Wanted(m - 1)
  IN upto[n]

Promised == PromisedOf(Frames)

\* Unless a write of check_vmcoreinfo failed or some write fell short, which nobody
\* notices, what was written is at every moment a beginning of what is promised:
\* frames in order, none twice, none left out between two.  Status 0 means all of
\* it, and that without -p every frame could be read.  In every run, a file that
\* held more than was written still holds the rest of it behind.
OutputExact ==
  /\ \A k \in woff + 1 .. Len(out) : out[k] = Old
  /\ ~short =>
       /\ woff <= Len(Promised) /\ SubSeq(out, 1, woff) = SubSeq(Promised, 1, woff)
       /\ pc = "exit" /\ status = 0 => SubSeq(out, 1, woff) = Promised
       /\ pc = "exit" /\ status = 0 /\ ~args.persist =>
            \A p \in DOMAIN dump : Present(p) => dump[p].ok

\* No readable page shows a marker to the search.
NothingToFind == \A p \in DOMAIN dump : Reads(p) => SeenIn(p) = {}

\* "could not find anything that looks like vmcoreinfo" is said of a vmcore only
\* when no readable page shows a marker, except with -I and -f together.
NoneMeansNone == said = "none" /\ ~(args.flexible /\ args.cont) => NothingToFind

\* The walk over the ranges ends, whatever pages cannot be read.
Terminates == <>(pc = "exit")

=============================================================================
