--------------------------- MODULE FindVmcoreinfo ---------------------------
(***************************************************************************)
(* vmcoreinfo/findvmcoreinfo.py: strings writes the strings of a vmcore to *)
(* a pipe, each followed by a separator; the script reads blocks of a      *)
(* fixed size, cuts what it has at the separators, and saves the first     *)
(* piece that has all marks of a vmcoreinfo.  Either process may die.      *)
(* A mark is one byte here; so is everything else.                         *)
(***************************************************************************)
EXTENDS Integers, Sequences

CONSTANTS
  Byte,    \* what a string may hold
  Texts,   \* the strings of the vmcores of this instance
  SEP,     \* length of the separator, 4 in the code
  BS,      \* how much is read at once, 4096 in the code
  PIPE     \* capacity of the pipe

\* No output file: no byte is like this.
None == <<"no file">>

ASSUME FindVmcoreinfoAssumption ==
  /\ "|" \in Byte /\ "no file" \notin Byte
  /\ \A t \in Texts : t \in Seq(Seq(Byte))
  /\ SEP \in Nat \ {0} /\ BS \in Nat \ {0} /\ PIPE \in Nat

VARIABLES
  text,
  sent,       \* how many bytes strings has written
  pipe,
  strings,    \* the process: "no", "running", "exited", "killed"
  got,        \* what a read has got so far
  buf,
  blocks,     \* the pieces yielded
  output,     \* the output file, None when there is none
  hpc

findVars == <<text, sent, pipe, strings, got, buf, blocks, output, hpc>>

Marks == {"OSRELEASE=", "PAGESIZE=", "SYMBOL("}
Sep == [k \in 1 .. SEP |-> "|"]

\* All that strings will write.
Written(t) ==
  LET upto[n \in 0 .. Len(t)] == IF n = 0 THEN <<>> ELSE upto[n - 1] \o t[n] \o Sep
  IN upto[Len(t)]

Stream == Written(text)

InitFind ==
  /\ text \in Texts
  /\ sent = 0
  /\ pipe = <<>>
  /\ strings = "no"
  /\ got = <<>> /\ buf = <<>>
  /\ blocks = <<>>
  /\ output = None
  /\ hpc = "hunt"

-----------------------------------------------------------------------------
(* strings.                                                                *)

\* With nobody left to read, SIGPIPE.
strings_write ==
  /\ strings = "running"
  /\ sent < Len(Stream)
  /\ \/ /\ hpc # "end"
        /\ \E n \in 1 .. PIPE - Len(pipe) :
             /\ sent + n <= Len(Stream)
             /\ sent' = sent + n
             /\ pipe' = pipe \o SubSeq(Stream, sent + 1, sent + n)
        /\ UNCHANGED strings
     \/ /\ hpc = "end"
        /\ strings' = "killed"
        /\ UNCHANGED <<sent, pipe>>
  /\ UNCHANGED <<text, got, buf, blocks, output, hpc>>

strings_exit ==
  /\ strings = "running"
  /\ sent = Len(Stream)
  /\ strings' = "exited"
  /\ UNCHANGED <<text, sent, pipe, got, buf, blocks, output, hpc>>

\* It runs into an error, or somebody kills it; the script never asks.
strings_dies ==
  /\ strings = "running"
  /\ strings' = "killed"
  /\ UNCHANGED <<text, sent, pipe, got, buf, blocks, output, hpc>>

-----------------------------------------------------------------------------
(* The script.                                                             *)

\* The process is gone, and with it what it had in memory.
gone == hpc' = "end" /\ got' = <<>> /\ buf' = <<>> /\ pipe' = <<>>

Popen ==
  /\ hpc = "hunt"
  /\ strings' = "running"
  /\ hpc' = "read"
  /\ UNCHANGED <<text, sent, pipe, got, buf, blocks, output>>

\* read(bs) waits until it has bs bytes, or there will be no more.
read_wait ==
  /\ hpc = "read"
  /\ Len(got) < BS
  /\ \E n \in 1 .. BS - Len(got) :
       /\ n <= Len(pipe)
       /\ n = BS - Len(got) \/ n = Len(pipe)
       /\ got' = got \o SubSeq(pipe, 1, n)
       /\ pipe' = SubSeq(pipe, n + 1, Len(pipe))
  /\ UNCHANGED <<text, sent, strings, buf, blocks, output, hpc>>

\* Mutant: what is left of earlier reads is given up.
Extended_Fresh(data) == data

Extended(data) == buf \o data

\* Mutant: the end of the file is not noticed.
IsEof_Never(data) == FALSE

IsEof(data) == data = <<>>

read ==
  /\ hpc = "read"
  /\ Len(got) = BS \/ (pipe = <<>> /\ strings # "running")
  /\ IF IsEof(got) THEN hpc' = "last" /\ UNCHANGED buf
     ELSE hpc' = "split" /\ buf' = Extended(got)
  /\ got' = <<>>
  /\ UNCHANGED <<text, sent, pipe, strings, blocks, output>>

\* buf.find(sep): where separators begin in s.
Seps(s) == {o \in 1 .. Len(s) - SEP + 1 : SubSeq(s, o, o + SEP - 1) = Sep}
First(S) == CHOOSE o \in S : \A p \in S : o <= p

IsVmcoreinfo(block) == Marks \subseteq {block[k] : k \in DOMAIN block}

\* Hand out a piece, which main looks at before the generator goes on.
Yield(block, next) ==
  /\ blocks' = Append(blocks, block)
  /\ hpc' = IF IsVmcoreinfo(block) THEN "found" ELSE next

split ==
  /\ hpc = "split"
  /\ LET ix == First(Seps(buf))
     IN IF Seps(buf) = {} THEN hpc' = "read" /\ UNCHANGED <<buf, blocks>>
        ELSE /\ Yield(SubSeq(buf, 1, ix - 1), "split")
             /\ buf' = SubSeq(buf, ix + SEP, Len(buf))
  /\ UNCHANGED <<text, sent, pipe, strings, got, output>>

\* At the end of the file: what is left, if anything is.
last ==
  /\ hpc = "last"
  /\ IF buf # <<>> THEN Yield(buf, "terminate") ELSE hpc' = "terminate" /\ UNCHANGED blocks
  /\ UNCHANGED <<text, sent, pipe, strings, got, buf, output>>

\* Write the output; when that fails strings is not terminated.
save_output ==
  /\ hpc = "found"
  /\ LET string == blocks[Len(blocks)]
     IN \E n \in 0 .. Len(string) :
          /\ output' = SubSeq(string, 1, n)
          /\ IF n = Len(string) THEN hpc' = "terminate" /\ UNCHANGED <<got, buf, pipe>>
             ELSE gone
  /\ UNCHANGED <<text, sent, strings, blocks>>

terminate ==
  /\ hpc = "terminate"
  /\ strings' = IF strings = "running" THEN "killed" ELSE strings
  /\ gone
  /\ UNCHANGED <<text, sent, blocks, output>>

\* The script is killed, or a call of it fails.
script_dies ==
  /\ hpc # "end"
  /\ gone
  /\ UNCHANGED <<text, sent, strings, blocks, output>>

stringsProc == strings_write \/ strings_exit \/ strings_dies

script ==
  \/ Popen
  \/ read_wait
  \/ read
  \/ split
  \/ last
  \/ save_output
  \/ terminate

findvmcoreinfo == stringsProc \/ script \/ script_dies

-----------------------------------------------------------------------------
(* Properties.                                                             *)

\* The rest of s from o on, cut at its separators from the left, all at once.
CutFrom(s, o) ==
  LET Later(p) == {q \in Seps(s) : q >= p}
      from[p \in 1 .. Len(s) + 1] ==
        IF p > Len(s) THEN <<>>
        ELSE IF Later(p) = {} THEN <<SubSeq(s, p, Len(s))>>
        ELSE <<SubSeq(s, p, First(Later(p)) - 1)>> \o from[First(Later(p)) + SEP]
  IN from[o]

Cut(s) == CutFrom(s, 1)

Exhausted == hpc = "terminate" /\ output = None

\* However strings writes and the script reads, and wherever a read cuts a
\* separator, the pieces are those of the stream cut all at once, in order: none is
\* missing when the script says that there is no vmcoreinfo, and what it saves is
\* the first that looks like one, which is whole unless strings died.
BlocksExact ==
  LET pieces == Cut(SubSeq(Stream, 1, sent))
  IN /\ Len(blocks) <= Len(pieces) /\ SubSeq(pieces, 1, Len(blocks)) = blocks
     /\ Exhausted => blocks = pieces /\ \A k \in DOMAIN pieces : ~IsVmcoreinfo(pieces[k])
     /\ hpc = "found" =>
          /\ \A k \in 1 .. Len(blocks) - 1 : ~IsVmcoreinfo(blocks[k])
          /\ strings # "killed" => blocks[Len(blocks)] = Cut(Stream)[Len(blocks)]

\* Neither process waits for the other for ever: once the hunt has begun the script
\* ends, and so does strings, which may be stuck with a full pipe, also when the
\* script dies before it gets to terminate it.
HuntEnds == hpc = "hunt" ~> hpc = "end" /\ strings # "running"

=============================================================================
