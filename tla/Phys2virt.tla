----------------------------- MODULE Phys2virt -----------------------------
(***************************************************************************)
(* elf/phys2virt.c: overwrite the virtual addresses in the program header  *)
(* table of a core, in place, with the physical ones or (-z) with zero.    *)
(* The program may be run again, after it was killed or a call failed.     *)
(* Addresses are two bytes: a write may stop inside one.                   *)
(***************************************************************************)
EXTENDS Vmcore

CONSTANTS
  HOST,      \* the byte order of the machine that runs it
  MaxRuns    \* bound: how often it is run

VARIABLES
  zero,      \* -z
  phnum, phdrs,
  ppc,
  runs,
  outcome,   \* history: the last run's, "whole" if all its bytes got into the file
  dumped     \* history: the file before the first run

p2vVars == <<zero, phnum, phdrs, ppc, runs, outcome, dumped>>

InitPhys2virt ==
  /\ zero = FALSE
  /\ phnum = 0 /\ phdrs = <<>>
  /\ ppc = "idle"
  /\ runs = 0
  /\ outcome = "none"

\* A run begins with its options, which are good.
phys2virt_main ==
  /\ ppc = "idle"
  /\ runs < MaxRuns
  /\ runs' = runs + 1
  /\ zero' \in BOOLEAN
  /\ outcome' = "none"
  /\ ppc' = "header"
  /\ UNCHANGED <<file, phnum, phdrs, dumped>>

\* The end of a run: memory is gone.
p2v_exit(o) == outcome' = o /\ ppc' = "idle" /\ phnum' = 0 /\ phdrs' = <<>>

\* Mutant: numbers are taken as they are stored.
Swapped_Never(b) == Number(HOST, b)

\* A number of the file's header in the host's order.
Swapped(b) == Number(HOST, IF HOST # file.data THEN <<b[2], b[1]>> ELSE b)

read_ehdr ==
  /\ ppc = "header"
  /\ IF file.ident = "elf64" /\ Swapped(file.e_phentsize) = PHENT
     THEN phnum' = Swapped(file.e_phnum) /\ ppc' = "phdrs" /\ UNCHANGED <<phdrs, outcome>>
     ELSE p2v_exit("refused")
  /\ UNCHANGED <<file, zero, runs, dumped>>

\* Fails when the file ends before the table does.
read_phdrs ==
  /\ ppc = "phdrs"
  /\ IF Swapped(file.e_phoff) = PhOff(file) /\ phnum <= Len(file.ph)
     THEN phdrs' = SubSeq(file.ph, 1, phnum) /\ ppc' = "write" /\ UNCHANGED <<phnum, outcome>>
     ELSE p2v_exit("refused")
  /\ UNCHANGED <<file, zero, runs, dumped>>

\* Mutant: the copy goes the other way.
Rewritten_Virt2phys(h) ==
  IF zero THEN [h EXCEPT !.vaddr = <<0, 0>>] ELSE [h EXCEPT !.paddr = h.vaddr]

\* A header as it is to be, of any type.
Rewritten(h) == [h EXCEPT !.vaddr = IF zero THEN <<0, 0>> ELSE h.paddr]

\* The first n address bytes of table new, then those of table was.
Torn(new, was, n) ==
  [k \in DOMAIN was |->
     IF 2 * k <= n THEN new[k]
     ELSE IF 2 * k - 1 = n THEN [new[k] EXCEPT !.vaddr = <<@[1], was[k].vaddr[2]>>]
     ELSE was[k]]

\* The buffered bytes reach the file up to the n-th.  When that is noticed in
\* fwrite the program fails; in fclose nobody looks: either way it ends.
write_phdrs ==
  /\ ppc = "write"
  /\ \E n \in 0 .. 2 * phnum :
       /\ file' = [file EXCEPT !.ph = Torn([k \in DOMAIN phdrs |-> Rewritten(phdrs[k])], @, n)]
       /\ p2v_exit(IF n = 2 * phnum THEN "whole" ELSE "torn")
  /\ UNCHANGED <<zero, runs, dumped>>

\* A call fails, or the program is killed.
p2v_fails ==
  /\ ppc # "idle"
  /\ p2v_exit("failed")
  /\ UNCHANGED <<file, zero, runs, dumped>>

phys2virt ==
  \/ phys2virt_main
  \/ read_ehdr
  \/ read_phdrs
  \/ write_phdrs
  \/ p2v_fails

=============================================================================
