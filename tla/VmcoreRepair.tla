---------------------------- MODULE VmcoreRepair ----------------------------
(***************************************************************************)
(* The repair of a bad vmcore that vmcoreinfo/README.md describes: find    *)
(* the true vmcoreinfo with findvmcoreinfo.py, set the addresses right     *)
(* with phys2virt, and put the vmcoreinfo in place with editvmcoreinfo,    *)
(* one program after the other on the same file, each of which may fail.   *)
(* editvmcoreinfo is also run alone.                                       *)
(***************************************************************************)
EXTENDS EditVmcoreinfo, Phys2virt, FindVmcoreinfo

CONSTANT Dumps   \* the vmcores to be repaired

ASSUME VmcoreRepairAssumption ==
  /\ \A f \in Dumps : IsVmcore(f)
  /\ HOST \in {"LSB", "MSB"}

repairVars == <<vars, p2vVars, findVars>>

RepairInit ==
  /\ InitPhys2virt
  /\ InitEdit
  /\ InitFind
  /\ file \in Dumps
  /\ newlen = 0
  /\ pc = "idle"
  /\ orig = file
  /\ dumped = file

\* Nothing was repaired before.
AloneInit ==
  /\ Init
  /\ InitPhys2virt
  /\ text = <<>> /\ sent = 0 /\ pipe = <<>> /\ strings = "no"
  /\ got = <<>> /\ buf = <<>> /\ blocks = <<>>
  /\ output = None
  /\ hpc = "over"
  /\ dumped = file

\* The hunt is over; only its output is left.
prompt ==
  /\ hpc = "end"
  /\ strings # "running"
  /\ hpc' = "over"
  /\ text' = <<>> /\ sent' = 0 /\ strings' = "no" /\ blocks' = <<>>
  /\ UNCHANGED <<vars, p2vVars, pipe, got, buf, output>>

\* editvmcoreinfo VMCORE VMCOREINFO, with the file the hunt has written.
editvmcoreinfo ==
  /\ pc = "idle" /\ ppc = "idle"
  /\ hpc = "over"
  /\ output # None
  /\ newlen' = Len(output)
  /\ orig' = file
  /\ pc' = "start"
  /\ UNCHANGED <<file, phdr, notes_seg, vi_start, vi_end, newsize, tmp, cur, amt, status,
                 p2vVars, findVars>>

editRest == <<newlen, phdr, notes_seg, vi_start, vi_end, newsize, tmp, cur, amt, pc, status, orig>>

Repairing == hpc = "over" /\ pc = "idle"

RepairNext ==
  \/ hpc # "over" /\ findvmcoreinfo /\ UNCHANGED <<vars, p2vVars>>
  \/ prompt
  \/ Repairing /\ phys2virt /\ UNCHANGED <<editRest, findVars>>
  \/ editvmcoreinfo
  \/ Next /\ UNCHANGED <<p2vVars, findVars>>

(* The processes are scheduled; strings ends on its own or waits for the   *)
(* script to read; nobody has to start the next program.                   *)
RepairFairSpec ==
  /\ RepairInit \/ AloneInit
  /\ [][RepairNext]_repairVars
  /\ WF_repairVars(script /\ UNCHANGED <<vars, p2vVars>>)
  /\ WF_repairVars((strings_write \/ strings_exit) /\ UNCHANGED <<vars, p2vVars>>)
  /\ WF_repairVars(Step /\ UNCHANGED <<p2vVars, findVars>>)

-----------------------------------------------------------------------------
(* Properties.                                                             *)

\* Nothing but virtual addresses.
WithoutVaddr(f) == [f EXCEPT !.ph = [k \in DOMAIN @ |-> [@[k] EXCEPT !.vaddr = <<0, 0>>]]]

\* What phys2virt is for: 64-bit ELF of either byte order, with all its headers.
Suitable(f) ==
  /\ f.ident = "elf64"
  /\ Number(f.data, f.e_phentsize) = PHENT
  /\ Number(f.data, f.e_phnum) = Len(f.ph)

\* Through any sequence of runs of phys2virt that fail, tear the table or succeed,
\* with either option, the physical addresses and everything else in the file stay;
\* a run that gets all its bytes out leaves each address of the table as its option
\* says, whatever was torn before; and no suitable file is refused.
RunsHealTable ==
  Repairing =>
    /\ WithoutVaddr(file) = WithoutVaddr(dumped)
    /\ outcome = "whole" =>
         \A k \in DOMAIN file.ph :
           file.ph[k].vaddr = IF zero THEN <<0, 0>> ELSE dumped.ph[k].paddr
    /\ outcome = "refused" => ~Suitable(file)

\* The repair as a whole: when editvmcoreinfo ends well after a hunt, whatever
\* failed or was torn before, then in a vmcore of the usual layout the note holds as
\* many bytes as the hunt has saved and a terminator, the memory of the dump is all
\* there, at the same physical addresses, and if the last run of phys2virt got
\* through, at the virtual addresses it was asked for.
Repaired ==
  Succeeded /\ output # None /\ Conventional(dumped) /\ NotesInSegment(dumped) =>
    /\ \E o \in VmcoreinfoNotes(file) : file.body[o + 1].descsz = Len(output) + 1
    /\ \A k \in DOMAIN file.ph :
         LET now == file.ph[k]  was == dumped.ph[k]
         IN /\ now.paddr = was.paddr
            /\ outcome = "whole" => now.vaddr = IF zero THEN <<0, 0>> ELSE was.paddr
            /\ was.type = "load" =>
                 Bytes(file.body, now.offset, now.filesz) =
                 Bytes(dumped.body, was.offset, was.filesz)

=============================================================================
