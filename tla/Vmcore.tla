------------------------------- MODULE Vmcore -------------------------------
(***************************************************************************)
(* An ELF vmcore as phys2virt.c and editvmcoreinfo.c see it: [ident, data, *)
(* shdrs, e_phoff, e_phnum, e_phentsize, ph, body].  ident tells 64-bit    *)
(* ELF from the rest, data is its byte order, shdrs whether it has section *)
(* headers.  The next three are numbers as stored, two bytes in the file's *)
(* order.  ph is the table of program headers, body all bytes: a byte is a *)
(* record with a field t, and the whole table is one byte "ph".            *)
(***************************************************************************)
EXTENDS Integers, Sequences

VARIABLE file

\* sizeof(Elf64_Phdr)
PHENT == 56

\* The number that two bytes stand for, and the bytes that stand for a number.
Number(order, b) == IF order = "LSB" THEN b[1] + 256 * b[2] ELSE b[2] + 256 * b[1]
Stored(order, n) ==
  IF order = "LSB" THEN <<n % 256, n \div 256>> ELSE <<n \div 256, n % 256>>

PhOff(f) == Number(f.data, f.e_phoff)

\* The bytes from offset o on, n of them; Gone where the file has no more.
Gone == [t |-> "gone"]
Bytes(body, o, n) ==
  [k \in 1 .. n |-> IF o + k \in DOMAIN body THEN body[o + k] ELSE Gone]

\* The table is where the header says.
TableFound(f) == Bytes(f.body, PhOff(f), 1)[1].t = "ph"

IsSequence(s) == s \in Seq({s[k] : k \in DOMAIN s})

\* The byte that stands for the header of a note; vi tells whether it is VMCOREINFO's.
IsNoteHeader(h) ==
  /\ DOMAIN h = {"t", "vi", "namesz", "descsz"}
  /\ h.vi \in BOOLEAN
  /\ h.namesz \in Nat /\ h.descsz \in Nat

\* The records that stand for files: the table has as many entries as the header
\* says, or fewer where the file ends; sizes and offsets are unsigned.
IsVmcore(f) ==
  /\ DOMAIN f = {"ident", "data", "shdrs", "e_phoff", "e_phnum", "e_phentsize", "ph", "body"}
  /\ f.data \in {"LSB", "MSB"}
  /\ \A b \in {f.e_phoff, f.e_phnum, f.e_phentsize} : b \in (0 .. 255) \X (0 .. 255)
  /\ TableFound(f)
  /\ IsSequence(f.ph)
  /\ Len(f.ph) <= Number(f.data, f.e_phnum)
  /\ \A k \in DOMAIN f.ph :
       /\ DOMAIN f.ph[k] = {"type", "vaddr", "paddr", "offset", "filesz", "memsz"}
       /\ f.ph[k].offset \in Nat /\ f.ph[k].filesz \in Nat
  /\ IsSequence(f.body)
  /\ \A k \in DOMAIN f.body : f.body[k].t = "hdr" => IsNoteHeader(f.body[k])

=============================================================================
