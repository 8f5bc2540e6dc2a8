-------------------------- MODULE MCVmcoreRepair --------------------------
(* Model-checking instance of VmcoreRepair: alignment 2, note headers of   *)
(* two bytes, up to three notes and two memory segments of two bytes; a    *)
(* separator of two bytes.                                                 *)
EXTENDS VmcoreRepair

Data(x, n) == [k \in 1 .. n |-> [t |-> "data", x |-> x, k |-> k]]

\* Note number x, its description of d bytes padded.
Note(x, vi, d) ==
  <<[t |-> "hdr", vi |-> vi, namesz |-> x, descsz |-> d]>>
  \o [k \in 1 .. NHDR - 1 |-> [t |-> "hd2"]]
  \o Data(10 * x, pad4(x)) \o Data(20 * x, pad4(d))

\* The bytes of each piece of a file.
Piece(p, notes) ==
  CASE p = "eh"    -> Data(1, 1)
    [] p = "table" -> <<[t |-> "ph"]>>
    [] p = "note"  -> notes
    [] p = "load1" -> Data(2, 2)
    [] p = "load2" -> Data(3, 2)

\* The file of these pieces in this order, and this table.
File(order, table, notes) ==
  LET Place(p) == CHOOSE k \in DOMAIN order : order[k] = p
      upto[n \in 0 .. Len(order)] ==
        IF n = 0 THEN <<>> ELSE upto[n - 1] \o Piece(order[n], notes)
      Off(p)   == Len(upto[Place(p) - 1])
  IN [ident |-> "elf64", data |-> "LSB", shdrs |-> FALSE,
      e_phoff |-> Stored("LSB", Off("table")), e_phnum |-> Stored("LSB", Len(table)),
      e_phentsize |-> Stored("LSB", PHENT),
      ph |-> [k \in DOMAIN table |->
                [type |-> IF table[k] = "note" THEN "note" ELSE "load",
                 vaddr |-> <<9, k>>, paddr |-> IF table[k] = "note" THEN <<0, 0>> ELSE <<k, 7>>,
                 offset |-> Off(table[k]), filesz |-> Len(Piece(table[k], notes)),
                 memsz |-> IF table[k] = "note" THEN 0 ELSE 2]],
      body |-> upto[Len(order)]]

Orders ==
  {<<"eh", "table", "note", "load1", "load2">>, <<"eh", "table", "load1", "note", "load2">>,
   <<"eh", "note", "load1", "load2", "table">>, <<"eh", "table", "load1", "load2", "note">>}

TableOrders ==
  {<<"note", "load1", "load2">>, <<"load1", "note", "load2">>, <<"load1", "load2", "note">>}

\* VMCOREINFO alone, between others, twice, and not at all.
Notes ==
  {Note(1, TRUE, 3), Note(1, FALSE, 2) \o Note(3, TRUE, 1) \o Note(2, FALSE, 3),
   Note(1, TRUE, 2) \o Note(2, TRUE, 0), Note(1, FALSE, 1)}

\* The last byte of padding is missing at the end of the file.
Unpadded ==
  LET f == File(<<"eh", "table", "load1", "load2", "note">>, <<"load1", "load2", "note">>,
                Note(1, TRUE, 3))
  IN [f EXCEPT !.body = SubSeq(@, 1, Len(@) - 1), !.ph[3].filesz = @ - 1]

\* The padding is there, but outside the segment of the notes.
PaddedOutside ==
  LET f == File(<<"eh", "table", "note", "load1", "load2">>, <<"note", "load1", "load2">>,
                Note(1, TRUE, 3))
  IN [f EXCEPT !.ph[1].filesz = @ - 1]

\* Memory sizes of notes may be set, as some tools do.
WithMemsz(f) == [f EXCEPT !.ph[1].memsz = f.ph[1].filesz]

MCFiles ==
  LET all == {File(o, t, n) : o \in Orders, t \in TableOrders, n \in Notes}
  IN all \cup {WithMemsz(f) : f \in all} \cup {[f EXCEPT !.shdrs = TRUE] : f \in {Unpadded}}
     \cup {[f EXCEPT !.ph = SelectSeq(@, LAMBDA e : e.type # "note")] : f \in {Unpadded}}
     \cup {Unpadded, PaddedOutside}

\* Vmcores that phys2virt is run on: of either byte order, of another class or
\* with other program headers, and one that ends before its table does.
MCDumps ==
  LET f == File(<<"eh", "table", "note", "load1", "load2">>, <<"note", "load1", "load2">>,
                Note(1, TRUE, 3))
      g == [f EXCEPT !.data = "MSB", !.e_phoff = Stored("MSB", PhOff(f)),
                     !.e_phnum = Stored("MSB", 3), !.e_phentsize = Stored("MSB", PHENT)]
  IN {f, g, [f EXCEPT !.ident = "elf32"], [g EXCEPT !.e_phentsize = Stored("MSB", 64)],
      [f EXCEPT !.e_phnum = Stored("LSB", 4)]}

\* What strings finds: a vmcoreinfo behind another string and before a second one,
\* one with bars in it, one in two strings, marks on either side of a separator,
\* and strings that end with a bar.
MCTexts ==
  LET o == "OSRELEASE="  p == "PAGESIZE="  s == "SYMBOL("  x == "x"  b == "|"
  IN {<<<<x>>, <<o, p, s>>, <<s, p, o>>>>,
      <<<<o, p>>, <<o, b, p, s>>>>,
      <<<<o, b, b, b, p, s>>, <<x, b>>, <<s>>>>,
      <<<<x, b>>, <<o, s, p, b>>, <<x>>>>,
      <<>>}

=============================================================================
