----------------------------- MODULE MCDumpphys -----------------------------
(* Model-checking instance of Dumpphys: every vmcore of three frames whose *)
(* pages are absent, unreadable, plain, begin with vmcoreinfo, contain it, *)
(* contain it twice, or hold a marker that straddles the end of the page.  *)
EXTENDS Dumpphys

Read(marks, spills) == [present |-> TRUE, ok |-> TRUE, marks |-> marks, spills |-> spills]

Absent == [present |-> FALSE, ok |-> FALSE, marks |-> {}, spills |-> FALSE]

Kinds ==
  {Absent, [Absent EXCEPT !.present = TRUE],
   Read({}, FALSE), Read({0}, FALSE), Read({0}, TRUE), Read({0, 2}, FALSE), Read({1}, TRUE),
   Read({3}, FALSE)}

MCDumps == [0 .. 2 -> Kinds]

MCOutputs == {<<>>, [k \in 1 .. 3 |-> <<"old">>]}

=============================================================================
