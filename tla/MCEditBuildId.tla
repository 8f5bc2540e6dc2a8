--------------------------- MODULE MCEditBuildId ----------------------------
(* Model-checking instance of EditBuildId: sizes as in the code, build IDs *)
(* of one and two bytes, up to three note regions.                         *)
EXTENDS EditBuildId

Id(bytes) == [kind |-> "buildid", namesz |-> 4, descsz |-> Len(bytes), desc |-> bytes]
Other(n, d) == [kind |-> "other", namesz |-> n, descsz |-> d, desc |-> <<>>]
Oversize == [kind |-> "buildid", namesz |-> 4, descsz |-> MAX_BUILDID_SIZE + 1, desc |-> <<>>]

None == <<>>
At(r) == [note |-> TRUE, at |-> r]
Load == [note |-> FALSE, at |-> 0]

\* Region 1: a note of odd sizes before the ID; region 2: none; region 3: the ID.
Plain == <<<<Other(5, 7), Id(<<175, 0>>), Other(4, 16)>>, <<Other(4, 3)>>, <<Id(<<9>>)>>>>
\* Two IDs in one region, and one more in another.
Twice == <<<<Id(<<18>>), Id(<<52, 86>>)>>, <<>>, <<Id(<<9, 10>>)>>>>
\* A description whose size does not fit 16 bits before the ID, and one behind it.
Large == <<<<Other(4, UINT16 + 8), Id(<<175, 0>>), Other(4, 17)>>, <<Other(4, 3)>>, <<Id(<<9>>)>>>>
Huge == <<<<Oversize, Id(<<175, 0>>)>>, <<Other(4, 3)>>, <<Id(<<9>>)>>>>

Tables ==
  {[ph |-> p, sh |-> s] :
     p \in {None, <<Load>>, <<Load, At(1)>>, <<At(2), Load, At(1)>>, <<Load, Load, At(2)>>},
     s \in {None, <<At(2)>>, <<Load, At(3)>>, <<At(1), At(2), At(3)>>}}

File(t, d, ok) == [ehdr |-> ok, ph |-> t.ph, sh |-> t.sh, data |-> d]

MCFiles ==
  {File(t, d, TRUE) : t \in Tables, d \in {Plain, Twice, Huge}} \cup
  {File([ph |-> <<Load, At(1)>>, sh |-> <<At(2), At(3)>>], Large, TRUE),
   File([ph |-> None, sh |-> None], Plain, FALSE)}

\* 0F, aF10, AF, a, 0g and nothing.
MCNewIds == {<<48, 70>>, <<97, 70, 49, 48>>, <<65, 70>>, <<97>>, <<48, 103>>, <<>>}

=============================================================================
