-------------------------- MODULE EditBuildIdProofs --------------------------
(***************************************************************************)
(* Proofs for editbuildid, for any file: what the search finds is the      *)
(* first build ID, and only its bytes are changed.  The search is put as   *)
(* a path through the tables and their notes, which a run follows as far   *)
(* as its system calls let it; where it leads is a matter of the file and  *)
(* not of the run.                                                         *)
(***************************************************************************)
EXTENDS EditBuildId, Induction, SequenceTheorems

-----------------------------------------------------------------------------
(* Notes and where they begin.                                             *)

LEMMA SequenceLen ==
  ASSUME NEW s, IsSequence(s)
  PROVE  Len(s) \in Nat /\ DOMAIN s = 1 .. Len(s)
  <1> DEFINE S == {s[k] : k \in DOMAIN s}
  <1>1. s \in Seq(S)
    BY DEF IsSequence
  <1> QED
    BY <1>1, LenProperties

AreNotes(notes) == IsSequence(notes) /\ \A k \in DOMAIN notes : IsNote(notes[k])

NoteLen(n) == NHDR + pad4(n.namesz) + pad4(n.descsz)

LEMMA Pad4 ==
  ASSUME NEW n \in Nat
  PROVE  pad4(n) \in Nat /\ pad4(n) >= n
  BY DEF pad4

LEMMA NoteLengths ==
  ASSUME NEW n, IsNote(n)
  PROVE  /\ pad4(n.namesz) \in Nat /\ pad4(n.descsz) \in Nat
         /\ NoteLen(n) \in Nat /\ NoteLen(n) = 12 + pad4(n.namesz) + pad4(n.descsz)
  <1>1. n.namesz \in Nat /\ n.descsz \in Nat
    BY DEF IsNote
  <1>2. pad4(n.namesz) \in Nat /\ pad4(n.descsz) \in Nat
    BY <1>1, Pad4
  <1> QED
    BY <1>2 DEF NoteLen, NHDR

LEMMA Halved ==
  ASSUME NEW n \in Nat
  PROVE  n \div 2 \in Nat
  OBVIOUS

LEMMA NotCut ==
  ASSUME NEW n \in Nat, NEW m \in Nat, n < m
  PROVE  n % m = n
  OBVIOUS

IsStarts(notes, g) ==
  g = [j \in 1 .. Len(notes) + 1 |->
         IF j = 1 THEN 0
         ELSE g[j - 1] + NHDR + pad4(notes[j - 1].namesz) + pad4(notes[j - 1].descsz)]

\* The recursion has a solution: one for fewer notes is extended note by note.
LEMMA StartsExist ==
  ASSUME NEW notes, AreNotes(notes)
  PROVE  \E g : IsStarts(notes, g)
  <1>1. Len(notes) \in Nat /\ DOMAIN notes = 1 .. Len(notes)
    BY SequenceLen DEF AreNotes
  <1> DEFINE Upto(m, g) == /\ g \in [1 .. m + 1 -> Nat]
                           /\ g[1] = 0
                           /\ \A j \in 1 .. m : g[j + 1] = g[j] + NoteLen(notes[j])
             S == {m \in Nat : m > Len(notes) \/ \E g : Upto(m, g)}
  <1>2. 0 \in S
    <2>1. 0 + 1 = 1 /\ 1 .. 0 = {}
      OBVIOUS
    <2>2. Upto(0, [j \in 1 .. 1 |-> 0])
      BY <2>1
    <2> HIDE DEF Upto
    <2> QED
      BY <2>2
  <1>3. \A m \in Nat : m \in S => m + 1 \in S
    <2> SUFFICES ASSUME NEW m \in Nat, m \in S, m + 1 <= Len(notes)
                 PROVE  \E g : Upto(m + 1, g)
      <3> HIDE DEF Upto
      <3> QED
        BY <1>1
    <2>1. PICK g : Upto(m, g)
      <3> HIDE DEF Upto
      <3> QED
        BY <1>1
    <2> DEFINE h == [j \in 1 .. m + 2 |->
                       IF j = m + 2 THEN g[m + 1] + NoteLen(notes[m + 1]) ELSE g[j]]
    <2>2. NoteLen(notes[m + 1]) \in Nat
      <3>1. m + 1 \in DOMAIN notes
        BY <1>1
      <3> QED
        BY <3>1, NoteLengths DEF AreNotes
    <2>3. h \in [1 .. (m + 1) + 1 -> Nat]
      <3>1. (m + 1) + 1 = m + 2 /\ m + 1 \in 1 .. m + 1
        OBVIOUS
      <3>2. \A j \in 1 .. m + 2 : h[j] \in Nat
        <4> SUFFICES ASSUME NEW j \in 1 .. m + 2 PROVE h[j] \in Nat
          OBVIOUS
        <4>1. j = m + 2 \/ j \in 1 .. m + 1
          OBVIOUS
        <4> HIDE DEF S
        <4> QED
          BY <2>1, <2>2, <3>1, <4>1
      <3> QED
        BY <3>1, <3>2
    <2>4. h[1] = 0
      BY <2>1
    <2>5. ASSUME NEW j \in 1 .. m + 1 PROVE h[j + 1] = h[j] + NoteLen(notes[j])
      <3>1. h[j] = g[j] /\ j \in Nat
        OBVIOUS
      <3>2. CASE j = m + 1
        BY <3>1, <3>2
      <3>3. CASE j # m + 1
        <4>1. j \in 1 .. m /\ j + 1 # m + 2 /\ j + 1 \in 1 .. m + 2
          BY <3>3
        <4>2. h[j + 1] = g[j + 1]
          BY <4>1
        <4> QED
          BY <2>1, <3>1, <4>1, <4>2
      <3> QED
        BY <3>2, <3>3
    <2>6. Upto(m + 1, h)
      <3> HIDE DEF h
      <3> QED
        BY <2>3, <2>4, <2>5
    <2> QED
      BY <2>6
  <1>4. Len(notes) \in S
    <2> HIDE DEF S
    <2> QED
      BY <1>1, <1>2, <1>3, SetInduction
  <1>5. PICK g : Upto(Len(notes), g)
    <2> HIDE DEF Upto
    <2> QED
      BY <1>1, <1>4
  <1> DEFINE From(j) == IF j = 1 THEN 0
                        ELSE g[j - 1] + NHDR + pad4(notes[j - 1].namesz)
                                             + pad4(notes[j - 1].descsz)
  <1>6. ASSUME NEW j \in 1 .. Len(notes) + 1
        PROVE  g[j] = From(j)
    <2>1. CASE j = 1
      BY <1>5, <2>1
    <2>2. CASE j # 1
      <3>1. j - 1 \in 1 .. Len(notes) /\ (j - 1) + 1 = j /\ j - 1 \in 1 .. Len(notes) + 1
        BY <1>1, <2>2
      <3>2. g[j] = g[j - 1] + NoteLen(notes[j - 1]) /\ g[j - 1] \in Nat
        BY <1>5, <3>1
      <3>3. /\ pad4(notes[j - 1].namesz) \in Nat /\ pad4(notes[j - 1].descsz) \in Nat
        BY <1>1, <3>1, NoteLengths DEF AreNotes
      <3> QED
        BY <2>2, <3>2, <3>3 DEF NoteLen, NHDR
    <2> QED
      BY <2>1, <2>2
  <1>7. g = [j \in 1 .. Len(notes) + 1 |-> g[j]]
    BY <1>5
  <1>8. g = [j \in 1 .. Len(notes) + 1 |-> From(j)]
    <2> HIDE DEF From
    <2> QED
      BY <1>6, <1>7
  <1> QED
    BY <1>8 DEF IsStarts

\* The first note begins at 0, each other where the one before it ends.
LEMMA Starts ==
  ASSUME NEW notes, AreNotes(notes)
  PROVE  /\ NoteStart(notes, 1) = 0
         /\ \A k \in DOMAIN notes :
              /\ NoteStart(notes, k) \in Nat
              /\ NoteStart(notes, k + 1) \in Nat
              /\ NoteStart(notes, k + 1) = NoteStart(notes, k) + NoteLen(notes[k])
  <1>1. Len(notes) \in Nat /\ DOMAIN notes = 1 .. Len(notes)
    BY SequenceLen DEF AreNotes
  <1> DEFINE begin[j \in 1 .. Len(notes) + 1] ==
               IF j = 1 THEN 0
               ELSE begin[j - 1] + NHDR + pad4(notes[j - 1].namesz) + pad4(notes[j - 1].descsz)
  <1>2. \A k : NoteStart(notes, k) = begin[k]
    BY DEF NoteStart
  <1>3. IsStarts(notes, begin)
    <2>1. PICK g : IsStarts(notes, g)
      BY StartsExist
    <2> QED
      BY <2>1 DEF IsStarts
  <1> HIDE DEF begin
  <1>4. \A j \in 1 .. Len(notes) + 1 :
          begin[j] = IF j = 1 THEN 0
                     ELSE begin[j - 1] + NHDR + pad4(notes[j - 1].namesz)
                                              + pad4(notes[j - 1].descsz)
    BY <1>3 DEF IsStarts
  <1>5. ASSUME NEW k \in 1 .. Len(notes), begin[k] \in Nat
        PROVE  begin[k + 1] \in Nat /\ begin[k + 1] = begin[k] + NoteLen(notes[k])
    <2>1. k + 1 \in 1 .. Len(notes) + 1 /\ k + 1 # 1 /\ (k + 1) - 1 = k
      BY <1>1
    <2>2. begin[k + 1] = begin[k] + NHDR + pad4(notes[k].namesz) + pad4(notes[k].descsz)
      BY <1>4, <2>1
    <2>3. pad4(notes[k].namesz) \in Nat /\ pad4(notes[k].descsz) \in Nat
      BY <1>1, NoteLengths DEF AreNotes
    <2>4. PICK x, p, q : /\ x = begin[k] /\ p = pad4(notes[k].namesz)
                         /\ q = pad4(notes[k].descsz)
      OBVIOUS
    <2>5. x \in Nat /\ p \in Nat /\ q \in Nat
      BY <1>5, <2>3, <2>4
    <2>6. x + NHDR + p + q \in Nat /\ x + NHDR + p + q = x + (NHDR + p + q)
      BY <2>5 DEF NHDR
    <2>7. begin[k + 1] = x + NHDR + p + q /\ NoteLen(notes[k]) = NHDR + p + q
      BY <2>2, <2>4 DEF NoteLen
    <2> QED
      BY <2>4, <2>6, <2>7
  <1>6. begin[1] = 0
    BY <1>1, <1>4
  <1> DEFINE S == {k \in Int : k > Len(notes) + 1 \/ begin[k] \in Nat}
  <1>7. 1 \in S
    BY <1>6
  <1>8. \A n \in Int : n >= 1 /\ n \in S => n + 1 \in S
    BY <1>1, <1>5
  <1>9. \A n \in Int : n >= 1 => n \in S
    <2> HIDE DEF S
    <2> QED
      BY <1>7, <1>8, SetInductionFrom
  <1>10. \A k \in 1 .. Len(notes) : begin[k] \in Nat
    BY <1>1, <1>9
  <1> QED
    BY <1>1, <1>2, <1>5, <1>6, <1>10

\* Each note begins behind all notes before it.
LEMMA StartsInOrder ==
  ASSUME NEW notes, AreNotes(notes), NEW k \in DOMAIN notes,
         NEW j \in Int, k < j, j <= Len(notes) + 1
  PROVE  /\ k \in Nat /\ NoteStart(notes, k) \in Nat /\ NoteStart(notes, j) \in Nat
         /\ NoteStart(notes, j) >= NoteStart(notes, k) + NoteLen(notes[k])
  <1>1. Len(notes) \in Nat /\ DOMAIN notes = 1 .. Len(notes)
    BY SequenceLen DEF AreNotes
  <1>2. \A i \in DOMAIN notes : NoteLen(notes[i]) \in Nat
    BY NoteLengths DEF AreNotes
  <1> DEFINE b(i) == NoteStart(notes, i)
             Behind(n) == b(n) \in Nat /\ b(n) >= b(k) + NoteLen(notes[k])
             S == {n \in Int : n > Len(notes) + 1 \/ Behind(n)}
  <1>3. \A i \in DOMAIN notes :
          b(i) \in Nat /\ b(i + 1) \in Nat /\ b(i + 1) = b(i) + NoteLen(notes[i])
    BY Starts
  <1> HIDE DEF b
  <1>4. k + 1 \in S
    BY <1>1, <1>2, <1>3
  <1>5. ASSUME NEW n \in Int, n >= k + 1, n \in S
        PROVE  n + 1 \in S
    <2>1. CASE n + 1 > Len(notes) + 1
      <3> HIDE DEF Behind
      <3>1. n + 1 \in Int
        OBVIOUS
      <3> QED
        BY <2>1, <3>1
    <2>2. CASE n + 1 <= Len(notes) + 1
      <3>1. n \in DOMAIN notes /\ ~(n > Len(notes) + 1)
        BY <1>1, <1>5, <2>2
      <3>2. b(n) >= b(k) + NoteLen(notes[k]) /\ b(n) \in Nat
        BY <1>5, <3>1
      <3>3. b(n + 1) \in Nat /\ b(n + 1) = b(n) + NoteLen(notes[n])
        BY <1>3, <3>1
      <3>4. b(n + 1) >= b(k) + NoteLen(notes[k])
        BY <1>2, <1>3, <3>1, <3>2, <3>3
      <3> QED
        BY <3>3, <3>4
    <2> QED
      BY <1>1, <2>1, <2>2
  <1>6. \A n \in Int : n >= k + 1 => n \in S
    <2>1. k + 1 \in Int
      BY <1>1
    <2> HIDE DEF S
    <2> QED
      BY <1>4, <1>5, <2>1, SetInductionFrom
  <1>7. j >= k + 1
    BY <1>1
  <1>8. b(j) \in Nat /\ b(j) >= b(k) + NoteLen(notes[k])
    BY <1>1, <1>6, <1>7
  <1> QED
    BY <1>1, <1>3, <1>8 DEF b

\* No two notes begin at one place, or have their descriptions there.
LEMMA OneNote ==
  ASSUME NEW notes, AreNotes(notes), NEW k \in DOMAIN notes, NEW j \in DOMAIN notes
  PROVE  /\ NoteStart(notes, j) = NoteStart(notes, k) => j = k
         /\ NoteStart(notes, j) + NHDR + pad4(notes[j].namesz) =
            NoteStart(notes, k) + NHDR + pad4(notes[k].namesz) => j = k
  <1>1. Len(notes) \in Nat /\ DOMAIN notes = 1 .. Len(notes)
    BY SequenceLen DEF AreNotes
  <1>2. \A i \in DOMAIN notes :
          /\ NoteStart(notes, i) \in Nat
          /\ pad4(notes[i].namesz) \in Nat /\ pad4(notes[i].descsz) \in Nat
          /\ NoteLen(notes[i]) = 12 + pad4(notes[i].namesz) + pad4(notes[i].descsz)
    BY Starts, NoteLengths DEF AreNotes
  <1>3. j < k \/ j = k \/ k < j
    BY <1>1
  <1>4. CASE j < k
    <2>1. NoteStart(notes, k) >= NoteStart(notes, j) + NoteLen(notes[j])
      BY <1>1, <1>4, StartsInOrder
    <2> QED
      BY <1>2, <2>1 DEF NHDR
  <1>5. CASE k < j
    <2>1. NoteStart(notes, j) >= NoteStart(notes, k) + NoteLen(notes[k])
      BY <1>1, <1>5, StartsInOrder
    <2> QED
      BY <1>2, <2>1 DEF NHDR
  <1> QED
    BY <1>3, <1>4, <1>5

\* A note is before the end of its region.
LEMMA InRegion ==
  ASSUME NEW notes, AreNotes(notes), NEW k \in DOMAIN notes
  PROVE  /\ NoteStart(notes, k) \in Nat /\ RegionLen(notes) \in Nat
         /\ NoteStart(notes, k) < RegionLen(notes)
  <1>1. Len(notes) \in Nat /\ DOMAIN notes = 1 .. Len(notes)
    BY SequenceLen DEF AreNotes
  <1>2. k \in Nat /\ k < Len(notes) + 1 /\ Len(notes) + 1 \in Int
    BY <1>1
  <1>3. /\ NoteStart(notes, k) \in Nat /\ NoteStart(notes, Len(notes) + 1) \in Nat
        /\ NoteStart(notes, Len(notes) + 1) >= NoteStart(notes, k) + NoteLen(notes[k])
    BY <1>2, StartsInOrder
  <1>4. NoteLen(notes[k]) \in Nat /\ NoteLen(notes[k]) >= 12
    BY NoteLengths DEF AreNotes
  <1> QED
    BY <1>3, <1>4 DEF RegionLen

\* All beginnings, and the end, are numbers.
LEMMA StartNumber ==
  ASSUME NEW notes, AreNotes(notes), NEW k \in 1 .. Len(notes) + 1
  PROVE  NoteStart(notes, k) \in Nat
  <1>1. Len(notes) \in Nat /\ DOMAIN notes = 1 .. Len(notes)
    BY SequenceLen DEF AreNotes
  <1>2. CASE k \in DOMAIN notes
    BY <1>2, Starts
  <1>3. CASE k \notin DOMAIN notes
    <2>1. k = Len(notes) + 1
      BY <1>1, <1>3
    <2>2. CASE Len(notes) = 0
      <3>1. k = 1
        BY <2>1, <2>2
      <3> QED
        BY <3>1, Starts
    <2>3. CASE Len(notes) # 0
      <3>1. Len(notes) \in DOMAIN notes
        BY <1>1, <2>3
      <3>2. NoteStart(notes, Len(notes) + 1) \in Nat
        BY <3>1, Starts
      <3> QED
        BY <2>1, <3>2
    <2> QED
      BY <2>2, <2>3
  <1> QED
    BY <1>2, <1>3

\* What is inside the description of one note is inside no other, nor where one begins.
LEMMA NoneInside ==
  ASSUME NEW notes, AreNotes(notes), NEW k \in DOMAIN notes, NEW x \in Int,
         NoteStart(notes, k) + NHDR + pad4(notes[k].namesz) < x,
         x <= NoteStart(notes, k) + NHDR + pad4(notes[k].namesz) + notes[k].descsz,
         NEW j \in DOMAIN notes
  PROVE  /\ NoteStart(notes, j) + NHDR + pad4(notes[j].namesz) # x
         /\ NoteStart(notes, j) + NHDR + pad4(notes[j].namesz) < x
            /\ x < NoteStart(notes, j) + NHDR + pad4(notes[j].namesz) + notes[j].descsz
            => j = k
  <1>1. Len(notes) \in Nat /\ DOMAIN notes = 1 .. Len(notes)
    BY SequenceLen DEF AreNotes
  <1>2. \A i \in DOMAIN notes :
          /\ NoteStart(notes, i) \in Nat
          /\ pad4(notes[i].namesz) \in Nat /\ pad4(notes[i].descsz) \in Nat
          /\ NoteLen(notes[i]) = 12 + pad4(notes[i].namesz) + pad4(notes[i].descsz)
    BY Starts, NoteLengths DEF AreNotes
  <1>3. \A i \in DOMAIN notes :
          notes[i].descsz \in Nat /\ notes[i].descsz <= pad4(notes[i].descsz)
    <2> SUFFICES ASSUME NEW i \in DOMAIN notes
                 PROVE  notes[i].descsz \in Nat /\ notes[i].descsz <= pad4(notes[i].descsz)
      OBVIOUS
    <2>1. notes[i].descsz \in Nat
      BY DEF AreNotes, IsNote
    <2> QED
      BY <2>1, Pad4
  <1>4. j < k \/ j = k \/ k < j
    BY <1>1
  <1>5. CASE j < k
    <2>1. NoteStart(notes, k) >= NoteStart(notes, j) + NoteLen(notes[j])
      BY <1>1, <1>5, StartsInOrder
    <2> QED
      BY <1>2, <1>3, <2>1 DEF NHDR
  <1>6. CASE j = k
    BY <1>2, <1>6 DEF NHDR
  <1>7. CASE k < j
    <2>1. NoteStart(notes, j) >= NoteStart(notes, k) + NoteLen(notes[k])
      BY <1>1, <1>7, StartsInOrder
    <2> QED
      BY <1>2, <1>3, <2>1 DEF NHDR
  <1> QED
    BY <1>4, <1>5, <1>6, <1>7

\* The same notes but for what they hold.
SameSizes(u, v) ==
  /\ DOMAIN u = DOMAIN v
  /\ \A k \in DOMAIN u : /\ u[k].kind = v[k].kind
                         /\ u[k].namesz = v[k].namesz
                         /\ u[k].descsz = v[k].descsz

LEMMA SameInterval ==
  ASSUME NEW m \in Nat, NEW n \in Nat, 1 .. m = 1 .. n
  PROVE  m = n
  <1>1. \A i \in Int : 1 <= i /\ i <= m <=> 1 <= i /\ i <= n
    <2>1. \A i \in Int : i \in 1 .. m <=> i \in 1 .. n
      OBVIOUS
    <2>2. \A i \in Int : (i \in 1 .. m <=> 1 <= i /\ i <= m) /\ (i \in 1 .. n <=> 1 <= i /\ i <= n)
      OBVIOUS
    <2> QED
      BY <2>1, <2>2
  <1> QED
    BY <1>1

LEMMA SameStarts ==
  ASSUME NEW u, NEW v, AreNotes(u), AreNotes(v), SameSizes(u, v)
  PROVE  /\ \A k \in DOMAIN u : NoteStart(u, k) = NoteStart(v, k)
         /\ RegionLen(u) = RegionLen(v)
         /\ \A p : NotesAt(u, p) = NotesAt(v, p)
  <1>1. /\ Len(u) \in Nat /\ DOMAIN u = 1 .. Len(u)
        /\ Len(v) \in Nat /\ DOMAIN v = 1 .. Len(v)
    BY SequenceLen DEF AreNotes
  <1>2. Len(u) = Len(v)
    <2>1. 1 .. Len(u) = 1 .. Len(v)
      BY <1>1 DEF SameSizes
    <2> QED
      BY <1>1, <2>1, SameInterval
  <1> DEFINE S == {n \in Int : n > Len(u) + 1 \/ NoteStart(u, n) = NoteStart(v, n)}
  <1>3. 1 \in S
    BY Starts
  <1>4. \A n \in Int : n >= 1 /\ n \in S => n + 1 \in S
    <2> SUFFICES ASSUME NEW n \in Int, n >= 1, n \in S, n + 1 <= Len(u) + 1
                 PROVE  NoteStart(u, n + 1) = NoteStart(v, n + 1)
      BY <1>1
    <2>1. n \in DOMAIN u /\ n \in DOMAIN v /\ NoteStart(u, n) = NoteStart(v, n)
      BY <1>1, <1>2
    <2>2. NoteLen(u[n]) = NoteLen(v[n])
      BY <2>1 DEF SameSizes, NoteLen
    <2> QED
      BY <2>1, <2>2, Starts
  <1>5. \A n \in Int : n >= 1 => n \in S
    <2> HIDE DEF S
    <2> QED
      BY <1>3, <1>4, SetInductionFrom
  <1>6. \A n \in 1 .. Len(u) + 1 : NoteStart(u, n) = NoteStart(v, n)
    BY <1>1, <1>5
  <1>7. \A k \in DOMAIN u : NoteStart(u, k) = NoteStart(v, k)
    BY <1>1, <1>6
  <1>8. RegionLen(u) = RegionLen(v)
    BY <1>1, <1>2, <1>6 DEF RegionLen
  <1>9. ASSUME NEW p PROVE NotesAt(u, p) = NotesAt(v, p)
    BY <1>7 DEF NotesAt, SameSizes
  <1> QED
    BY <1>7, <1>8, <1>9

-----------------------------------------------------------------------------
(* The search as a path.  <<t, e, p>> is the walk at byte p of the notes   *)
(* that entry e of table t refers to, or, with p = Scan, the search for a  *)
(* note entry from e on.                                                   *)

Scan == -1

Positions(f) ==
  {s \in {"ph", "sh"} \X Nat \X Int :
     s[3] = Scan \/ (s[3] \in Nat /\ s[2] \in Noted(f, s[1]))}

Later(f, t, e) == {k \in Noted(f, t) : k >= e}

NotesHead(f, s) == NotesOf(f, s[1], s[2])

FindsEntry(f, s, u) ==
  /\ s[3] = Scan
  /\ \E k \in Later(f, s[1], s[2]) : /\ \A j \in Later(f, s[1], s[2]) : k <= j
                                     /\ u = <<s[1], k, 0>>

LeavesTable(f, s, u) ==
  /\ s[3] = Scan /\ s[1] = "ph"
  /\ Later(f, s[1], s[2]) = {}
  /\ u = <<"sh", 1, Scan>>

PassesNote(f, s, u) ==
  /\ s[3] # Scan
  /\ \E k \in NotesAt(NotesHead(f, s), s[3]) :
       LET n == NotesHead(f, s)[k]
       IN n.kind # "buildid" /\ u = <<s[1], s[2], next_note(s[3], n.namesz, n.descsz)>>

LeavesRegion(f, s, u) ==
  /\ s[3] # Scan
  /\ s[3] >= RegionLen(NotesHead(f, s))
  /\ u = <<s[1], s[2] + 1, Scan>>

Leads(f, s, u) ==
  /\ s \in Positions(f)
  /\ FindsEntry(f, s, u) \/ LeavesTable(f, s, u) \/ PassesNote(f, s, u) \/ LeavesRegion(f, s, u)

Closed(f, S) ==
  /\ <<"ph", 1, Scan>> \in S
  /\ \A s \in S : \A u : Leads(f, s, u) => u \in S

OnPath(f, s) == \A S : Closed(f, S) => s \in S

LEMMA PathStart ==
  ASSUME NEW f
  PROVE  OnPath(f, <<"ph", 1, Scan>>)
  BY DEF OnPath, Closed

LEMMA PathStep ==
  ASSUME NEW f, NEW s, NEW u, OnPath(f, s), Leads(f, s, u)
  PROVE  OnPath(f, u)
  BY DEF OnPath, Closed

\* Tables, regions and notes of a file.
LEMMA ElfParts ==
  ASSUME NEW f, IsElf(f)
  PROVE  /\ \A t : Noted(f, t) \subseteq Nat \ {0}
         /\ \A t : \A e \in Noted(f, t) : /\ Table(f, t)[e].at \in DOMAIN f.data
                                          /\ AreNotes(NotesOf(f, t, e))
         /\ \A r \in DOMAIN f.data : AreNotes(f.data[r])
  <1>1. ASSUME NEW t
        PROVE  /\ IsSequence(Table(f, t))
               /\ \A e \in Noted(f, t) : Table(f, t)[e].at \in DOMAIN f.data
    BY DEF IsElf, Table, Noted
  <1>2. \A r \in DOMAIN f.data : AreNotes(f.data[r])
    BY DEF IsElf, AreNotes
  <1>3. ASSUME NEW t PROVE Noted(f, t) \subseteq Nat \ {0}
    <2>1. DOMAIN Table(f, t) = 1 .. Len(Table(f, t)) /\ Len(Table(f, t)) \in Nat
      BY <1>1, SequenceLen
    <2>2. DOMAIN Table(f, t) \subseteq Nat \ {0}
      BY <2>1
    <2> QED
      BY <2>2 DEF Noted
  <1> QED
    BY <1>1, <1>2, <1>3 DEF NotesOf

LEMMA NextNote ==
  ASSUME NEW p \in Nat, NEW n, IsNote(n)
  PROVE  /\ next_note(p, n.namesz, n.descsz) \in Nat
         /\ n.namesz < UINT16 /\ n.descsz < UINT16 =>
              next_note(p, n.namesz, n.descsz) = p + NoteLen(n)
  <1>1. n.namesz \in Nat /\ n.descsz \in Nat /\ UINT16 \in Nat \ {0}
    BY EditBuildIdAssumption DEF IsNote
  <1>2. n.namesz % UINT16 \in Nat /\ n.descsz % UINT16 \in Nat
    BY <1>1
  <1>3. pad4(n.namesz % UINT16) \in Nat /\ pad4(n.descsz % UINT16) \in Nat
    BY <1>2, Pad4
  <1>4. next_note(p, n.namesz, n.descsz) \in Nat
    BY <1>3 DEF next_note, NHDR
  <1>5. ASSUME n.namesz < UINT16, n.descsz < UINT16
        PROVE  next_note(p, n.namesz, n.descsz) = p + NoteLen(n)
    <2>1. n.namesz % UINT16 = n.namesz /\ n.descsz % UINT16 = n.descsz
      BY <1>1, <1>5
    <2>2. pad4(n.namesz) \in Nat /\ pad4(n.descsz) \in Nat
      BY <1>3, <2>1
    <2> QED
      BY <2>1, <2>2 DEF next_note, NHDR, NoteLen
  <1> QED
    BY <1>4, <1>5

LEMMA StepInFile ==
  ASSUME NEW f, IsElf(f), NEW q \in Positions(f), NEW u, Leads(f, q, u)
  PROVE  u \in Positions(f)
  <1>1. /\ q[1] \in {"ph", "sh"} /\ q[2] \in Nat /\ q[3] \in Int
        /\ q[3] = Scan \/ (q[3] \in Nat /\ q[2] \in Noted(f, q[1]))
    BY DEF Positions
  <1>2. CASE FindsEntry(f, q, u)
    <2>1. PICK k \in Later(f, q[1], q[2]) : u = <<q[1], k, 0>>
      BY <1>2 DEF FindsEntry
    <2>2. k \in Noted(f, q[1]) /\ k \in Nat
      BY <2>1, ElfParts DEF Later
    <2> QED
      BY <1>1, <2>1, <2>2 DEF Positions
  <1>3. CASE LeavesTable(f, q, u)
    BY <1>3 DEF LeavesTable, Positions, Scan
  <1>4. CASE PassesNote(f, q, u)
    <2>1. PICK k \in NotesAt(NotesHead(f, q), q[3]) :
            u = <<q[1], q[2], next_note(q[3], NotesHead(f, q)[k].namesz,
                                        NotesHead(f, q)[k].descsz)>>
      BY <1>4 DEF PassesNote
    <2>2. q[3] \in Nat /\ q[2] \in Noted(f, q[1])
      BY <1>1, <1>4 DEF PassesNote
    <2>3. IsNote(NotesHead(f, q)[k])
      BY <2>1, <2>2, ElfParts DEF NotesHead, NotesAt, AreNotes
    <2>4. next_note(q[3], NotesHead(f, q)[k].namesz, NotesHead(f, q)[k].descsz) \in Nat
      BY <2>2, <2>3, NextNote
    <2> QED
      BY <1>1, <2>1, <2>2, <2>4 DEF Positions
  <1>5. CASE LeavesRegion(f, q, u)
    BY <1>1, <1>5 DEF LeavesRegion, Positions, Scan
  <1> QED
    BY <1>2, <1>3, <1>4, <1>5 DEF Leads
LEMMA PathInFile ==
  ASSUME NEW f, IsElf(f), NEW s, OnPath(f, s)
  PROVE  s \in Positions(f)
  <1>1. <<"ph", 1, Scan>> \in Positions(f)
    BY DEF Positions, Scan
  <1>2. Closed(f, Positions(f))
    BY <1>1, StepInFile DEF Closed
  <1> QED
    BY <1>2 DEF OnPath

\* The walk is at a note, the k-th of its region, that is a build ID.
HasId(f, s, k) ==
  /\ s \in Positions(f) /\ s[3] # Scan
  /\ k \in NotesAt(NotesHead(f, s), s[3])
  /\ k \in BuildIds(NotesHead(f, s))

\* Where a walk through notes is.
LEMMA InNotes ==
  ASSUME NEW f, IsElf(f), NEW s \in Positions(f), s[3] # Scan
  PROVE  /\ s[1] \in {"ph", "sh"} /\ s[3] \in Nat /\ s[2] \in Nat /\ s[2] \in Noted(f, s[1])
         /\ AreNotes(NotesHead(f, s))
         /\ \A k \in NotesAt(NotesHead(f, s), s[3]) :
              /\ k \in DOMAIN NotesHead(f, s) /\ NoteStart(NotesHead(f, s), k) = s[3]
              /\ ~(s[3] >= RegionLen(NotesHead(f, s)))
              /\ \A j \in NotesAt(NotesHead(f, s), s[3]) : j = k
  <1>1. s[1] \in {"ph", "sh"} /\ s[3] \in Nat /\ s[2] \in Nat /\ s[2] \in Noted(f, s[1])
    BY DEF Positions
  <1>2. AreNotes(NotesHead(f, s))
    BY <1>1, ElfParts DEF NotesHead
  <1> DEFINE N == NotesHead(f, s)
  <1>3. ASSUME NEW k \in NotesAt(N, s[3])
        PROVE  /\ k \in DOMAIN N /\ NoteStart(N, k) = s[3]
               /\ ~(s[3] >= RegionLen(N))
               /\ \A j \in NotesAt(N, s[3]) : j = k
    <2> HIDE DEF N
    <2>1. k \in DOMAIN N /\ NoteStart(N, k) = s[3]
      BY <1>3 DEF NotesAt
    <2>2. NoteStart(N, k) \in Nat /\ RegionLen(N) \in Nat /\ NoteStart(N, k) < RegionLen(N)
      BY <1>2, <2>1, InRegion DEF N
    <2>3. ~(s[3] >= RegionLen(N))
      BY <2>1, <2>2
    <2>4. ASSUME NEW j \in NotesAt(N, s[3]) PROVE j = k
      <3>1. j \in DOMAIN N /\ NoteStart(N, j) = NoteStart(N, k)
        BY <2>1, <2>4 DEF NotesAt
      <3> QED
        BY <1>2, <2>1, <3>1, OneNote DEF N
    <2> QED
      BY <2>1, <2>3, <2>4
  <1> QED
    BY <1>1, <1>2, <1>3

\* The search has one way to go on,
LEMMA OneWay ==
  ASSUME NEW f, IsElf(f), NEW s, NEW u, NEW v, Leads(f, s, u), Leads(f, s, v)
  PROVE  u = v
  <1>1. s \in Positions(f)
    BY DEF Leads
  <1>2. CASE s[3] = Scan
    <2>1. \A k \in Later(f, s[1], s[2]) : k \in Nat
      BY ElfParts DEF Later
    <2>2. /\ FindsEntry(f, s, u) \/ LeavesTable(f, s, u)
          /\ FindsEntry(f, s, v) \/ LeavesTable(f, s, v)
      BY <1>2 DEF Leads, PassesNote, LeavesRegion
    <2>3. CASE FindsEntry(f, s, u) /\ FindsEntry(f, s, v)
      <3>1. PICK k \in Later(f, s[1], s[2]) :
              (\A j \in Later(f, s[1], s[2]) : k <= j) /\ u = <<s[1], k, 0>>
        BY <2>3 DEF FindsEntry
      <3>2. PICK j \in Later(f, s[1], s[2]) :
              (\A i \in Later(f, s[1], s[2]) : j <= i) /\ v = <<s[1], j, 0>>
        BY <2>3 DEF FindsEntry
      <3>3. k <= j /\ j <= k /\ k \in Nat /\ j \in Nat
        BY <2>1, <3>1, <3>2
      <3>4. k = j
        BY <3>3
      <3> QED
        BY <3>1, <3>2, <3>4
    <2>4. CASE LeavesTable(f, s, u) /\ LeavesTable(f, s, v)
      BY <2>4 DEF LeavesTable
    <2> QED
      BY <2>2, <2>3, <2>4 DEF FindsEntry, LeavesTable
  <1>3. CASE s[3] # Scan
    <2>1. /\ PassesNote(f, s, u) \/ LeavesRegion(f, s, u)
          /\ PassesNote(f, s, v) \/ LeavesRegion(f, s, v)
      BY <1>3 DEF Leads, FindsEntry, LeavesTable
    <2>2. \A k \in NotesAt(NotesHead(f, s), s[3]) :
            /\ ~(s[3] >= RegionLen(NotesHead(f, s)))
            /\ \A j \in NotesAt(NotesHead(f, s), s[3]) : j = k
      BY <1>1, <1>3, InNotes
    <2>3. CASE PassesNote(f, s, u) /\ PassesNote(f, s, v)
      BY <2>2, <2>3 DEF PassesNote
    <2>4. CASE LeavesRegion(f, s, u) /\ LeavesRegion(f, s, v)
      BY <2>4 DEF LeavesRegion
    <2> QED
      BY <2>1, <2>2, <2>3, <2>4 DEF PassesNote, LeavesRegion
  <1> QED
    BY <1>2, <1>3

\* and none from a build ID.
LEMMA WayEnds ==
  ASSUME NEW f, IsElf(f), NEW s, NEW k, HasId(f, s, k), NEW u
  PROVE  ~Leads(f, s, u)
  <1>1. s \in Positions(f) /\ s[3] # Scan /\ k \in NotesAt(NotesHead(f, s), s[3])
        /\ NotesHead(f, s)[k].kind = "buildid"
    BY DEF HasId, BuildIds
  <1>2. /\ ~(s[3] >= RegionLen(NotesHead(f, s)))
        /\ \A j \in NotesAt(NotesHead(f, s), s[3]) : j = k
    BY <1>1, InNotes
  <1> QED
    BY <1>1, <1>2 DEF Leads, FindsEntry, LeavesTable, PassesNote, LeavesRegion

\* So all searches of a file that find a build ID find the same: from every position
\* on the path the first of them still lies ahead.
LEMMA OneTarget ==
  ASSUME NEW f, IsElf(f), NEW s, NEW j, NEW u, NEW k,
         OnPath(f, s), HasId(f, s, j), OnPath(f, u), HasId(f, u, k)
  PROVE  u = s /\ k = j
  <1> DEFINE Shut(S) == \A x \in S : \A y : Leads(f, x, y) => y \in S
             Ahead(x) == \A S : x \in S /\ Shut(S) => s \in S
             T == {x \in Positions(f) : Ahead(x)}
  <1>1. <<"ph", 1, Scan>> \in T
    <2>1. Ahead(<<"ph", 1, Scan>>)
      BY DEF OnPath, Closed
    <2> HIDE DEF Ahead
    <2> QED
      BY <2>1, PathStart, PathInFile
  <1>2. ASSUME NEW x \in T, OnPath(f, x), NEW y, Leads(f, x, y)
        PROVE  Ahead(y)
    <2> SUFFICES ASSUME NEW S, y \in S, Shut(S) PROVE s \in S
      OBVIOUS
    <2>1. Shut(S \cup {x})
      <3> SUFFICES ASSUME NEW a \in S \cup {x}, NEW b, Leads(f, a, b) PROVE b \in S
        OBVIOUS
      <3>1. CASE a \in S
        BY <3>1
      <3>2. CASE a = x
        <4>1. b = y
          BY <1>2, <3>2, OneWay
        <4> QED
          BY <4>1
      <3> QED
        BY <3>1, <3>2
    <2>2. s \in S \cup {x}
      <3>1. Ahead(x)
        BY <1>2
      <3> HIDE DEF Shut
      <3> QED
        BY <2>1, <3>1
    <2>3. s # x
      BY <1>2, WayEnds
    <2> QED
      BY <2>2, <2>3
  <1> DEFINE P == {x \in T : OnPath(f, x)}
  <1>3. Closed(f, P)
    <2> HIDE DEF Ahead
    <2>1. <<"ph", 1, Scan>> \in P
      BY <1>1, PathStart
    <2>2. ASSUME NEW x \in P, NEW y, Leads(f, x, y) PROVE y \in P
      <3>1. OnPath(f, y)
        BY <2>2, PathStep
      <3>2. y \in Positions(f)
        BY <3>1, PathInFile
      <3>3. Ahead(y)
        BY <1>2, <2>2
      <3> QED
        BY <3>1, <3>2, <3>3
    <2> HIDE DEF P
    <2> QED
      BY <2>1, <2>2 DEF Closed
  <1>4. Ahead(u)
    <2>1. u \in P
      <3> HIDE DEF P
      <3> QED
        BY <1>3 DEF OnPath
    <2> HIDE DEF Ahead
    <2> QED
      BY <2>1
  <1>5. Shut({u})
    BY WayEnds
  <1>6. s \in {u}
    <2> HIDE DEF Shut
    <2> QED
      BY <1>4, <1>5
  <1>7. s = u
    BY <1>6
  <1>8. k = j
    <2>1. s \in Positions(f) /\ s[3] # Scan /\ j \in NotesAt(NotesHead(f, s), s[3])
      BY DEF HasId
    <2>2. k \in NotesAt(NotesHead(f, s), s[3])
      BY <1>7 DEF HasId
    <2> QED
      BY <2>1, <2>2, InNotes
  <1> QED
    BY <1>7, <1>8

-----------------------------------------------------------------------------
(* What lies behind the search.                                            *)

\* No build ID is in what has been searched at s.
Passed(f, s) ==
  /\ s[1] = "sh" => NoBuildId(f, "ph")
  /\ \A d \in Noted(f, s[1]) : d < s[2] => BuildIds(NotesOf(f, s[1], d)) = {}
  /\ s[3] # Scan =>
       \A j \in BuildIds(NotesHead(f, s)) : NoteStart(NotesHead(f, s), j) >= s[3]

LEMMA NonePassed ==
  ASSUME NEW f, IsElf(f), Fits16(f), NEW s, OnPath(f, s)
  PROVE  Passed(f, s)
  <1> DEFINE S == {x \in Positions(f) : Passed(f, x)}
  <1>0. \A t : \A d \in Noted(f, t) : d \in Nat /\ d >= 1
    BY ElfParts
  <1>1. <<"ph", 1, Scan>> \in S
    <2>1. <<"ph", 1, Scan>> \in Positions(f)
      BY PathStart, PathInFile
    <2> QED
      BY <1>0, <2>1 DEF Passed
  <1>2. ASSUME NEW x \in S, NEW u, Leads(f, x, u), u \in Positions(f)
        PROVE  Passed(f, u)
    <2>1. x \in Positions(f) /\ Passed(f, x) /\ x[2] \in Nat
      BY DEF Positions
    <2>2. CASE FindsEntry(f, x, u)
      <3>1. PICK k \in Later(f, x[1], x[2]) :
              (\A j \in Later(f, x[1], x[2]) : k <= j) /\ u = <<x[1], k, 0>>
        BY <2>2 DEF FindsEntry
      <3>2. k \in Noted(f, x[1]) /\ k \in Nat
        BY <1>0, <3>1 DEF Later
      <3>3. ASSUME NEW d \in Noted(f, x[1]), d < k
            PROVE  BuildIds(NotesOf(f, x[1], d)) = {}
        <4>1. d \in Nat /\ ~(k <= d)
          BY <1>0, <3>2, <3>3
        <4>2. d \notin Later(f, x[1], x[2])
          BY <3>1, <4>1
        <4>3. d < x[2]
          BY <2>1, <4>1, <4>2 DEF Later
        <4> QED
          BY <2>1, <4>3 DEF Passed
      <3>4. u[1] = x[1] /\ u[2] = k /\ u[3] = 0
        BY <3>1
      <3>5. \A j \in BuildIds(NotesHead(f, u)) : NoteStart(NotesHead(f, u), j) >= u[3]
        <4>1. AreNotes(NotesHead(f, u))
          BY <3>2, <3>4, ElfParts DEF NotesHead
        <4>2. \A j \in DOMAIN NotesHead(f, u) : NoteStart(NotesHead(f, u), j) \in Nat
          BY <4>1, Starts
        <4> QED
          BY <3>4, <4>2 DEF BuildIds
      <3> QED
        BY <2>1, <3>3, <3>4, <3>5 DEF Passed
    <2>3. CASE LeavesTable(f, x, u)
      <3>1. x[1] = "ph" /\ Later(f, "ph", x[2]) = {} /\ u = <<"sh", 1, Scan>>
        BY <2>3 DEF LeavesTable
      <3>2. ASSUME NEW d \in Noted(f, "ph") PROVE BuildIds(NotesOf(f, "ph", d)) = {}
        <4>1. d \in Nat /\ ~(d >= x[2])
          BY <1>0, <3>1 DEF Later
        <4>2. d < x[2]
          BY <2>1, <4>1
        <4> QED
          BY <2>1, <3>1, <4>2 DEF Passed
      <3>3. NoBuildId(f, "ph")
        BY <3>2 DEF NoBuildId
      <3>4. u[1] = "sh" /\ u[2] = 1 /\ u[3] = Scan
        BY <3>1
      <3> QED
        BY <1>0, <3>3, <3>4 DEF Passed
    <2>4. CASE PassesNote(f, x, u)
      <3>1. x[3] # Scan
        BY <2>4 DEF PassesNote
      <3> DEFINE N == NotesHead(f, x)
      <3>2. PICK k \in NotesAt(N, x[3]) :
              /\ N[k].kind # "buildid"
              /\ u = <<x[1], x[2], next_note(x[3], N[k].namesz, N[k].descsz)>>
        BY <2>4 DEF PassesNote
      <3>3. x[2] \in Noted(f, x[1]) /\ x[3] \in Nat /\ AreNotes(N)
        BY <2>1, <3>1, InNotes
      <3>4. NotesHead(f, u) = N /\ u[1] = x[1] /\ u[2] = x[2]
        BY <3>2 DEF NotesHead
      <3>5. k \in DOMAIN N /\ NoteStart(N, k) = x[3] /\ IsNote(N[k])
        <4> HIDE DEF N
        <4> QED
          BY <3>2, <3>3 DEF NotesAt, AreNotes
      <3>6. N[k].namesz < UINT16 /\ N[k].descsz < UINT16
        BY <3>3, <3>5, ElfParts DEF Fits16, NotesHead, NotesOf
      <3>7. u[3] = x[3] + NoteLen(N[k])
        <4>1. next_note(x[3], N[k].namesz, N[k].descsz) = x[3] + NoteLen(N[k])
          <5> HIDE DEF N
          <5> QED
            BY <3>3, <3>5, <3>6, NextNote
        <4> QED
          BY <3>2, <4>1
      <3>8. ASSUME NEW j \in BuildIds(N) PROVE NoteStart(N, j) >= u[3]
        <4>1. NoteStart(N, j) >= x[3]
          BY <2>1, <3>1 DEF Passed
        <4> HIDE DEF N
        <4>2. j \in DOMAIN N /\ j # k
          BY <3>2, <3>8 DEF BuildIds
        <4>3. Len(N) \in Nat /\ DOMAIN N = 1 .. Len(N)
          BY <3>3, SequenceLen DEF AreNotes
        <4>4. j < k \/ k < j
          BY <3>5, <4>2, <4>3
        <4>5. CASE k < j
          BY <3>3, <3>5, <3>7, <4>2, <4>3, <4>5, StartsInOrder
        <4>6. CASE j < k
          <5>1. NoteStart(N, k) >= NoteStart(N, j) + NoteLen(N[j])
                /\ NoteStart(N, k) \in Nat /\ NoteStart(N, j) \in Nat
            BY <3>3, <3>5, <4>2, <4>3, <4>6, StartsInOrder
          <5>2. NoteLen(N[j]) \in Nat /\ NoteLen(N[j]) >= 12
            BY <3>3, <4>2, NoteLengths DEF AreNotes
          <5> QED
            BY <3>3, <3>5, <4>1, <5>1, <5>2
        <4> QED
          BY <4>4, <4>5, <4>6
      <3> HIDE DEF N
      <3> QED
        BY <2>1, <3>4, <3>8 DEF Passed
    <2>5. CASE LeavesRegion(f, x, u)
      <3>1. x[3] # Scan /\ x[3] >= RegionLen(NotesHead(f, x)) /\ u = <<x[1], x[2] + 1, Scan>>
        BY <2>5 DEF LeavesRegion
      <3> DEFINE N == NotesHead(f, x)
      <3>2. AreNotes(N) /\ x[3] \in Nat
        BY <2>1, <3>1, InNotes
      <3>3. ASSUME NEW j \in BuildIds(N) PROVE FALSE
        <4>1. NoteStart(N, j) >= x[3]
          BY <2>1, <3>1 DEF Passed
        <4>2. x[3] >= RegionLen(N)
          BY <3>1
        <4> HIDE DEF N
        <4>3. NoteStart(N, j) < RegionLen(N) /\ NoteStart(N, j) \in Nat /\ RegionLen(N) \in Nat
          BY <3>2, <3>3, InRegion DEF BuildIds
        <4> QED
          BY <3>2, <4>1, <4>2, <4>3
      <3>4. BuildIds(NotesOf(f, x[1], x[2])) = {}
        BY <3>3 DEF NotesHead
      <3>5. ASSUME NEW d \in Noted(f, x[1]), d < x[2] + 1
            PROVE  BuildIds(NotesOf(f, x[1], d)) = {}
        <4>1. d < x[2] \/ d = x[2]
          BY <1>0, <2>1, <3>5
        <4> QED
          BY <2>1, <3>4, <4>1 DEF Passed
      <3>6. u[1] = x[1] /\ u[2] = x[2] + 1 /\ u[3] = Scan
        BY <3>1
      <3> QED
        BY <2>1, <3>5, <3>6 DEF Passed
    <2> QED
      BY <1>2, <2>2, <2>3, <2>4, <2>5 DEF Leads
  <1> DEFINE P == {x \in S : OnPath(f, x)}
  <1>3. Closed(f, P)
    <2>1. <<"ph", 1, Scan>> \in P
      BY <1>1, PathStart
    <2>2. ASSUME NEW x \in P, NEW u, Leads(f, x, u) PROVE u \in P
      <3>1. OnPath(f, u)
        BY <2>2, PathStep
      <3>2. u \in Positions(f)
        BY <3>1, PathInFile
      <3>3. Passed(f, u)
        BY <1>2, <2>2, <3>2
      <3> QED
        BY <3>1, <3>2, <3>3
    <2> HIDE DEF P
    <2> QED
      BY <2>1, <2>2 DEF Closed
  <1>4. s \in P
    <2> HIDE DEF P
    <2> QED
      BY <1>3 DEF OnPath
  <1> QED
    BY <1>4

\* The walk is at the header of a note, or behind the last.
AtHeader(f, s) ==
  s[3] # Scan => \/ NotesAt(NotesHead(f, s), s[3]) # {}
                 \/ s[3] >= RegionLen(NotesHead(f, s))

\* Where no size is cut the search is never inside a description.
LEMMA NeverInside ==
  ASSUME NEW f, IsElf(f), Fits16(f), NEW s, OnPath(f, s)
  PROVE  AtHeader(f, s)
  <1> DEFINE S == {x \in Positions(f) : AtHeader(f, x)}
  <1>1. <<"ph", 1, Scan>> \in S
    <2>1. <<"ph", 1, Scan>> \in Positions(f)
      BY PathStart, PathInFile
    <2> QED
      BY <2>1 DEF AtHeader
  <1>2. ASSUME NEW notes, AreNotes(notes), NEW i \in 1 .. Len(notes) + 1
        PROVE  NotesAt(notes, NoteStart(notes, i)) # {} \/ NoteStart(notes, i) >= RegionLen(notes)
    <2>1. Len(notes) \in Nat /\ DOMAIN notes = 1 .. Len(notes)
      BY <1>2, SequenceLen DEF AreNotes
    <2>2. CASE i \in DOMAIN notes
      BY <2>2 DEF NotesAt
    <2>3. CASE i \notin DOMAIN notes
      <3>1. i = Len(notes) + 1 /\ NoteStart(notes, i) \in Nat
        BY <1>2, <2>1, <2>3, StartNumber
      <3> QED
        BY <3>1 DEF RegionLen
    <2> QED
      BY <2>2, <2>3
  <1>3. ASSUME NEW x \in S, NEW u, Leads(f, x, u), u \in Positions(f)
        PROVE  AtHeader(f, u)
    <2>1. x \in Positions(f) /\ AtHeader(f, x)
      OBVIOUS
    <2>2. CASE FindsEntry(f, x, u)
      <3>1. PICK k \in Later(f, x[1], x[2]) : u = <<x[1], k, 0>>
        BY <2>2 DEF FindsEntry
      <3>2. u[1] = x[1] /\ u[2] = k /\ u[3] = 0 /\ k \in Noted(f, x[1])
        BY <3>1 DEF Later
      <3>3. AreNotes(NotesHead(f, u))
        BY <3>2, ElfParts DEF NotesHead
      <3>4. NoteStart(NotesHead(f, u), 1) = 0 /\ 1 \in 1 .. Len(NotesHead(f, u)) + 1
        BY <3>3, Starts, SequenceLen DEF AreNotes
      <3> QED
        BY <1>2, <3>2, <3>3, <3>4 DEF AtHeader
    <2>3. CASE PassesNote(f, x, u)
      <3> DEFINE N == NotesHead(f, x)
      <3>1. x[3] # Scan
        BY <2>3 DEF PassesNote
      <3>2. PICK k \in NotesAt(N, x[3]) :
              u = <<x[1], x[2], next_note(x[3], N[k].namesz, N[k].descsz)>>
        BY <2>3 DEF PassesNote
      <3>3. x[2] \in Noted(f, x[1]) /\ x[3] \in Nat /\ AreNotes(N)
        BY <2>1, <3>1, InNotes
      <3>4. NotesHead(f, u) = N /\ u[3] = next_note(x[3], N[k].namesz, N[k].descsz)
        BY <3>2 DEF NotesHead
      <3>5. k \in DOMAIN N /\ NoteStart(N, k) = x[3] /\ IsNote(N[k])
        <4> HIDE DEF N
        <4> QED
          BY <3>2, <3>3 DEF NotesAt, AreNotes
      <3>6. N[k].namesz < UINT16 /\ N[k].descsz < UINT16
        BY <3>3, <3>5, ElfParts DEF Fits16, NotesHead, NotesOf
      <3> HIDE DEF N
      <3>7. u[3] = NoteStart(N, k + 1)
        <4>1. u[3] = x[3] + NoteLen(N[k])
          BY <3>3, <3>4, <3>5, <3>6, NextNote
        <4> QED
          BY <3>3, <3>5, <4>1, Starts
      <3>8. k + 1 \in 1 .. Len(N) + 1
        <4>1. Len(N) \in Nat /\ DOMAIN N = 1 .. Len(N)
          BY <3>3, SequenceLen DEF AreNotes
        <4> QED
          BY <3>5, <4>1
      <3> QED
        BY <1>2, <3>3, <3>4, <3>7, <3>8 DEF AtHeader
    <2>4. CASE LeavesTable(f, x, u) \/ LeavesRegion(f, x, u)
      BY <2>4 DEF LeavesTable, LeavesRegion, AtHeader
    <2> QED
      BY <1>3, <2>2, <2>3, <2>4 DEF Leads
  <1> DEFINE P == {x \in S : OnPath(f, x)}
  <1>4. Closed(f, P)
    <2>1. <<"ph", 1, Scan>> \in P
      BY <1>1, PathStart
    <2>2. ASSUME NEW x \in P, NEW u, Leads(f, x, u) PROVE u \in P
      <3>1. OnPath(f, u)
        BY <2>2, PathStep
      <3>2. u \in Positions(f)
        BY <3>1, PathInFile
      <3>3. AtHeader(f, u)
        BY <1>3, <2>2, <3>2
      <3> QED
        BY <3>1, <3>2, <3>3
    <2> HIDE DEF P
    <2> QED
      BY <2>1, <2>2 DEF Closed
  <1>5. s \in P
    <2> HIDE DEF P
    <2> QED
      BY <1>4 DEF OnPath
  <1> QED
    BY <1>5

\* A build ID the search comes to is the first,
LEMMA FirstFound ==
  ASSUME NEW f, IsElf(f), Fits16(f), NEW s, NEW k, OnPath(f, s), HasId(f, s, k)
  PROVE  NothingBefore(f, s[1], s[2], k)
  <1>1. Passed(f, s)
    BY NonePassed
  <1> DEFINE N == NotesHead(f, s)
  <1>2. AreNotes(N) /\ k \in DOMAIN N /\ NoteStart(N, k) = s[3] /\ s[3] # Scan
    BY InNotes DEF HasId
  <1>3. ASSUME NEW j \in BuildIds(N) PROVE k <= j
    <2>1. NoteStart(N, j) >= NoteStart(N, k)
      BY <1>1, <1>2 DEF Passed
    <2> HIDE DEF N
    <2>2. j \in DOMAIN N
      BY <1>3 DEF BuildIds
    <2>3. Len(N) \in Nat /\ DOMAIN N = 1 .. Len(N)
      BY <1>2, SequenceLen DEF AreNotes
    <2>4. ~(j < k)
      <3> SUFFICES ASSUME j < k PROVE FALSE
        OBVIOUS
      <3>1. /\ NoteStart(N, k) >= NoteStart(N, j) + NoteLen(N[j])
            /\ NoteStart(N, k) \in Nat /\ NoteStart(N, j) \in Nat
        BY <1>2, <2>2, <2>3, StartsInOrder
      <3>2. NoteLen(N[j]) \in Nat /\ NoteLen(N[j]) >= 12
        BY <1>2, <2>2, NoteLengths DEF AreNotes
      <3> QED
        BY <2>1, <3>1, <3>2
    <2> QED
      BY <1>2, <2>2, <2>3, <2>4
  <1> QED
    BY <1>1, <1>3 DEF Passed, NothingBefore, NotesHead

\* and if it comes to the end there is none.
LEMMA NoneFound ==
  ASSUME NEW f, IsElf(f), Fits16(f), NEW e, OnPath(f, <<"sh", e, Scan>>), Later(f, "sh", e) = {}
  PROVE  NoBuildId(f, "ph") /\ NoBuildId(f, "sh")
  <1> DEFINE s == <<"sh", e, Scan>>
  <1>1. Passed(f, s)
    BY NonePassed
  <1>2. e \in Nat
    <2>1. s \in Positions(f)
      BY PathInFile
    <2> QED
      BY <2>1 DEF Positions
  <1>3. ASSUME NEW d \in Noted(f, "sh") PROVE BuildIds(NotesOf(f, "sh", d)) = {}
    <2>1. d \in Nat /\ ~(d >= e)
      BY ElfParts DEF Later
    <2>2. d < e
      BY <1>2, <2>1
    <2> QED
      BY <1>1, <2>2 DEF Passed
  <1> QED
    BY <1>1, <1>3 DEF Passed, NoBuildId

-----------------------------------------------------------------------------
(* Files of one shape, and the path through them.                          *)

\* The same tables, regions and notes, but for what the notes hold.
SameShape(f, g) ==
  /\ f.ph = g.ph /\ f.sh = g.sh
  /\ DOMAIN f.data = DOMAIN g.data
  /\ \A r \in DOMAIN f.data : SameSizes(f.data[r], g.data[r])

LEMMA ShapeFixesSearch ==
  ASSUME NEW f, NEW g, IsElf(f), IsElf(g), SameShape(f, g)
  PROVE  /\ Positions(f) = Positions(g)
         /\ \A t : \A e : Later(f, t, e) = Later(g, t, e)
         /\ \A s \in Positions(f) : s[3] # Scan =>
              /\ SameSizes(NotesHead(f, s), NotesHead(g, s))
              /\ RegionLen(NotesHead(f, s)) = RegionLen(NotesHead(g, s))
              /\ \A p : NotesAt(NotesHead(f, s), p) = NotesAt(NotesHead(g, s), p)
  <1>1. \A t : Table(f, t) = Table(g, t)
    BY DEF Table, SameShape
  <1>2. \A t : Noted(f, t) = Noted(g, t)
    BY <1>1 DEF Noted
  <1>3. Positions(f) = Positions(g)
    BY <1>2 DEF Positions
  <1>4. \A t : \A e : Later(f, t, e) = Later(g, t, e)
    BY <1>2 DEF Later
  <1>5. ASSUME NEW s \in Positions(f), s[3] # Scan
        PROVE  /\ SameSizes(NotesHead(f, s), NotesHead(g, s))
               /\ RegionLen(NotesHead(f, s)) = RegionLen(NotesHead(g, s))
               /\ \A p : NotesAt(NotesHead(f, s), p) = NotesAt(NotesHead(g, s), p)
    <2>1. s[2] \in Noted(f, s[1]) /\ AreNotes(NotesHead(f, s)) /\ AreNotes(NotesHead(g, s))
      BY <1>3, <1>5, InNotes
    <2>2. Table(f, s[1])[s[2]].at \in DOMAIN f.data
      BY <2>1, ElfParts
    <2>3. SameSizes(NotesHead(f, s), NotesHead(g, s))
      BY <1>1, <2>2 DEF NotesHead, NotesOf, SameShape
    <2> QED
      BY <2>1, <2>3, SameStarts
  <1> QED
    BY <1>3, <1>4, <1>5

\* The path does not depend on what the notes hold,
LEMMA SamePath ==
  ASSUME NEW f, NEW g, IsElf(f), IsElf(g), SameShape(f, g), NEW s, OnPath(f, s)
  PROVE  OnPath(g, s)
  <1>1. ASSUME NEW x, NEW u, Leads(f, x, u) PROVE Leads(g, x, u)
    <2>1. x \in Positions(f) /\ x \in Positions(g)
      BY <1>1, ShapeFixesSearch DEF Leads
    <2>2. CASE FindsEntry(f, x, u)
      BY <2>1, <2>2, ShapeFixesSearch DEF FindsEntry, Leads
    <2>3. CASE LeavesTable(f, x, u)
      BY <2>1, <2>3, ShapeFixesSearch DEF LeavesTable, Leads
    <2>4. CASE PassesNote(f, x, u)
      <3>1. x[3] # Scan
        BY <2>4 DEF PassesNote
      <3>2. PICK k \in NotesAt(NotesHead(f, x), x[3]) :
              /\ NotesHead(f, x)[k].kind # "buildid"
              /\ u = <<x[1], x[2], next_note(x[3], NotesHead(f, x)[k].namesz,
                                             NotesHead(f, x)[k].descsz)>>
        BY <2>4 DEF PassesNote
      <3>3. k \in NotesAt(NotesHead(g, x), x[3])
        BY <2>1, <3>1, <3>2, ShapeFixesSearch
      <3>4. /\ NotesHead(f, x)[k].kind = NotesHead(g, x)[k].kind
            /\ NotesHead(f, x)[k].namesz = NotesHead(g, x)[k].namesz
            /\ NotesHead(f, x)[k].descsz = NotesHead(g, x)[k].descsz
        BY <2>1, <3>1, <3>2, ShapeFixesSearch DEF SameSizes, NotesAt
      <3>5. PassesNote(g, x, u)
        BY <3>1, <3>2, <3>3, <3>4 DEF PassesNote
      <3> QED
        BY <2>1, <3>5 DEF Leads
    <2>5. CASE LeavesRegion(f, x, u)
      <3>1. LeavesRegion(g, x, u)
        BY <2>1, <2>5, ShapeFixesSearch DEF LeavesRegion
      <3> QED
        BY <2>1, <3>1 DEF Leads
    <2> QED
      BY <1>1, <2>2, <2>3, <2>4, <2>5 DEF Leads
  <1>2. ASSUME NEW S, Closed(g, S) PROVE Closed(f, S)
    BY <1>1, <1>2 DEF Closed
  <1> QED
    BY <1>2 DEF OnPath

\* nor does it matter for whether a note is a build ID.
LEMMA SameId ==
  ASSUME NEW f, NEW g, IsElf(f), IsElf(g), SameShape(f, g), NEW s, NEW k, HasId(f, s, k)
  PROVE  HasId(g, s, k)
  <1>1. s \in Positions(f) /\ s \in Positions(g) /\ s[3] # Scan
    BY ShapeFixesSearch DEF HasId
  <1>2. SameSizes(NotesHead(f, s), NotesHead(g, s))
    BY <1>1, ShapeFixesSearch
  <1>3. k \in BuildIds(NotesHead(g, s))
    BY <1>2 DEF HasId, BuildIds, SameSizes
  <1>4. k \in NotesAt(NotesHead(g, s), s[3])
    BY <1>1, ShapeFixesSearch DEF HasId
  <1> QED
    BY <1>1, <1>3, <1>4 DEF HasId

LEMMA SameShapeBack ==
  ASSUME NEW f, NEW g, SameShape(f, g)
  PROVE  SameShape(g, f)
  BY DEF SameShape, SameSizes

-----------------------------------------------------------------------------
(* The bytes of the build ID.                                              *)

\* info is the place and size of the description of the note that the walk is at.
Tells(f, s, k) ==
  info = [at |-> Table(f, s[1])[s[2]].at,
          offset |-> note_desc(s[3], NotesHead(f, s)[k].namesz),
          size |-> NotesHead(f, s)[k].descsz]

\* Then this note is the one that main prints or overwrites, and no other.
LEMMA TheNoteHere ==
  ASSUME NEW f, IsElf(f), NEW s, NEW k, HasId(f, s, k), Tells(f, s, k)
  PROVE  /\ s[2] \in Noted(f, s[1]) /\ info.at = Table(f, s[1])[s[2]].at
         /\ info.at \in DOMAIN f.data
         /\ f.data[info.at] = NotesHead(f, s) /\ AreNotes(NotesHead(f, s))
         /\ NotesHere(f) = {k} /\ k \in DOMAIN NotesHead(f, s)
         /\ BytesHere(f) = NotesHead(f, s)[k].desc
         /\ BytesHere(f) \in Seq(0 .. 255) /\ info.size = Len(BytesHere(f))
  <1> DEFINE N == NotesHead(f, s)
  <1>1. /\ s[2] \in Noted(f, s[1]) /\ s[3] \in Nat /\ AreNotes(N)
        /\ k \in DOMAIN N /\ NoteStart(N, k) = s[3]
    BY InNotes DEF HasId
  <1>2. /\ info.at = Table(f, s[1])[s[2]].at
        /\ info.offset = note_desc(s[3], N[k].namesz) /\ info.size = N[k].descsz
    BY DEF Tells
  <1>3. info.at \in DOMAIN f.data /\ f.data[info.at] = N
    BY <1>1, <1>2, ElfParts DEF NotesHead, NotesOf
  <1>4. k \in BuildIds(N)
    BY DEF HasId
  <1> HIDE DEF N
  <1>5. IsNote(N[k]) /\ N[k].kind = "buildid" /\ N[k].descsz <= MAX_BUILDID_SIZE
    BY <1>1, <1>4 DEF AreNotes, BuildIds
  <1>6. /\ N[k].namesz \in Nat /\ N[k].namesz < UINT16
        /\ N[k].desc \in Seq(0 .. 255) /\ Len(N[k].desc) = N[k].descsz
    BY <1>5 DEF IsNote
  <1>7. info.offset = NoteStart(N, k) + NHDR + pad4(N[k].namesz)
    <2>1. N[k].namesz % UINT16 = N[k].namesz
      BY <1>6, EditBuildIdAssumption, NotCut
    <2> QED
      BY <1>1, <1>2, <2>1 DEF note_desc
  <1>8. NotesHere(f) = {k}
    <2>1. NotesHere(f) = {j \in DOMAIN N :
                            NoteStart(N, j) + NHDR + pad4(N[j].namesz) = info.offset}
      BY <1>3 DEF NotesHere
    <2>2. \A j \in DOMAIN N : NoteStart(N, j) + NHDR + pad4(N[j].namesz) = info.offset => j = k
      BY <1>1, <1>7, OneNote
    <2> QED
      BY <1>1, <1>7, <2>1, <2>2
  <1>9. BytesHere(f) = N[k].desc
    <2>1. (CHOOSE j \in {k} : TRUE) = k
      OBVIOUS
    <2> QED
      BY <1>3, <1>8, <2>1 DEF BytesHere
  <1> QED
    BY <1>1, <1>2, <1>3, <1>6, <1>8, <1>9 DEF N

LEMMA PatchedBytes ==
  ASSUME NEW bytes \in Seq(0 .. 255), NEW d \in Seq(0 .. 255), Len(bytes) = Len(d),
         NEW n \in 0 .. Len(d)
  PROVE  /\ Patched(bytes, d, n) \in Seq(0 .. 255)
         /\ Len(Patched(bytes, d, n)) = Len(d)
         /\ n = Len(d) => Patched(bytes, d, n) = bytes
  <1> DEFINE B == 0 .. 255
             p == SubSeq(bytes, 1, n)
             q == SubSeq(d, n + 1, Len(d))
  <1>1. Len(d) \in Nat /\ n \in Nat /\ n <= Len(d) /\ n + 1 \in Int
    BY LenProperties
  <1>2. (\A i \in 1 .. n : bytes[i] \in B) /\ (\A i \in n + 1 .. Len(d) : d[i] \in B)
    <2>1. \A i \in 1 .. Len(d) : bytes[i] \in B /\ d[i] \in B
      BY ElementOfSeq
    <2> QED
      BY <1>1, <2>1
  <1> HIDE DEF B
  <1>3. p \in Seq(B) /\ Len(p) = n
    <2>1. p \in Seq(B) /\ Len(p) = IF 1 <= n THEN n - 1 + 1 ELSE 0
      BY <1>1, <1>2, SubSeqProperties
    <2> HIDE DEF p
    <2> QED
      BY <1>1, <2>1
  <1>4. q \in Seq(B) /\ Len(q) = Len(d) - n
    <2>1. PICK m \in Int : m = n + 1
      BY <1>1
    <2>2. q \in Seq(B) /\ Len(q) = IF m <= Len(d) THEN Len(d) - m + 1 ELSE 0
      BY <1>1, <1>2, <2>1, SubSeqProperties
    <2> HIDE DEF q
    <2> QED
      BY <1>1, <2>1, <2>2
  <1> HIDE DEF p, q
  <1>5. p \o q \in Seq(B) /\ Len(p \o q) = Len(d)
    BY <1>1, <1>3, <1>4, ConcatProperties
  <1>6. ASSUME n = Len(d) PROVE p \o q = bytes
    <2>1. q = << >>
      BY <1>1, <1>4, <1>6, EmptySeq
    <2>2. p = bytes
      BY <1>6, SubSeqFull DEF p
    <2> QED
      BY <1>3, <2>1, <2>2, ConcatEmptySeq
  <1> QED
    BY <1>5, <1>6 DEF Patched, p, q, B

\* What a write changes: nothing but these bytes, and no size.
LEMMA WhatIsWritten ==
  ASSUME NEW f, IsElf(f), NEW s, NEW k, HasId(f, s, k), Tells(f, s, k),
         NEW bytes \in Seq(0 .. 255), Len(bytes) = info.size, NEW n \in 0 .. info.size,
         NEW g, g = Written(f, bytes, n)
  PROVE  /\ IsElf(g) /\ SameShape(f, g)
         /\ Headers(g) = Headers(f)
         /\ \A r \in DOMAIN f.data : \A j \in DOMAIN f.data[r] :
              /\ DescOnly(g.data[r][j], f.data[r][j])
              /\ Len(g.data[r][j].desc) = Len(f.data[r][j].desc)
              /\ g.data[r][j] # f.data[r][j] => r = info.at /\ j = k
         /\ n = info.size => NotesHead(g, s)[k].desc = bytes
  <1> DEFINE N == NotesHead(f, s)
             d == Patched(bytes, N[k].desc, n)
             new == [N[k] EXCEPT !.desc = d]
             M == [j \in DOMAIN N |-> IF j \in NotesHere(f) THEN new ELSE N[j]]
  <1>1. /\ s[2] \in Noted(f, s[1]) /\ info.at = Table(f, s[1])[s[2]].at
        /\ info.at \in DOMAIN f.data
        /\ f.data[info.at] = N /\ AreNotes(N)
        /\ NotesHere(f) = {k} /\ k \in DOMAIN N
        /\ N[k].desc \in Seq(0 .. 255) /\ info.size = Len(N[k].desc)
    BY TheNoteHere
  <1>2. /\ d \in Seq(0 .. 255) /\ Len(d) = Len(N[k].desc)
        /\ n = info.size => d = bytes
    <2> HIDE DEF N
    <2> QED
      BY <1>1, PatchedBytes
  <1>3. g = [f EXCEPT !.data = [@ EXCEPT ![info.at] = M]]
    <2> DEFINE M0 == [j \in DOMAIN f.data[info.at] |->
                        IF j \in NotesHere(f)
                        THEN [f.data[info.at][j] EXCEPT !.desc = Patched(bytes, @, n)]
                        ELSE IF NotesHere(f) = {} /\ j \in NotesHolding(f)
                        THEN [f.data[info.at][j] EXCEPT !.desc = SubSeq(bytes, 1, n)]
                        ELSE f.data[info.at][j]]
    <2>1. g = [f EXCEPT !.data[info.at] = M0]
      BY DEF Written
    <2>2. M0 = M
      <3>1. NotesHere(f) # {}
        BY <1>1
      <3> QED
        BY <1>1, <3>1
    <2> HIDE DEF M0, M
    <2> QED
      BY <2>1, <2>2
  <1>4. /\ DOMAIN g = DOMAIN f /\ g.ph = f.ph /\ g.sh = f.sh /\ g.ehdr = f.ehdr
        /\ g.data = [f.data EXCEPT ![info.at] = M]
        /\ Headers(g) = Headers(f)
    <2>1. DOMAIN f = {"ehdr", "ph", "sh", "data"}
      BY DEF IsElf
    <2> HIDE DEF M
    <2> QED
      BY <1>3, <2>1 DEF Headers
  <1>5. /\ DOMAIN g.data = DOMAIN f.data
        /\ g.data = [r \in DOMAIN g.data |-> g.data[r]]
        /\ g.data[info.at] = M
        /\ \A r \in DOMAIN f.data : r # info.at => g.data[r] = f.data[r]
    <2>1. f.data = [r \in DOMAIN f.data |-> f.data[r]]
      BY DEF IsElf
    <2> HIDE DEF M
    <2> QED
      BY <1>1, <1>4, <2>1
  <1>6. ASSUME NEW j \in DOMAIN N
        PROVE  /\ j = k => M[j] = new
               /\ j # k => M[j] = N[j]
    <2> HIDE DEF N, new
    <2> QED
      BY <1>1
  <1>7. /\ new = [kind |-> N[k].kind, namesz |-> N[k].namesz, descsz |-> N[k].descsz,
                  desc |-> d]
        /\ DescOnly(new, N[k]) /\ new.desc = d
    <2>1. IsNote(N[k])
      BY <1>1 DEF AreNotes
    <2>2. N[k] = [kind |-> N[k].kind, namesz |-> N[k].namesz, descsz |-> N[k].descsz,
                  desc |-> N[k].desc]
      BY <2>1 DEF IsNote
    <2> HIDE DEF N, d
    <2> QED
      BY <2>2 DEF DescOnly
  <1>8. IsNote(new)
    <2>1. IsNote(N[k])
      BY <1>1 DEF AreNotes
    <2> HIDE DEF new, N, d
    <2>2. /\ new.kind = N[k].kind /\ new.namesz = N[k].namesz /\ new.descsz = N[k].descsz
          /\ new.desc = d
          /\ new = [kind |-> new.kind, namesz |-> new.namesz, descsz |-> new.descsz,
                    desc |-> new.desc]
      BY <1>7
    <2> QED
      BY <1>2, <2>1, <2>2 DEF IsNote
  <1>9. DOMAIN M = DOMAIN N
    OBVIOUS
  <1>10. M = [j \in DOMAIN N |-> M[j]]
    OBVIOUS
  <1> HIDE DEF M, new
  <1>11. AreNotes(M)
    <2>1. IsSequence(M)
      <3>1. IsSequence(N) /\ Len(N) \in Nat /\ DOMAIN N = 1 .. Len(N)
        BY <1>1, SequenceLen DEF AreNotes
      <3> DEFINE S == {M[j] : j \in DOMAIN M}
      <3>2. M \in [1 .. Len(N) -> S]
        <4> HIDE DEF N
        <4> QED
          BY <1>9, <1>10, <3>1
      <3>3. M \in Seq(S)
        <4> HIDE DEF S, N
        <4> QED
          BY <3>1, <3>2
      <3> QED
        BY <3>3 DEF IsSequence
    <2>2. \A j \in DOMAIN M : IsNote(M[j])
      BY <1>1, <1>6, <1>8, <1>9 DEF AreNotes
    <2> QED
      BY <2>1, <2>2 DEF AreNotes
  <1>12. IsElf(g)
    <2>1. \A r \in DOMAIN g.data : AreNotes(g.data[r])
      BY <1>5, <1>11, ElfParts
    <2>2. \A t \in {f.ph, f.sh} :
            IsSequence(t) /\ \A e \in DOMAIN t : t[e].note \in BOOLEAN
                                               /\ (t[e].note => t[e].at \in DOMAIN f.data)
      BY DEF IsElf
    <2>3. DOMAIN f = {"ehdr", "ph", "sh", "data"} /\ f.ehdr \in BOOLEAN
      BY DEF IsElf
    <2> QED
      BY <1>4, <1>5, <2>1, <2>2, <2>3 DEF IsElf, AreNotes
  <1>13. SameSizes(N, M)
    BY <1>6, <1>7, <1>9 DEF SameSizes
  <1>14. SameShape(f, g)
    <2>1. \A r \in DOMAIN f.data : SameSizes(f.data[r], g.data[r])
      BY <1>1, <1>5, <1>13 DEF SameSizes
    <2> QED
      BY <1>4, <1>5, <2>1 DEF SameShape
  <1>15. ASSUME NEW r \in DOMAIN f.data, NEW j \in DOMAIN f.data[r]
         PROVE  /\ DescOnly(g.data[r][j], f.data[r][j])
                /\ Len(g.data[r][j].desc) = Len(f.data[r][j].desc)
                /\ g.data[r][j] # f.data[r][j] => r = info.at /\ j = k
    <2>1. CASE r = info.at /\ j = k
      BY <1>1, <1>2, <1>5, <1>6, <1>7, <2>1
    <2>2. CASE ~(r = info.at /\ j = k)
      <3>1. g.data[r][j] = f.data[r][j]
        BY <1>1, <1>5, <1>6, <1>15, <2>2
      <3>2. IsNote(f.data[r][j])
        BY <1>15, ElfParts DEF AreNotes
      <3>3. DescOnly(f.data[r][j], f.data[r][j])
        BY <3>2 DEF IsNote, DescOnly
      <3> QED
        BY <2>2, <3>1, <3>3
    <2> QED
      BY <2>1, <2>2
  <1>16. n = info.size => NotesHead(g, s)[k].desc = bytes
    <2>1. NotesHead(g, s) = M
      BY <1>1, <1>4, <1>5 DEF NotesHead, NotesOf, Table
    <2> QED
      BY <1>1, <1>2, <1>6, <1>7, <2>1
  <1> QED
    BY <1>4, <1>12, <1>14, <1>15, <1>16

\* The walk went astray and info is inside a description, of no build ID.
Misread(f) ==
  /\ info.at \in DOMAIN f.data /\ NotesHere(f) = {}
  /\ \A j \in NotesHolding(f) : f.data[info.at][j].kind # "buildid"

\* What is written there leaves a file with its notes.
LEMMA WhatIsOverwritten ==
  ASSUME NEW f, IsElf(f), Misread(f), NEW bytes \in Seq(0 .. 255), NEW n \in 0 .. Len(bytes),
         NEW g, g = Written(f, bytes, n)
  PROVE  IsElf(g)
  <1> DEFINE N == f.data[info.at]
             b == SubSeq(bytes, 1, n)
             new(j) == [N[j] EXCEPT !.desc = b]
             M == [j \in DOMAIN N |-> IF j \in NotesHolding(f) THEN new(j) ELSE N[j]]
  <1>1. info.at \in DOMAIN f.data /\ NotesHere(f) = {} /\ AreNotes(N)
    BY ElfParts DEF Misread
  <1>2. b \in Seq(0 .. 255)
    <2> DEFINE B == 0 .. 255
    <2>1. Len(bytes) \in Nat /\ n \in Int /\ n <= Len(bytes) /\ 1 \in Int
      BY LenProperties
    <2>2. \A i \in 1 .. n : bytes[i] \in B
      <3>1. \A i \in 1 .. Len(bytes) : bytes[i] \in B
        BY ElementOfSeq
      <3> QED
        BY <2>1, <3>1
    <2> HIDE DEF B
    <2>3. b \in Seq(B)
      BY <2>1, <2>2, SubSeqProperties
    <2> QED
      BY <2>3 DEF B
  <1>3. g = [f EXCEPT !.data = [@ EXCEPT ![info.at] = M]]
    <2> DEFINE M0 == [j \in DOMAIN f.data[info.at] |->
                        IF j \in NotesHere(f)
                        THEN [f.data[info.at][j] EXCEPT !.desc = Patched(bytes, @, n)]
                        ELSE IF NotesHere(f) = {} /\ j \in NotesHolding(f)
                        THEN [f.data[info.at][j] EXCEPT !.desc = SubSeq(bytes, 1, n)]
                        ELSE f.data[info.at][j]]
    <2>1. g = [f EXCEPT !.data[info.at] = M0]
      BY DEF Written
    <2>2. M0 = M
      BY <1>1
    <2> HIDE DEF M0, M
    <2> QED
      BY <2>1, <2>2
  <1>4. /\ DOMAIN g = DOMAIN f /\ g.ph = f.ph /\ g.sh = f.sh /\ g.ehdr = f.ehdr
        /\ g.data = [f.data EXCEPT ![info.at] = M]
    <2>1. DOMAIN f = {"ehdr", "ph", "sh", "data"}
      BY DEF IsElf
    <2> HIDE DEF M
    <2> QED
      BY <1>3, <2>1
  <1>5. /\ DOMAIN g.data = DOMAIN f.data
        /\ g.data = [r \in DOMAIN g.data |-> g.data[r]]
        /\ g.data[info.at] = M
        /\ \A r \in DOMAIN f.data : r # info.at => g.data[r] = f.data[r]
    <2>1. f.data = [r \in DOMAIN f.data |-> f.data[r]]
      BY DEF IsElf
    <2> HIDE DEF M
    <2> QED
      BY <1>1, <1>4, <2>1
  <1>6. ASSUME NEW j \in DOMAIN N PROVE IsNote(M[j])
    <2>1. IsNote(N[j])
      BY <1>1 DEF AreNotes
    <2>2. CASE j \in NotesHolding(f)
      <3>1. M[j] = new(j)
        BY <2>2
      <3>2. N[j] = [kind |-> N[j].kind, namesz |-> N[j].namesz, descsz |-> N[j].descsz,
                    desc |-> N[j].desc]
        BY <2>1 DEF IsNote
      <3>4. N[j].kind # "buildid"
        BY <2>2 DEF Misread
      <3> HIDE DEF N, b, M
      <3>3. new(j) = [kind |-> N[j].kind, namesz |-> N[j].namesz, descsz |-> N[j].descsz,
                      desc |-> b]
        BY <3>2
      <3> QED
        BY <1>2, <2>1, <3>1, <3>3, <3>4 DEF IsNote
    <2>3. CASE j \notin NotesHolding(f)
      BY <2>1, <2>3
    <2> QED
      BY <2>2, <2>3
  <1>7. AreNotes(M)
    <2>1. DOMAIN M = DOMAIN N /\ M = [j \in DOMAIN N |-> M[j]]
      OBVIOUS
    <2>2. IsSequence(N) /\ Len(N) \in Nat /\ DOMAIN N = 1 .. Len(N)
      BY <1>1, SequenceLen DEF AreNotes
    <2> HIDE DEF M, N
    <2> DEFINE S == {M[j] : j \in DOMAIN M}
    <2>3. M \in [1 .. Len(N) -> S]
      BY <2>1, <2>2
    <2>4. M \in Seq(S)
      <3> HIDE DEF S
      <3> QED
        BY <2>2, <2>3
    <2> QED
      BY <1>6, <2>1, <2>4 DEF AreNotes, IsSequence
  <1> HIDE DEF M
  <1>8. \A r \in DOMAIN g.data : AreNotes(g.data[r])
    BY <1>5, <1>7, ElfParts
  <1>9. \A t \in {f.ph, f.sh} :
          IsSequence(t) /\ \A e \in DOMAIN t : t[e].note \in BOOLEAN
                                             /\ (t[e].note => t[e].at \in DOMAIN f.data)
    BY DEF IsElf
  <1>10. DOMAIN f = {"ehdr", "ph", "sh", "data"} /\ f.ehdr \in BOOLEAN
    BY DEF IsElf
  <1> QED
    BY <1>4, <1>5, <1>8, <1>9, <1>10 DEF IsElf, AreNotes

-----------------------------------------------------------------------------
(* Hexadecimal.                                                            *)

Nibbles == 0 .. 15
Digits == {c \in 0 .. 255 : IsHex(c)}

LEMMA NibblePrinted ==
  ASSUME NEW n \in Nibbles
  PROVE  /\ nibble_to_hex(n) \in 0 .. 255 /\ IsHex(nibble_to_hex(n))
         /\ hex_to_nibble(nibble_to_hex(n)) = n
  BY DEF nibble_to_hex, IsHex, hex_to_nibble, Nibbles

LEMMA DigitRead ==
  ASSUME NEW c \in Digits
  PROVE  /\ hex_to_nibble(c) \in Nibbles
         /\ nibble_to_hex(hex_to_nibble(c)) = IF c \in 65 .. 70 THEN c + 32 ELSE c
  BY DEF nibble_to_hex, IsHex, hex_to_nibble, Nibbles, Digits

LEMMA AsSequence ==
  ASSUME NEW m \in Nat, NEW S, NEW f \in [1 .. m -> S]
  PROVE  f \in Seq(S) /\ Len(f) = m
  OBVIOUS

\* Two digits make a byte, and a byte two digits.
LEMMA ByteOf ==
  ASSUME NEW x \in Nibbles, NEW y \in Nibbles
  PROVE  x * 16 + y \in 0 .. 255 /\ (x * 16 + y) \div 16 = x /\ (x * 16 + y) % 16 = y
  <1> USE DEF Nibbles
  <1>1. x * 16 + y \in 0 .. 255
    OBVIOUS
  <1>2. (x * 16 + y) \div 16 = x
    OBVIOUS
  <1>3. (x * 16 + y) % 16 = y
    OBVIOUS
  <1> QED
    BY <1>1, <1>2, <1>3

LEMMA DigitsOf ==
  ASSUME NEW b \in 0 .. 255
  PROVE  /\ b \div 16 \in Nibbles /\ b % 16 \in Nibbles
         /\ (b \div 16) * 16 + (b % 16) = b
  <1>1. b \div 16 \in Nibbles
    BY DEF Nibbles
  <1>2. b % 16 \in Nibbles
    BY DEF Nibbles
  <1>3. (b \div 16) * 16 + (b % 16) = b
    OBVIOUS
  <1> QED
    BY <1>1, <1>2, <1>3

LEMMA Half ==
  ASSUME NEW l \in Nat, l % 2 = 0
  PROVE  l \div 2 \in Nat /\ 2 * (l \div 2) = l
  OBVIOUS

LEMMA Halves ==
  /\ \A k \in Int : /\ ((2 * k - 1) + 1) \div 2 = k /\ (2 * k - 1) % 2 = 1
                    /\ (2 * k + 1) \div 2 = k /\ (2 * k) % 2 = 0 /\ (2 * k) \div 2 = k
  /\ \A k \in Int : k % 2 = 1 => 2 * ((k + 1) \div 2) - 1 = k
  /\ \A k \in Int : k % 2 # 1 => 2 * ((k + 1) \div 2) = k
  OBVIOUS

LEMMA BytesRead ==
  ASSUME NEW h \in Seq(0 .. 255), FromHexOK(h)
  PROVE  /\ from_hex(h) \in Seq(0 .. 255)
         /\ Len(h) \in Nat /\ 2 * Len(from_hex(h)) = Len(h)
         /\ Len(from_hex(h)) = Len(h) \div 2
         /\ \A k \in 1 .. Len(h) : h[k] \in Digits
         /\ \A k \in 1 .. Len(from_hex(h)) :
              /\ 2 * k - 1 \in 1 .. Len(h) /\ 2 * k \in 1 .. Len(h)
              /\ from_hex(h)[k] = hex_to_nibble(h[2 * k - 1]) * 16 + hex_to_nibble(h[2 * k])
  <1> DEFINE m == Len(h) \div 2
             B == 0 .. 255
             byte(k) == hex_to_nibble(h[2 * k - 1]) * 16 + hex_to_nibble(h[2 * k])
             g == [k \in 1 .. m |-> byte(k)]
  <1>1. Len(h) \in Nat /\ DOMAIN h = 1 .. Len(h) /\ Len(h) % 2 = 0
    BY LenProperties DEF FromHexOK
  <1>2. m \in Nat /\ 2 * m = Len(h)
    <2>1. PICK l : l = Len(h)
      OBVIOUS
    <2>2. l \div 2 \in Nat /\ 2 * (l \div 2) = l
      BY <1>1, <2>1, Half
    <2>3. Len(h) \div 2 = l \div 2
      BY <2>1, Zenon
    <2>4. m = l \div 2
      BY <2>3, Zenon
    <2> HIDE DEF m
    <2>5. m \in Nat /\ 2 * m = l
      BY <2>2, <2>4, Zenon
    <2> QED
      BY <2>1, <2>5, Zenon
  <1> HIDE DEF m
  <1>3. ASSUME NEW k \in 1 .. Len(h) PROVE h[k] \in Digits
    <2>1. h[k] \in 0 .. 255
      BY <1>1, ElementOfSeq
    <2>2. IsHex(h[k])
      BY <1>1 DEF FromHexOK
    <2> QED
      BY <2>1, <2>2 DEF Digits
  <1>4. ASSUME NEW k \in 1 .. m
        PROVE  /\ 2 * k - 1 \in 1 .. Len(h) /\ 2 * k \in 1 .. Len(h)
               /\ byte(k) \in B
    <2>1. 2 * k - 1 \in 1 .. Len(h) /\ 2 * k \in 1 .. Len(h)
      BY <1>1, <1>2
    <2>2. hex_to_nibble(h[2 * k - 1]) \in Nibbles /\ hex_to_nibble(h[2 * k]) \in Nibbles
      BY <1>3, <2>1, DigitRead
    <2>3. byte(k) \in B
      BY <2>2, ByteOf
    <2> HIDE DEF byte, B
    <2> QED
      BY <2>1, <2>3
  <1> HIDE DEF byte, B
  <1>5. g \in [1 .. m -> B] /\ \A k \in 1 .. m : g[k] = byte(k)
    BY <1>4
  <1> HIDE DEF g
  <1>6. g \in Seq(B) /\ Len(g) = m
    BY <1>2, <1>5, AsSequence
  <1>7. from_hex(h) = g
    BY DEF from_hex, g, byte, m
  <1>8. from_hex(h) \in Seq(B) /\ Len(from_hex(h)) = m
    BY <1>6, <1>7
  <1>9. ASSUME NEW k \in 1 .. m
        PROVE  /\ 2 * k - 1 \in 1 .. Len(h) /\ 2 * k \in 1 .. Len(h)
               /\ from_hex(h)[k] = byte(k)
    <2>1. from_hex(h)[k] = byte(k)
      BY <1>5, <1>7
    <2> QED
      BY <1>4, <2>1
  <1>10. m = Len(h) \div 2 /\ 2 * m = Len(h) /\ Len(h) \in Nat
    BY <1>1, <1>2 DEF m
  <1> QED
    BY <1>3, <1>8, <1>9, <1>10 DEF byte, B

LEMMA BytesPrinted ==
  ASSUME NEW data \in Seq(0 .. 255)
  PROVE  /\ to_hex(data) \in Seq(0 .. 255) /\ Len(data) \in Nat
         /\ Len(to_hex(data)) = 2 * Len(data)
         /\ \A k \in 1 .. 2 * Len(data) :
              /\ (k + 1) \div 2 \in 1 .. Len(data)
              /\ data[(k + 1) \div 2] \in 0 .. 255
              /\ IsHex(to_hex(data)[k])
              /\ to_hex(data)[k] = nibble_to_hex(IF k % 2 = 1 THEN data[(k + 1) \div 2] \div 16
                                                 ELSE data[(k + 1) \div 2] % 16)
  <1> DEFINE l == Len(data)
             B == 0 .. 255
             half(k) == IF k % 2 = 1 THEN data[(k + 1) \div 2] \div 16
                        ELSE data[(k + 1) \div 2] % 16
             digit(k) == nibble_to_hex(half(k))
             g == [k \in 1 .. 2 * l |-> digit(k)]
  <1>1. l \in Nat /\ 2 * l \in Nat
    BY LenProperties
  <1>2. ASSUME NEW k \in 1 .. 2 * l
        PROVE  /\ (k + 1) \div 2 \in 1 .. l
               /\ data[(k + 1) \div 2] \in 0 .. 255
               /\ IsHex(digit(k)) /\ digit(k) \in B
    <2>1. (k + 1) \div 2 \in 1 .. l
      <3> HIDE DEF l
      <3> QED
        BY <1>1
    <2>2. data[(k + 1) \div 2] \in 0 .. 255
      BY <2>1, ElementOfSeq
    <2>3. half(k) \in Nibbles
      BY <2>2, DigitsOf
    <2> HIDE DEF half
    <2> QED
      BY <2>1, <2>2, <2>3, NibblePrinted
  <1>3. to_hex(data) = g
    BY DEF to_hex
  <1> HIDE DEF digit, B, l
  <1>4. g \in [1 .. 2 * l -> B] /\ \A k \in 1 .. 2 * l : g[k] = digit(k)
    BY <1>2
  <1> HIDE DEF g
  <1>5. g \in Seq(B) /\ Len(g) = 2 * l
    <2>1. PICK m : m = 2 * l
      OBVIOUS
    <2>2. m \in Nat /\ g \in [1 .. m -> B]
      BY <1>1, <1>4, <2>1
    <2>3. g \in Seq(B) /\ Len(g) = m
      BY <2>2, AsSequence
    <2> QED
      BY <2>1, <2>3
  <1>6. to_hex(data) \in Seq(B) /\ l \in Nat /\ Len(to_hex(data)) = 2 * l
    BY <1>1, <1>3, <1>5
  <1>7. ASSUME NEW k \in 1 .. 2 * l
        PROVE  /\ (k + 1) \div 2 \in 1 .. l
               /\ data[(k + 1) \div 2] \in 0 .. 255
               /\ IsHex(to_hex(data)[k]) /\ to_hex(data)[k] = digit(k)
    <2>1. to_hex(data)[k] = digit(k)
      BY <1>3, <1>4
    <2> QED
      BY <1>2, <2>1
  <1> QED
    BY <1>6, <1>7 DEF digit, B, l

\* What is printed reads back as the bytes.
LEMMA PrintedReadsBack ==
  ASSUME NEW data \in Seq(0 .. 255)
  PROVE  FromHexOK(to_hex(data)) /\ from_hex(to_hex(data)) = data
  <1> DEFINE h == to_hex(data)
             g == from_hex(h)
  <1>1. /\ h \in Seq(0 .. 255) /\ Len(data) \in Nat /\ Len(h) = 2 * Len(data)
        /\ DOMAIN h = 1 .. Len(h)
        /\ \A k \in 1 .. Len(h) : IsHex(h[k])
    BY BytesPrinted, LenProperties
  <1>2. FromHexOK(h)
    <2> HIDE DEF h
    <2>1. Len(h) % 2 = 0
      BY <1>1, Halves
    <2> QED
      BY <1>1, <2>1 DEF FromHexOK
  <1>3. g \in Seq(0 .. 255) /\ Len(g) = Len(data)
    <2>1. g \in Seq(0 .. 255) /\ Len(g) = Len(h) \div 2
      BY <1>1, <1>2, BytesRead
    <2> HIDE DEF h, g
    <2> QED
      BY <1>1, <2>1, Halves
  <1>4. ASSUME NEW k \in 1 .. Len(data) PROVE g[k] = data[k]
    <2>1. 2 * k - 1 \in 1 .. 2 * Len(data) /\ 2 * k \in 1 .. 2 * Len(data)
      BY <1>1
    <2>2. g[k] = hex_to_nibble(h[2 * k - 1]) * 16 + hex_to_nibble(h[2 * k])
      BY <1>1, <1>2, <1>3, BytesRead
    <2>3. data[k] \in 0 .. 255
      BY ElementOfSeq
    <2>4. h[2 * k - 1] = nibble_to_hex(data[k] \div 16)
      <3>1. PICK i : i = 2 * k - 1
        OBVIOUS
      <3>2. i \in 1 .. 2 * Len(data) /\ (i + 1) \div 2 = k /\ i % 2 = 1
        BY <2>1, <3>1, Halves
      <3>3. h[i] = nibble_to_hex(data[(i + 1) \div 2] \div 16)
        BY <3>2, BytesPrinted
      <3> HIDE DEF h
      <3> QED
        BY <3>1, <3>2, <3>3
    <2>5. h[2 * k] = nibble_to_hex(data[k] % 16)
      <3>1. PICK i : i = 2 * k
        OBVIOUS
      <3>2. i \in 1 .. 2 * Len(data) /\ (i + 1) \div 2 = k /\ i % 2 = 0
        BY <2>1, <3>1, Halves
      <3>3. h[i] = nibble_to_hex(data[(i + 1) \div 2] % 16)
        BY <3>2, BytesPrinted
      <3> HIDE DEF h
      <3> QED
        BY <3>1, <3>2, <3>3
    <2>6. data[k] \div 16 \in Nibbles /\ data[k] % 16 \in Nibbles
          /\ (data[k] \div 16) * 16 + (data[k] % 16) = data[k]
      BY <2>3, DigitsOf
    <2> HIDE DEF h, g
    <2>7. hex_to_nibble(h[2 * k - 1]) = data[k] \div 16 /\ hex_to_nibble(h[2 * k]) = data[k] % 16
      BY <2>4, <2>5, <2>6, NibblePrinted
    <2> QED
      BY <2>2, <2>6, <2>7
  <1> HIDE DEF g
  <1>5. g = data
    BY <1>3, <1>4, SeqEqual
  <1> QED
    BY <1>2, <1>5 DEF g

\* What is read prints back in lower case.
LEMMA ReadPrintsBack ==
  ASSUME NEW h \in Seq(0 .. 255), FromHexOK(h)
  PROVE  to_hex(from_hex(h)) = LowerCase(h)
  <1> DEFINE d == from_hex(h)
             p == to_hex(d)
             low(k) == IF h[k] \in 65 .. 70 THEN h[k] + 32 ELSE h[k]
  <1>1. /\ d \in Seq(0 .. 255) /\ Len(h) \in Nat /\ 2 * Len(d) = Len(h)
        /\ DOMAIN h = 1 .. Len(h)
        /\ \A k \in 1 .. Len(h) : h[k] \in Digits
        /\ \A k \in 1 .. Len(d) :
              d[k] = hex_to_nibble(h[2 * k - 1]) * 16 + hex_to_nibble(h[2 * k])
    BY BytesRead, LenProperties
  <1> HIDE DEF d
  <1>2. /\ p \in Seq(0 .. 255) /\ Len(p) = Len(h)
        /\ \A k \in 1 .. Len(h) :
             /\ (k + 1) \div 2 \in 1 .. Len(d)
             /\ p[k] = nibble_to_hex(IF k % 2 = 1 THEN d[(k + 1) \div 2] \div 16
                                     ELSE d[(k + 1) \div 2] % 16)
    BY <1>1, BytesPrinted
  <1> HIDE DEF p
  <1>3. ASSUME NEW k \in 1 .. Len(h) PROVE p[k] = low(k)
    <2> DEFINE j == (k + 1) \div 2
    <2>1. j \in 1 .. Len(d) /\ d[j] = hex_to_nibble(h[2 * j - 1]) * 16 + hex_to_nibble(h[2 * j])
      BY <1>1, <1>2
    <2>2. 2 * j - 1 \in 1 .. Len(h) /\ 2 * j \in 1 .. Len(h)
      <3>1. Len(d) \in Nat
        BY <1>1, LenProperties
      <3> HIDE DEF j
      <3> QED
        BY <1>1, <2>1, <3>1
    <2>3. hex_to_nibble(h[2 * j - 1]) \in Nibbles /\ hex_to_nibble(h[2 * j]) \in Nibbles
      <3> HIDE DEF j
      <3> QED
        BY <1>1, <2>2, DigitRead
    <2>4. d[j] \div 16 = hex_to_nibble(h[2 * j - 1]) /\ d[j] % 16 = hex_to_nibble(h[2 * j])
      <3> HIDE DEF j
      <3> QED
        BY <2>1, <2>3, ByteOf
    <2>5. p[k] = nibble_to_hex(hex_to_nibble(h[k]))
      <3>0. k \in Int
        OBVIOUS
      <3>1. CASE k % 2 = 1
        <4>1. 2 * j - 1 = k
          BY <3>0, <3>1, Halves
        <4>2. p[k] = nibble_to_hex(d[j] \div 16)
          BY <1>2, <3>1
        <4> HIDE DEF j
        <4> QED
          BY <2>4, <4>1, <4>2
      <3>2. CASE k % 2 # 1
        <4>1. 2 * j = k
          BY <3>0, <3>2, Halves
        <4>2. p[k] = nibble_to_hex(d[j] % 16)
          BY <1>2, <3>2
        <4> HIDE DEF j
        <4> QED
          BY <2>4, <4>1, <4>2
      <3> QED
        BY <3>1, <3>2
    <2> QED
      BY <1>1, <2>5, DigitRead
  <1>4. p = [k \in 1 .. Len(h) |-> p[k]]
    BY <1>2, LenProperties
  <1>5. LowerCase(h) = [k \in 1 .. Len(h) |-> low(k)]
    BY <1>1 DEF LowerCase
  <1> HIDE DEF low
  <1>6. p = LowerCase(h)
    BY <1>3, <1>4, <1>5
  <1> QED
    BY <1>6 DEF p, d

-----------------------------------------------------------------------------
(* The inductive invariant.                                                *)

\* While the program runs its file is as it was.
ControlInv ==
  /\ IsElf(file)
  /\ args.hex \in Seq(0 .. 255) /\ args.print \in BOOLEAN /\ args.isnew \in BOOLEAN
  /\ pc # "exit" => file = before /\ out = <<>> /\ args.print # args.isnew

\* The search is somewhere in its file, on the path unless it went astray.
On(s) == s \in Positions(file) /\ (~astray => OnPath(file, s))

\* It has found nothing yet.
SearchInv ==
  /\ pc = "table" => On(<<tbl, 1, Scan>>)
  /\ pc = "scan" => table # <<>> /\ On(<<tbl, start, Scan>>)
  /\ pc = "fetch" => On(<<tbl, start, 0>>)
  /\ pc = "notes" => pos \in Nat /\ On(<<tbl, start, pos>>)
  /\ pc \in {"ehdr", "table", "scan", "fetch", "notes"} => info.size = 0 /\ ~garbage

\* A walk goes astray only where a size is cut, and what was acknowledged is forgotten.
AstrayInv == astray => acked = <<>> /\ (pc # "exit" => ~Fits16(file))

\* info is that of a build ID, on the path unless the walk went astray.
FoundAt(f) == \E s, k : HasId(f, s, k) /\ Tells(f, s, k) /\ (~astray => OnPath(f, s))

PathEnds(f) == \E e : OnPath(f, <<"sh", e, Scan>>) /\ Later(f, "sh", e) = {}

\* Where the search ends with an rv never assigned.
NoEntries ==
  /\ rv # 0 /\ info.size = 0
  /\ table # <<>> /\ Noted(file, tbl) = {}
  /\ Fits16(file) /\ tbl = "sh" => NoBuildId(file, "ph")

\* A result of 1 is a build ID on the path, a result of 0 the end of the path, unless
\* the walk went astray.
ResultInv ==
  /\ pc \in {"result", "write"} =>
       /\ rv \in {-1, 0, 1}
       /\ garbage => NoEntries
       /\ rv = 1 /\ ~garbage => FoundAt(file) \/ (astray /\ Misread(file))
       /\ rv = 0 /\ ~astray => PathEnds(file)
       /\ rv = -1 => fault \/ garbage \/ ~file.ehdr
  /\ pc = "write" => rv = 1 /\ args.isnew /\ ~args.print /\ Acceptable

\* Any search of the file that finds a build ID finds the value that was acknowledged.
AckedInv ==
  acked # <<>> =>
    /\ acked \in Seq(0 .. 255) /\ FromHexOK(acked)
    /\ \A s, k : OnPath(file, s) /\ HasId(file, s, k) =>
                   NotesHead(file, s)[k].desc = from_hex(acked)

OutInv ==
  out # <<>> =>
    /\ BytesHere(file) \in Seq(0 .. 255) /\ out = to_hex(BytesHere(file))
    /\ acked # <<>> => BytesHere(file) = from_hex(acked)

IInv ==
  ControlInv /\ SearchInv /\ AstrayInv /\ ResultInv /\ OnlyBuildIdEdited /\ AckedInv /\ OutInv

LEMMA OnStart ==
  ASSUME IsElf(file)
  PROVE  On(<<"ph", 1, Scan>>)
  BY PathStart, PathInFile DEF On

LEMMA OnStep ==
  ASSUME IsElf(file), NEW s, On(s), NEW u, Leads(file, s, u)
  PROVE  On(u)
  BY StepInFile, PathStep DEF On

\* A file that is as it was satisfies OnlyBuildIdEdited.
LEMMA Untouched ==
  ASSUME IsElf(file), file = before
  PROVE  OnlyBuildIdEdited
  <1>1. \A r \in DOMAIN file.data : \A k \in DOMAIN file.data[r] :
          DescOnly(file.data[r][k], file.data[r][k])
    <2> SUFFICES ASSUME NEW r \in DOMAIN file.data, NEW k \in DOMAIN file.data[r]
                 PROVE  DescOnly(file.data[r][k], file.data[r][k])
      OBVIOUS
    <2>1. IsNote(file.data[r][k])
      BY ElfParts DEF AreNotes
    <2> QED
      BY <2>1 DEF IsNote, DescOnly
  <1> QED
    BY <1>1 DEF OnlyBuildIdEdited, OnlyIdOverwritten

LEMMA UntouchedNext ==
  ASSUME IsElf(file'), file' = before'
  PROVE  OnlyBuildIdEdited'
  <1>1. \A r \in DOMAIN file'.data : \A k \in DOMAIN file'.data[r] :
          DescOnly(file'.data[r][k], file'.data[r][k])
    <2> SUFFICES ASSUME NEW r \in DOMAIN file'.data, NEW k \in DOMAIN file'.data[r]
                 PROVE  DescOnly(file'.data[r][k], file'.data[r][k])
      OBVIOUS
    <2>1. IsNote(file'.data[r][k])
      BY ElfParts DEF AreNotes
    <2> QED
      BY <2>1 DEF IsNote, DescOnly
  <1> QED
    BY <1>1 DEF OnlyBuildIdEdited, OnlyIdOverwritten

\* The parts that a step which neither writes nor prints keeps.
LEMMA QuietStep ==
  ASSUME IInv, pc # "exit", UNCHANGED <<file, args, before, out>>, acked' \in {acked, <<>>}
  PROVE  ControlInv' /\ OnlyBuildIdEdited' /\ AckedInv' /\ OutInv'
  <1>1. ControlInv /\ AckedInv
    BY DEF IInv
  <1>2. ControlInv'
    BY <1>1 DEF ControlInv
  <1>3. OnlyBuildIdEdited'
    <2>1. IsElf(file') /\ file' = before'
      BY <1>1 DEF ControlInv
    <2> QED
      BY <2>1, UntouchedNext
  <1>4. AckedInv'
    BY <1>1 DEF AckedInv
  <1>5. OutInv'
    BY <1>1 DEF ControlInv, OutInv
  <1> QED
    BY <1>2, <1>3, <1>4, <1>5

LEMMA Init_IInv ==
  ASSUME Init
  PROVE  IInv
  <1>1. IsElf(file)
    BY EditBuildIdAssumption DEF Init
  <1>2. args.hex \in Seq(0 .. 255)
    BY EmptySeq DEF Init
  <1>3. ControlInv
    BY <1>1, <1>2 DEF Init, ControlInv
  <1>4. SearchInv /\ AstrayInv /\ ResultInv /\ AckedInv /\ OutInv
    BY DEF Init, SearchInv, AstrayInv, ResultInv, AckedInv, OutInv
  <1>5. OnlyBuildIdEdited
    BY <1>1, Untouched DEF Init
  <1> QED
    BY <1>3, <1>4, <1>5 DEF IInv

-----------------------------------------------------------------------------
(* The steps of the search.                                                *)

\* The search goes on where it was, or there is a result.
SearchOn(s) == UNCHANGED <<file, info, astray>> /\ On(s) /\ info.size = 0

\* A table without a build ID has been searched to its end.
LEMMA TableDone ==
  ASSUME IInv, NEW e, SearchOn(<<tbl, e, Scan>>), Later(file, tbl, e) = {}, return(0), ~garbage'
  PROVE  SearchInv' /\ ResultInv'
  <1>1. <<tbl, e, Scan>> \in Positions(file) /\ IsElf(file)
    BY DEF SearchOn, On, IInv, ControlInv
  <1>2. tbl \in {"ph", "sh"}
    BY <1>1 DEF Positions
  <1>3. CASE tbl = "ph"
    <2>1. tbl' = "sh" /\ pc' = "table"
      BY <1>3 DEF return
    <2>2. Leads(file, <<tbl, e, Scan>>, <<"sh", 1, Scan>>)
      BY <1>1, <1>3 DEF Leads, LeavesTable
    <2>3. SearchOn(<<"sh", 1, Scan>>)
      BY <1>1, <2>2, OnStep DEF SearchOn
    <2> QED
      BY <2>1, <2>3 DEF SearchInv, ResultInv, SearchOn, On
  <1>4. CASE tbl = "sh"
    <2>1. pc' = "result" /\ rv' = 0
      BY <1>4 DEF return
    <2>2. ~astray' => PathEnds(file)'
      BY <1>4 DEF SearchOn, On, PathEnds
    <2> QED
      BY <2>1, <2>2 DEF SearchInv, ResultInv
  <1> QED
    BY <1>2, <1>3, <1>4

\* A system call fails.
LEMMA CallFails ==
  ASSUME return(-1), fault' = TRUE, ~garbage'
  PROVE  SearchInv' /\ ResultInv'
  <1>1. pc' = "result" /\ rv' = -1
    BY DEF return
  <1> QED
    BY <1>1 DEF SearchInv, ResultInv

LEMMA HeaderStep ==
  ASSUME IInv, find_build_id
  PROVE  SearchInv' /\ ResultInv'
  <1>1. info.size = 0 /\ ~garbage /\ UNCHANGED <<file, info, astray, garbage>> /\ IsElf(file)
    BY DEF find_build_id, IInv, SearchInv, ControlInv
  <1>2. CASE tbl' = "ph" /\ pc' = "table"
    <2>1. SearchOn(<<"ph", 1, Scan>>)
      BY <1>1, OnStart DEF SearchOn
    <2> QED
      BY <1>1, <1>2, <2>1 DEF SearchInv, ResultInv, SearchOn, On
  <1>3. CASE rv' = -1 /\ pc' = "result" /\ (~file.ehdr \/ fault')
    BY <1>1, <1>3 DEF SearchInv, ResultInv
  <1> QED
    BY <1>2, <1>3 DEF find_build_id

LEMMA TableStep ==
  ASSUME IInv, fetch_table
  PROVE  SearchInv' /\ ResultInv'
  <1>1. SearchOn(<<tbl, 1, Scan>>) /\ ~garbage' /\ start' = 1
    BY DEF fetch_table, IInv, SearchInv, SearchOn
  <1>2. CASE table = <<>> /\ return(0)
    <2>1. Noted(file, tbl) = {}
      BY <1>2 DEF Noted, table
    <2>2. Later(file, tbl, 1) = {}
      BY <2>1 DEF Later
    <2> QED
      BY <1>1, <1>2, <2>2, TableDone
  <1>3. CASE return(-1) /\ fault' = TRUE
    BY <1>1, <1>3, CallFails
  <1>4. CASE table # <<>> /\ pc' = "scan" /\ tbl' = tbl
    <2>1. table' # <<>>
      BY <1>1, <1>4 DEF table, SearchOn
    <2>2. On(<<tbl, 1, Scan>>)' /\ info'.size = 0
      BY <1>1, <1>4 DEF SearchOn, On
    <2> QED
      BY <1>1, <1>4, <2>1, <2>2 DEF SearchInv, ResultInv
  <1> QED
    BY <1>2, <1>3, <1>4 DEF fetch_table

LEMMA NotesFromHere ==
  ASSUME NEW e
  PROVE  NotesFrom(e) = Later(file, tbl, e)
  BY DEF NotesFrom, Later, Noted, table

LEMMA EntryStep ==
  ASSUME IInv, find_notes
  PROVE  SearchInv' /\ ResultInv'
  <1> DEFINE s == <<tbl, start, Scan>>
  <1>1. /\ SearchOn(s) /\ ~garbage /\ UNCHANGED <<garbage, tbl>> /\ pc' = "fetch"
        /\ IsElf(file)
    BY DEF find_notes, IInv, SearchInv, ControlInv, SearchOn
  <1>2. PICK k \in Later(file, tbl, start) :
          (\A j \in Later(file, tbl, start) : k <= j) /\ start' = k
    BY NotesFromHere DEF find_notes
  <1>3. s \in Positions(file)
    BY <1>1 DEF SearchOn, On
  <1>4. s[1] = tbl /\ s[2] = start /\ s[3] = Scan
    OBVIOUS
  <1>5. FindsEntry(file, s, <<tbl, k, 0>>)
    <2> HIDE DEF s
    <2> QED
      BY <1>2, <1>4 DEF FindsEntry
  <1>6. SearchOn(<<tbl, start', 0>>)
    <2>1. Leads(file, s, <<tbl, k, 0>>)
      BY <1>3, <1>5 DEF Leads
    <2> HIDE DEF s
    <2> QED
      BY <1>1, <1>2, <2>1, OnStep DEF SearchOn
  <1>7. On(<<tbl, start, 0>>)' /\ info'.size = 0
    BY <1>1, <1>6 DEF SearchOn, On
  <1> QED
    BY <1>1, <1>7 DEF SearchInv, ResultInv

LEMMA NoEntryStep ==
  ASSUME IInv, no_more_notes
  PROVE  SearchInv' /\ ResultInv'
  <1> DEFINE s == <<tbl, start, Scan>>
  <1>1. SearchOn(s) /\ ~garbage /\ Later(file, tbl, start) = {} /\ IsElf(file)
    BY NotesFromHere DEF no_more_notes, IInv, SearchInv, ControlInv, SearchOn
  <1>2. PICK v \in {-1, 0, 1} :
          return(v) /\ (v = 0 => ~garbage') /\ (v # 0 => garbage' /\ NotesFrom(1) = {})
    <2>1. CASE NotesFrom(1) = {}
      BY <2>1 DEF no_more_notes
    <2>2. CASE NotesFrom(1) # {}
      <3>1. return(0) /\ garbage' = garbage
        BY <2>2 DEF no_more_notes
      <3> QED
        BY <1>1, <3>1
    <2> QED
      BY <2>1, <2>2
  <1>3. CASE v = 0
    BY <1>1, <1>2, <1>3, TableDone
  <1>4. CASE v # 0
    <2>1. pc' = "result" /\ rv' = v /\ tbl' = tbl /\ UNCHANGED <<file, info, astray>>
      BY <1>1, <1>2, <1>4 DEF return, SearchOn
    <2>2. Noted(file, tbl) = {}
      <3>1. Later(file, tbl, 1) = {}
        BY <1>2, <1>4, NotesFromHere
      <3>2. \A e \in Noted(file, tbl) : e >= 1
        BY <1>1, ElfParts
      <3> QED
        BY <3>1, <3>2 DEF Later
    <2>3. table # <<>>
      BY DEF no_more_notes, IInv, SearchInv
    <2>4. Fits16(file) /\ tbl = "sh" => NoBuildId(file, "ph")
      <3> SUFFICES ASSUME Fits16(file), tbl = "sh" PROVE NoBuildId(file, "ph")
        OBVIOUS
      <3>1. ~astray
        BY DEF IInv, AstrayInv, no_more_notes
      <3>2. OnPath(file, s)
        BY <1>1, <3>1 DEF SearchOn, On
      <3>3. Passed(file, s)
        BY <1>1, <3>2, NonePassed
      <3> QED
        BY <3>3 DEF Passed
    <2>5. NoEntries'
      BY <1>1, <1>4, <2>1, <2>2, <2>3, <2>4 DEF NoEntries, SearchOn, table
    <2> QED
      BY <1>2, <1>4, <2>1, <2>5 DEF SearchInv, ResultInv
  <1> QED
    BY <1>3, <1>4

LEMMA RegionStep ==
  ASSUME IInv, fetch_notes
  PROVE  SearchInv' /\ ResultInv'
  <1>1. SearchOn(<<tbl, start, 0>>) /\ ~garbage'
    BY DEF fetch_notes, IInv, SearchInv, SearchOn
  <1>2. CASE pos' = 0 /\ pc' = "notes" /\ UNCHANGED <<tbl, start>>
    <2>1. On(<<tbl, start, 0>>)' /\ info'.size = 0
      BY <1>1, <1>2 DEF SearchOn, On
    <2> QED
      BY <1>1, <1>2, <2>1 DEF SearchInv, ResultInv
  <1>3. CASE return(-1) /\ fault' = TRUE
    BY <1>1, <1>3, CallFails
  <1> QED
    BY <1>2, <1>3 DEF fetch_notes

\* The walk through the notes of a region.
LEMMA Walking ==
  ASSUME IInv, pc = "notes"
  PROVE  LET s == <<tbl, start, pos>>
         IN /\ On(s) /\ s \in Positions(file) /\ pos \in Nat /\ s[3] # Scan
            /\ NotesHead(file, s) = region /\ AreNotes(region)
            /\ start \in Noted(file, tbl) /\ table[start].at \in DOMAIN file.data
            /\ AtNote => \E k \in NotesAt(region, pos) : note = region[k]
            /\ info.size = 0 /\ ~garbage /\ IsElf(file)
  <1> DEFINE s == <<tbl, start, pos>>
  <1>1. On(s) /\ info.size = 0 /\ ~garbage /\ IsElf(file)
    BY DEF IInv, SearchInv, ControlInv
  <1>2. s \in Positions(file)
    BY <1>1 DEF On
  <1>3. pos \in Nat /\ s[3] # Scan
    BY DEF IInv, SearchInv, Scan
  <1>4. NotesHead(file, s) = region
    BY DEF NotesHead, NotesOf, region, table
  <1>5. AtNote => \E k \in NotesAt(region, pos) : note = region[k]
    BY DEF AtNote, note
  <1>6. start \in Noted(file, tbl)
    BY <1>1, <1>2, <1>3, InNotes
  <1>7. AreNotes(region) /\ table[start].at \in DOMAIN file.data
    BY <1>1, <1>4, <1>6, ElfParts DEF region, table
  <1> QED
    BY <1>1, <1>2, <1>3, <1>4, <1>5, <1>6, <1>7

LEMMA OtherStep ==
  ASSUME IInv, other_note
  PROVE  SearchInv' /\ ResultInv'
  <1> DEFINE s == <<tbl, start, pos>>
             u == <<tbl, start, pos'>>
  <1>1. /\ pc = "notes" /\ AtNote /\ note.kind # "buildid"
        /\ pos' = next_note(pos, note.namesz, note.descsz)
        /\ UNCHANGED <<file, pc, tbl, start, info, astray, garbage>>
    BY DEF other_note, AtNote
  <1>2. /\ On(s) /\ s \in Positions(file) /\ s[3] # Scan /\ pos \in Nat
        /\ NotesHead(file, s) = region /\ AreNotes(region) /\ info.size = 0 /\ ~garbage
        /\ IsElf(file)
    BY <1>1, Walking
  <1>3. PICK k \in NotesAt(region, pos) : note = region[k]
    BY <1>1, Walking
  <1>4. s[1] = tbl /\ s[2] = start /\ s[3] = pos
    OBVIOUS
  <1>5. PassesNote(file, s, u)
    <2> HIDE DEF s
    <2> QED
      BY <1>1, <1>2, <1>3, <1>4 DEF PassesNote
  <1>6. SearchOn(u)
    <2>1. Leads(file, s, u)
      BY <1>2, <1>5 DEF Leads
    <2> HIDE DEF s, u
    <2> QED
      BY <1>1, <1>2, <2>1, OnStep DEF SearchOn
  <1>7. pos' \in Nat
    <2>1. IsNote(note)
      BY <1>2, <1>3 DEF AreNotes, NotesAt
    <2> QED
      BY <1>1, <1>2, <2>1, NextNote
  <1>8. On(s)' /\ info'.size = 0
    BY <1>1, <1>6 DEF SearchOn, On
  <1> QED
    BY <1>1, <1>2, <1>7, <1>8 DEF SearchInv, ResultInv

LEMMA FoundStep ==
  ASSUME IInv, buildid_note
  PROVE  SearchInv' /\ ResultInv'
  <1>0. PICK s : s = <<tbl, start, pos>>
    OBVIOUS
  <1>1. /\ pc = "notes" /\ AtNote /\ note.kind = "buildid" /\ note.descsz <= MAX_BUILDID_SIZE
        /\ info' = [at |-> table[start].at, offset |-> note_desc(pos, note.namesz),
                    size |-> note.descsz]
        /\ return(1) /\ UNCHANGED <<file, astray, garbage>>
    BY DEF buildid_note, AtNote
  <1>2. /\ On(s) /\ s \in Positions(file) /\ s[3] # Scan
        /\ NotesHead(file, s) = region /\ ~garbage
    BY <1>0, <1>1, Walking
  <1>3. PICK k \in NotesAt(region, pos) : note = region[k]
    BY <1>1, Walking
  <1>4. s[1] = tbl /\ s[2] = start /\ s[3] = pos
    BY <1>0
  <1>5. HasId(file, s, k)
    <2>1. k \in BuildIds(region)
      BY <1>1, <1>3 DEF BuildIds, NotesAt
    <2> QED
      BY <1>2, <1>3, <1>4, <2>1 DEF HasId
  <1>6. Tells(file, s, k)'
    BY <1>1, <1>2, <1>3, <1>4 DEF Tells, table
  <1>7. pc' = "result" /\ rv' = 1
    BY <1>1 DEF return
  <1>8. FoundAt(file)'
    BY <1>1, <1>2, <1>5, <1>6 DEF FoundAt, On
  <1> QED
    BY <1>1, <1>2, <1>7, <1>8 DEF SearchInv, ResultInv

LEMMA RegionDone ==
  ASSUME IInv, end_notes
  PROVE  SearchInv' /\ ResultInv'
  <1> DEFINE s == <<tbl, start, pos>>
             u == <<tbl, start', Scan>>
  <1>1. /\ pc = "notes" /\ pos >= RegionLen(region) /\ start' = start + 1 /\ pc' = "scan"
        /\ UNCHANGED <<file, tbl, info, astray, garbage>>
    BY DEF end_notes, NextEntry
  <1>2. /\ On(s) /\ s \in Positions(file) /\ s[3] # Scan
        /\ NotesHead(file, s) = region /\ info.size = 0 /\ ~garbage /\ IsElf(file)
    BY <1>1, Walking
  <1>3. s[1] = tbl /\ s[2] = start /\ s[3] = pos
    OBVIOUS
  <1>4. LeavesRegion(file, s, u)
    <2> HIDE DEF s
    <2> QED
      BY <1>1, <1>2, <1>3 DEF LeavesRegion
  <1>5. SearchOn(u)
    <2>1. Leads(file, s, u)
      BY <1>2, <1>4 DEF Leads
    <2> HIDE DEF s, u
    <2> QED
      BY <1>1, <1>2, <2>1, OnStep DEF SearchOn
  <1>6. On(<<tbl, start, Scan>>)' /\ info'.size = 0
    BY <1>1, <1>5 DEF SearchOn, On
  <1>7. table' # <<>>
    <2>1. start \in Noted(file, tbl)
      BY <1>1, Walking
    <2>2. table # <<>>
      BY <2>1 DEF Noted, table
    <2> QED
      BY <1>1, <2>2 DEF table
  <1> QED
    BY <1>1, <1>2, <1>6, <1>7 DEF SearchInv, ResultInv

\* The walk goes inside a description only in a file with a size that is cut.
LEMMA GoneAstray ==
  ASSUME IInv, Astray
  PROVE  ~Fits16(file)
  <1>1. CASE astray
    BY <1>1 DEF IInv, AstrayInv, Astray
  <1>2. CASE ~astray
    <2> DEFINE s == <<tbl, start, pos>>
    <2>1. /\ On(s) /\ s[3] # Scan /\ s[3] = pos /\ pos \in Nat
          /\ NotesHead(file, s) = region /\ AreNotes(region) /\ IsElf(file)
      BY Walking DEF Astray
    <2>2. OnPath(file, s)
      BY <1>2, <2>1 DEF On
    <2>3. pos < RegionLen(region) /\ NotesAt(region, pos) = {}
      BY DEF Astray
    <2>4. RegionLen(region) \in Nat
      <3>1. Len(region) \in Nat
        BY <2>1, SequenceLen DEF AreNotes
      <3> QED
        BY <2>1, <3>1, StartNumber DEF RegionLen
    <2>5. ~AtHeader(file, s)
      <3> HIDE DEF s
      <3> QED
        BY <2>1, <2>3, <2>4 DEF AtHeader
    <2> QED
      BY <2>1, <2>2, <2>5, NeverInside
  <1> QED
    BY <1>1, <1>2

\* It comes to a header again, or is misled for ever,
LEMMA StrayStep ==
  ASSUME IInv, stray_on \/ stray_oversize
  PROVE  SearchInv' /\ ResultInv'
  <1>1. /\ pc = "notes" /\ astray' = TRUE
        /\ UNCHANGED <<file, pc, tbl, start, info, garbage>>
    BY DEF stray_on, stray_oversize, Astray
  <1>2. /\ <<tbl, start, pos>> \in Positions(file) /\ pos \in Nat /\ AreNotes(region)
        /\ start \in Noted(file, tbl) /\ info.size = 0 /\ ~garbage
    BY <1>1, Walking
  <1>3. pos' \in Nat
    <2>1. CASE stray_on
      BY <1>2, <2>1, StartNumber DEF stray_on
    <2>2. CASE stray_oversize
      BY <1>2, <2>2 DEF stray_oversize
    <2> QED
      BY <2>1, <2>2
  <1>4. <<tbl, start, pos'>> \in Positions(file)
    BY <1>2, <1>3 DEF Positions
  <1>5. On(<<tbl, start, pos>>)'
    BY <1>1, <1>4 DEF On
  <1> QED
    BY <1>1, <1>2, <1>3, <1>5 DEF SearchInv, ResultInv

\* or takes bytes inside a description for a build ID.
LEMMA MisreadStep ==
  ASSUME IInv, stray_misread
  PROVE  SearchInv' /\ ResultInv'
  <1>1. pc = "notes" /\ return(1) /\ astray' = TRUE /\ UNCHANGED <<file, garbage>>
    BY DEF stray_misread, Astray
  <1>2. /\ pos \in Nat /\ AreNotes(region) /\ ~garbage
        /\ table[start].at \in DOMAIN file.data
    BY <1>1, Walking
  <1>3. PICK k \in DOMAIN region, s \in {Len(args.hex) \div 2, MAX_BUILDID_SIZE} :
          \E p \in FalseNotes(k, s) :
            info' = [at |-> table[start].at, offset |-> note_desc(p, 4), size |-> s]
    BY DEF stray_misread
  <1>4. PICK p \in FalseNotes(k, s) :
          info' = [at |-> table[start].at, offset |-> note_desc(p, 4), size |-> s]
    BY <1>3
  <1>5. s \in Nat
    <2>1. Len(args.hex) \in Nat
      BY LenProperties DEF IInv, ControlInv
    <2>2. PICK l : l = Len(args.hex)
      OBVIOUS
    <2>3. l \in Nat
      BY <2>1, <2>2
    <2>4. l \div 2 \in Nat
      BY <2>3, Halved
    <2>5. s = l \div 2 \/ s = MAX_BUILDID_SIZE
      BY <1>3, <2>2
    <2> QED
      BY <2>4, <2>5, EditBuildIdAssumption
  <1> DEFINE begin == NoteStart(region, k) + NHDR + pad4(region[k].namesz)
             x == note_desc(p, 4)
  <1>6. begin \in Nat /\ region[k].descsz \in Nat
    <2>1. NoteStart(region, k) \in Nat /\ IsNote(region[k])
      BY <1>2, Starts DEF AreNotes
    <2>2. pad4(region[k].namesz) \in Nat /\ region[k].descsz \in Nat
      BY <2>1, NoteLengths DEF IsNote
    <2> QED
      BY <2>1, <2>2 DEF NHDR
  <1>7. /\ p \in {pos, begin} /\ region[k].kind # "buildid"
        /\ p >= begin /\ p + NHDR + 4 + s <= begin + region[k].descsz
    BY <1>4 DEF FalseNotes
  <1>8. pad4(4 % UINT16) \in 0 .. 4
    <2>1. 4 % UINT16 \in 0 .. 4
      BY EditBuildIdAssumption
    <2> QED
      BY <2>1 DEF pad4
  <1>9. x \in Int /\ begin < x /\ x <= begin + region[k].descsz
    <2>1. x = p + NHDR + pad4(4 % UINT16)
      BY DEF note_desc
    <2> HIDE DEF begin, x
    <2> QED
      BY <1>2, <1>5, <1>6, <1>7, <1>8, <2>1 DEF NHDR
  <1>10. \A j \in DOMAIN region :
           LET start_j == NoteStart(region, j) + NHDR + pad4(region[j].namesz)
           IN /\ start_j # x
              /\ start_j < x /\ x < start_j + region[j].descsz => j = k
    <2> HIDE DEF x
    <2> QED
      BY <1>2, <1>9, NoneInside
  <1>11. info'.at \in DOMAIN file.data /\ file.data[info'.at] = region /\ info'.offset = x
    BY <1>2, <1>4 DEF region
  <1> HIDE DEF x
  <1>12. Misread(file)'
    <2>1. NotesHere(file)' = {}
      BY <1>1, <1>10, <1>11 DEF NotesHere
    <2>2. \A j \in NotesHolding(file)' : j = k
      BY <1>1, <1>10, <1>11 DEF NotesHolding
    <2> QED
      BY <1>1, <1>7, <1>11, <2>1, <2>2 DEF Misread
  <1>13. pc' = "result" /\ rv' = 1
    BY <1>1 DEF return
  <1> QED
    BY <1>1, <1>2, <1>12, <1>13 DEF SearchInv, ResultInv

-----------------------------------------------------------------------------
(* The steps of main.                                                      *)

LEMMA RunBegins ==
  ASSUME IInv, NEW a \in Args, main(a)
  PROVE  IInv'
  <1>1. a.hex \in Seq(0 .. 255) /\ a.print \in BOOLEAN /\ a.isnew \in BOOLEAN
    <2>1. CASE \E p \in BOOLEAN : a = [print |-> p, isnew |-> FALSE, hex |-> <<>>]
      BY <2>1, EmptySeq
    <2>2. CASE \E p \in BOOLEAN, h \in NewIds : a = [print |-> p, isnew |-> TRUE, hex |-> h]
      BY <2>2, EditBuildIdAssumption
    <2> QED
      BY <2>1, <2>2 DEF Args
  <1>2. /\ UNCHANGED <<file, acked>> /\ args' = a /\ before' = file /\ out' = <<>>
        /\ info'.size = 0 /\ garbage' = FALSE /\ astray' = FALSE
        /\ pc' = "exit" \/ (pc' = "ehdr" /\ a.print # a.isnew)
    BY DEF main
  <1>3. IsElf(file')
    BY <1>2 DEF IInv, ControlInv
  <1>4. ControlInv'
    BY <1>1, <1>2, <1>3 DEF ControlInv
  <1>5. SearchInv' /\ AstrayInv' /\ ResultInv' /\ OutInv'
    BY <1>2 DEF SearchInv, AstrayInv, ResultInv, OutInv
  <1>6. AckedInv'
    BY <1>2 DEF IInv, AckedInv
  <1>7. OnlyBuildIdEdited'
    BY <1>2, <1>3, UntouchedNext
  <1> QED
    BY <1>4, <1>5, <1>6, <1>7 DEF IInv

\* What info is that of depends on it, the file and the history alone.
LEMMA SameInfo ==
  ASSUME UNCHANGED <<file, info, astray>>
  PROVE  /\ FoundAt(file) => FoundAt(file)'
         /\ Misread(file) => Misread(file)'
  <1>1. \A s, k : Tells(file, s, k) => Tells(file, s, k)'
    BY DEF Tells
  <1>2. FoundAt(file) => FoundAt(file)'
    BY <1>1 DEF FoundAt
  <1>3. Misread(file) => Misread(file)'
    BY DEF Misread, NotesHere, NotesHolding
  <1> QED
    BY <1>2, <1>3

\* A run that ends without a write.
LEMMA RunEnds ==
  ASSUME IInv, stray_crash \/ not_found \/ refuse \/ seek_fails
  PROVE  IInv'
  <1>1. /\ pc # "exit" /\ pc' = "exit" /\ acked' \in {acked, <<>>}
        /\ UNCHANGED <<file, args, before, out>>
    BY DEF stray_crash, Astray, not_found, refuse, seek_fails, exit
  <1>2. SearchInv' /\ ResultInv'
    BY <1>1 DEF SearchInv, ResultInv
  <1>3. AstrayInv'
    <2>1. astray' = astray \/ acked' = <<>>
      BY DEF stray_crash, not_found, refuse, seek_fails, searchVars
    <2> QED
      BY <1>1, <2>1 DEF IInv, AstrayInv
  <1> QED
    BY <1>1, <1>2, <1>3, QuietStep DEF IInv

LEMMA AcceptStep ==
  ASSUME IInv, accept
  PROVE  IInv'
  <1>1. /\ pc = "result" /\ pc' = "write" /\ rv > 0 /\ args.isnew /\ Acceptable
        /\ UNCHANGED <<file, args, rv, tbl, start, pos, info, astray, garbage, out, acked, before,
                        fault>>
    BY DEF accept, searchVars, resultVars
  <1>2. rv \in {-1, 0, 1} /\ ResultInv /\ ControlInv
    BY <1>1 DEF IInv, ResultInv
  <1>3. rv = 1
    BY <1>1, <1>2
  <1>4. ~args.print
    BY <1>1, <1>2 DEF ControlInv
  <1>5. SearchInv'
    BY <1>1 DEF SearchInv
  <1>6. Acceptable'
    BY <1>1 DEF Acceptable
  <1>7. AstrayInv'
    BY <1>1 DEF IInv, AstrayInv
  <1>8. ResultInv'
    <2>1. garbage' => NoEntries'
      BY <1>1, <1>2 DEF ResultInv, NoEntries, table
    <2>2. ~garbage' => FoundAt(file)' \/ (astray /\ Misread(file))'
      BY <1>1, <1>2, <1>3, SameInfo DEF ResultInv
    <2> QED
      BY <1>1, <1>3, <1>4, <1>6, <2>1, <2>2 DEF ResultInv
  <1> QED
    BY <1>1, <1>5, <1>7, <1>8, QuietStep DEF IInv

\* With a result from the file, info is that of a build ID or of bytes misread.
LEMMA Found ==
  ASSUME IInv, pc \in {"result", "write"}, rv > 0, ~garbage
  PROVE  FoundAt(file) \/ (astray /\ Misread(file))
  <1>1. rv = 1
    BY DEF IInv, ResultInv
  <1> QED
    BY <1>1 DEF IInv, ResultInv

LEMMA PrintStep ==
  ASSUME IInv, print_id
  PROVE  IInv'
  <1>1. /\ pc = "result" /\ rv > 0 /\ pc' = "exit" /\ args.print
        /\ out' = IF garbage \/ NotesHere(file) = {} THEN <<>> ELSE to_hex(BytesHere(file))
        /\ UNCHANGED <<file, args, info, astray, acked, before>>
    BY DEF print_id, exit, searchVars
  <1>2. ControlInv /\ AstrayInv /\ AckedInv
    BY DEF IInv
  <1>3. IsElf(file') /\ file' = before'
    BY <1>1, <1>2 DEF ControlInv
  <1>4. ControlInv' /\ SearchInv' /\ AstrayInv' /\ ResultInv'
    BY <1>1, <1>2, <1>3 DEF ControlInv, SearchInv, AstrayInv, ResultInv
  <1>5. AckedInv'
    BY <1>1, <1>2 DEF AckedInv
  <1>6. OnlyBuildIdEdited'
    BY <1>3, UntouchedNext
  <1>7. BytesHere(file)' = BytesHere(file)
    BY <1>1 DEF BytesHere, NotesHere
  <1>8. OutInv'
    <2>1. CASE garbage \/ NotesHere(file) = {}
      BY <1>1, <2>1 DEF OutInv
    <2>2. CASE ~garbage /\ NotesHere(file) # {}
      <3>1. FoundAt(file)
        BY <1>1, <2>2, Found DEF Misread
      <3>2. PICK s, k : HasId(file, s, k) /\ Tells(file, s, k) /\ (~astray => OnPath(file, s))
        BY <3>1 DEF FoundAt
      <3>3. BytesHere(file) = NotesHead(file, s)[k].desc /\ BytesHere(file) \in Seq(0 .. 255)
        BY <1>2, <3>2, TheNoteHere DEF ControlInv
      <3>4. acked # <<>> => BytesHere(file) = from_hex(acked)
        BY <1>2, <3>2, <3>3 DEF AckedInv, AstrayInv
      <3> QED
        BY <1>1, <1>7, <2>2, <3>3, <3>4 DEF OutInv
    <2> QED
      BY <2>1, <2>2
  <1> QED
    BY <1>4, <1>5, <1>6, <1>8 DEF IInv

\* A write of n bytes to a build ID that was found.
LEMMA IdWritten ==
  ASSUME IInv, NEW s, NEW k, HasId(file, s, k), Tells(file, s, k),
         ~astray => OnPath(file, s),
         file = before, UNCHANGED <<info, before, astray>>,
         FromHexOK(args.hex), Len(from_hex(args.hex)) = info.size, NEW n \in 0 .. info.size,
         file' = Written(file, from_hex(args.hex), n),
         acked' = IF n = info.size /\ ~astray THEN args.hex ELSE <<>>
  PROVE  IsElf(file') /\ OnlyIdOverwritten' /\ AckedInv'
  <1> DEFINE bytes == from_hex(args.hex)
  <1>1. IsElf(file) /\ args.hex \in Seq(0 .. 255)
    BY DEF IInv, ControlInv
  <1>2. bytes \in Seq(0 .. 255)
    BY <1>1, BytesRead
  <1>3. PICK g : g = Written(file, bytes, n)
    OBVIOUS
  <1>4. /\ IsElf(g) /\ SameShape(file, g)
        /\ Headers(g) = Headers(file)
        /\ \A r \in DOMAIN file.data : \A j \in DOMAIN file.data[r] :
             /\ DescOnly(g.data[r][j], file.data[r][j])
             /\ Len(g.data[r][j].desc) = Len(file.data[r][j].desc)
             /\ g.data[r][j] # file.data[r][j] => r = info.at /\ j = k
        /\ n = info.size => NotesHead(g, s)[k].desc = bytes
    <2> HIDE DEF bytes
    <2> QED
      BY <1>1, <1>2, <1>3, WhatIsWritten DEF bytes
  <1>5. file' = g
    BY <1>3
  <1> HIDE DEF bytes
  <1>6. HasId(g, s, k) /\ Tells(g, s, k)
    <2>1. HasId(g, s, k)
      BY <1>1, <1>4, SameId
    <2>2. SameSizes(NotesHead(file, s), NotesHead(g, s)) /\ k \in DOMAIN NotesHead(file, s)
      BY <1>1, <1>4, ShapeFixesSearch, TheNoteHere DEF HasId
    <2>3. Table(g, s[1]) = Table(file, s[1])
      BY <1>4 DEF SameShape, Table
    <2> QED
      BY <2>1, <2>2, <2>3 DEF Tells, SameSizes
  <1>7. NotesHere(file)' = {k}
    <2>1. NotesHere(g) = {k}
      BY <1>4, <1>6, TheNoteHere
    <2>2. NotesHere(file)' = NotesHere(g)
      BY <1>5 DEF NotesHere
    <2> QED
      BY <2>1, <2>2
  <1>8. OnlyIdOverwritten'
    <2>1. DOMAIN g.data = DOMAIN file.data
          /\ \A r \in DOMAIN file.data : DOMAIN g.data[r] = DOMAIN file.data[r]
      BY <1>4 DEF SameShape, SameSizes
    <2>2. file' = g /\ before' = file /\ info' = info
      BY <1>5
    <2> QED
      BY <1>4, <1>7, <2>1, <2>2 DEF OnlyIdOverwritten
  <1>9. AckedInv'
    <2>1. CASE n = info.size /\ ~astray
      <3>1. acked' = args.hex
        BY <2>1
      <3>2. ASSUME NEW x, NEW y, OnPath(g, x), HasId(g, x, y)
            PROVE  NotesHead(g, x)[y].desc = bytes
        <4>1. SameShape(g, file)
          BY <1>4, SameShapeBack
        <4>2. OnPath(file, x) /\ HasId(file, x, y)
          BY <1>1, <1>4, <3>2, <4>1, SamePath, SameId
        <4>3. x = s /\ y = k
          BY <1>1, <2>1, <4>2, OneTarget
        <4> QED
          BY <1>4, <2>1, <4>3
      <3> QED
        BY <1>1, <1>5, <3>1, <3>2 DEF AckedInv, bytes
    <2>2. CASE ~(n = info.size /\ ~astray)
      BY <2>2 DEF AckedInv
    <2> QED
      BY <2>1, <2>2
  <1> QED
    BY <1>4, <1>5, <1>8, <1>9

LEMMA WriteStep ==
  ASSUME IInv, write_new_buildid
  PROVE  IInv'
  <1>1. PICK n \in 0 .. info.size :
          /\ file' = IF n = 0 THEN file ELSE Written(file, from_hex(args.hex), n)
          /\ acked' = IF n = info.size /\ ~astray THEN args.hex ELSE <<>>
    BY DEF write_new_buildid
  <1>2. /\ pc = "write" /\ pc' = "exit" /\ status' = 0
        /\ UNCHANGED <<args, info, astray, out, before>>
    BY DEF write_new_buildid, exit, searchVars
  <1>3. /\ ControlInv /\ rv = 1 /\ ~args.print /\ Acceptable
        /\ file = before /\ out = <<>> /\ IsElf(file) /\ args.hex \in Seq(0 .. 255)
        /\ garbage => info.size = 0
    BY <1>2 DEF IInv, ControlInv, ResultInv, NoEntries
  <1>4. FromHexOK(args.hex) /\ Len(args.hex) \div 2 = info.size
    BY <1>3 DEF Acceptable
  <1> DEFINE bytes == from_hex(args.hex)
  <1>5. bytes \in Seq(0 .. 255) /\ Len(bytes) = info.size /\ 2 * Len(bytes) = Len(args.hex)
    BY <1>3, <1>4, BytesRead
  <1>6. SearchInv' /\ ResultInv' /\ OutInv'
    BY <1>2, <1>3 DEF SearchInv, ResultInv, OutInv
  <1>7. AstrayInv'
    BY <1>1, <1>2 DEF IInv, AstrayInv
  <1>8. ~(pc' = "exit" /\ (status' # 0 \/ args'.print))
    BY <1>2, <1>3
  <1>9. CASE n = 0
    <2>1. IsElf(file') /\ file' = before' /\ file' = file
      BY <1>1, <1>2, <1>3, <1>9
    <2>2. acked' = <<>>
      <3>1. CASE info.size = 0
        <4>1. Len(args.hex) = 0
          BY <1>5, <3>1
        <4>2. args.hex = <<>>
          BY <1>3, <4>1, EmptySeq
        <4> QED
          BY <1>1, <4>2
      <3>2. CASE info.size # 0
        BY <1>1, <1>9, <3>2
      <3> QED
        BY <3>1, <3>2
    <2>3. ControlInv'
      BY <1>2, <1>3, <2>1 DEF ControlInv
    <2>4. AckedInv'
      BY <2>2 DEF AckedInv
    <2> QED
      BY <1>6, <1>7, <2>1, <2>3, <2>4, UntouchedNext DEF IInv
  <1>10. CASE n # 0 /\ FoundAt(file)
    <2>1. PICK s, k : HasId(file, s, k) /\ Tells(file, s, k) /\ (~astray => OnPath(file, s))
      BY <1>10 DEF FoundAt
    <2>2. file' = Written(file, from_hex(args.hex), n)
      BY <1>1, <1>10
    <2>3. IsElf(file') /\ OnlyIdOverwritten' /\ AckedInv'
      <3> HIDE DEF bytes
      <3>1. Len(from_hex(args.hex)) = info.size
        BY <1>5 DEF bytes
      <3> QED
        BY <1>1, <1>2, <1>3, <1>4, <2>1, <2>2, <3>1, IdWritten
    <2>4. ControlInv'
      BY <1>2, <1>3, <2>3 DEF ControlInv
    <2> QED
      BY <1>6, <1>7, <1>8, <2>3, <2>4 DEF IInv, OnlyBuildIdEdited
  <1>11. CASE n # 0 /\ astray /\ Misread(file)
    <2>1. IsElf(file')
      <3>1. PICK g : g = Written(file, bytes, n)
        OBVIOUS
      <3>2. file' = g
        BY <1>1, <1>11, <3>1
      <3> HIDE DEF bytes
      <3>3. n \in 0 .. Len(bytes)
        BY <1>1, <1>5
      <3> QED
        BY <1>3, <1>5, <1>11, <3>1, <3>2, <3>3, WhatIsOverwritten
    <2>2. ControlInv'
      BY <1>2, <1>3, <2>1 DEF ControlInv
    <2>3. AckedInv'
      BY <1>1, <1>11 DEF AckedInv
    <2>4. OnlyBuildIdEdited'
      BY <1>2, <1>8, <1>11 DEF OnlyBuildIdEdited
    <2> QED
      BY <1>6, <1>7, <2>2, <2>3, <2>4 DEF IInv
  <1>12. n # 0 => ~garbage
    BY <1>1, <1>3
  <1> QED
    BY <1>2, <1>3, <1>9, <1>10, <1>11, <1>12, Found

-----------------------------------------------------------------------------

LEMMA SearchSteps ==
  ASSUME IInv,
         \/ find_build_id \/ fetch_table \/ find_notes \/ no_more_notes \/ fetch_notes
         \/ other_note \/ oversize_note \/ buildid_note \/ end_notes
         \/ stray_on \/ stray_misread \/ stray_oversize
  PROVE  IInv'
  <1>1. pc # "exit" /\ UNCHANGED <<file, args, before, out>> /\ acked' \in {acked, <<>>}
    BY DEF find_build_id, fetch_table, find_notes, no_more_notes, fetch_notes, other_note,
       oversize_note, buildid_note, end_notes, AtNote, stray_on, stray_misread, stray_oversize,
       Astray, resultVars
  <1>2. SearchInv' /\ ResultInv'
    <2>1. CASE oversize_note
      <3>1. pc = "notes" /\ UNCHANGED <<file, pc, tbl, start, pos, info, astray, garbage>>
        BY <2>1 DEF oversize_note, AtNote
      <3> QED
        BY <3>1 DEF IInv, SearchInv, ResultInv, On
    <2> QED
      BY <2>1, HeaderStep, TableStep, EntryStep, NoEntryStep, RegionStep, OtherStep, FoundStep,
         RegionDone, StrayStep, MisreadStep
  <1>3. AstrayInv'
    <2>1. CASE stray_on \/ stray_misread \/ stray_oversize
      <3>1. acked' = <<>> /\ Astray
        BY <2>1 DEF stray_on, stray_misread, stray_oversize
      <3>2. ~Fits16(file')
        BY <1>1, <3>1, GoneAstray
      <3> QED
        BY <3>1, <3>2 DEF AstrayInv
    <2>2. CASE UNCHANGED <<astray, acked>>
      BY <1>1, <2>2 DEF IInv, AstrayInv
    <2> QED
      BY <2>1, <2>2 DEF find_build_id, fetch_table, find_notes, no_more_notes, fetch_notes,
         other_note, oversize_note, buildid_note, end_notes, resultVars
  <1> QED
    BY <1>1, <1>2, <1>3, QuietStep DEF IInv

LEMMA Next_IInv ==
  ASSUME IInv, [Next]_vars
  PROVE  IInv'
  <1>1. ASSUME NEW a \in Args, main(a) PROVE IInv'
    BY <1>1, RunBegins
  <1>2. CASE Step
    BY <1>2, SearchSteps, RunEnds, AcceptStep, PrintStep, WriteStep DEF Step
  <1>3. CASE UNCHANGED vars
    <2>1. UNCHANGED <<file, args, pc, tbl, start, pos, rv, info, astray, garbage, out, status,
                      acked, before, fault>>
      BY <1>3 DEF vars, searchVars, resultVars
    <2>2. ControlInv' /\ AstrayInv'
      BY <2>1 DEF IInv, ControlInv, AstrayInv
    <2>3. SearchInv'
      BY <2>1 DEF IInv, SearchInv, On, table
    <2>4. ResultInv'
      <3>1. ResultInv
        BY DEF IInv
      <3>2. Acceptable' <=> Acceptable
        BY <2>1 DEF Acceptable
      <3>3. NoEntries => NoEntries'
        BY <2>1 DEF NoEntries, table
      <3>4. FoundAt(file) \/ (astray /\ Misread(file))
            => FoundAt(file)' \/ (astray' /\ Misread(file)')
        BY <2>1, SameInfo
      <3>5. PathEnds(file) => PathEnds(file)'
        BY <2>1
      <3>6. pc' = pc /\ rv' = rv /\ args' = args /\ file'.ehdr = file.ehdr
            /\ (garbage' <=> garbage) /\ (astray' <=> astray) /\ (fault' <=> fault)
        BY <2>1
      <3> HIDE DEF FoundAt, Misread, NoEntries, PathEnds, Acceptable
      <3> QED
        BY <3>1, <3>2, <3>3, <3>4, <3>5, <3>6 DEF ResultInv
    <2>5. NotesHere(file)' = NotesHere(file) /\ BytesHere(file)' = BytesHere(file)
      BY <2>1 DEF NotesHere, BytesHere
    <2>6. OnlyBuildIdEdited'
      <3>1. OnlyBuildIdEdited
        BY DEF IInv
      <3>2. OnlyIdOverwritten => OnlyIdOverwritten'
        <4>1. OnlyIdOverwritten => Headers(file)' = Headers(before)'
          BY <2>1 DEF OnlyIdOverwritten
        <4> QED
          BY <2>1, <2>5, <4>1 DEF OnlyIdOverwritten
      <3> QED
        BY <2>1, <3>1, <3>2 DEF OnlyBuildIdEdited
    <2>7. AckedInv' /\ OutInv'
      BY <2>1, <2>5 DEF IInv, AckedInv, OutInv
    <2> QED
      BY <2>2, <2>3, <2>4, <2>6, <2>7 DEF IInv
  <1> QED
    BY <1>1, <1>2, <1>3 DEF Next

THEOREM Invariance == Spec => []IInv
  <1>1. Init => IInv
    BY Init_IInv
  <1>2. IInv /\ [Next]_vars => IInv'
    BY Next_IInv
  <1> QED
    BY <1>1, <1>2, PTL DEF Spec

\* Whatever fails or is cut short, and in whichever order the program is run with -p and
\* -n: a run whose walk did not go inside a description, as it does only where a size is
\* cut to 16 bits, changes nothing of the file but the bytes of the build ID it found; and
\* a run that reports failure or prints changes nothing, wherever its walk went.
THEOREM Edits == Spec => []OnlyBuildIdEdited
  <1>1. IInv => OnlyBuildIdEdited
    BY DEF IInv
  <1> QED
    BY <1>1, Invariance, PTL

\* In a file none of whose sizes is cut, what find_build_id returns is the first build ID
\* of either table, or that there is none in either; but for an rv that was never
\* assigned, which comes only from a table that has entries and none for notes.
THEOREM Finds == Spec => []FindsFirst
  <1>1. IInv => FindsFirst
    <2> SUFFICES ASSUME IInv, pc = "result", file.ehdr, ~fault, Fits16(file)
                 PROVE  ResultRight \/ Unassigned
      BY DEF FindsFirst
    <2>1. IsElf(file) /\ ~astray
      BY DEF IInv, ControlInv, AstrayInv
    <2>2. CASE garbage
      <3>1. NoEntries
        BY <2>2 DEF IInv, ResultInv
      <3> QED
        BY <2>2, <3>1 DEF NoEntries, Unassigned
    <2>3. CASE ~garbage /\ rv = 0
      <3>1. PICK e : OnPath(file, <<"sh", e, Scan>>) /\ Later(file, "sh", e) = {}
        BY <2>1, <2>3 DEF IInv, ResultInv, PathEnds
      <3> QED
        BY <2>1, <2>3, <3>1, NoneFound DEF ResultRight
    <2>4. CASE ~garbage /\ rv = 1
      <3>1. PICK s, k : OnPath(file, s) /\ HasId(file, s, k) /\ Tells(file, s, k)
        BY <2>1, <2>4, Found DEF FoundAt
      <3>2. /\ s[2] \in Noted(file, s[1]) /\ info.at = Table(file, s[1])[s[2]].at
            /\ NotesHere(file) = {k} /\ info.size = Len(NotesHead(file, s)[k].desc)
        BY <2>1, <3>1, TheNoteHere
      <3>3. s[1] \in {"ph", "sh"} /\ k \in BuildIds(NotesHead(file, s))
        BY <2>1, <3>1, InNotes DEF HasId
      <3>4. NothingBefore(file, s[1], s[2], k)
        BY <2>1, <3>1, FirstFound
      <3> QED
        BY <2>4, <3>2, <3>3, <3>4 DEF NotesHead, ResultRight
    <2>5. ~garbage => rv \in {0, 1}
      BY DEF IInv, ResultInv
    <2> QED
      BY <2>2, <2>3, <2>4, <2>5
  <1> QED
    BY <1>1, Invariance, PTL

\* What -p prints are the bytes in the file; after an -n that was carried out they are
\* its value, as a later search comes to the place where that one wrote.
THEOREM Prints == Spec => []PrintShowsWritten
  <1>1. IInv => PrintShowsWritten
    <2> SUFFICES ASSUME IInv, out # <<>>
                 PROVE  /\ FromHexOK(out)
                        /\ from_hex(out) = BytesHere(file)
                        /\ acked # <<>> => out = LowerCase(acked)
      BY DEF PrintShowsWritten
    <2>1. /\ BytesHere(file) \in Seq(0 .. 255) /\ out = to_hex(BytesHere(file))
          /\ acked # <<>> => BytesHere(file) = from_hex(acked)
      BY DEF IInv, OutInv
    <2>2. acked # <<>> => acked \in Seq(0 .. 255) /\ FromHexOK(acked)
      BY DEF IInv, AckedInv
    <2> QED
      BY <2>1, <2>2, PrintedReadsBack, ReadPrintsBack
  <1> QED
    BY <1>1, Invariance, PTL

=============================================================================
