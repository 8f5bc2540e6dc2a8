------------------------- MODULE VmcoreRepairProofs -------------------------
(***************************************************************************)
(* The repair keeps its inductive invariant: phys2virt changes nothing but *)
(* virtual addresses, and editvmcoreinfo cuts the file only when all that  *)
(* is behind the old note is saved.  When it ends well, every other        *)
(* segment is intact, and a reader of the file finds the new note where    *)
(* the old one was, between the same other notes.                          *)
(***************************************************************************)
EXTENDS VmcoreRepair, Induction, SequenceTheorems

-----------------------------------------------------------------------------
(* Sequences of anything.                                                  *)

LEMMA SequenceLen ==
  ASSUME NEW s, IsSequence(s)
  PROVE  Len(s) \in Nat /\ DOMAIN s = 1 .. Len(s)
  <1> DEFINE S == {s[k] : k \in DOMAIN s}
  <1>1. s \in Seq(S)
    BY DEF IsSequence
  <1> QED
    BY <1>1, LenProperties

LEMMA IsSequenceOver ==
  ASSUME NEW S, NEW s \in Seq(S)
  PROVE  IsSequence(s)
  <1>1. Len(s) \in Nat /\ DOMAIN s = 1 .. Len(s) /\ s \in [1 .. Len(s) -> S]
    BY LenProperties
  <1> DEFINE T == {s[k] : k \in DOMAIN s}
  <1>2. s \in [1 .. Len(s) -> T]
    BY <1>1
  <1>3. s \in UNION {[1 .. n -> T] : n \in Nat}
    BY <1>1, <1>2
  <1>4. s \in Seq(T)
    BY <1>3, SeqDef
  <1> QED
    BY <1>4 DEF IsSequence

LEMMA Joined ==
  ASSUME NEW s, NEW t, IsSequence(s), IsSequence(t)
  PROVE  /\ IsSequence(s \o t)
         /\ Len(s \o t) = Len(s) + Len(t)
         /\ \A i \in 1 .. Len(s) : (s \o t)[i] = s[i]
         /\ \A i \in 1 .. Len(t) : (s \o t)[Len(s) + i] = t[i]
  <1> DEFINE S == {s[k] : k \in DOMAIN s} \cup {t[k] : k \in DOMAIN t}
  <1>1. s \in Seq(S) /\ t \in Seq(S)
    <2>1. s \in Seq({s[k] : k \in DOMAIN s}) /\ t \in Seq({t[k] : k \in DOMAIN t})
      BY DEF IsSequence
    <2>2. {s[k] : k \in DOMAIN s} \subseteq S /\ {t[k] : k \in DOMAIN t} \subseteq S
      OBVIOUS
    <2> QED
      BY <2>1, <2>2, SeqMonotonic
  <1>2. Len(s) \in Nat /\ Len(t) \in Nat
    BY SequenceLen
  <1> HIDE DEF S
  <1>3. /\ s \o t \in Seq(S)
        /\ Len(s \o t) = Len(s) + Len(t)
        /\ \A i \in 1 .. Len(s) + Len(t) : (s \o t)[i] =
                     IF i <= Len(s) THEN s[i] ELSE t[i - Len(s)]
    BY <1>1, ConcatProperties
  <1>4. IsSequence(s \o t)
    BY <1>3, IsSequenceOver
  <1>5. ASSUME NEW i \in 1 .. Len(s) PROVE (s \o t)[i] = s[i]
    BY <1>2, <1>3
  <1>6. ASSUME NEW i \in 1 .. Len(t) PROVE (s \o t)[Len(s) + i] = t[i]
    <2>1. Len(s) + i \in 1 .. Len(s) + Len(t) /\ ~(Len(s) + i <= Len(s)) /\ (Len(s) + i) - Len(s) = i
      BY <1>2
    <2> QED
      BY <2>1, <1>3
  <1> QED
    BY <1>3, <1>4, <1>5, <1>6

LEMMA Slice ==
  ASSUME NEW s, IsSequence(s), NEW m \in Nat, NEW n \in Nat, m <= n + 1, m >= 1, n <= Len(s)
  PROVE  /\ IsSequence(SubSeq(s, m, n))
         /\ Len(SubSeq(s, m, n)) = n - m + 1
         /\ \A i \in 1 .. n - m + 1 : SubSeq(s, m, n)[i] = s[m + i - 1]
  <1>1. Len(s) \in Nat /\ DOMAIN s = 1 .. Len(s)
    BY SequenceLen
  <1>2. PICK S : \A i \in m .. n : s[i] \in S
    <2>1. \A i \in m .. n : s[i] \in {s[k] : k \in DOMAIN s}
      BY <1>1
    <2> QED
      BY <2>1
  <1>3. /\ SubSeq(s, m, n) \in Seq(S)
        /\ Len(SubSeq(s, m, n)) = IF m <= n THEN n - m + 1 ELSE 0
        /\ \A i \in 1 .. n - m + 1 : SubSeq(s, m, n)[i] = s[m + i - 1]
    BY <1>2, SubSeqProperties
  <1>4. IsSequence(SubSeq(s, m, n))
    BY <1>3, IsSequenceOver
  <1>5. Len(SubSeq(s, m, n)) = n - m + 1
    BY <1>3
  <1> QED
    BY <1>3, <1>4, <1>5

\* The same for what follows the m-th.
LEMMA SliceAfter ==
  ASSUME NEW s, IsSequence(s), NEW m \in Nat, NEW n \in Nat, m <= n, n <= Len(s)
  PROVE  /\ IsSequence(SubSeq(s, m + 1, n))
         /\ Len(SubSeq(s, m + 1, n)) = n - m
         /\ \A i \in 1 .. n - m : SubSeq(s, m + 1, n)[i] = s[m + i]
  <1>1. PICK p \in Nat : p = m + 1
    OBVIOUS
  <1>2. p <= n + 1 /\ p >= 1
    BY <1>1
  <1>3. /\ IsSequence(SubSeq(s, p, n))
        /\ Len(SubSeq(s, p, n)) = n - p + 1
        /\ \A i \in 1 .. n - p + 1 : SubSeq(s, p, n)[i] = s[p + i - 1]
    BY <1>2, Slice
  <1>4. n - p + 1 = n - m /\ \A i \in 1 .. n - m : p + i - 1 = m + i
    BY <1>1
  <1>5. /\ IsSequence(SubSeq(s, p, n))
        /\ Len(SubSeq(s, p, n)) = n - m
        /\ \A i \in 1 .. n - m : SubSeq(s, p, n)[i] = s[m + i]
    BY <1>3, <1>4
  <1> QED
    BY <1>1, <1>5

LEMMA SameSequence ==
  ASSUME NEW s, NEW t, IsSequence(s), IsSequence(t), Len(s) = Len(t),
         \A i \in 1 .. Len(s) : s[i] = t[i]
  PROVE  s = t
  <1>1. DOMAIN s = 1 .. Len(s) /\ DOMAIN t = 1 .. Len(s)
    BY SequenceLen
  <1>2. s = [i \in DOMAIN s |-> s[i]] /\ t = [i \in DOMAIN t |-> t[i]]
    <2>1. s \in Seq({s[k] : k \in DOMAIN s}) /\ t \in Seq({t[k] : k \in DOMAIN t})
      BY DEF IsSequence
    <2> QED
      BY <2>1, LenProperties
  <1> QED
    BY <1>1, <1>2

\* A sequence that is written as a function.
LEMMA Tabled ==
  ASSUME NEW n \in Nat, NEW f, DOMAIN f = 1 .. n, f = [k \in 1 .. n |-> f[k]]
  PROVE  IsSequence(f) /\ Len(f) = n
  <1> DEFINE S == {f[k] : k \in DOMAIN f}
  <1>1. f \in [1 .. n -> S]
    OBVIOUS
  <1>2. f \in UNION {[1 .. k -> S] : k \in Nat}
    BY <1>1
  <1>3. f \in Seq(S)
    BY <1>2, SeqDef
  <1>4. Len(f) \in Nat /\ DOMAIN f = 1 .. Len(f)
    BY <1>3, LenProperties
  <1>5. Len(f) = n
    BY <1>4
  <1> QED
    BY <1>3, <1>5 DEF IsSequence

LEMMA JoinedThree ==
  ASSUME NEW s, NEW t, NEW u, IsSequence(s), IsSequence(t), IsSequence(u)
  PROVE  (s \o t) \o u = s \o (t \o u)
  <1> DEFINE S == {s[k] : k \in DOMAIN s} \cup {t[k] : k \in DOMAIN t} \cup {u[k] : k \in DOMAIN u}
  <1>1. s \in Seq(S) /\ t \in Seq(S) /\ u \in Seq(S)
    <2>1. /\ s \in Seq({s[k] : k \in DOMAIN s})
          /\ t \in Seq({t[k] : k \in DOMAIN t})
          /\ u \in Seq({u[k] : k \in DOMAIN u})
      BY DEF IsSequence
    <2>2. /\ {s[k] : k \in DOMAIN s} \subseteq S
          /\ {t[k] : k \in DOMAIN t} \subseteq S
          /\ {u[k] : k \in DOMAIN u} \subseteq S
      OBVIOUS
    <2> QED
      BY <2>1, <2>2, SeqMonotonic
  <1> HIDE DEF S
  <1> QED
    BY <1>1, ConcatAssociative

\* The beginning stays when something is appended.
LEMMA Prefix ==
  ASSUME NEW s, NEW t, IsSequence(s), IsSequence(t), NEW n \in 0 .. Len(s)
  PROVE  SubSeq(SubSeq(s, 1, n) \o t, 1, n) = SubSeq(s, 1, n)
  <1> DEFINE p == SubSeq(s, 1, n)
             q == p \o t
  <1>0. Len(s) \in Nat /\ Len(t) \in Nat /\ n \in Nat
    BY SequenceLen
  <1>1. IsSequence(p) /\ Len(p) = n
    BY <1>0, Slice
  <1> HIDE DEF p
  <1>2. /\ IsSequence(q) /\ Len(q) = n + Len(t)
        /\ \A i \in 1 .. n : q[i] = p[i]
    BY <1>1, Joined
  <1> HIDE DEF q
  <1>3. /\ IsSequence(SubSeq(q, 1, n)) /\ Len(SubSeq(q, 1, n)) = n
        /\ \A i \in 1 .. n : SubSeq(q, 1, n)[i] = q[i]
    <2>1. n <= Len(q) /\ 1 <= n + 1 /\ n - 1 + 1 = n /\ \A i \in 1 .. n : 1 + i - 1 = i
      BY <1>0, <1>2
    <2>2. /\ IsSequence(SubSeq(q, 1, n)) /\ Len(SubSeq(q, 1, n)) = n - 1 + 1
          /\ \A i \in 1 .. n - 1 + 1 : SubSeq(q, 1, n)[i] = q[1 + i - 1]
      BY <1>0, <1>2, <2>1, Slice
    <2> QED
      BY <2>1, <2>2
  <1>4. SubSeq(q, 1, n) = p
    BY <1>1, <1>2, <1>3, SameSequence
  <1> QED
    BY <1>4 DEF p, q

LEMMA WholeSlice ==
  ASSUME NEW s, IsSequence(s)
  PROVE  SubSeq(s, 1, Len(s)) = s
  <1>1. s \in Seq({s[k] : k \in DOMAIN s})
    BY DEF IsSequence
  <1> QED
    BY <1>1, SubSeqFull

LEMMA SliceFromOne ==
  ASSUME NEW s, IsSequence(s), NEW n \in Nat, n <= Len(s)
  PROVE  /\ IsSequence(SubSeq(s, 1, n)) /\ Len(SubSeq(s, 1, n)) = n
         /\ \A i \in 1 .. n : SubSeq(s, 1, n)[i] = s[i]
  <1>1. PICK m \in Nat : m = 0
    OBVIOUS
  <1>2. /\ IsSequence(SubSeq(s, m + 1, n)) /\ Len(SubSeq(s, m + 1, n)) = n - m
        /\ \A i \in 1 .. n - m : SubSeq(s, m + 1, n)[i] = s[m + i]
    BY <1>1, SliceAfter
  <1>3. m + 1 = 1 /\ n - m = n /\ \A i \in 1 .. n : m + i = i
    BY <1>1
  <1> QED
    BY <1>2, <1>3

\* A beginning of a beginning.
LEMMA ShorterPrefix ==
  ASSUME NEW s, IsSequence(s), NEW n \in Nat, NEW m \in Nat, n <= m, m <= Len(s)
  PROVE  SubSeq(SubSeq(s, 1, m), 1, n) = SubSeq(s, 1, n)
  <1> DEFINE p == SubSeq(s, 1, m)
             l == SubSeq(p, 1, n)
             r == SubSeq(s, 1, n)
  <1>0. Len(s) \in Nat
    BY SequenceLen
  <1>1. IsSequence(p) /\ Len(p) = m /\ \A i \in 1 .. m : p[i] = s[i]
    BY <1>0, SliceFromOne
  <1> HIDE DEF p
  <1>2. IsSequence(l) /\ Len(l) = n /\ \A i \in 1 .. n : l[i] = p[i]
    BY <1>1, SliceFromOne
  <1>3. IsSequence(r) /\ Len(r) = n /\ \A i \in 1 .. n : r[i] = s[i]
    BY <1>0, SliceFromOne
  <1> HIDE DEF l, r
  <1>4. l = r
    BY <1>1, <1>2, <1>3, SameSequence
  <1> QED
    BY <1>4 DEF l, r, p

\* A beginning that reaches into what is appended.
LEMMA LongerPrefix ==
  ASSUME NEW s, NEW t, IsSequence(s), IsSequence(t), NEW n \in 0 .. Len(t)
  PROVE  SubSeq(s \o t, 1, Len(s) + n) = s \o SubSeq(t, 1, n)
  <1> DEFINE q == s \o t
             b == SubSeq(t, 1, n)
             l == SubSeq(q, 1, Len(s) + n)
             r == s \o b
  <1>0. Len(s) \in Nat /\ Len(t) \in Nat /\ n \in Nat
    BY SequenceLen
  <1>1. /\ IsSequence(q) /\ Len(q) = Len(s) + Len(t)
        /\ \A i \in 1 .. Len(s) : q[i] = s[i]
        /\ \A i \in 1 .. Len(t) : q[Len(s) + i] = t[i]
    BY Joined
  <1>2. IsSequence(b) /\ Len(b) = n /\ \A i \in 1 .. n : b[i] = t[i]
    BY <1>0, SliceFromOne
  <1> HIDE DEF b, q
  <1>3. /\ IsSequence(r) /\ Len(r) = Len(s) + n
        /\ \A i \in 1 .. Len(s) : r[i] = s[i]
        /\ \A i \in 1 .. n : r[Len(s) + i] = b[i]
    BY <1>2, Joined
  <1>4. IsSequence(l) /\ Len(l) = Len(s) + n /\ \A i \in 1 .. Len(s) + n : l[i] = q[i]
    BY <1>0, <1>1, SliceFromOne
  <1> HIDE DEF l, r
  <1>5. ASSUME NEW i \in 1 .. Len(s) + n PROVE l[i] = r[i]
    <2>1. CASE i \in 1 .. Len(s)
      BY <1>1, <1>3, <1>4, <2>1
    <2>2. CASE i \notin 1 .. Len(s)
      <3>1. PICK j \in 1 .. n : i = Len(s) + j
        <4>1. i - Len(s) \in 1 .. n /\ i = Len(s) + (i - Len(s))
          BY <1>0, <2>2
        <4> QED
          BY <4>1
      <3>2. j \in 1 .. Len(t)
        BY <1>0
      <3> QED
        BY <1>1, <1>2, <1>3, <1>4, <3>1, <3>2
    <2> QED
      BY <2>1, <2>2
  <1>6. l = r
    BY <1>3, <1>4, <1>5, SameSequence
  <1> QED
    BY <1>6 DEF l, r, q, b

\* A slice and what follows it are a slice.
LEMMA Adjacent ==
  ASSUME NEW s, IsSequence(s), NEW m \in Nat, NEW k \in Nat, NEW n \in Nat,
         m <= k, k <= n, n <= Len(s)
  PROVE  SubSeq(s, m + 1, k) \o SubSeq(s, k + 1, n) = SubSeq(s, m + 1, n)
  <1> DEFINE S == {s[i] : i \in DOMAIN s}
  <1>1. s \in Seq(S) /\ Len(s) \in Nat
    BY SequenceLen DEF IsSequence
  <1> HIDE DEF S
  <1>2. m + 1 \in 1 .. Len(s) + 1 /\ k \in (m + 1) - 1 .. Len(s) /\ n \in k .. Len(s)
    BY <1>1
  <1> QED
    BY <1>1, <1>2, ConcatAdjacentSubSeq

\* A slice of a slice.
LEMMA SliceOfSlice ==
  ASSUME NEW s, IsSequence(s), NEW m \in Nat, m <= Len(s), NEW n \in Nat, n <= Len(s) - m,
         NEW k \in Nat, k <= n
  PROVE  SubSeq(SubSeq(s, m + 1, Len(s)), k + 1, n) = SubSeq(s, m + k + 1, m + n)
  <1> DEFINE t == SubSeq(s, m + 1, Len(s))
             l == SubSeq(t, k + 1, n)
             r == SubSeq(s, m + k + 1, m + n)
  <1>0. Len(s) \in Nat
    BY SequenceLen
  <1>1. /\ IsSequence(t) /\ Len(t) = Len(s) - m
        /\ \A i \in 1 .. Len(s) - m : t[i] = s[m + i]
    BY <1>0, SliceAfter
  <1> HIDE DEF t
  <1>2. /\ IsSequence(l) /\ Len(l) = n - k
        /\ \A i \in 1 .. n - k : l[i] = t[k + i]
    BY <1>1, SliceAfter
  <1>3. /\ IsSequence(r) /\ Len(r) = n - k
        /\ \A i \in 1 .. n - k : r[i] = s[m + k + i]
    <2>1. PICK a \in Nat, b \in Nat : a = m + k /\ b = m + n
      OBVIOUS
    <2>2. a <= b /\ b <= Len(s) /\ b - a = n - k
      BY <1>0, <2>1
    <2>3. /\ IsSequence(SubSeq(s, a + 1, b)) /\ Len(SubSeq(s, a + 1, b)) = b - a
          /\ \A i \in 1 .. b - a : SubSeq(s, a + 1, b)[i] = s[a + i]
      BY <2>2, SliceAfter
    <2> QED
      BY <2>1, <2>2, <2>3
  <1> HIDE DEF l, r
  <1>4. ASSUME NEW i \in 1 .. n - k PROVE l[i] = r[i]
    <2>1. k + i \in 1 .. Len(s) - m /\ m + (k + i) = m + k + i
      BY <1>0
    <2> QED
      BY <1>1, <1>2, <1>3, <2>1
  <1>5. l = r
    BY <1>2, <1>3, <1>4, SameSequence
  <1> QED
    BY <1>5 DEF l, r, t

-----------------------------------------------------------------------------
(* phys2virt.                                                              *)

\* What the runs of phys2virt keep up, until editvmcoreinfo is started.
HealInv ==
  pc = "idle" =>
    /\ IsVmcore(file)
    /\ IsVmcore(dumped)
    /\ file.body = dumped.body
    /\ WithoutVaddr(file) = WithoutVaddr(dumped)
    /\ outcome = "whole" =>
         \A k \in DOMAIN file.ph :
           file.ph[k].vaddr = IF zero THEN <<0, 0>> ELSE dumped.ph[k].paddr
    /\ outcome = "refused" => ~Suitable(file)
    /\ ppc # "idle" => outcome = "none"
    /\ ppc = "phdrs" => phnum = Number(file.data, file.e_phnum)
    /\ ppc = "write" => phnum = Len(file.ph) /\ phdrs = file.ph

Blank(h) == [h EXCEPT !.vaddr = <<0, 0>>]

\* What a dump is made of, for the proofs that need a part of it.
LEMMA VmcoreParts ==
  ASSUME NEW f, IsVmcore(f)
  PROVE  /\ DOMAIN f = {"ident", "data", "shdrs", "e_phoff", "e_phnum", "e_phentsize", "ph", "body"}
         /\ f.e_phnum \in (0 .. 255) \X (0 .. 255)
         /\ IsSequence(f.ph) /\ IsSequence(f.body)
         /\ Len(f.ph) \in Nat /\ DOMAIN f.ph = 1 .. Len(f.ph)
         /\ Len(f.ph) <= Number(f.data, f.e_phnum)
         /\ \A k \in DOMAIN f.ph :
              /\ DOMAIN f.ph[k] = {"type", "vaddr", "paddr", "offset", "filesz", "memsz"}
              /\ f.ph[k].offset \in Nat /\ f.ph[k].filesz \in Nat
  <1>1. IsSequence(f.ph) /\ IsSequence(f.body)
    BY DEF IsVmcore
  <1>2. Len(f.ph) \in Nat /\ DOMAIN f.ph = 1 .. Len(f.ph)
    BY <1>1, SequenceLen
  <1>3. f.e_phnum \in (0 .. 255) \X (0 .. 255)
    BY DEF IsVmcore
  <1>4. Len(f.ph) <= Number(f.data, f.e_phnum)
    BY DEF IsVmcore
  <1>5. \A k \in DOMAIN f.ph :
           /\ DOMAIN f.ph[k] = {"type", "vaddr", "paddr", "offset", "filesz", "memsz"}
           /\ f.ph[k].offset \in Nat /\ f.ph[k].filesz \in Nat
    BY DEF IsVmcore
  <1>6. DOMAIN f = {"ident", "data", "shdrs", "e_phoff", "e_phnum", "e_phentsize", "ph", "body"}
    BY DEF IsVmcore
  <1> QED
    BY <1>1, <1>2, <1>3, <1>4, <1>5, <1>6

\* The value of two bytes.
LEMMA NumberOfBytes ==
  ASSUME NEW e, NEW b \in (0 .. 255) \X (0 .. 255)
  PROVE  Number(e, b) \in Nat
  <1>1. PICK lo \in 0 .. 255, hi \in 0 .. 255 : b[1] = lo /\ b[2] = hi
    OBVIOUS
  <1> QED
    BY <1>1 DEF Number

\* Files that differ in virtual addresses only have the same table but for these.
LEMMA SameButVaddr ==
  ASSUME NEW f, NEW g, WithoutVaddr(f) = WithoutVaddr(g), IsVmcore(f), IsVmcore(g)
  PROVE  /\ DOMAIN f.ph = DOMAIN g.ph
         /\ \A k \in DOMAIN f.ph : Blank(f.ph[k]) = Blank(g.ph[k])
         /\ \A k \in DOMAIN f.ph :
              /\ f.ph[k].paddr = g.ph[k].paddr /\ f.ph[k].type = g.ph[k].type
              /\ f.ph[k].offset = g.ph[k].offset /\ f.ph[k].filesz = g.ph[k].filesz
  <1> DEFINE B(f0) == [k \in DOMAIN f0.ph |-> Blank(f0.ph[k])]
  <1>1. "ph" \in DOMAIN f /\ "ph" \in DOMAIN g
    BY DEF IsVmcore
  <1>2. WithoutVaddr(f).ph = B(f) /\ WithoutVaddr(g).ph = B(g)
    BY <1>1 DEF WithoutVaddr, Blank
  <1>3. B(f) = B(g)
    BY <1>2
  <1>4. DOMAIN f.ph = DOMAIN g.ph
    <2>1. DOMAIN B(f) = DOMAIN f.ph /\ DOMAIN B(g) = DOMAIN g.ph
      OBVIOUS
    <2> HIDE DEF B
    <2> QED
      BY <1>3, <2>1
  <1>5. ASSUME NEW k \in DOMAIN f.ph PROVE Blank(f.ph[k]) = Blank(g.ph[k])
    <2>1. B(f)[k] = Blank(f.ph[k]) /\ B(g)[k] = Blank(g.ph[k])
      BY <1>4
    <2> HIDE DEF B
    <2> QED
      BY <1>3, <2>1
  <1>6. ASSUME NEW k \in DOMAIN f.ph
        PROVE  /\ f.ph[k].paddr = g.ph[k].paddr /\ f.ph[k].type = g.ph[k].type
               /\ f.ph[k].offset = g.ph[k].offset /\ f.ph[k].filesz = g.ph[k].filesz
    <2> DEFINE r == f.ph[k]
               s == g.ph[k]
    <2>1. Blank(r) = Blank(s)
      BY <1>5
    <2>2. DOMAIN r = {"type", "vaddr", "paddr", "offset", "filesz", "memsz"}
          /\ DOMAIN s = {"type", "vaddr", "paddr", "offset", "filesz", "memsz"}
      <3>1. k \in DOMAIN g.ph
        BY <1>4
      <3> QED
        BY <3>1, VmcoreParts
    <2> HIDE DEF r, s
    <2>3. \A x \in {"type", "paddr", "offset", "filesz"} : Blank(r)[x] = r[x] /\ Blank(s)[x] = s[x]
      BY <2>2 DEF Blank
    <2>4. \A x \in {"type", "paddr", "offset", "filesz"} : r[x] = s[x]
      BY <2>1, <2>3
    <2>5. r.paddr = s.paddr /\ r.type = s.type /\ r.offset = s.offset /\ r.filesz = s.filesz
      BY <2>4
    <2> QED
      BY <2>5 DEF r, s
  <1> QED
    BY <1>4, <1>5, <1>6

\* A table whose entries are another's but for virtual addresses, put in its place.
LEMMA NewVaddrs ==
  ASSUME NEW f, IsVmcore(f), NEW table, DOMAIN table = DOMAIN f.ph,
         table = [k \in DOMAIN table |-> table[k]],
         \A k \in DOMAIN f.ph :
           /\ DOMAIN table[k] = DOMAIN f.ph[k]
           /\ Blank(table[k]) = Blank(f.ph[k])
  PROVE  /\ IsVmcore([f EXCEPT !.ph = table])
         /\ WithoutVaddr([f EXCEPT !.ph = table]) = WithoutVaddr(f)
         /\ [f EXCEPT !.ph = table].ph = table
         /\ [f EXCEPT !.ph = table].body = f.body
         /\ Suitable([f EXCEPT !.ph = table]) <=> Suitable(f)
  <1> DEFINE g == [f EXCEPT !.ph = table]
  <1>1. DOMAIN f = {"ident", "data", "shdrs", "e_phoff", "e_phnum", "e_phentsize", "ph", "body"}
    BY DEF IsVmcore
  <1>2. /\ g.ph = table
        /\ g.ident = f.ident /\ g.data = f.data /\ g.shdrs = f.shdrs /\ g.e_phoff = f.e_phoff
        /\ g.e_phnum = f.e_phnum /\ g.e_phentsize = f.e_phentsize /\ g.body = f.body
        /\ DOMAIN g = DOMAIN f
    BY <1>1
  <1>3. IsSequence(f.ph) /\ Len(f.ph) \in Nat /\ DOMAIN f.ph = 1 .. Len(f.ph)
    BY SequenceLen DEF IsVmcore
  <1>4. IsSequence(table) /\ Len(table) = Len(f.ph)
    <2>1. DOMAIN table = 1 .. Len(f.ph)
      BY <1>3
    <2> QED
      BY <2>1, <1>3, Tabled
  <1>5. ASSUME NEW k \in DOMAIN f.ph
        PROVE  /\ DOMAIN table[k] = {"type", "vaddr", "paddr", "offset", "filesz", "memsz"}
               /\ table[k].offset \in Nat /\ table[k].filesz \in Nat
    <2> DEFINE r == table[k]
               s == f.ph[k]
    <2>1. /\ DOMAIN s = {"type", "vaddr", "paddr", "offset", "filesz", "memsz"}
          /\ s.offset \in Nat /\ s.filesz \in Nat
      BY DEF IsVmcore
    <2>2. DOMAIN r = DOMAIN s /\ Blank(r) = Blank(s)
      OBVIOUS
    <2> HIDE DEF r, s
    <2>3. \A x \in {"offset", "filesz"} : Blank(r)[x] = r[x] /\ Blank(s)[x] = s[x]
      BY <2>1, <2>2 DEF Blank
    <2>4. r.offset = s.offset /\ r.filesz = s.filesz
      BY <2>2, <2>3
    <2>5. /\ DOMAIN r = {"type", "vaddr", "paddr", "offset", "filesz", "memsz"}
          /\ r.offset \in Nat /\ r.filesz \in Nat
      BY <2>1, <2>2, <2>4
    <2> QED
      BY <2>5 DEF r
  <1>6. WithoutVaddr(g) = WithoutVaddr(f)
    <2> DEFINE B(t) == [k \in DOMAIN t |-> Blank(t[k])]
    <2>1. B(table) = B(f.ph)
      OBVIOUS
    <2>2. WithoutVaddr(g) = [g EXCEPT !.ph = B(table)]
      BY <1>1, <1>2 DEF WithoutVaddr, Blank
    <2>3. WithoutVaddr(f) = [f EXCEPT !.ph = B(f.ph)]
      BY DEF WithoutVaddr, Blank
    <2> HIDE DEF B
    <2>4. [g EXCEPT !.ph = B(table)] = [f EXCEPT !.ph = B(table)]
      BY <1>1
    <2> HIDE DEF g
    <2> QED
      BY <2>1, <2>2, <2>3, <2>4
  <1> HIDE DEF g
  <1>7. IsVmcore(g)
    <2>1. TableFound(g)
      BY <1>2 DEF IsVmcore, TableFound, PhOff
    <2>2. IsSequence(g.body) /\ IsSequence(g.ph) /\ Len(g.ph) <= Number(g.data, g.e_phnum)
      BY <1>2, <1>4 DEF IsVmcore
    <2>3. \A k \in DOMAIN g.ph :
             /\ DOMAIN g.ph[k] = {"type", "vaddr", "paddr", "offset", "filesz", "memsz"}
             /\ g.ph[k].offset \in Nat /\ g.ph[k].filesz \in Nat
      BY <1>2, <1>5
    <2>4. /\ DOMAIN g = {"ident", "data", "shdrs", "e_phoff", "e_phnum", "e_phentsize", "ph", "body"}
          /\ g.data \in {"LSB", "MSB"}
          /\ \A b \in {g.e_phoff, g.e_phnum, g.e_phentsize} : b \in (0 .. 255) \X (0 .. 255)
      BY <1>1, <1>2 DEF IsVmcore
    <2>5. \A k \in DOMAIN g.body : g.body[k].t = "hdr" => IsNoteHeader(g.body[k])
      BY <1>2 DEF IsVmcore
    <2> QED
      BY <2>1, <2>2, <2>3, <2>4, <2>5 DEF IsVmcore
  <1>8. Suitable(g) <=> Suitable(f)
    BY <1>2, <1>4 DEF Suitable
  <1>9. IsVmcore(g) /\ WithoutVaddr(g) = WithoutVaddr(f) /\ g.ph = table /\ g.body = f.body
        /\ (Suitable(g) <=> Suitable(f))
    BY <1>2, <1>6, <1>7, <1>8
  <1> QED
    BY <1>9 DEF g

\* Whatever bytes of the new addresses get out, the table is the old one but for
\* virtual addresses, and the new one if all do.
LEMMA TornTable ==
  ASSUME NEW was, IsSequence(was),
         \A k \in DOMAIN was : "vaddr" \in DOMAIN was[k],
         NEW n \in 0 .. 2 * Len(was)
  PROVE  LET new == [k \in DOMAIN was |-> Rewritten(was[k])]
             t == Torn(new, was, n)
         IN /\ DOMAIN t = DOMAIN was
            /\ t = [k \in DOMAIN t |-> t[k]]
            /\ \A k \in DOMAIN was :
                 /\ DOMAIN t[k] = DOMAIN was[k]
                 /\ Blank(t[k]) = Blank(was[k])
                 /\ n = 2 * Len(was) => t[k].vaddr = IF zero THEN <<0, 0>> ELSE was[k].paddr
  <1> DEFINE new == [k \in DOMAIN was |-> Rewritten(was[k])]
             t == Torn(new, was, n)
  <1>1. /\ DOMAIN t = DOMAIN was
        /\ t = [k \in DOMAIN t |-> t[k]]
    BY DEF Torn
  <1>2. ASSUME NEW k \in DOMAIN was
        PROVE  /\ DOMAIN t[k] = DOMAIN was[k]
               /\ Blank(t[k]) = Blank(was[k])
               /\ n = 2 * Len(was) => t[k].vaddr = IF zero THEN <<0, 0>> ELSE was[k].paddr
    <2> DEFINE h == was[k]
               r == Rewritten(h)
               m == [r EXCEPT !.vaddr = <<@[1], h.vaddr[2]>>]
    <2>1. new[k] = r
      OBVIOUS
    <2>2. t[k] = IF 2 * k <= n THEN r ELSE IF 2 * k - 1 = n THEN m ELSE h
      BY <2>1 DEF Torn
    <2>3. "vaddr" \in DOMAIN h
      OBVIOUS
    <2>4. Len(was) \in Nat /\ DOMAIN was = 1 .. Len(was)
      BY SequenceLen
    <2> HIDE DEF t, new
    <2>5. DOMAIN r = DOMAIN h /\ Blank(r) = Blank(h)
      BY DEF Rewritten, Blank
    <2>6. DOMAIN m = DOMAIN h /\ Blank(m) = Blank(h)
      BY DEF Rewritten, Blank
    <2>7. r.vaddr = IF zero THEN <<0, 0>> ELSE h.paddr
      BY <2>3 DEF Rewritten
    <2> HIDE DEF r, m
    <2>8. n = 2 * Len(was) => 2 * k <= n
      BY <2>4
    <2>9. n = 2 * Len(was) => t[k] = r
      BY <2>2, <2>8
    <2>10. DOMAIN t[k] = DOMAIN h /\ Blank(t[k]) = Blank(h)
      BY <2>2, <2>5, <2>6
    <2> QED
      BY <2>7, <2>9, <2>10
  <1> HIDE DEF t
  <1>3. /\ DOMAIN t = DOMAIN was
        /\ t = [k \in DOMAIN t |-> t[k]]
        /\ \A k \in DOMAIN was :
             /\ DOMAIN t[k] = DOMAIN was[k]
             /\ Blank(t[k]) = Blank(was[k])
             /\ n = 2 * Len(was) => t[k].vaddr = IF zero THEN <<0, 0>> ELSE was[k].paddr
    BY <1>1, <1>2
  <1> QED
    BY <1>3 DEF t

LEMMA SwappedIsNumber ==
  ASSUME NEW b, IsVmcore(file)
  PROVE  Swapped(b) = Number(file.data, b)
  <1>1. file.data \in {"LSB", "MSB"}
    BY DEF IsVmcore
  <1> QED
    BY <1>1, VmcoreRepairAssumption DEF Swapped, Number

LEMMA HealStep ==
  ASSUME pc = "idle", HealInv, phys2virt, UNCHANGED editRest
  PROVE  HealInv'
  <1>0. pc' = "idle"
    BY DEF editRest
  <1>1. IsVmcore(file) /\ IsVmcore(dumped)
    BY DEF HealInv
  <1>2. CASE phys2virt_main
    BY <1>0, <1>2 DEF HealInv, phys2virt_main
  <1>3. CASE read_ehdr
    <2>1. UNCHANGED <<file, zero, runs, dumped>> /\ ppc = "header"
      BY <1>3 DEF read_ehdr
    <2>2. CASE file.ident = "elf64" /\ Swapped(file.e_phentsize) = PHENT
      <3>1. phnum' = Swapped(file.e_phnum) /\ ppc' = "phdrs" /\ UNCHANGED <<phdrs, outcome>>
        BY <1>3, <2>2 DEF read_ehdr
      <3>2. phnum' = Number(file.data, file.e_phnum)
        BY <3>1, <1>1, SwappedIsNumber
      <3> QED
        BY <1>0, <2>1, <3>1, <3>2 DEF HealInv, Suitable
    <2>3. CASE ~(file.ident = "elf64" /\ Swapped(file.e_phentsize) = PHENT)
      <3>1. p2v_exit("refused")
        BY <1>3, <2>3 DEF read_ehdr
      <3>2. ~Suitable(file)
        BY <1>1, <2>3, SwappedIsNumber DEF Suitable
      <3> QED
        BY <1>0, <2>1, <3>1, <3>2 DEF HealInv, p2v_exit, Suitable
    <2> QED
      BY <2>2, <2>3
  <1>4. CASE read_phdrs
    <2>1. UNCHANGED <<file, zero, runs, dumped>> /\ ppc = "phdrs"
      BY <1>4 DEF read_phdrs
    <2>2. phnum = Number(file.data, file.e_phnum) /\ Len(file.ph) <= phnum
      <3>1. phnum = Number(file.data, file.e_phnum)
        BY <2>1 DEF HealInv
      <3> QED
        BY <1>1, <3>1, VmcoreParts
    <2>3. Swapped(file.e_phoff) = PhOff(file)
      BY <1>1, SwappedIsNumber DEF PhOff
    <2>4. CASE phnum <= Len(file.ph)
      <3>1. phdrs' = SubSeq(file.ph, 1, phnum) /\ ppc' = "write" /\ UNCHANGED <<phnum, outcome>>
        BY <1>4, <2>3, <2>4 DEF read_phdrs
      <3>2. phnum \in Int
        <4>1. file.e_phnum \in (0 .. 255) \X (0 .. 255)
          BY <1>1, VmcoreParts
        <4>2. Number(file.data, file.e_phnum) \in Nat
          BY ONLY <4>1, NumberOfBytes
        <4>3. phnum = Number(file.data, file.e_phnum)
          BY <2>2
        <4> QED
          BY <4>2, <4>3
      <3>3. phnum = Len(file.ph)
        <4>1. Len(file.ph) \in Nat
          BY <1>1, SequenceLen DEF IsVmcore
        <4> QED
          BY <3>2, <4>1, <2>2, <2>4
      <3>4. SubSeq(file.ph, 1, phnum) = file.ph
        <4>1. file.ph \in Seq({file.ph[k] : k \in DOMAIN file.ph})
          BY <1>1 DEF IsVmcore, IsSequence
        <4> QED
          BY <3>3, <4>1, SubSeqFull
      <3> QED
        BY <1>0, <2>1, <3>1, <3>3, <3>4 DEF HealInv, Suitable
    <2>5. CASE ~(phnum <= Len(file.ph))
      <3>1. p2v_exit("refused")
        BY <1>4, <2>5 DEF read_phdrs
      <3>2. ~Suitable(file)
        <4>1. Len(file.ph) \in Nat
          BY <1>1, SequenceLen DEF IsVmcore
        <4> QED
          BY <2>2, <2>5, <4>1 DEF Suitable
      <3> QED
        BY <1>0, <2>1, <3>1, <3>2 DEF HealInv, p2v_exit, Suitable
    <2> QED
      BY <2>4, <2>5
  <1>5. CASE write_phdrs
    <2>1. UNCHANGED <<zero, runs, dumped>> /\ ppc = "write"
      BY <1>5 DEF write_phdrs
    <2>2. phnum = Len(file.ph) /\ phdrs = file.ph
      BY <2>1 DEF HealInv
    <2> DEFINE was == file.ph
               new == [k \in DOMAIN was |-> Rewritten(was[k])]
               t(n) == Torn(new, was, n)
    <2>3. PICK n \in 0 .. 2 * Len(was) :
            /\ file' = [file EXCEPT !.ph = t(n)]
            /\ p2v_exit(IF n = 2 * Len(was) THEN "whole" ELSE "torn")
      BY <1>5, <2>2 DEF write_phdrs
    <2>4. /\ DOMAIN t(n) = DOMAIN was
          /\ t(n) = [k \in DOMAIN t(n) |-> t(n)[k]]
          /\ \A k \in DOMAIN was :
               /\ DOMAIN t(n)[k] = DOMAIN was[k]
               /\ Blank(t(n)[k]) = Blank(was[k])
               /\ n = 2 * Len(was) => t(n)[k].vaddr = IF zero THEN <<0, 0>> ELSE was[k].paddr
      <3>1. IsSequence(was) /\ \A k \in DOMAIN was : "vaddr" \in DOMAIN was[k]
        BY SMTT(30), <1>1 DEF IsVmcore
      <3> HIDE DEF was
      <3> QED
        BY <3>1, TornTable
    <2> DEFINE table == t(n)
    <2> HIDE DEF t, new
    <2>5. file' = [file EXCEPT !.ph = table]
      BY <2>3
    <2>6. /\ IsVmcore(file')
          /\ WithoutVaddr(file') = WithoutVaddr(file)
          /\ file'.ph = table
          /\ file'.body = file.body
          /\ Suitable(file') <=> Suitable(file)
      <3>1. /\ DOMAIN table = DOMAIN file.ph
            /\ table = [k \in DOMAIN table |-> table[k]]
            /\ \A k \in DOMAIN file.ph :
                 DOMAIN table[k] = DOMAIN file.ph[k] /\ Blank(table[k]) = Blank(file.ph[k])
        BY <2>4
      <3> HIDE DEF table, was
      <3> QED
        BY <1>1, <2>5, <3>1, NewVaddrs
    <2>7. outcome' = (IF n = 2 * Len(was) THEN "whole" ELSE "torn") /\ ppc' = "idle"
      BY <2>3 DEF p2v_exit
    <2>8. ASSUME outcome' = "whole", NEW k \in DOMAIN file'.ph
          PROVE  file'.ph[k].vaddr = IF zero THEN <<0, 0>> ELSE dumped.ph[k].paddr
      <3>1. n = 2 * Len(was) /\ k \in DOMAIN was
        BY <2>4, <2>6, <2>7, <2>8
      <3>2. file'.ph[k].vaddr = IF zero THEN <<0, 0>> ELSE was[k].paddr
        BY <2>4, <2>6, <3>1
      <3>3. was[k].paddr = dumped.ph[k].paddr
        BY <1>0, <1>1, <3>1, SameButVaddr DEF HealInv
      <3> QED
        BY <3>2, <3>3
    <2> HIDE DEF table, was
    <2>9. WithoutVaddr(file') = WithoutVaddr(dumped') /\ file'.body = dumped'.body
      BY <2>1, <2>6 DEF HealInv
    <2>10. IsVmcore(dumped') /\ outcome' # "refused"
      BY <1>1, <2>1, <2>7
    <2> QED
      BY <2>1, <2>6, <2>7, <2>8, <2>9, <2>10 DEF HealInv
  <1>6. CASE p2v_fails
    BY <1>0, <1>6 DEF HealInv, p2v_fails, p2v_exit
  <1> QED
    BY <1>2, <1>3, <1>4, <1>5, <1>6 DEF phys2virt

-----------------------------------------------------------------------------
(* The walk over the notes.                                                *)

NotesTo(f) == SegEnd(f)
NotesFrom(f) == f.ph[NoteSeg(f)].offset
HeadAt(f, o) == Bytes(f.body, o, 1)[1]

\* Where the walk stops, and where it goes from elsewhere.
Stops(f) == {o \in NotesFrom(f) .. NotesTo(f) : o = NotesTo(f) \/ HeadAt(f, o).t # "hdr"}
Hops(f) == [o \in NotesFrom(f) .. NotesTo(f) \ Stops(f) |-> o + NoteSize(HeadAt(f, o))]

\* A file with notes as the program reads them.
Readable(f) ==
  /\ IsSequence(f.ph)
  /\ NoteSegs(f) # {}
  /\ \A k \in NoteSegs(f) : f.ph[k].filesz \in Nat
  /\ NotesFrom(f) \in Nat
  /\ SegEnd(f) <= Len(f.body)
  /\ IsSequence(f.body)
  /\ \A k \in DOMAIN f.body : f.body[k].t = "hdr" => IsNoteHeader(f.body[k])

LEMMA Pad4 ==
  ASSUME NEW n \in Nat
  PROVE  pad4(n) \in Nat /\ pad4(n) >= n
  <1>1. ALIGN \in Nat /\ ALIGN > 0
    BY EditVmcoreinfoAssumption
  <1> DEFINE m == n + ALIGN - 1
             q == m \div ALIGN
  <1>2. m \in Nat
    BY <1>1
  <1>3. q \in Nat /\ m % ALIGN \in 0 .. ALIGN - 1 /\ m = ALIGN * q + (m % ALIGN)
    <2> HIDE DEF m
    <2> QED
      BY <1>1, <1>2
  <1>4. pad4(n) = ALIGN * q
    BY DEF pad4
  <1> HIDE DEF q
  <1> DEFINE p == ALIGN * q
  <1>5. p \in Nat
    BY <1>1, <1>3
  <1> HIDE DEF p
  <1>6. m = p + (m % ALIGN)
    BY <1>3 DEF p
  <1>7. p >= n
    BY <1>1, <1>3, <1>5, <1>6
  <1> QED
    BY <1>4, <1>5, <1>7 DEF p

LEMMA FirstNoteSegment ==
  ASSUME NEW f, Readable(f)
  PROVE  /\ NoteSeg(f) \in NoteSegs(f)
         /\ NoteSeg(f) \in DOMAIN f.ph
         /\ NotesFrom(f) \in Nat /\ f.ph[NoteSeg(f)].filesz \in Nat
         /\ NotesTo(f) = NotesFrom(f) + f.ph[NoteSeg(f)].filesz
         /\ NotesTo(f) \in Nat /\ NotesFrom(f) <= NotesTo(f) /\ NotesTo(f) <= Len(f.body)
         /\ Len(f.body) \in Nat /\ DOMAIN f.body = 1 .. Len(f.body)
  <1>1. Len(f.ph) \in Nat /\ DOMAIN f.ph = 1 .. Len(f.ph)
    BY SequenceLen DEF Readable
  <1>2. NoteSegs(f) \subseteq Nat /\ NoteSegs(f) # {} /\ NoteSegs(f) \subseteq DOMAIN f.ph
    BY <1>1 DEF NoteSegs, Readable
  <1>3. \E k \in NoteSegs(f) : \A j \in NoteSegs(f) : k <= j
    BY <1>2, LeastNumber
  <1>4. NoteSeg(f) \in NoteSegs(f)
    BY <1>3 DEF NoteSeg
  <1>5. NotesFrom(f) \in Nat /\ f.ph[NoteSeg(f)].filesz \in Nat
    BY <1>2, <1>4 DEF Readable
  <1>6. NotesTo(f) = NotesFrom(f) + f.ph[NoteSeg(f)].filesz
    BY DEF NotesTo, SegEnd, NotesFrom
  <1>7. Len(f.body) \in Nat /\ DOMAIN f.body = 1 .. Len(f.body)
    BY SequenceLen DEF Readable
  <1>8. NotesTo(f) <= Len(f.body)
    BY DEF NotesTo, Readable
  <1> QED
    BY <1>2, <1>4, <1>5, <1>6, <1>7, <1>8

LEMMA HeadOf ==
  ASSUME NEW f, Readable(f), NEW o \in Nat, o < Len(f.body)
  PROVE  HeadAt(f, o) = f.body[o + 1]
  <1>1. DOMAIN f.body = 1 .. Len(f.body) /\ Len(f.body) \in Nat
    BY FirstNoteSegment
  <1>2. o + 1 \in DOMAIN f.body
    BY <1>1
  <1> QED
    BY <1>2 DEF HeadAt, Bytes

LEMMA NoteSizes ==
  ASSUME NEW h, h.namesz \in Nat, h.descsz \in Nat
  PROVE  /\ NoteSize(h) \in Nat /\ NoteSize(h) > 0
         /\ pad4(h.namesz) \in Nat /\ pad4(h.descsz) \in Nat
         /\ NoteSize(h) = NHDR + pad4(h.namesz) + pad4(h.descsz)
  <1>1. NHDR \in Nat /\ NHDR > 0
    BY EditVmcoreinfoAssumption
  <1>2. pad4(h.namesz) \in Nat /\ pad4(h.descsz) \in Nat
    BY Pad4
  <1> QED
    BY <1>1, <1>2 DEF NoteSize

LEMMA HopsForward ==
  ASSUME NEW f, Readable(f)
  PROVE  \A o \in NotesFrom(f) .. NotesTo(f) : o \notin Stops(f) =>
           /\ o < NotesTo(f) /\ o + 1 \in DOMAIN f.body
           /\ f.body[o + 1].t = "hdr" /\ IsNoteHeader(f.body[o + 1])
           /\ f.body[o + 1].namesz \in Nat /\ f.body[o + 1].descsz \in Nat
           /\ Hops(f)[o] = o + NoteSize(f.body[o + 1])
           /\ Hops(f)[o] \in Int /\ Hops(f)[o] > o
  <1> SUFFICES ASSUME NEW o \in NotesFrom(f) .. NotesTo(f), o \notin Stops(f)
               PROVE  /\ o < NotesTo(f) /\ o + 1 \in DOMAIN f.body
                      /\ f.body[o + 1].t = "hdr" /\ IsNoteHeader(f.body[o + 1])
                      /\ f.body[o + 1].namesz \in Nat /\ f.body[o + 1].descsz \in Nat
                      /\ Hops(f)[o] = o + NoteSize(f.body[o + 1])
                      /\ Hops(f)[o] \in Int /\ Hops(f)[o] > o
    OBVIOUS
  <1>1. /\ NotesFrom(f) \in Nat /\ NotesTo(f) \in Nat /\ NotesTo(f) <= Len(f.body)
        /\ Len(f.body) \in Nat /\ DOMAIN f.body = 1 .. Len(f.body)
    BY FirstNoteSegment
  <1>2. o # NotesTo(f) /\ HeadAt(f, o).t = "hdr"
    BY DEF Stops
  <1>3. o \in Nat /\ o < NotesTo(f) /\ o < Len(f.body) /\ o + 1 \in DOMAIN f.body
    BY <1>1, <1>2
  <1>4. HeadAt(f, o) = f.body[o + 1]
    BY <1>3, HeadOf
  <1>5. /\ f.body[o + 1].t = "hdr" /\ IsNoteHeader(f.body[o + 1])
        /\ f.body[o + 1].namesz \in Nat /\ f.body[o + 1].descsz \in Nat
    BY <1>2, <1>3, <1>4 DEF Readable, IsNoteHeader
  <1>6. NoteSize(f.body[o + 1]) \in Nat /\ NoteSize(f.body[o + 1]) > 0
    BY <1>5, NoteSizes
  <1>7. Hops(f)[o] = o + NoteSize(f.body[o + 1])
    BY <1>4 DEF Hops
  <1> QED
    BY <1>3, <1>5, <1>6, <1>7

LEMMA AcceptedReadable ==
  ASSUME NEW f, IsVmcore(f), Accepted(f)
  PROVE  Readable(f)
  <1>1. NoteSegs(f) # {} /\ SegEnd(f) <= Len(f.body)
    BY DEF Accepted
  <1>2. NoteSegs(f) \subseteq DOMAIN f.ph /\ IsSequence(f.ph) /\ IsSequence(f.body)
    BY DEF NoteSegs, IsVmcore
  <1>3. DOMAIN f.ph = 1 .. Len(f.ph) /\ Len(f.ph) \in Nat
    BY <1>2, SequenceLen
  <1>4. \A k \in NoteSegs(f) : f.ph[k].filesz \in Nat /\ f.ph[k].offset \in Nat
    BY <1>2 DEF IsVmcore
  <1>5. \E k \in NoteSegs(f) : \A j \in NoteSegs(f) : k <= j
    <2>1. NoteSegs(f) \subseteq Nat
      BY <1>2, <1>3
    <2> QED
      BY <1>1, <2>1, LeastNumber
  <1>6. NoteSeg(f) \in NoteSegs(f)
    BY <1>5 DEF NoteSeg
  <1>7. NotesFrom(f) \in Nat
    BY <1>4, <1>6 DEF NotesFrom
  <1> QED
    BY <1>1, <1>2, <1>4, <1>7 DEF Readable, IsVmcore

\* The walk is a function with the recursion of its definition.
LEMMA NoteWalk ==
  ASSUME NEW f, Readable(f)
  PROVE  \E w : /\ IsWalk(NotesFrom(f), NotesTo(f), Stops(f), Hops(f), w)
                /\ NoteHeads(f) = w[NotesFrom(f)]
  <1> DEFINE first == f.ph[NoteSeg(f)].offset
             final == first + f.ph[NoteSeg(f)].filesz
             Rest(w, o) ==
               LET h    == Bytes(f.body, o, 1)[1]
                   next == o + NoteSize(h)
               IN IF o = final \/ h.t # "hdr" THEN {}
                  ELSE {o} \cup (IF next > final THEN {} ELSE w[next])
             walk[o \in first .. final] ==
               LET h    == Bytes(f.body, o, 1)[1]
                   next == o + NoteSize(h)
               IN IF o = final \/ h.t # "hdr" THEN {}
                  ELSE {o} \cup (IF next > final THEN {} ELSE walk[next])
  <1>1. NoteHeads(f) = walk[first]
    BY DEF NoteHeads
  <1>2. ASSUME NEW w, w = [o \in first .. final |-> Rest(w, o)]
        PROVE  walk = [o \in first .. final |-> Rest(walk, o)]
    <2> HIDE DEF first, final
    <2> QED
      BY <1>2
  <1> HIDE DEF walk
  <1>3. first = NotesFrom(f) /\ final = NotesTo(f)
    BY DEF NotesFrom, NotesTo, SegEnd
  <1>4. ASSUME NEW w, NEW o \in NotesFrom(f) .. NotesTo(f)
        PROVE  Rest(w, o) = Met(NotesTo(f), Stops(f), Hops(f), w, o)
    <2> HIDE DEF first, final
    <2>1. o \in Stops(f) <=> o = final \/ Bytes(f.body, o, 1)[1].t # "hdr"
      BY <1>3 DEF Stops, HeadAt
    <2>2. o \notin Stops(f) => Hops(f)[o] = o + NoteSize(Bytes(f.body, o, 1)[1])
      BY DEF Hops, HeadAt
    <2> QED
      BY <1>3, <2>1, <2>2 DEF Met
  <1>5. PICK w : IsWalk(NotesFrom(f), NotesTo(f), Stops(f), Hops(f), w)
    <2>1. NotesFrom(f) \in Int /\ NotesTo(f) \in Int
      BY FirstNoteSegment
    <2>2. Forward(NotesFrom(f), NotesTo(f), Stops(f), Hops(f))
      BY HopsForward DEF Forward
    <2> QED
      BY <2>1, <2>2, WalkExists
  <1> HIDE DEF Rest, first, final
  <1>6. w = [o \in first .. final |-> Rest(w, o)]
    BY <1>3, <1>4, <1>5 DEF IsWalk
  <1>7. walk = [o \in first .. final |-> Rest(walk, o)]
    BY <1>2, <1>6
  <1>8. IsWalk(NotesFrom(f), NotesTo(f), Stops(f), Hops(f), walk)
    BY <1>3, <1>4, <1>7 DEF IsWalk
  <1> QED
    BY <1>1, <1>3, <1>8

\* The notes that the walk meets are headers in the file.
LEMMA HeadsInFile ==
  ASSUME NEW f, Readable(f), NEW o \in NoteHeads(f)
  PROVE  /\ o \in Nat /\ NotesFrom(f) <= o /\ o < NotesTo(f) /\ o < Len(f.body)
         /\ o + 1 \in DOMAIN f.body /\ f.body[o + 1].t = "hdr" /\ IsNoteHeader(f.body[o + 1])
         /\ f.body[o + 1].namesz \in Nat /\ f.body[o + 1].descsz \in Nat
  <1>1. /\ NotesFrom(f) \in Nat /\ NotesTo(f) \in Nat /\ NotesFrom(f) <= NotesTo(f) /\ NotesTo(f) <= Len(f.body)
        /\ Len(f.body) \in Nat
    BY FirstNoteSegment
  <1>2. PICK w : /\ IsWalk(NotesFrom(f), NotesTo(f), Stops(f), Hops(f), w)
                 /\ NoteHeads(f) = w[NotesFrom(f)]
    BY NoteWalk
  <1>3. \A p \in NotesFrom(f) .. NotesTo(f) :
          w[p] \subseteq {q \in NotesFrom(f) .. NotesTo(f) : q >= p /\ q \notin Stops(f)}
    <2>1. Forward(NotesFrom(f), NotesTo(f), Stops(f), Hops(f))
      BY HopsForward DEF Forward
    <2> QED
      BY <1>1, <1>2, <2>1, WalkInRange
  <1>4. o \in NotesFrom(f) .. NotesTo(f) /\ o \notin Stops(f)
    BY <1>1, <1>2, <1>3
  <1> QED
    BY <1>1, <1>4, HopsForward

-----------------------------------------------------------------------------
(* editvmcoreinfo.                                                         *)

Old == orig.body[vi_start + 1]
Grow == pad4(newsize) - pad4(Old.descsz)
NewTable ==
  [k \in DOMAIN orig.ph |->
     IF k = notes_seg
     THEN [orig.ph[k] EXCEPT !.filesz = @ + Grow,
                             !.memsz = IF @ = 0 THEN 0 ELSE @ + Grow]
     ELSE IF k > notes_seg THEN [orig.ph[k] EXCEPT !.offset = @ + Grow]
     ELSE orig.ph[k]]
NewFront == SubSeq(orig.body, 1, vi_start) \o NewNote

\* The note is found, the last of its kind.
Located ==
  /\ Accepted(orig)
  /\ vi_start \in VmcoreinfoNotes(orig)
  /\ \A p \in VmcoreinfoNotes(orig) : p <= vi_start
  /\ vi_end = vi_start + NoteSize(Old)
  /\ notes_seg = NoteSeg(orig)
  /\ newsize = newlen + 1

\* The whole of the work.
Done ==
  /\ Located
  /\ vi_end <= Len(orig.body)
  /\ file.ph = NewTable
  /\ file.body = NewFront \o Behind

\* Some of the work: the table is written, and the body is a beginning of the new one.
Begun ==
  /\ Located
  /\ vi_end <= Len(orig.body)
  /\ file.ph = phdr
  /\ \E n \in vi_start .. Len(NewBody) : file.body = SubSeq(NewBody, 1, n)

SameHeader ==
  /\ file.ident = orig.ident /\ file.data = orig.data /\ file.shdrs = orig.shdrs
  /\ file.e_phoff = orig.e_phoff /\ file.e_phnum = orig.e_phnum
  /\ file.e_phentsize = orig.e_phentsize
  /\ DOMAIN file = DOMAIN orig

\* The body of the file at every point of the program.
BodyInv ==
  /\ pc \in {"idle", "start", "elfdata", "offsets", "shift"} => tmp = <<>>
  /\ pc \in {"idle", "start", "elfdata"} => vi_start = 0 /\ vi_end = 0
  /\ pc \in {"idle", "start", "elfdata", "offsets", "shift", "save", "truncate"} =>
       file.body = orig.body
  /\ pc = "save" => /\ cur \in Nat
                    /\ cur <= Len(orig.body) - vi_end \/ cur = 0
                    /\ tmp = SubSeq(orig.body, vi_end + 1, vi_end + cur)
                    /\ amt = Len(orig.body) - vi_end
  /\ pc \in {"truncate", "write", "restore"} =>
       /\ vi_end <= Len(orig.body)
       /\ amt = Len(orig.body) - vi_end
       /\ tmp = Behind
  /\ pc = "write" => file.body = SubSeq(orig.body, 1, vi_start)
  /\ pc = "restore" => /\ cur \in 0 .. Len(Behind)
                       /\ file.body = NewFront \o SubSeq(Behind, 1, cur)
  /\ pc = "exit" => /\ file.body = orig.body \/ Begun
                    /\ status = 0 => Done

EditInv ==
  /\ pc \in {"idle", "start", "elfdata", "offsets", "shift", "save", "truncate", "write",
             "restore", "exit"}
  /\ newlen \in Nat
  /\ pc # "idle" => IsVmcore(orig) /\ SameHeader
  /\ pc \in {"start", "elfdata", "offsets"} => file = orig
  /\ pc = "elfdata" => newsize = newlen + 1
  /\ pc \in {"offsets", "shift", "save", "truncate", "write", "restore"} => Located
  /\ pc = "offsets" => phdr = orig.ph
  /\ pc \in {"shift", "save", "truncate", "write", "restore"} =>
       phdr = NewTable /\ file.ph = NewTable
  /\ BodyInv

\* What is known of the note once it is found.
LEMMA LocatedNote ==
  ASSUME IsVmcore(orig), newlen \in Nat, Located
  PROVE  /\ Readable(orig)
         /\ IsSequence(orig.body) /\ Len(orig.body) \in Nat
         /\ vi_start \in Nat /\ vi_start < Len(orig.body)
         /\ vi_start \in NoteHeads(orig)
         /\ Old.t = "hdr" /\ IsNoteHeader(Old) /\ Old.namesz \in Nat /\ Old.descsz \in Nat
         /\ vi_end \in Nat /\ vi_start < vi_end
         /\ newsize \in Nat /\ pad4(newsize) \in Nat
         /\ Grow \in Int
         /\ notes_seg \in DOMAIN orig.ph
  <1>1. Readable(orig)
    BY AcceptedReadable DEF Located
  <1>2. IsSequence(orig.body) /\ Len(orig.body) \in Nat
    BY SequenceLen DEF IsVmcore
  <1>3. vi_start \in NoteHeads(orig)
    BY DEF Located, VmcoreinfoNotes
  <1>4. /\ vi_start \in Nat /\ vi_start < Len(orig.body)
        /\ Old.t = "hdr" /\ IsNoteHeader(Old) /\ Old.namesz \in Nat /\ Old.descsz \in Nat
    BY <1>1, <1>3, HeadsInFile DEF Old
  <1>5. NoteSize(Old) \in Nat /\ NoteSize(Old) > 0 /\ pad4(Old.descsz) \in Nat
    BY <1>4, NoteSizes
  <1>6. vi_end \in Nat /\ vi_start < vi_end
    BY <1>4, <1>5 DEF Located
  <1>7. newsize \in Nat
    BY DEF Located
  <1>8. pad4(newsize) \in Nat
    BY <1>7, Pad4
  <1>9. Grow \in Int
    BY <1>5, <1>8 DEF Grow
  <1>10. notes_seg \in DOMAIN orig.ph
    BY <1>1, FirstNoteSegment DEF Located
  <1> QED
    BY <1>1, <1>2, <1>3, <1>4, <1>6, <1>7, <1>8, <1>9, <1>10

\* The new note is as long as the old one and what it has grown by.
LEMMA LengthOfNewNote ==
  ASSUME IsVmcore(orig), newlen \in Nat, Located
  PROVE  /\ IsSequence(NewNote)
         /\ Len(NewNote) = vi_end - vi_start + Grow
         /\ Len(NewNote) \in Nat /\ Len(NewNote) >= 1
         /\ NewNote[1] = [Old EXCEPT !.descsz = newsize]
         /\ Len(NewNote) = NHDR + pad4(Old.namesz) + pad4(newsize)
  <1> DEFINE a == <<[Old EXCEPT !.descsz = newsize]>>
             n == NHDR - 1 + pad4(Old.namesz)
             b == Bytes(orig.body, vi_start + 1, n)
             c == [k \in 1 .. pad4(newsize) |-> IF k < newsize THEN NewByte(k) ELSE Nul]
  <1>1. /\ Old.namesz \in Nat /\ Old.descsz \in Nat /\ pad4(newsize) \in Nat /\ Grow \in Int
        /\ vi_start \in Nat /\ vi_end \in Nat
    BY LocatedNote
  <1>2. NHDR \in Nat /\ NHDR > 0
    BY EditVmcoreinfoAssumption
  <1>3. pad4(Old.namesz) \in Nat /\ pad4(Old.descsz) \in Nat
        /\ NoteSize(Old) = NHDR + pad4(Old.namesz) + pad4(Old.descsz)
    BY <1>1, NoteSizes
  <1>4. n \in Nat
    BY <1>2, <1>3
  <1>5. IsSequence(a) /\ Len(a) = 1 /\ a[1] = [Old EXCEPT !.descsz = newsize]
    <2>1. a \in Seq({[Old EXCEPT !.descsz = newsize]})
      OBVIOUS
    <2> QED
      BY <2>1, IsSequenceOver
  <1>6. IsSequence(b) /\ Len(b) = n
    <2> HIDE DEF n
    <2>1. DOMAIN b = 1 .. n /\ b = [k \in 1 .. n |-> b[k]]
      BY DEF Bytes
    <2> HIDE DEF b
    <2> QED
      BY <1>4, <2>1, Tabled
  <1>7. IsSequence(c) /\ Len(c) = pad4(newsize)
    <2>1. DOMAIN c = 1 .. pad4(newsize) /\ c = [k \in 1 .. pad4(newsize) |-> c[k]]
      OBVIOUS
    <2> HIDE DEF c
    <2> QED
      BY <1>1, <2>1, Tabled
  <1>8. NewNote = a \o b \o c
    BY DEF NewNote, Old
  <1> HIDE DEF a, b, c, n
  <1>9. IsSequence(a \o b) /\ Len(a \o b) = 1 + n /\ (a \o b)[1] = a[1]
    <2>1. IsSequence(a \o b) /\ Len(a \o b) = Len(a) + Len(b)
          /\ \A i \in 1 .. Len(a) : (a \o b)[i] = a[i]
      <3>1. ASSUME NEW s, NEW t, IsSequence(s), IsSequence(t)
            PROVE  /\ IsSequence(s \o t) /\ Len(s \o t) = Len(s) + Len(t)
                   /\ \A i \in 1 .. Len(s) : (s \o t)[i] = s[i]
        BY <3>1, Joined
      <3>2. IsSequence(a) /\ IsSequence(b)
        BY <1>5, <1>6
      <3> QED
        BY <3>1, <3>2
    <2> QED
      BY <1>5, <1>6, <2>1
  <1> DEFINE d == a \o b
  <1> HIDE DEF d
  <1>10. IsSequence(NewNote) /\ Len(NewNote) = 1 + n + pad4(newsize) /\ NewNote[1] = a[1]
    <2>1. IsSequence(d) /\ Len(d) = 1 + n /\ d[1] = a[1] /\ NewNote = d \o c
      BY <1>8, <1>9 DEF d
    <2>2. IsSequence(d \o c) /\ Len(d \o c) = Len(d) + Len(c)
          /\ \A i \in 1 .. Len(d) : (d \o c)[i] = d[i]
      BY <1>7, <2>1, Joined
    <2> QED
      BY <1>4, <1>7, <2>1, <2>2
  <1>11. Len(NewNote) = NHDR + pad4(Old.namesz) + pad4(newsize)
    BY <1>2, <1>3, <1>1, <1>10 DEF n
  <1>12. vi_end - vi_start = NHDR + pad4(Old.namesz) + pad4(Old.descsz)
    BY <1>1, <1>2, <1>3 DEF Located
  <1>13. Len(NewNote) = vi_end - vi_start + Grow
    BY <1>1, <1>2, <1>3, <1>11, <1>12 DEF Grow
  <1>14. Len(NewNote) \in Nat /\ Len(NewNote) >= 1
    BY <1>1, <1>2, <1>3, <1>11
  <1> QED
    BY <1>5, <1>10, <1>11, <1>13, <1>14

\* The pieces of the new file.
LEMMA Pieces ==
  ASSUME IsVmcore(orig), newlen \in Nat, Located
  PROVE  /\ IsSequence(SubSeq(orig.body, 1, vi_start))
         /\ Len(SubSeq(orig.body, 1, vi_start)) = vi_start
         /\ IsSequence(NewNote)
         /\ IsSequence(NewFront) /\ Len(NewFront) = vi_start + Len(NewNote)
         /\ vi_end <= Len(orig.body) => IsSequence(Behind) /\ Len(Behind) = Len(orig.body) - vi_end
  <1>1. /\ IsSequence(orig.body) /\ Len(orig.body) \in Nat
        /\ vi_start \in Nat /\ vi_start < Len(orig.body) /\ vi_end \in Nat
    BY LocatedNote
  <1>2. IsSequence(NewNote)
    BY LengthOfNewNote
  <1>3. IsSequence(SubSeq(orig.body, 1, vi_start)) /\ Len(SubSeq(orig.body, 1, vi_start)) = vi_start
    BY <1>1, Slice
  <1>4. IsSequence(NewFront) /\ Len(NewFront) = vi_start + Len(NewNote)
    BY <1>2, <1>3, Joined DEF NewFront
  <1>5. vi_end <= Len(orig.body) => IsSequence(Behind) /\ Len(Behind) = Len(orig.body) - vi_end
    BY <1>1, SliceAfter DEF Behind
  <1> QED
    BY <1>2, <1>3, <1>4, <1>5

\* The beginnings of the new body that the program passes through.
LEMMA Beginnings ==
  ASSUME IsVmcore(orig), newlen \in Nat, Located, vi_end <= Len(orig.body)
  PROVE  /\ IsSequence(NewBody) /\ Len(NewBody) = vi_start + Len(NewNote) + Len(Behind)
         /\ SubSeq(NewBody, 1, vi_start) = SubSeq(orig.body, 1, vi_start)
         /\ \A n \in 0 .. Len(NewNote) :
              SubSeq(NewBody, 1, vi_start + n) =
              SubSeq(orig.body, 1, vi_start) \o SubSeq(NewNote, 1, n)
         /\ \A n \in 0 .. Len(Behind) :
              SubSeq(NewBody, 1, vi_start + Len(NewNote) + n) =
              NewFront \o SubSeq(Behind, 1, n)
  <1> DEFINE p == SubSeq(orig.body, 1, vi_start)
  <1>1. /\ IsSequence(p) /\ Len(p) = vi_start
        /\ IsSequence(NewNote)
        /\ IsSequence(NewFront) /\ Len(NewFront) = vi_start + Len(NewNote)
        /\ IsSequence(Behind) /\ Len(Behind) \in Nat
        /\ Len(NewNote) \in Nat /\ vi_start \in Nat
    BY Pieces, LocatedNote, LengthOfNewNote, SequenceLen
  <1>2. NewBody = NewFront \o Behind /\ NewFront = p \o NewNote
    BY DEF NewBody, NewFront
  <1> HIDE DEF p
  <1>3. IsSequence(NewBody) /\ Len(NewBody) = vi_start + Len(NewNote) + Len(Behind)
    BY <1>1, <1>2, Joined
  <1>4. NewBody = p \o (NewNote \o Behind)
    <2>1. ASSUME NEW s, NEW t, NEW u, IsSequence(s), IsSequence(t), IsSequence(u)
          PROVE  (s \o t) \o u = s \o (t \o u)
      BY <2>1, JoinedThree
    <2> QED
      BY <1>1, <1>2, <2>1
  <1> DEFINE z == NewNote \o Behind
  <1>5. IsSequence(z) /\ Len(z) = Len(NewNote) + Len(Behind)
    BY <1>1, Joined
  <1>6. ASSUME NEW n \in 0 .. Len(NewNote)
        PROVE  SubSeq(NewBody, 1, vi_start + n) = p \o SubSeq(NewNote, 1, n)
    <2>1. n \in 0 .. Len(z)
      BY <1>1, <1>5
    <2>2. SubSeq(p \o z, 1, Len(p) + n) = p \o SubSeq(z, 1, n)
      <3> HIDE DEF z
      <3> QED
        BY <1>1, <1>5, <2>1, LongerPrefix
    <2>3. SubSeq(z, 1, n) = SubSeq(NewNote, 1, n)
      <3> DEFINE a == SubSeq(z, 1, n)
                 b == SubSeq(NewNote, 1, n)
      <3>1. n \in Nat /\ n <= Len(NewNote) /\ n <= Len(z)
        BY <1>1, <2>1
      <3>2. /\ IsSequence(a) /\ Len(a) = n /\ \A i \in 1 .. n : a[i] = z[i]
        <4> HIDE DEF z
        <4> QED
          BY <1>5, <3>1, SliceFromOne
      <3>3. /\ IsSequence(b) /\ Len(b) = n /\ \A i \in 1 .. n : b[i] = NewNote[i]
        BY <1>1, <3>1, SliceFromOne
      <3>4. \A i \in 1 .. Len(NewNote) : z[i] = NewNote[i]
        BY <1>1, Joined
      <3> HIDE DEF a, b, z
      <3>5. \A i \in 1 .. Len(a) : a[i] = b[i]
        BY <1>1, <3>1, <3>2, <3>3, <3>4
      <3>6. a = b
        BY <3>2, <3>3, <3>5, SameSequence
      <3> QED
        BY <3>6 DEF a, b
    <2> HIDE DEF z
    <2> QED
      BY <1>1, <1>4, <2>2, <2>3 DEF z
  <1>7. SubSeq(NewBody, 1, vi_start) = p
    <2>1. 0 \in 0 .. Len(NewNote) /\ vi_start + 0 = vi_start
      BY <1>1
    <2>2. SubSeq(NewBody, 1, vi_start + 0) = p \o SubSeq(NewNote, 1, 0)
      BY <1>6, <2>1
    <2>3. SubSeq(NewNote, 1, 0) = <<>>
      BY SubSeqEmpty
    <2>4. p \o <<>> = p
      <3>1. p \in Seq({p[k] : k \in DOMAIN p})
        BY <1>1 DEF IsSequence
      <3> QED
        BY <3>1, ConcatEmptySeq
    <2> QED
      BY <2>1, <2>2, <2>3, <2>4
  <1>8. \A n \in 0 .. Len(Behind) :
          SubSeq(NewBody, 1, vi_start + Len(NewNote) + n) = NewFront \o SubSeq(Behind, 1, n)
    <2>1. \A n \in 0 .. Len(Behind) :
            SubSeq(NewFront \o Behind, 1, Len(NewFront) + n) = NewFront \o SubSeq(Behind, 1, n)
      BY <1>1, LongerPrefix
    <2> QED
      BY <1>1, <1>2, <2>1
  <1> QED
    BY <1>3, <1>6, <1>7, <1>8 DEF p

LEMMA BegunThroughout ==
  ASSUME EditInv
  PROVE  file.body = orig.body \/ Begun
  <1>1. CASE pc \in {"write", "restore"}
    <2>1. /\ IsVmcore(orig) /\ newlen \in Nat /\ Located /\ file.ph = phdr
          /\ vi_end <= Len(orig.body)
      BY <1>1 DEF EditInv, BodyInv
    <2>2. /\ vi_start \in Nat /\ Len(NewNote) \in Nat /\ Len(Behind) \in Nat
          /\ Len(NewBody) = vi_start + Len(NewNote) + Len(Behind)
      BY <2>1, LocatedNote, LengthOfNewNote, Pieces, SequenceLen, Beginnings
    <2>3. CASE pc = "write"
      <3>1. file.body = SubSeq(orig.body, 1, vi_start)
        BY <2>3 DEF EditInv, BodyInv
      <3>2. file.body = SubSeq(NewBody, 1, vi_start) /\ vi_start \in vi_start .. Len(NewBody)
        BY <2>1, <2>2, <3>1, Beginnings
      <3> QED
        BY <2>1, <3>2 DEF Begun
    <2>4. CASE pc = "restore"
      <3>1. cur \in 0 .. Len(Behind) /\ file.body = NewFront \o SubSeq(Behind, 1, cur)
        BY <2>4 DEF EditInv, BodyInv
      <3>2. PICK n : n = vi_start + Len(NewNote) + cur
        OBVIOUS
      <3>3. file.body = SubSeq(NewBody, 1, n) /\ n \in vi_start .. Len(NewBody)
        BY <2>1, <2>2, <3>1, <3>2, Beginnings
      <3> QED
        BY <2>1, <3>3 DEF Begun
    <2> QED
      BY <1>1, <2>3, <2>4
  <1> QED
    BY <1>1 DEF EditInv, BodyInv

\* What is done is a beginning, and all of it.
LEMMA DoneIsAll ==
  ASSUME Done
  PROVE  file.body = NewBody
  BY DEF Done, NewBody, NewFront

LEMMA SafeThroughout ==
  ASSUME EditInv
  PROVE  TailSafe
  <1>1. Succeeded => file.body = NewBody
    BY DoneIsAll DEF Succeeded, EditInv, BodyInv
  <1>2. CASE file.body = orig.body
    BY <1>1, <1>2 DEF TailSafe
  <1>3. CASE file.body # orig.body
    <2>1. Begun
      BY <1>3, BegunThroughout
    <2>2. pc # "idle"
      BY <1>3 DEF EditInv, BodyInv
    <2>3. IsVmcore(orig) /\ newlen \in Nat /\ Located /\ vi_end <= Len(orig.body)
      BY <2>1, <2>2 DEF EditInv, Begun
    <2>4. PICK n \in vi_start .. Len(NewBody) : file.body = SubSeq(NewBody, 1, n)
      BY <2>1 DEF Begun
    <2>5. vi_start \in Nat /\ IsSequence(NewBody) /\ Len(NewBody) \in Nat
      BY <2>3, LocatedNote, Beginnings, SequenceLen
    <2>6. n \in Nat /\ vi_start <= n /\ n <= Len(NewBody)
      BY <2>4, <2>5
    <2>7. SubSeq(file.body, 1, vi_start) = SubSeq(orig.body, 1, vi_start)
      <3>1. SubSeq(SubSeq(NewBody, 1, n), 1, vi_start) = SubSeq(NewBody, 1, vi_start)
        BY <2>5, <2>6, ShorterPrefix
      <3> QED
        BY <2>3, <2>4, <3>1, Beginnings
    <2>8. pc # "exit" => tmp = Behind
      BY <1>3 DEF EditInv, BodyInv
    <2> QED
      BY <1>1, <2>1, <2>7, <2>8 DEF TailSafe, Begun
  <1> QED
    BY <1>2, <1>3

LEMMA SameNote ==
  ASSUME UNCHANGED <<orig, newlen, notes_seg, vi_start, vi_end, newsize>>
  PROVE  /\ Located' <=> Located
         /\ NewTable' = NewTable
         /\ NewFront' = NewFront /\ Behind' = Behind /\ NewBody' = NewBody
  BY DEF Located, Old, Grow, NewTable, NewFront, Behind, NewNote, NewBody

LEMMA BodyReplaced ==
  ASSUME IsVmcore(orig), SameHeader, orig' = orig, NEW b, file' = [file EXCEPT !.body = b]
  PROVE  SameHeader' /\ file'.body = b /\ file'.ph = file.ph
  <1>1. DOMAIN file = {"ident", "data", "shdrs", "e_phoff", "e_phnum", "e_phentsize", "ph", "body"}
    BY DEF IsVmcore, SameHeader
  <1> QED
    BY <1>1 DEF SameHeader

LEMMA TableReplaced ==
  ASSUME IsVmcore(orig), SameHeader, orig' = orig, NEW t, file' = [file EXCEPT !.ph = t]
  PROVE  SameHeader' /\ file'.ph = t /\ file'.body = file.body
  <1>1. DOMAIN file = {"ident", "data", "shdrs", "e_phoff", "e_phnum", "e_phentsize", "ph", "body"}
    BY DEF IsVmcore, SameHeader
  <1> QED
    BY <1>1 DEF SameHeader

LEMMA EndStep ==
  ASSUME EditInv, pc # "idle", exit(1) \/ exit(137),
         UNCHANGED <<file, elfVars, newsize, cur, amt, orig>>
  PROVE  EditInv'
  <1>1. pc' = "exit" /\ status' # 0
    BY DEF exit
  <1>2. file.body = orig.body \/ Begun
    BY BegunThroughout
  <1>3. file'.body = orig'.body \/ Begun'
    <2>1. UNCHANGED <<orig, newlen, notes_seg, vi_start, vi_end, newsize>>
      BY DEF elfVars
    <2>2. (Located' <=> Located) /\ NewBody' = NewBody
      BY <2>1, SameNote
    <2> QED
      BY <1>2, <2>1, <2>2 DEF Begun, elfVars
  <1>4. IsVmcore(orig)' /\ SameHeader' /\ newlen' \in Nat
    BY DEF EditInv, SameHeader, elfVars
  <1>5. BodyInv'
    BY <1>1, <1>3 DEF BodyInv
  <1> QED
    BY <1>1, <1>4, <1>5 DEF EditInv

LEMMA FirstSteps ==
  ASSUME EditInv, read_newdata \/ refuse_elfdata \/ read_elfdata
  PROVE  EditInv'
  <1>1. CASE read_newdata
    <2>1. /\ pc = "start" /\ pc' = "elfdata" /\ newsize' = newlen + 1
          /\ UNCHANGED <<file, newlen, phdr, notes_seg, vi_start, vi_end, tmp, cur, amt, status, orig>>
      BY <1>1 DEF read_newdata, elfVars
    <2>2. BodyInv'
      BY <2>1 DEF EditInv, BodyInv
    <2>3. SameHeader'
      BY <2>1 DEF EditInv, SameHeader
    <2> QED
      BY <2>1, <2>2, <2>3 DEF EditInv
  <1>2. CASE refuse_elfdata
    BY <1>2, EndStep DEF refuse_elfdata
  <1>3. CASE read_elfdata
    <2>1. /\ pc = "elfdata" /\ pc' = "offsets"
          /\ Accepted(file) /\ file = orig
          /\ phdr' = orig.ph /\ notes_seg' = NoteSeg(orig)
          /\ UNCHANGED <<file, newlen, newsize, tmp, cur, amt, status, orig>>
      BY <1>3 DEF read_elfdata, EditInv
    <2>2. newsize = newlen + 1 /\ newlen \in Nat /\ IsVmcore(orig)
      BY <2>1 DEF EditInv
    <2>3. Located'
      <3>1. /\ vi_start' \in VmcoreinfoNotes(orig)
            /\ \A p \in VmcoreinfoNotes(orig) : p <= vi_start'
            /\ vi_end' = vi_start' + NoteSize(orig.body[vi_start' + 1])
        BY <1>3, <2>1 DEF read_elfdata
      <3> QED
        BY <2>1, <2>2, <3>1 DEF Located, Old
    <2>4. BodyInv'
      BY <2>1 DEF EditInv, BodyInv
    <2>5. SameHeader'
      BY <2>1 DEF EditInv, SameHeader
    <2> QED
      BY <2>1, <2>2, <2>3, <2>4, <2>5 DEF EditInv
  <1> QED
    BY <1>1, <1>2, <1>3

LEMMA OffsetsStep ==
  ASSUME EditInv, update_offsets
  PROVE  EditInv'
  <1>1. /\ pc = "offsets" /\ file = orig /\ phdr = orig.ph /\ tmp = <<>>
        /\ IsVmcore(orig) /\ newlen \in Nat /\ Located /\ SameHeader
    BY DEF update_offsets, EditInv, BodyInv
  <1>2. UNCHANGED <<newlen, notes_seg, vi_start, vi_end, newsize, cur, amt, orig>>
    BY DEF update_offsets
  <1>3. phdr' = NewTable
    <2>1. phdr' = Shifted(orig.ph)
      BY <1>1 DEF update_offsets
    <2>2. sizediff = Grow
      BY <1>1 DEF sizediff, Grow, Old
    <2> QED
      BY <2>1, <2>2 DEF Shifted, NewTable
  <1>4. IsSequence(orig.ph) /\ Len(orig.ph) \in Nat /\ DOMAIN orig.ph = 1 .. Len(orig.ph)
    BY <1>1, SequenceLen DEF IsVmcore
  <1>5. IsSequence(NewTable) /\ Len(NewTable) = Len(orig.ph)
    <2>1. DOMAIN NewTable = DOMAIN orig.ph /\ NewTable = [k \in DOMAIN orig.ph |-> NewTable[k]]
      BY DEF NewTable
    <2> QED
      BY <1>4, <2>1, Tabled
  <1>6. PICK n \in 0 .. Len(orig.ph) :
          /\ file' = [file EXCEPT !.ph = SubSeq(phdr', 1, n) \o SubSeq(@, n + 1, Len(@))]
          /\ IF n = Len(orig.ph) THEN pc' = "shift" /\ UNCHANGED <<status, tmp>> ELSE exit(1)
    BY <1>1 DEF update_offsets
  <1>7. /\ SameHeader' /\ file'.body = orig.body
        /\ file'.ph = SubSeq(NewTable, 1, n) \o SubSeq(orig.ph, n + 1, Len(orig.ph))
    <2> DEFINE t == SubSeq(NewTable, 1, n) \o SubSeq(orig.ph, n + 1, Len(orig.ph))
    <2>1. file' = [file EXCEPT !.ph = t]
      BY <1>1, <1>3, <1>6
    <2> HIDE DEF t
    <2>2. SameHeader' /\ file'.body = file.body /\ file'.ph = t
      BY <1>1, <1>2, <2>1, TableReplaced
    <2> QED
      BY <1>1, <2>2 DEF t
  <1>8. Located' /\ NewTable' = NewTable /\ IsVmcore(orig') /\ newlen' \in Nat
    BY <1>1, <1>2, SameNote
  <1>9. CASE n = Len(orig.ph)
    <2>1. pc' = "shift" /\ tmp' = tmp
      BY <1>6, <1>9
    <2>2. file'.ph = NewTable
      <3>1. SubSeq(orig.ph, n + 1, Len(orig.ph)) = <<>>
        BY <1>4, <1>9, SubSeqEmpty
      <3>2. NewTable \in Seq({NewTable[k] : k \in DOMAIN NewTable})
        BY <1>5 DEF IsSequence
      <3>3. SubSeq(NewTable, 1, n) = NewTable
        BY <1>5, <1>9, <3>2, SubSeqFull
      <3>4. NewTable \o <<>> = NewTable
        BY <3>2, ConcatEmptySeq
      <3> QED
        BY <1>7, <3>1, <3>3, <3>4
    <2>3. BodyInv'
      BY <1>1, <1>2, <1>7, <2>1 DEF BodyInv
    <2> QED
      BY <1>3, <1>7, <1>8, <2>1, <2>2, <2>3 DEF EditInv
  <1>10. CASE n # Len(orig.ph)
    <2>1. pc' = "exit" /\ status' = 1
      BY <1>6, <1>10 DEF exit
    <2>2. BodyInv'
      BY <1>2, <1>7, <2>1 DEF BodyInv
    <2> QED
      BY <1>7, <1>8, <2>1, <2>2 DEF EditInv
  <1> QED
    BY <1>9, <1>10

\* The next bytes of s, behind the a-th, continue the piece from the m-th.
Continues(s, m, a, to) ==
  \E n \in Nat :
    /\ n <= Len(s) - a
    /\ Len(to) = n
    /\ IsSequence(to)
    /\ SubSeq(s, m + 1, a) \o to = SubSeq(s, m + 1, a + n)

\* A round of sendfile moves the next bytes of what is left.
LEMMA Round ==
  ASSUME NEW s, IsSequence(s), NEW m \in Nat, NEW a \in Nat, m <= a, a <= Len(s),
         NEW to, to \in Sendable(SubSeq(s, a + 1, Len(s)))
  PROVE  Continues(s, m, a, to)
  <1>0. Len(s) \in Nat
    BY SequenceLen
  <1> DEFINE rest == SubSeq(s, a + 1, Len(s))
  <1>1. IsSequence(rest) /\ Len(rest) = Len(s) - a
    BY <1>0, SliceAfter
  <1>2. PICK n \in 0 .. Len(rest) : to = SubSeq(rest, 1, n)
    <2> HIDE DEF rest
    <2>1. to \in Sendable(rest)
      BY DEF rest
    <2> QED
      BY <2>1 DEF Sendable
  <1>3. n \in Nat /\ n <= Len(s) - a /\ a + n \in Nat /\ a + n <= Len(s) /\ a <= a + n
    BY <1>0, <1>1
  <1>4. SubSeq(rest, 0 + 1, n) = SubSeq(s, a + 0 + 1, a + n)
    BY <1>0, <1>3, SliceOfSlice
  <1>5. to = SubSeq(s, a + 1, a + n)
    <2>1. 0 + 1 = 1 /\ a + 0 + 1 = a + 1
      OBVIOUS
    <2> QED
      BY <1>2, <1>4, <2>1
  <1> HIDE DEF rest
  <1>6. IsSequence(to) /\ Len(to) = (a + n) - a
    BY <1>3, <1>5, SliceAfter
  <1>7. SubSeq(s, m + 1, a) \o to = SubSeq(s, m + 1, a + n)
    BY <1>3, <1>5, Adjacent
  <1>8. Len(to) = n
    BY <1>3, <1>6
  <1> QED
    BY <1>3, <1>6, <1>7, <1>8 DEF Continues

LEMMA ShiftStep ==
  ASSUME EditInv, shift_data
  PROVE  EditInv'
  <1>1. /\ pc = "shift" /\ file.body = orig.body /\ phdr = NewTable /\ file.ph = NewTable
        /\ tmp = <<>> /\ IsVmcore(orig) /\ newlen \in Nat /\ Located /\ SameHeader
    BY DEF shift_data, EditInv, BodyInv
  <1>2. /\ pc' = "save" /\ cur' = 0 /\ amt' = Len(orig.body) - vi_end
        /\ UNCHANGED <<file, newlen, phdr, notes_seg, vi_start, vi_end, newsize, tmp, status, orig>>
    BY <1>1 DEF shift_data, elfVars, savesz
  <1>3. Located' /\ NewTable' = NewTable /\ SameHeader'
    BY <1>1, <1>2, SameNote DEF SameHeader
  <1>4. SubSeq(orig.body, vi_end + 1, vi_end + 0) = <<>>
    <2>1. vi_end + 1 \in Int /\ vi_end + 0 \in Int /\ vi_end + 0 < vi_end + 1
      BY <1>1, LocatedNote
    <2> QED
      BY <2>1, SubSeqEmpty
  <1>5. BodyInv'
    BY <1>1, <1>2, <1>4 DEF BodyInv
  <1> QED
    BY <1>1, <1>2, <1>3, <1>5 DEF EditInv

LEMMA SaveStep ==
  ASSUME EditInv, save
  PROVE  EditInv'
  <1>1. /\ pc = "save" /\ file.body = orig.body /\ phdr = NewTable /\ file.ph = NewTable
        /\ IsVmcore(orig) /\ newlen \in Nat /\ Located /\ SameHeader
        /\ cur \in Nat /\ (cur <= Len(orig.body) - vi_end \/ cur = 0)
        /\ tmp = SubSeq(orig.body, vi_end + 1, vi_end + cur)
        /\ amt = Len(orig.body) - vi_end /\ amt >= 0
    BY DEF save, EditInv, BodyInv
  <1>2. UNCHANGED <<file, newlen, phdr, notes_seg, vi_start, vi_end, newsize, amt, status, orig>>
    BY DEF save, elfVars
  <1>3. Located' /\ NewTable' = NewTable /\ SameHeader' /\ Behind' = Behind
    BY <1>1, <1>2, SameNote DEF SameHeader
  <1>4. IsSequence(orig.body) /\ Len(orig.body) \in Nat /\ vi_end \in Nat
    BY <1>1, LocatedNote
  <1>5. PICK to \in Sendable(SubSeq(orig.body, vi_end + cur + 1, Len(orig.body))) :
          /\ cur' = cur + Len(to)
          /\ pc' = IF Moved(cur') THEN "truncate" ELSE "save"
          /\ tmp' = tmp \o to
    <2> DEFINE rest == SubSeq(file.body, vi_end + cur + 1, Len(file.body))
    <2>1. PICK to \in Sendable(rest) : sendfile_loop(rest, to, "truncate") /\ tmp' = tmp \o to
      BY DEF save
    <2>2. cur' = cur + Len(to) /\ pc' = IF Moved(cur') THEN "truncate" ELSE "save"
      BY <1>1, <2>1 DEF sendfile_loop
    <2>3. to \in Sendable(SubSeq(orig.body, vi_end + cur + 1, Len(orig.body)))
      BY <1>1, <2>1
    <2> QED
      BY <2>1, <2>2, <2>3
  <1>6. vi_end + cur <= Len(orig.body)
    BY <1>1, <1>4
  <1>7. PICK n \in Nat :
          /\ n <= Len(orig.body) - vi_end - cur
          /\ Len(to) = n
          /\ SubSeq(orig.body, vi_end + 1, vi_end + cur) \o to
               = SubSeq(orig.body, vi_end + 1, vi_end + (cur + n))
    <2>1. PICK a \in Nat : a = vi_end + cur
      BY <1>1, <1>4
    <2>2. vi_end <= a /\ a <= Len(orig.body)
          /\ to \in Sendable(SubSeq(orig.body, a + 1, Len(orig.body)))
      BY <1>1, <1>4, <1>6, <2>1
    <2>3. PICK n \in Nat :
            /\ n <= Len(orig.body) - a
            /\ Len(to) = n
            /\ SubSeq(orig.body, vi_end + 1, a) \o to = SubSeq(orig.body, vi_end + 1, a + n)
      <3>1. Continues(orig.body, vi_end, a, to)
        BY <1>4, <2>2, Round
      <3> QED
        BY <3>1 DEF Continues
    <2>4. n <= Len(orig.body) - vi_end - cur /\ a + n = vi_end + (cur + n)
      BY <1>1, <1>4, <2>1, <2>3
    <2> QED
      BY <2>1, <2>3, <2>4
  <1>8. cur' = cur + n /\ cur' \in Nat /\ cur' <= Len(orig.body) - vi_end
    <2>1. cur' = cur + n
      BY <1>5, <1>7
    <2>2. cur \in Nat /\ n \in Nat /\ n <= Len(orig.body) - vi_end - cur
      BY <1>1, <1>7
    <2> QED
      BY <1>4, <2>1, <2>2
  <1>9. tmp' = SubSeq(orig.body, vi_end + 1, vi_end + cur')
    BY <1>1, <1>5, <1>7, <1>8
  <1>10. CASE Moved(cur')
    <2>1. pc' = "truncate" /\ vi_end + cur' = Len(orig.body) /\ vi_end <= Len(orig.body)
      <3>1. cur' >= amt
        BY <1>10 DEF Moved
      <3>2. pc' = "truncate"
        BY <1>5, <1>10
      <3>3. amt = Len(orig.body) - vi_end
        BY <1>1
      <3>4. cur' = Len(orig.body) - vi_end /\ vi_end <= Len(orig.body)
        BY <1>4, <1>8, <3>1, <3>3
      <3> QED
        BY <1>4, <3>2, <3>4
    <2>2. tmp' = Behind
      BY <1>9, <2>1 DEF Behind
    <2>3. BodyInv'
      BY <1>1, <1>2, <1>3, <2>1, <2>2 DEF BodyInv
    <2> QED
      BY <1>1, <1>2, <1>3, <2>1, <2>3 DEF EditInv
  <1>11. CASE ~Moved(cur')
    <2>1. pc' = "save"
      BY <1>5, <1>11
    <2>2. BodyInv'
      BY <1>1, <1>2, <1>8, <1>9, <2>1 DEF BodyInv
    <2> QED
      BY <1>1, <1>2, <1>3, <2>1, <2>2 DEF EditInv
  <1> QED
    BY <1>10, <1>11

LEMMA TruncateStep ==
  ASSUME EditInv, truncate
  PROVE  EditInv'
  <1>1. /\ pc = "truncate" /\ file.body = orig.body /\ phdr = NewTable /\ file.ph = NewTable
        /\ IsVmcore(orig) /\ newlen \in Nat /\ Located /\ SameHeader
        /\ vi_end <= Len(orig.body) /\ amt = Len(orig.body) - vi_end /\ tmp = Behind
    BY DEF truncate, EditInv, BodyInv
  <1>2. /\ pc' = "write" /\ file' = [file EXCEPT !.body = SubSeq(@, 1, vi_start)]
        /\ UNCHANGED <<newlen, phdr, notes_seg, vi_start, vi_end, newsize, tmp, cur, amt, status, orig>>
    BY DEF truncate, elfVars
  <1>3. Located' /\ NewTable' = NewTable /\ Behind' = Behind
    BY <1>1, <1>2, SameNote
  <1>4. SameHeader' /\ file'.body = SubSeq(orig.body, 1, vi_start) /\ file'.ph = NewTable
    <2>1. file' = [file EXCEPT !.body = SubSeq(orig.body, 1, vi_start)]
      BY <1>1, <1>2
    <2> QED
      BY <1>1, <1>2, <2>1, BodyReplaced
  <1>5. BodyInv'
    BY <1>1, <1>2, <1>3, <1>4 DEF BodyInv
  <1> QED
    BY <1>1, <1>2, <1>3, <1>4, <1>5 DEF EditInv

LEMMA WriteStep ==
  ASSUME EditInv, write_note
  PROVE  EditInv'
  <1>1. /\ pc = "write" /\ phdr = NewTable /\ file.ph = NewTable
        /\ file.body = SubSeq(orig.body, 1, vi_start)
        /\ IsVmcore(orig) /\ newlen \in Nat /\ Located /\ SameHeader
        /\ vi_end <= Len(orig.body) /\ amt = Len(orig.body) - vi_end /\ tmp = Behind
    BY DEF write_note, EditInv, BodyInv
  <1>2. /\ cur' = 0
        /\ UNCHANGED <<newlen, phdr, notes_seg, vi_start, vi_end, newsize, amt, orig>>
    BY DEF write_note, elfVars
  <1>3. PICK n \in 1 .. Len(NewNote) :
          /\ file' = [file EXCEPT !.body = @ \o SubSeq(NewNote, 1, n)]
          /\ IF n = Len(NewNote) THEN pc' = "restore" /\ UNCHANGED <<status, tmp>> ELSE exit(1)
    BY DEF write_note
  <1>4. /\ Located' /\ NewTable' = NewTable /\ Behind' = Behind /\ NewFront' = NewFront
        /\ NewBody' = NewBody
    BY <1>1, <1>2, SameNote
  <1>5. /\ IsSequence(NewNote) /\ Len(NewNote) \in Nat
        /\ IsSequence(NewFront) /\ IsSequence(Behind) /\ Len(Behind) = Len(orig.body) - vi_end
        /\ Len(orig.body) \in Nat /\ vi_end \in Nat
    BY <1>1, Pieces, LengthOfNewNote, LocatedNote
  <1> DEFINE x == SubSeq(NewNote, 1, n)
  <1>6. SameHeader' /\ file'.body = SubSeq(orig.body, 1, vi_start) \o x /\ file'.ph = NewTable
    <2>1. file' = [file EXCEPT !.body = SubSeq(orig.body, 1, vi_start) \o x]
      BY <1>1, <1>3
    <2> HIDE DEF x
    <2> QED
      BY <1>1, <1>2, <2>1, BodyReplaced
  <1>7. CASE n = Len(NewNote)
    <2>1. pc' = "restore" /\ tmp' = tmp
      BY <1>3, <1>7
    <2>2. x = NewNote
      <3>1. NewNote \in Seq({NewNote[k] : k \in DOMAIN NewNote})
        BY <1>5 DEF IsSequence
      <3> QED
        BY <1>7, <3>1, SubSeqFull
    <2>3. SubSeq(Behind, 1, 0) = <<>> /\ NewFront \o <<>> = NewFront
      <3>1. NewFront \in Seq({NewFront[k] : k \in DOMAIN NewFront})
        BY <1>5 DEF IsSequence
      <3> QED
        BY <3>1, SubSeqEmpty, ConcatEmptySeq
    <2>4. file'.body = NewFront \o SubSeq(Behind, 1, cur')
      BY <1>2, <1>6, <2>2, <2>3 DEF NewFront
    <2>5. cur' \in 0 .. Len(Behind)
      BY <1>1, <1>2, <1>5
    <2>6. BodyInv'
      BY <1>1, <1>2, <1>4, <2>1, <2>4, <2>5 DEF BodyInv
    <2> QED
      BY <1>1, <1>2, <1>4, <1>6, <2>1, <2>6 DEF EditInv
  <1>8. CASE n # Len(NewNote)
    <2>1. pc' = "exit" /\ status' = 1
      BY <1>3, <1>8 DEF exit
    <2>2. /\ vi_start \in Nat /\ Len(Behind) \in Nat
          /\ Len(NewBody) = vi_start + Len(NewNote) + Len(Behind)
      BY <1>1, <1>5, LocatedNote, Beginnings, SequenceLen
    <2>3. Begun'
      <3>1. PICK m : m = vi_start + n
        OBVIOUS
      <3>2. SubSeq(NewBody, 1, m) = SubSeq(orig.body, 1, vi_start) \o x
        <4>1. \A k \in 0 .. Len(NewNote) :
                SubSeq(NewBody, 1, vi_start + k) =
                SubSeq(orig.body, 1, vi_start) \o SubSeq(NewNote, 1, k)
          BY <1>1, Beginnings
        <4>2. n \in 0 .. Len(NewNote)
          BY <1>5
        <4> QED
          BY <3>1, <4>1, <4>2
      <3>3. m \in vi_start .. Len(NewBody)
        <4>1. PICK v \in Nat, w \in Nat, b \in Nat :
                v = vi_start /\ w = Len(NewNote) /\ b = Len(Behind)
          BY <1>5, <2>2
        <4>2. Len(NewBody) = v + w + b /\ m = v + n /\ n \in 1 .. w
          BY <2>2, <3>1, <4>1
        <4>3. v + n \in v .. v + w + b
          BY <4>2
        <4> QED
          BY <4>1, <4>2, <4>3
      <3>4. file'.body = SubSeq(NewBody, 1, m)
        BY <1>6, <3>2
      <3> HIDE DEF x
      <3> QED
        BY <1>1, <1>2, <1>4, <1>6, <3>3, <3>4 DEF Begun
    <2>4. BodyInv'
      BY <2>1, <2>3 DEF BodyInv
    <2> QED
      BY <1>1, <1>2, <1>4, <1>6, <2>1, <2>4 DEF EditInv
  <1> QED
    BY <1>7, <1>8

LEMMA RestoreStep ==
  ASSUME EditInv, restore
  PROVE  EditInv'
  <1>1. /\ pc = "restore" /\ phdr = NewTable /\ file.ph = NewTable
        /\ IsVmcore(orig) /\ newlen \in Nat /\ Located /\ SameHeader
        /\ cur \in 0 .. Len(Behind) /\ file.body = NewFront \o SubSeq(Behind, 1, cur)
        /\ vi_end <= Len(orig.body) /\ amt = Len(orig.body) - vi_end /\ tmp = Behind
    BY DEF restore, EditInv, BodyInv
  <1>2. /\ UNCHANGED <<newlen, phdr, notes_seg, vi_start, vi_end, newsize, amt, status, orig>>
        /\ pc' # "exit" => tmp' = tmp
    BY DEF restore, elfVars
  <1>3. PICK to \in Sendable(SubSeq(Behind, cur + 1, Len(Behind))) :
          /\ cur' = cur + Len(to)
          /\ pc' = IF Moved(cur') THEN "exit" ELSE "restore"
          /\ file' = [file EXCEPT !.body = @ \o to]
    <2> DEFINE rest == SubSeq(tmp, cur + 1, Len(tmp))
    <2>1. PICK to \in Sendable(rest) :
            sendfile_loop(rest, to, "exit") /\ file' = [file EXCEPT !.body = @ \o to]
      BY DEF restore
    <2>2. cur' = cur + Len(to) /\ pc' = IF Moved(cur') THEN "exit" ELSE "restore"
      BY <1>1, <2>1 DEF sendfile_loop
    <2>3. to \in Sendable(SubSeq(Behind, cur + 1, Len(Behind)))
      BY <1>1, <2>1
    <2> QED
      BY <2>1, <2>2, <2>3
  <1>4. /\ Located' /\ NewTable' = NewTable /\ Behind' = Behind /\ NewFront' = NewFront
        /\ NewBody' = NewBody
    BY <1>1, <1>2, SameNote
  <1>5. /\ IsSequence(SubSeq(orig.body, 1, vi_start))
        /\ IsSequence(NewNote) /\ IsSequence(NewFront)
        /\ IsSequence(Behind) /\ Len(Behind) = Len(orig.body) - vi_end /\ Len(Behind) \in Nat
        /\ Len(orig.body) \in Nat /\ vi_end \in Nat /\ cur \in Nat
    BY <1>1, Pieces, LocatedNote
  <1>6. PICK n \in Nat :
          /\ n <= Len(Behind) - cur
          /\ Len(to) = n
          /\ IsSequence(to)
          /\ SubSeq(Behind, 1, cur) \o to = SubSeq(Behind, 1, cur + n)
    <2>1. PICK m \in Nat : m = 0
      OBVIOUS
    <2>2. m <= cur /\ cur <= Len(Behind) /\ m + 1 = 1
      BY <1>1, <1>5, <2>1
    <2>3. \E n \in Nat :
            /\ n <= Len(Behind) - cur
            /\ Len(to) = n
            /\ IsSequence(to)
            /\ SubSeq(Behind, m + 1, cur) \o to = SubSeq(Behind, m + 1, cur + n)
      <3>1. Continues(Behind, m, cur, to)
        BY <1>5, <2>2, Round
      <3> QED
        BY <3>1 DEF Continues
    <2> QED
      BY <2>2, <2>3
  <1> DEFINE x == SubSeq(Behind, 1, cur')
  <1>7. cur' = cur + n /\ cur' \in 0 .. Len(Behind)
    BY <1>3, <1>5, <1>6
  <1>8. IsSequence(x)
    <2>1. cur' \in Nat /\ 1 <= cur' + 1 /\ cur' <= Len(Behind)
      BY <1>5, <1>7
    <2> QED
      BY <1>5, <2>1, Slice
  <1>9. file'.body = NewFront \o x /\ SameHeader' /\ file'.ph = NewTable
    <2> DEFINE y == SubSeq(Behind, 1, cur)
    <2>1. IsSequence(y)
      BY <1>1, <1>5, Slice
    <2>2. file' = [file EXCEPT !.body = (NewFront \o y) \o to]
      BY <1>1, <1>3
    <2>3. y \o to = x
      BY <1>6, <1>7
    <2> HIDE DEF x, y
    <2>4. (NewFront \o y) \o to = NewFront \o x
      <3>1. (NewFront \o y) \o to = NewFront \o (y \o to)
        <4>1. ASSUME NEW s, NEW t, NEW u, IsSequence(s), IsSequence(t), IsSequence(u)
              PROVE  (s \o t) \o u = s \o (t \o u)
          BY <4>1, JoinedThree
        <4>2. IsSequence(NewFront) /\ IsSequence(y) /\ IsSequence(to)
          BY <1>5, <1>6, <2>1
        <4> QED
          BY <4>1, <4>2
      <3> QED
        BY <2>3, <3>1
    <2>5. file' = [file EXCEPT !.body = NewFront \o x]
      BY <2>2, <2>4
    <2> QED
      BY <1>1, <1>2, <2>5, BodyReplaced
  <1>10. CASE Moved(cur')
    <2>1. pc' = "exit" /\ cur' = Len(Behind)
      BY <1>1, <1>3, <1>5, <1>7, <1>10 DEF Moved
    <2>2. x = Behind
      <3>1. Behind \in Seq({Behind[k] : k \in DOMAIN Behind})
        BY <1>5 DEF IsSequence
      <3> QED
        BY <2>1, <3>1, SubSeqFull
    <2>3. Done'
      BY <1>1, <1>2, <1>4, <1>9, <2>2 DEF Done
    <2>4. Begun'
      <3>1. file'.body = NewBody
        BY <1>9, <2>2 DEF NewBody, NewFront
      <3>2. /\ IsSequence(NewBody) /\ Len(NewBody) \in Nat /\ vi_start \in Nat
            /\ Len(NewBody) = vi_start + Len(NewNote) + Len(Behind) /\ Len(NewNote) \in Nat
        BY <1>1, LocatedNote, LengthOfNewNote, Beginnings, SequenceLen
      <3>3. SubSeq(NewBody, 1, Len(NewBody)) = NewBody
        BY <3>2, WholeSlice
      <3>4. Len(NewBody) \in vi_start .. Len(NewBody)
        <4>1. PICK l \in Nat, v \in Nat, w \in Nat, b \in Nat :
                l = Len(NewBody) /\ v = vi_start /\ w = Len(NewNote) /\ b = Len(Behind)
          BY <1>5, <3>2
        <4>2. l = v + w + b
          BY <3>2, <4>1
        <4>3. l \in v .. l
          BY <4>2
        <4> QED
          BY <4>1, <4>3
      <3> QED
        BY <1>1, <1>2, <1>4, <1>9, <3>1, <3>3, <3>4 DEF Begun
    <2>5. BodyInv'
      BY <2>1, <2>3, <2>4 DEF BodyInv
    <2> QED
      BY <1>1, <1>2, <1>4, <1>9, <2>1, <2>5 DEF EditInv
  <1>11. CASE ~Moved(cur')
    <2>1. pc' = "restore" /\ tmp' = tmp
      BY <1>2, <1>3, <1>11
    <2>2. BodyInv'
      BY <1>1, <1>2, <1>4, <1>7, <1>9, <2>1 DEF BodyInv
    <2> QED
      BY <1>1, <1>2, <1>4, <1>9, <2>1, <2>2 DEF EditInv
  <1> QED
    BY <1>10, <1>11

LEMMA EditStep ==
  ASSUME EditInv, Next
  PROVE  EditInv'
  <1>1. CASE call_fails \/ killed
    BY <1>1, EndStep DEF call_fails, killed
  <1>2. CASE save_refused
    BY <1>2, EndStep DEF save_refused
  <1>3. CASE Step
    BY <1>2, <1>3, FirstSteps, OffsetsStep, ShiftStep, SaveStep, TruncateStep, WriteStep,
       RestoreStep DEF Step
  <1> QED
    BY <1>1, <1>3 DEF Next

-----------------------------------------------------------------------------
(* The repair.                                                             *)

RepairInv == HealInv /\ EditInv /\ IsSequence(output)

LEMMA RepairStart ==
  ASSUME RepairInit \/ AloneInit
  PROVE  RepairInv
  <1>1. IsSequence(<<"no file">>)
    <2>1. <<"no file">> \in Seq({"no file"})
      OBVIOUS
    <2> QED
      BY <2>1, IsSequenceOver
  <1>2. IsSequence(output)
    BY <1>1 DEF RepairInit, AloneInit, InitFind, None
  <1>3. CASE RepairInit
    <2>1. /\ pc = "idle" /\ ppc = "idle" /\ outcome = "none" /\ IsVmcore(file)
          /\ orig = file /\ dumped = file /\ newlen = 0
          /\ tmp = <<>> /\ vi_start = 0 /\ vi_end = 0
      BY <1>3, VmcoreRepairAssumption DEF RepairInit, InitPhys2virt, InitEdit
    <2>2. HealInv
      BY <2>1 DEF HealInv
    <2>3. BodyInv
      BY <2>1 DEF BodyInv
    <2>4. EditInv
      BY <2>1, <2>3 DEF EditInv
    <2> QED
      BY <1>2, <2>2, <2>4 DEF RepairInv
  <1>4. CASE AloneInit
    <2>1. /\ pc = "start" /\ IsVmcore(orig) /\ orig = file /\ newlen \in Nat
          /\ tmp = <<>> /\ vi_start = 0 /\ vi_end = 0
      BY <1>4, EditVmcoreinfoAssumption DEF AloneInit, Init, InitEdit
    <2>2. HealInv
      BY <2>1 DEF HealInv
    <2>3. BodyInv
      BY <2>1 DEF BodyInv
    <2>4. SameHeader
      BY <2>1 DEF SameHeader
    <2>5. EditInv
      BY <2>1, <2>3, <2>4 DEF EditInv
    <2> QED
      BY <1>2, <2>2, <2>5 DEF RepairInv
  <1> QED
    BY <1>3, <1>4

LEMMA SameFile ==
  ASSUME HealInv, EditInv, UNCHANGED <<vars, p2vVars>>
  PROVE  HealInv' /\ EditInv'
  <1>1. HealInv'
    BY DEF HealInv, vars, p2vVars
  <1>2. UNCHANGED <<file, newlen, phdr, notes_seg, vi_start, vi_end, newsize, tmp, cur, amt, pc,
                    status, orig>>
    BY DEF vars
  <1>3. (Located' <=> Located) /\ NewTable' = NewTable /\ NewFront' = NewFront /\ Behind' = Behind
    BY <1>2, SameNote
  <1>4. (SameHeader' <=> SameHeader) /\ (Begun' <=> Begun)
    <2>1. NewBody' = NewBody
      BY <1>2, SameNote
    <2> QED
      BY <1>2, <1>3, <2>1 DEF SameHeader, Begun
  <1>5. Done' <=> Done
    BY <1>2, <1>3 DEF Done
  <1>6. BodyInv'
    BY <1>2, <1>3, <1>4, <1>5 DEF EditInv, BodyInv
  <1>7. EditInv'
    BY <1>2, <1>3, <1>4, <1>6 DEF EditInv
  <1> QED
    BY <1>1, <1>7

\* What the hunt saves is a sequence.
LEMMA OutputStep ==
  ASSUME IsSequence(output), findvmcoreinfo
  PROVE  IsSequence(output')
  <1>1. CASE save_output
    <2>1. PICK l : \E n \in 0 .. Len(l) : output' = SubSeq(l, 1, n)
      BY <1>1 DEF save_output
    <2> PICK n \in 0 .. Len(l) : output' = SubSeq(l, 1, n)
      BY <2>1
    <2> DEFINE S == {l[i] : i \in 1 .. n}
    <2>2. n \in Int /\ 1 \in Int /\ \A i \in 1 .. n : l[i] \in S
      BY <2>1
    <2> HIDE DEF S
    <2>3. SubSeq(l, 1, n) \in Seq(S)
      BY <2>2, SubSeqProperties
    <2>4. output' \in Seq(S)
      BY <2>1, <2>3
    <2> QED
      BY <2>4, IsSequenceOver
  <1>2. CASE ~save_output
    <2>1. output' = output
      BY <1>2 DEF findvmcoreinfo, stringsProc, strings_write, strings_exit, strings_dies, script,
                  Popen, read_wait, read, split, last, terminate, script_dies
    <2> QED
      BY <2>1
  <1> QED
    BY <1>1, <1>2

LEMMA RepairStep ==
  ASSUME RepairInv, [RepairNext]_repairVars
  PROVE  RepairInv'
  <1>0. HealInv /\ EditInv /\ IsSequence(output)
    BY DEF RepairInv
  <1>1. CASE UNCHANGED repairVars
    <2>1. UNCHANGED <<vars, p2vVars>> /\ output' = output
      BY <1>1 DEF repairVars, findVars
    <2> QED
      BY <1>0, <2>1, SameFile DEF RepairInv
  <1>2. CASE hpc # "over" /\ findvmcoreinfo /\ UNCHANGED <<vars, p2vVars>>
    BY <1>0, <1>2, SameFile, OutputStep DEF RepairInv
  <1>3. CASE prompt
    <2>1. UNCHANGED <<vars, p2vVars>> /\ output' = output
      BY <1>3 DEF prompt
    <2> QED
      BY <1>0, <2>1, SameFile DEF RepairInv
  <1>4. CASE Repairing /\ phys2virt /\ UNCHANGED <<editRest, findVars>>
    <2>1. pc = "idle" /\ pc' = "idle" /\ output' = output
          /\ UNCHANGED <<newlen, vi_start, vi_end, tmp, orig>>
      BY <1>4 DEF Repairing, editRest, findVars
    <2>2. HealInv'
      BY <1>0, <1>4, <2>1, HealStep
    <2>3. dumped' = dumped
      BY <1>4 DEF phys2virt, phys2virt_main, read_ehdr, read_phdrs, write_phdrs, p2v_fails
    <2>4. file'.body = file.body
      BY <1>0, <2>1, <2>2, <2>3 DEF HealInv
    <2>5. BodyInv'
      BY <1>0, <2>1, <2>4 DEF EditInv, BodyInv
    <2>6. EditInv'
      BY <1>0, <2>1, <2>5 DEF EditInv
    <2> QED
      BY <1>0, <2>1, <2>2, <2>6 DEF RepairInv
  <1>5. CASE editvmcoreinfo
    <2>1. /\ pc = "idle" /\ pc' = "start" /\ newlen' = Len(output) /\ orig' = file
          /\ UNCHANGED <<file, vi_start, vi_end, tmp>> /\ output' = output
      BY <1>5 DEF editvmcoreinfo, findVars
    <2>2. newlen' \in Nat
      BY <1>0, <2>1, SequenceLen
    <2>3. IsVmcore(orig')
      BY <1>0, <2>1 DEF HealInv
    <2>4. HealInv'
      BY <2>1 DEF HealInv
    <2>5. SameHeader'
      BY <2>1 DEF SameHeader
    <2>6. BodyInv'
      BY <1>0, <2>1 DEF EditInv, BodyInv
    <2>7. EditInv'
      BY <2>1, <2>2, <2>3, <2>5, <2>6 DEF EditInv
    <2> QED
      BY <1>0, <2>1, <2>4, <2>7 DEF RepairInv
  <1>6. CASE Next /\ UNCHANGED <<p2vVars, findVars>>
    <2>1. EditInv' /\ output' = output
      BY <1>0, <1>6, EditStep DEF findVars
    <2>2. pc' # "idle"
      BY <1>6 DEF Next, Step, call_fails, killed, read_newdata, refuse_elfdata, read_elfdata,
                  update_offsets, shift_data, save_refused, save, truncate, write_note,
                  restore, exit, sendfile_loop
    <2>3. HealInv'
      BY <2>2 DEF HealInv
    <2> QED
      BY <1>0, <2>1, <2>3 DEF RepairInv
  <1> QED
    BY <1>1, <1>2, <1>3, <1>4, <1>5, <1>6 DEF RepairNext

\* The repair keeps its inductive invariant, with any dump, any hunt and any way for
\* the programs to fail.
THEOREM RepairInvariance == RepairFairSpec => []RepairInv
  <1>1. RepairInit \/ AloneInit => RepairInv
    BY RepairStart
  <1>2. RepairInv /\ [RepairNext]_repairVars => RepairInv'
    BY RepairStep
  <1> QED
    BY <1>1, <1>2, PTL DEF RepairFairSpec

\* Runs of phys2virt, however they end, leave everything but virtual addresses as it
\* was, and one that gets through heals the table.
THEOREM TableHeals == RepairFairSpec => []RunsHealTable
  <1>1. RepairInv => RunsHealTable
    BY DEF RepairInv, HealInv, RunsHealTable, Repairing
  <1> QED
    BY <1>1, RepairInvariance, PTL

\* Whatever fails, and whenever editvmcoreinfo is stopped: what is before the note is in
\* the file; as long as the program runs, what is behind it is in the file or all of it
\* in the temporary file; a file that is not as it was has the new table and a beginning
\* of the new body, and after success all of it.
THEOREM TailIsSafe == RepairFairSpec => []TailSafe
  <1>1. RepairInv => TailSafe
    BY SafeThroughout DEF RepairInv
  <1> QED
    BY <1>1, RepairInvariance, PTL

-----------------------------------------------------------------------------
(* What editvmcoreinfo leaves when it ends well.                           *)

\* u is s and then t.
Joins(s, t, u) ==
  /\ IsSequence(u)
  /\ Len(u) = Len(s) + Len(t)
  /\ \A i \in 1 .. Len(s) : u[i] = s[i]
  /\ \A i \in 1 .. Len(t) : u[Len(s) + i] = t[i]

LEMMA Joining ==
  ASSUME NEW s, NEW t, IsSequence(s), IsSequence(t)
  PROVE  Joins(s, t, s \o t)
  BY Joined DEF Joins

-----------------------------------------------------------------------------
(* The new file, byte by byte.                                             *)

\* Bytes up to the old note stay, those behind it move by what the note has grown.
LEMMA BodyOfNew ==
  ASSUME IsVmcore(orig), newlen \in Nat, Done
  PROVE  /\ IsSequence(file.body)
         /\ Len(file.body) \in Nat /\ Len(file.body) = Len(orig.body) + Grow
         /\ \A i \in 1 .. vi_start : file.body[i] = orig.body[i]
         /\ \A i \in 1 .. Len(NewNote) : file.body[vi_start + i] = NewNote[i]
         /\ \A i \in vi_end + 1 .. Len(orig.body) : file.body[i + Grow] = orig.body[i]
  <1>0. Located /\ vi_end <= Len(orig.body) /\ file.body = NewFront \o Behind
    BY DEF Done
  <1>1. /\ IsSequence(orig.body) /\ Len(orig.body) \in Nat
        /\ vi_start \in Nat /\ vi_start < Len(orig.body) /\ vi_end \in Nat /\ vi_start < vi_end
        /\ Grow \in Int
    BY <1>0, LocatedNote
  <1>2. Len(NewNote) = vi_end - vi_start + Grow /\ Len(NewNote) \in Nat
    BY <1>0, LengthOfNewNote
  <1> DEFINE p == SubSeq(orig.body, 1, vi_start)
  <1>3. /\ IsSequence(p) /\ Len(p) = vi_start
        /\ IsSequence(NewNote)
        /\ IsSequence(NewFront) /\ Len(NewFront) = vi_start + Len(NewNote)
        /\ IsSequence(Behind) /\ Len(Behind) = Len(orig.body) - vi_end
    BY <1>0, Pieces
  <1>4. \A i \in 1 .. vi_start : p[i] = orig.body[i]
    <2>1. \A i \in 1 .. vi_start - 1 + 1 : p[i] = orig.body[1 + i - 1]
      BY <1>1, Slice
    <2> HIDE DEF p
    <2>2. \A i \in 1 .. vi_start : i \in 1 .. vi_start - 1 + 1 /\ 1 + i - 1 = i
      BY <1>1
    <2> QED
      BY <2>1, <2>2
  <1>5. NewFront = p \o NewNote
    BY DEF NewFront
  <1> HIDE DEF p
  <1>6. \A i \in 1 .. vi_start : NewFront[i] = p[i]
    BY <1>3, <1>5, Joined
  <1>7. \A i \in 1 .. Len(NewNote) : NewFront[vi_start + i] = NewNote[i]
    BY <1>3, <1>5, Joined
  <1>8. \A i \in 1 .. Len(Behind) : Behind[i] = orig.body[vi_end + i]
    <2>1. ASSUME NEW s, NEW m \in Nat, IsSequence(s), m <= Len(s), Len(s) \in Nat
          PROVE  \A i \in 1 .. Len(s) - m : SubSeq(s, m + 1, Len(s))[i] = s[m + i]
      BY <2>1, SliceAfter
    <2>2. \A i \in 1 .. Len(orig.body) - vi_end : Behind[i] = orig.body[vi_end + i]
      BY <1>0, <1>1, <2>1 DEF Behind
    <2> QED
      BY <1>3, <2>2
  <1>9. /\ IsSequence(file.body) /\ Len(file.body) = Len(NewFront) + Len(Behind)
        /\ \A i \in 1 .. Len(NewFront) : file.body[i] = NewFront[i]
        /\ \A i \in 1 .. Len(Behind) : file.body[Len(NewFront) + i] = Behind[i]
    <2>1. Joins(NewFront, Behind, NewFront \o Behind)
      BY <1>3, Joining
    <2> QED
      BY <1>0, <2>1 DEF Joins
  <1>10. Len(NewFront) = vi_end + Grow /\ Len(NewFront) \in Nat /\ vi_start <= Len(NewFront)
    BY <1>1, <1>2, <1>3
  <1>11. Len(file.body) \in Nat /\ Len(file.body) = Len(orig.body) + Grow
    <2>1. Len(file.body) = Len(NewFront) + Len(Behind)
      BY <1>9
    <2>2. Len(Behind) = Len(orig.body) - vi_end
      BY <1>3
    <2>3. PICK b, e, g, l : b = Len(orig.body) /\ e = vi_end /\ g = Grow /\ l = Len(file.body)
      OBVIOUS
    <2>4. b \in Nat /\ e \in Nat /\ e <= b /\ g \in Int /\ e + g \in Nat /\ l = (e + g) + (b - e)
      BY <1>0, <1>1, <1>10, <2>1, <2>2, <2>3
    <2>5. l \in Nat /\ l = b + g
      BY <2>4
    <2> QED
      BY <2>3, <2>5
  <1>12. ASSUME NEW i \in 1 .. vi_start PROVE file.body[i] = orig.body[i]
    BY <1>1, <1>4, <1>6, <1>9, <1>10
  <1>13. ASSUME NEW i \in 1 .. Len(NewNote) PROVE file.body[vi_start + i] = NewNote[i]
    <2>1. vi_start + i \in 1 .. Len(NewFront)
      BY <1>1, <1>2, <1>3
    <2> QED
      BY <1>7, <1>9, <2>1
  <1>14. ASSUME NEW i \in vi_end + 1 .. Len(orig.body) PROVE file.body[i + Grow] = orig.body[i]
    <2>1. PICK j \in Nat : j = i - vi_end
      BY <1>1
    <2>2. j \in 1 .. Len(Behind) /\ vi_end + j = i /\ Len(NewFront) + j = i + Grow
      BY <1>1, <1>3, <1>10, <2>1
    <2> QED
      BY <1>8, <1>9, <2>2
  <1> QED
    BY <1>9, <1>11, <1>12, <1>13, <1>14

\* A stretch of bytes up to the old note is the same in the new file.
LEMMA StretchBefore ==
  ASSUME IsVmcore(orig), newlen \in Nat, Done,
         NEW o \in Nat, NEW n \in Nat, o + n <= vi_start
  PROVE  Bytes(file.body, o, n) = Bytes(orig.body, o, n)
  <1>1. /\ IsSequence(orig.body) /\ Len(orig.body) \in Nat
        /\ vi_start \in Nat /\ vi_start < Len(orig.body)
        /\ Len(NewNote) = vi_end - vi_start + Grow /\ Len(NewNote) \in Nat
        /\ vi_end <= Len(orig.body) /\ vi_end \in Nat /\ Grow \in Int
    BY LocatedNote, LengthOfNewNote DEF Done
  <1>2. /\ IsSequence(file.body) /\ Len(file.body) = Len(orig.body) + Grow
        /\ \A i \in 1 .. vi_start : file.body[i] = orig.body[i]
    BY BodyOfNew
  <1>3. DOMAIN file.body = 1 .. Len(file.body) /\ DOMAIN orig.body = 1 .. Len(orig.body)
    BY <1>1, <1>2, SequenceLen
  <1>4. ASSUME NEW k \in 1 .. n
        PROVE  /\ o + k \in DOMAIN file.body /\ o + k \in DOMAIN orig.body
               /\ file.body[o + k] = orig.body[o + k]
    <2>1. o + k \in 1 .. vi_start
      BY <1>1
    <2> QED
      BY <1>1, <1>2, <1>3, <2>1
  <1> QED
    BY <1>4 DEF Bytes

\* A stretch of bytes behind the old note is in the new file behind the new one.
LEMMA StretchBehind ==
  ASSUME IsVmcore(orig), newlen \in Nat, Done,
         NEW o \in Nat, NEW n \in Nat, o >= vi_end
  PROVE  Bytes(file.body, o + Grow, n) = Bytes(orig.body, o, n)
  <1>1. /\ IsSequence(orig.body) /\ Len(orig.body) \in Nat
        /\ vi_start \in Nat
        /\ Len(NewNote) = vi_end - vi_start + Grow /\ Len(NewNote) \in Nat
        /\ vi_end \in Nat /\ Grow \in Int
    BY LocatedNote, LengthOfNewNote DEF Done
  <1>2. /\ IsSequence(file.body) /\ Len(file.body) = Len(orig.body) + Grow
        /\ \A i \in vi_end + 1 .. Len(orig.body) : file.body[i + Grow] = orig.body[i]
    BY BodyOfNew
  <1>3. DOMAIN file.body = 1 .. Len(file.body) /\ DOMAIN orig.body = 1 .. Len(orig.body)
    BY <1>1, <1>2, SequenceLen
  <1>4. ASSUME NEW k \in 1 .. n
        PROVE  /\ o + Grow + k \in DOMAIN file.body <=> o + k \in DOMAIN orig.body
               /\ o + k \in DOMAIN orig.body => file.body[o + Grow + k] = orig.body[o + k]
    <2>1. o + k >= vi_end + 1 /\ o + Grow + k = (o + k) + Grow /\ o + Grow + k >= 1
      BY <1>1
    <2>2. o + Grow + k <= Len(file.body) <=> o + k <= Len(orig.body)
      BY <1>1, <1>2
    <2>3. o + Grow + k \in DOMAIN file.body <=> o + k \in DOMAIN orig.body
      <3>1. Len(file.body) \in Int /\ o + k \in Int /\ o + Grow + k \in Int /\ o + k >= 1
        BY <1>1, <1>2, <2>1
      <3> QED
        BY <1>1, <1>3, <2>1, <2>2, <3>1
    <2>4. ASSUME o + k \in DOMAIN orig.body
          PROVE  file.body[o + Grow + k] = orig.body[o + k]
      <3>1. o + k \in vi_end + 1 .. Len(orig.body)
        BY <1>1, <1>3, <2>1, <2>4
      <3>2. file.body[(o + k) + Grow] = orig.body[o + k]
        BY <1>2, <3>1
      <3> QED
        BY <2>1, <3>2
    <2> QED
      BY <2>3, <2>4
  <1> QED
    BY <1>4 DEF Bytes

-----------------------------------------------------------------------------
(* The other segments.                                                     *)

LEMMA NewEntries ==
  ASSUME IsVmcore(orig), notes_seg \in DOMAIN orig.ph
  PROVE  /\ DOMAIN NewTable = DOMAIN orig.ph
         /\ \A k \in DOMAIN orig.ph :
              /\ k < notes_seg => NewTable[k] = orig.ph[k]
              /\ k > notes_seg => /\ NewTable[k].offset = orig.ph[k].offset + Grow
                                  /\ NewTable[k].filesz = orig.ph[k].filesz
              /\ k = notes_seg => /\ NewTable[k].offset = orig.ph[k].offset
                                  /\ NewTable[k].filesz = orig.ph[k].filesz + Grow
              /\ NewTable[k].type = orig.ph[k].type
              /\ NewTable[k].paddr = orig.ph[k].paddr
              /\ NewTable[k].vaddr = orig.ph[k].vaddr
  <1> DEFINE Held(e) == [e EXCEPT !.filesz = @ + Grow,
                                  !.memsz = IF @ = 0 THEN 0 ELSE @ + Grow]
             After(e) == [e EXCEPT !.offset = @ + Grow]
             E(k) == IF k = notes_seg THEN Held(orig.ph[k])
                     ELSE IF k > notes_seg THEN After(orig.ph[k]) ELSE orig.ph[k]
  <1>1. \A k \in DOMAIN orig.ph :
          k \in Nat /\ DOMAIN orig.ph[k] = {"type", "vaddr", "paddr", "offset", "filesz", "memsz"}
    BY SequenceLen DEF IsVmcore
  <1>2. NewTable = [k \in DOMAIN orig.ph |-> E(k)]
    BY DEF NewTable
  <1>3. ASSUME NEW e, DOMAIN e = {"type", "vaddr", "paddr", "offset", "filesz", "memsz"}
        PROVE  /\ Held(e).offset = e.offset /\ Held(e).filesz = e.filesz + Grow
               /\ Held(e).type = e.type /\ Held(e).paddr = e.paddr /\ Held(e).vaddr = e.vaddr
               /\ After(e).offset = e.offset + Grow /\ After(e).filesz = e.filesz
               /\ After(e).type = e.type /\ After(e).paddr = e.paddr
               /\ After(e).vaddr = e.vaddr
    BY <1>3
  <1> HIDE DEF Held, After
  <1>4. DOMAIN NewTable = DOMAIN orig.ph
    BY <1>2
  <1>5. ASSUME NEW k \in DOMAIN orig.ph
        PROVE  /\ k < notes_seg => NewTable[k] = orig.ph[k]
               /\ k > notes_seg => NewTable[k] = After(orig.ph[k])
               /\ k = notes_seg => NewTable[k] = Held(orig.ph[k])
    <2>1. k \in Nat /\ notes_seg \in Nat
      BY <1>1
    <2>2. NewTable[k] = E(k)
      BY <1>2
    <2> QED
      BY <2>1, <2>2
  <1>6. ASSUME NEW k \in DOMAIN orig.ph
        PROVE  k < notes_seg \/ k = notes_seg \/ k > notes_seg
    BY <1>1
  <1>7. ASSUME NEW k \in DOMAIN orig.ph
        PROVE  /\ k < notes_seg => NewTable[k] = orig.ph[k]
               /\ k > notes_seg => /\ NewTable[k].offset = orig.ph[k].offset + Grow
                                   /\ NewTable[k].filesz = orig.ph[k].filesz
               /\ k = notes_seg => /\ NewTable[k].offset = orig.ph[k].offset
                                   /\ NewTable[k].filesz = orig.ph[k].filesz + Grow
               /\ NewTable[k].type = orig.ph[k].type
               /\ NewTable[k].paddr = orig.ph[k].paddr
               /\ NewTable[k].vaddr = orig.ph[k].vaddr
    <2>1. DOMAIN orig.ph[k] = {"type", "vaddr", "paddr", "offset", "filesz", "memsz"}
      BY <1>1
    <2>2. /\ Held(orig.ph[k]).offset = orig.ph[k].offset
          /\ Held(orig.ph[k]).filesz = orig.ph[k].filesz + Grow
          /\ Held(orig.ph[k]).type = orig.ph[k].type
          /\ Held(orig.ph[k]).paddr = orig.ph[k].paddr
          /\ Held(orig.ph[k]).vaddr = orig.ph[k].vaddr
      BY <1>3, <2>1
    <2>3. /\ After(orig.ph[k]).offset = orig.ph[k].offset + Grow
          /\ After(orig.ph[k]).filesz = orig.ph[k].filesz
          /\ After(orig.ph[k]).type = orig.ph[k].type
          /\ After(orig.ph[k]).paddr = orig.ph[k].paddr
          /\ After(orig.ph[k]).vaddr = orig.ph[k].vaddr
      BY <1>3, <2>1
    <2> HIDE DEF E
    <2> QED
      BY <1>5, <1>6, <2>2, <2>3
  <1> QED
    BY <1>4, <1>7

LEMMA Intact ==
  ASSUME IsVmcore(orig), SameHeader, newlen \in Nat, Done, Conventional(orig)
  PROVE  SegmentsIntact
  <1>1. /\ Readable(orig) /\ vi_start \in NoteHeads(orig)
        /\ vi_start \in Nat /\ vi_end \in Nat /\ Grow \in Int
        /\ vi_end = vi_start + NoteSize(Old)
        /\ notes_seg = NoteSeg(orig) /\ notes_seg \in DOMAIN orig.ph
        /\ file.ph = NewTable
    BY LocatedNote DEF Done, Located
  <1>2. NotesFrom(orig) \in Nat /\ NotesFrom(orig) <= vi_start
    BY <1>1, FirstNoteSegment, HeadsInFile
  <1>3. /\ PhOff(orig) < NotesFrom(orig)
        /\ \A k \in DOMAIN orig.ph :
             /\ k < notes_seg => orig.ph[k].offset + orig.ph[k].filesz <= NotesFrom(orig)
             /\ k > notes_seg => orig.ph[k].offset >= vi_end
    BY <1>1 DEF Conventional, Readable, NotesFrom, Old
  <1>4. /\ DOMAIN orig.ph = 1 .. Len(orig.ph) /\ Len(orig.ph) \in Nat
        /\ \A k \in DOMAIN orig.ph :
             /\ DOMAIN orig.ph[k] = {"type", "vaddr", "paddr", "offset", "filesz", "memsz"}
             /\ orig.ph[k].offset \in Nat /\ orig.ph[k].filesz \in Nat
    BY SequenceLen DEF IsVmcore
  <1>5. TableFound(file)
    <2>1. PhOff(file) = PhOff(orig)
      BY DEF SameHeader, PhOff
    <2>2. PhOff(orig) \in Nat
      <3>1. orig.e_phoff[1] \in Nat /\ orig.e_phoff[2] \in Nat
        <4>1. orig.e_phoff \in (0 .. 255) \X (0 .. 255)
          BY DEF IsVmcore
        <4> QED
          BY <4>1
      <3> QED
        BY <3>1 DEF PhOff, Number
    <2>3. PhOff(orig) + 1 <= vi_start
      BY <1>1, <1>2, <1>3, <2>2
    <2>4. Bytes(file.body, PhOff(orig), 1) = Bytes(orig.body, PhOff(orig), 1)
      BY <2>2, <2>3, StretchBefore
    <2> QED
      BY <2>1, <2>4 DEF TableFound, IsVmcore
  <1>6. ASSUME NEW k \in DOMAIN file.ph \ {notes_seg}
        PROVE  /\ file.ph[k].filesz = orig.ph[k].filesz
               /\ Bytes(file.body, file.ph[k].offset, file.ph[k].filesz) =
                  Bytes(orig.body, orig.ph[k].offset, orig.ph[k].filesz)
    <2>1. k \in DOMAIN orig.ph /\ k # notes_seg /\ k \in Nat /\ notes_seg \in Nat
      BY <1>1, <1>4, NewEntries
    <2> DEFINE o == orig.ph[k].offset
               n == orig.ph[k].filesz
    <2>2. o \in Nat /\ n \in Nat
      BY <1>4, <2>1
    <2>3. CASE k < notes_seg
      <3>1. file.ph[k] = orig.ph[k]
        BY <1>1, <2>1, <2>3, NewEntries
      <3>2. o + n <= vi_start
        BY <1>1, <1>2, <1>3, <2>1, <2>2, <2>3
      <3> HIDE DEF o, n
      <3>3. Bytes(file.body, o, n) = Bytes(orig.body, o, n)
        BY <2>2, <3>2, StretchBefore
      <3> QED
        BY <3>1, <3>3 DEF o, n
    <2>4. CASE k > notes_seg
      <3>1. file.ph[k].offset = o + Grow /\ file.ph[k].filesz = n
        BY <1>1, <2>1, <2>4, NewEntries
      <3>2. o >= vi_end
        BY <1>3, <2>1, <2>4
      <3> HIDE DEF o, n
      <3>3. Bytes(file.body, o + Grow, n) = Bytes(orig.body, o, n)
        BY <2>2, <3>2, StretchBehind
      <3> QED
        BY <3>1, <3>3 DEF o, n
    <2> QED
      BY <2>1, <2>3, <2>4
  <1> QED
    BY <1>5, <1>6 DEF SegmentsIntact

\* When editvmcoreinfo ends well on a vmcore of the usual layout, no other segment has
\* lost or shifted a byte, and the table is where the header says.
THEOREM SegmentsSurvive == RepairFairSpec => []SegmentsKeepData
  <1>1. ASSUME RepairInv PROVE SegmentsKeepData
    <2> SUFFICES ASSUME Succeeded, Conventional(orig) PROVE SegmentsIntact
      BY DEF SegmentsKeepData
    <2>1. IsVmcore(orig) /\ SameHeader /\ newlen \in Nat /\ Done
      BY <1>1 DEF RepairInv, EditInv, BodyInv, Succeeded
    <2> QED
      BY <2>1, Intact
  <1> QED
    BY <1>1, RepairInvariance, PTL

-----------------------------------------------------------------------------
(* The new note and the walk to it.                                        *)

\* Header, the rest of header and name, description and terminator.
LEMMA BytesOfNewNote ==
  ASSUME IsVmcore(orig), newlen \in Nat, Located
  PROVE  /\ NewNote[1] = [Old EXCEPT !.descsz = newsize]
         /\ \A i \in 2 .. NHDR + pad4(Old.namesz) :
              NewNote[i] = IF vi_start + i \in DOMAIN orig.body THEN orig.body[vi_start + i] ELSE Gone
         /\ \A k \in 1 .. pad4(newsize) :
              NewNote[NHDR + pad4(Old.namesz) + k] = IF k < newsize THEN NewByte(k) ELSE Nul
  <1> DEFINE a == <<[Old EXCEPT !.descsz = newsize]>>
             n == NHDR - 1 + pad4(Old.namesz)
             b == Bytes(orig.body, vi_start + 1, n)
             c == [k \in 1 .. pad4(newsize) |-> IF k < newsize THEN NewByte(k) ELSE Nul]
  <1>1. Old.namesz \in Nat /\ pad4(newsize) \in Nat /\ vi_start \in Nat
    BY LocatedNote
  <1>2. NHDR \in Nat /\ NHDR > 0 /\ pad4(Old.namesz) \in Nat
    BY <1>1, Pad4, EditVmcoreinfoAssumption
  <1>3. n \in Nat /\ 1 + n = NHDR + pad4(Old.namesz)
    BY <1>2
  <1>4. IsSequence(a) /\ Len(a) = 1 /\ a[1] = [Old EXCEPT !.descsz = newsize]
    <2>1. a \in Seq({[Old EXCEPT !.descsz = newsize]})
      OBVIOUS
    <2> QED
      BY <2>1, IsSequenceOver
  <1>5. /\ IsSequence(b) /\ Len(b) = n
        /\ \A i \in 1 .. n : b[i] = IF vi_start + 1 + i \in DOMAIN orig.body
                                    THEN orig.body[vi_start + 1 + i] ELSE Gone
    <2> HIDE DEF n
    <2>1. /\ DOMAIN b = 1 .. n /\ b = [k \in 1 .. n |-> b[k]]
          /\ \A i \in 1 .. n : b[i] = IF vi_start + 1 + i \in DOMAIN orig.body
                                      THEN orig.body[vi_start + 1 + i] ELSE Gone
      BY DEF Bytes
    <2> HIDE DEF b
    <2> QED
      BY <1>3, <2>1, Tabled
  <1>6. /\ IsSequence(c) /\ Len(c) = pad4(newsize)
        /\ \A k \in 1 .. pad4(newsize) : c[k] = IF k < newsize THEN NewByte(k) ELSE Nul
    <2>1. /\ DOMAIN c = 1 .. pad4(newsize) /\ c = [k \in 1 .. pad4(newsize) |-> c[k]]
          /\ \A k \in 1 .. pad4(newsize) : c[k] = IF k < newsize THEN NewByte(k) ELSE Nul
      OBVIOUS
    <2> HIDE DEF c
    <2> QED
      BY <1>1, <2>1, Tabled
  <1>7. NewNote = a \o b \o c
    BY DEF NewNote, Old
  <1> HIDE DEF a, b, c, n
  <1> DEFINE d == a \o b
  <1>9. /\ IsSequence(d) /\ Len(d) = 1 + n
        /\ \A i \in 1 .. 1 : d[i] = a[i]
        /\ \A i \in 1 .. n : d[1 + i] = b[i]
    <2>1. IsSequence(a) /\ IsSequence(b) /\ Len(a) = 1 /\ Len(b) = n
      BY <1>4, <1>5
    <2>2. Joins(a, b, d)
      BY <2>1, Joining
    <2> HIDE DEF d
    <2> QED
      BY <2>1, <2>2 DEF Joins
  <1> HIDE DEF d
  <1>10. /\ \A i \in 1 .. 1 + n : (d \o c)[i] = d[i]
         /\ \A i \in 1 .. pad4(newsize) : (d \o c)[1 + n + i] = c[i]
    <2>1. IsSequence(c) /\ IsSequence(d) /\ Len(d) = 1 + n /\ Len(c) = pad4(newsize)
      BY <1>6, <1>9
    <2>2. Joins(d, c, d \o c)
      BY <2>1, Joining
    <2> QED
      BY <2>1, <2>2 DEF Joins
  <1>11. NewNote = d \o c
    BY <1>7 DEF d
  <1>12. NewNote[1] = [Old EXCEPT !.descsz = newsize]
    <2>1. 1 \in 1 .. 1 + n
      BY <1>3
    <2>2. NewNote[1] = d[1] /\ d[1] = a[1]
      BY <1>9, <1>10, <1>11, <2>1
    <2> QED
      BY <1>4, <2>2
  <1>13. ASSUME NEW i \in 2 .. NHDR + pad4(Old.namesz)
         PROVE  NewNote[i] = IF vi_start + i \in DOMAIN orig.body
                             THEN orig.body[vi_start + i] ELSE Gone
    <2>1. PICK j \in 1 .. n : i = 1 + j
      <3>1. i - 1 \in 1 .. n /\ i = 1 + (i - 1)
        BY <1>2, <1>3
      <3> QED
        BY <3>1
    <2>2. i \in 1 .. 1 + n
      BY <1>2, <1>3
    <2>3. NewNote[i] = b[j]
      BY <1>9, <1>10, <1>11, <2>1, <2>2
    <2>4. vi_start + 1 + j = vi_start + i
      BY <1>1, <1>3, <2>1
    <2> QED
      BY <1>5, <2>3, <2>4
  <1>14. ASSUME NEW k \in 1 .. pad4(newsize)
         PROVE  NewNote[NHDR + pad4(Old.namesz) + k] = IF k < newsize THEN NewByte(k) ELSE Nul
    BY <1>3, <1>6, <1>10, <1>11
  <1> QED
    BY <1>12, <1>13, <1>14

\* The bytes of the new file that look like headers of notes are well-formed.
LEMMA NewHeaders ==
  ASSUME IsVmcore(orig), newlen \in Nat, Done, NEW i \in DOMAIN file.body,
         file.body[i].t = "hdr"
  PROVE  IsNoteHeader(file.body[i])
  <1>0. Located /\ vi_end <= Len(orig.body)
    BY DEF Done
  <1>1. /\ IsSequence(orig.body) /\ Len(orig.body) \in Nat
        /\ vi_start \in Nat /\ vi_end \in Nat /\ Grow \in Int /\ vi_start < Len(orig.body)
        /\ Old.namesz \in Nat /\ newsize \in Nat /\ pad4(newsize) \in Nat /\ IsNoteHeader(Old)
    BY <1>0, LocatedNote
  <1>2. /\ Len(NewNote) = vi_end - vi_start + Grow /\ Len(NewNote) \in Nat
        /\ Len(NewNote) = NHDR + pad4(Old.namesz) + pad4(newsize)
    BY <1>0, LengthOfNewNote
  <1>3. NHDR \in Nat /\ NHDR > 0 /\ pad4(Old.namesz) \in Nat
    BY <1>1, Pad4, EditVmcoreinfoAssumption
  <1>4. /\ IsSequence(file.body) /\ Len(file.body) = Len(orig.body) + Grow
        /\ \A j \in 1 .. vi_start : file.body[j] = orig.body[j]
        /\ \A j \in 1 .. Len(NewNote) : file.body[vi_start + j] = NewNote[j]
        /\ \A j \in vi_end + 1 .. Len(orig.body) : file.body[j + Grow] = orig.body[j]
    BY BodyOfNew
  <1>5. i \in 1 .. Len(orig.body) + Grow /\ DOMAIN orig.body = 1 .. Len(orig.body)
    BY <1>1, <1>4, SequenceLen
  <1>6. \A j \in DOMAIN orig.body : orig.body[j].t = "hdr" => IsNoteHeader(orig.body[j])
    BY DEF IsVmcore
  <1>7. CASE i <= vi_start
    BY <1>1, <1>4, <1>5, <1>6, <1>7
  <1>8. CASE i > vi_start + Len(NewNote)
    <2>1. PICK j \in Int : j = i - Grow
      BY <1>1, <1>5
    <2>2. j \in vi_end + 1 .. Len(orig.body) /\ j + Grow = i /\ j \in DOMAIN orig.body
      BY SMTT(30), <1>1, <1>2, <1>5, <1>8, <2>1
    <2> QED
      BY <1>4, <1>6, <2>2
  <1>9. CASE vi_start < i /\ i <= vi_start + Len(NewNote)
    <2>1. PICK j \in Int : j = i - vi_start
      BY <1>1, <1>5
    <2>2. j \in 1 .. Len(NewNote) /\ vi_start + j = i /\ file.body[i] = NewNote[j]
      BY SMTT(30), <1>1, <1>2, <1>4, <1>5, <1>9, <2>1
    <2>3. CASE j = 1
      <3>1. file.body[i] = [Old EXCEPT !.descsz = newsize]
        BY <1>0, <2>2, <2>3, BytesOfNewNote
      <3>2. ASSUME NEW h, NEW n \in Nat, IsNoteHeader(h)
            PROVE  IsNoteHeader([h EXCEPT !.descsz = n])
        BY <3>2 DEF IsNoteHeader
      <3> QED
        BY <1>1, <3>1, <3>2
    <2>4. CASE j \in 2 .. NHDR + pad4(Old.namesz)
      <3>1. file.body[i] = IF i \in DOMAIN orig.body THEN orig.body[i] ELSE Gone
        BY <1>0, <2>2, <2>4, BytesOfNewNote
      <3> QED
        BY <1>6, <3>1 DEF Gone
    <2>5. CASE j > NHDR + pad4(Old.namesz)
      <3>1. PICK k \in Int : k = j - (NHDR + pad4(Old.namesz))
        BY <1>3, <2>2
      <3>2. k \in 1 .. pad4(newsize) /\ NHDR + pad4(Old.namesz) + k = j
        <4>1. PICK h, m : h = NHDR + pad4(Old.namesz) /\ m = pad4(newsize)
          OBVIOUS
        <4>2. h \in Nat /\ m \in Nat /\ j \in Nat /\ j > h /\ j <= h + m /\ k = j - h
          BY SMTT(30), <1>1, <1>2, <1>3, <2>2, <2>5, <3>1, <4>1
        <4>3. k \in 1 .. m /\ h + k = j
          BY <4>2
        <4> QED
          BY <4>1, <4>3
      <3>3. file.body[i] = IF k < newsize THEN NewByte(k) ELSE Nul
        BY <1>0, <2>2, <3>2, BytesOfNewNote
      <3> QED
        BY <3>3 DEF NewByte, Nul
    <2> QED
      BY <1>1, <1>3, <2>2, <2>3, <2>4, <2>5
  <1> QED
    BY <1>1, <1>2, <1>5, <1>7, <1>8, <1>9

\* The offsets from which the walk goes to the old note, and those behind it.
Walked(w) ==
  {o \in NotesFrom(orig) .. NotesTo(orig) : vi_start \in w[o] \/ o >= vi_end}

\* From an offset before the note the walk goes on to it, from the note to its end.
LEMMA WayThroughNote ==
  ASSUME IsVmcore(orig), newlen \in Nat, Located,
         NEW w, IsWalk(NotesFrom(orig), NotesTo(orig), Stops(orig), Hops(orig), w),
         NEW o \in Walked(w)
  PROVE  /\ o \in Nat /\ vi_end \in Nat /\ vi_start < vi_end /\ vi_start < NotesTo(orig)
         /\ vi_start \notin Stops(orig) /\ Hops(orig)[vi_start] = vi_end
         /\ \/ /\ o < vi_start /\ o \notin Stops(orig)
               /\ Hops(orig)[o] \in Walked(w) /\ Hops(orig)[o] <= vi_start
            \/ o = vi_start
            \/ o >= vi_end
         /\ o \notin Stops(orig) /\ Hops(orig)[o] <= NotesTo(orig) => Hops(orig)[o] \in Walked(w)
  <1> DEFINE a == NotesFrom(orig)
             b == NotesTo(orig)
             stop == Stops(orig)
             hop == Hops(orig)
  <1>1. /\ Readable(orig) /\ vi_start \in NoteHeads(orig) /\ vi_start \in Nat
        /\ vi_end \in Nat /\ vi_start < vi_end /\ vi_end = vi_start + NoteSize(Old)
    BY LocatedNote DEF Located
  <1>2. a \in Nat /\ b \in Nat /\ a <= b
    BY <1>1, FirstNoteSegment
  <1>3. \A q \in a .. b : q \notin stop =>
          /\ hop[q] = q + NoteSize(orig.body[q + 1])
          /\ hop[q] \in Int /\ hop[q] > q
    BY <1>1, HopsForward
  <1>4. Forward(a, b, stop, hop)
    BY <1>3 DEF Forward
  <1>5. IsWalk(a, b, stop, hop, w)
    OBVIOUS
  <1>6. NoteHeads(orig) \subseteq {p \in a .. b : p \notin stop}
    <2>1. PICK v : IsWalk(a, b, stop, hop, v) /\ NoteHeads(orig) = v[a]
      BY <1>1, NoteWalk
    <2> HIDE DEF a, b, stop, hop
    <2>2. v[a] \subseteq {p \in a .. b : p >= a /\ p \notin stop}
      <3>1. \A p \in a .. b : v[p] \subseteq {q \in a .. b : q >= p /\ q \notin stop}
        BY SMTT(30), <1>2, <1>4, <2>1, WalkInRange
      <3> QED
        BY <1>2, <3>1
    <2> QED
      BY <2>1, <2>2
  <1>7. vi_start \in a .. b /\ vi_start \notin stop /\ hop[vi_start] = vi_end
    BY <1>1, <1>3, <1>6 DEF Old
  <1>8. vi_start < b
    BY <1>1, HeadsInFile
  <1>9. \A p \in a .. b : w[p] \subseteq {q \in a .. b : q >= p /\ q \notin stop}
    <2> HIDE DEF a, b, stop, hop
    <2> QED
      BY <1>2, <1>4, <1>5, WalkInRange
  <1>10. \A p \in a .. b : w[p] = Met(b, stop, hop, w, p)
    BY <1>5 DEF IsWalk
  <1>11. o \in a .. b /\ o \in Nat /\ (vi_start \in w[o] \/ o >= vi_end)
    BY <1>2 DEF Walked
  <1>12. \A p \in a .. b : (vi_start \in w[p] \/ p >= vi_end) => p \in Walked(w)
    BY DEF Walked
  <1> HIDE DEF a, b, stop, hop
  <1>13. CASE o < vi_start
    <2>1. vi_start \in w[o]
      BY <1>1, <1>11, <1>13
    <2>2. o \notin stop /\ ~(hop[o] > b) /\ vi_start \in w[hop[o]]
      <3>1. o \notin stop
        BY <1>10, <1>11, <2>1 DEF Met
      <3>2. w[o] = {o} \cup (IF hop[o] > b THEN {} ELSE w[hop[o]])
        BY <1>10, <1>11, <3>1 DEF Met
      <3>3. vi_start # o
        BY <1>1, <1>13
      <3> QED
        BY <2>1, <3>1, <3>2, <3>3
    <2>3. hop[o] \in a .. b
      BY <1>2, <1>3, <1>11, <2>2
    <2>4. hop[o] <= vi_start
      BY <1>9, <2>2, <2>3
    <2>5. hop[o] \in Walked(w)
      BY <1>12, <2>2, <2>3
    <2> QED
      BY <1>1, <1>7, <1>8, <1>11, <1>13, <2>2, <2>4, <2>5 DEF a, b, stop, hop
  <1>14. CASE o = vi_start
    <2>1. hop[o] <= b => hop[o] \in Walked(w)
      <3> SUFFICES ASSUME hop[o] <= b PROVE hop[o] \in Walked(w)
        OBVIOUS
      <3>1. hop[o] \in a .. b /\ hop[o] >= vi_end
        BY <1>1, <1>2, <1>7, <1>14
      <3> QED
        BY <1>12, <3>1
    <2> QED
      BY <1>1, <1>7, <1>8, <1>11, <1>14, <2>1 DEF a, b, stop, hop
  <1>15. CASE o > vi_start
    <2>1. o >= vi_end
      <3>1. vi_start \notin w[o]
        BY <1>1, <1>9, <1>11, <1>15
      <3> QED
        BY <1>11, <3>1
    <2>2. o \notin stop /\ hop[o] <= b => hop[o] \in Walked(w)
      <3> SUFFICES ASSUME o \notin stop, hop[o] <= b PROVE hop[o] \in Walked(w)
        OBVIOUS
      <3>1. hop[o] \in Int /\ hop[o] > o
        BY <1>3, <1>11
      <3>2. hop[o] \in a .. b /\ hop[o] >= vi_end
        BY <1>1, <1>2, <1>11, <2>1, <3>1
      <3> QED
        BY <1>12, <3>2
    <2> QED
      BY <1>1, <1>7, <1>8, <1>11, <1>15, <2>1, <2>2 DEF a, b, stop, hop
  <1> QED
    BY <1>1, <1>11, <1>13, <1>14, <1>15

\* All the notes are on the way.
LEMMA HeadsWalked ==
  ASSUME IsVmcore(orig), newlen \in Nat, Located
  PROVE  \E w : /\ IsWalk(NotesFrom(orig), NotesTo(orig), Stops(orig), Hops(orig), w)
                /\ NoteHeads(orig) = w[NotesFrom(orig)]
                /\ NotesFrom(orig) \in Walked(w)
                /\ NoteHeads(orig) \subseteq Walked(w)
  <1> DEFINE a == NotesFrom(orig)
             b == NotesTo(orig)
             stop == Stops(orig)
             hop == Hops(orig)
             stay == [o \in a .. b |-> o]
  <1>1. Readable(orig) /\ vi_start \in NoteHeads(orig)
    BY LocatedNote
  <1>2. a \in Nat /\ b \in Nat /\ a <= b
    BY <1>1, FirstNoteSegment
  <1>3. PICK w : IsWalk(a, b, stop, hop, w) /\ NoteHeads(orig) = w[a]
    BY <1>1, NoteWalk
  <1>4. Forward(a, b, stop, hop)
    BY <1>1, HopsForward DEF Forward
  <1>5. Walked(w) \in SUBSET (a .. b) /\ a \in Walked(w)
    BY <1>1, <1>2, <1>3 DEF Walked
  <1>6. ASSUME NEW o \in Walked(w)
        PROVE  o \notin stop /\ hop[o] <= b => hop[o] \in Walked(w)
    BY <1>3, <1>6, WayThroughNote
  <1>7. ASSUME NEW o \in Walked(w), o \notin stop PROVE hop[o] \in Int
    BY <1>4, <1>5, <1>7 DEF Forward
  <1> HIDE DEF a, b, stop, hop
  <1>8. \A o \in Walked(w) : stay[o] = o
    BY <1>5
  <1>9. \A o \in Walked(w) : stay[o] \in a .. b
    BY <1>5, <1>8
  <1> HIDE DEF stay
  <1>10. Alike(Walked(w), stay, b, stop, hop, b, stop, hop)
    <2>1. ASSUME NEW o \in Walked(w), o \notin stop, ~(hop[o] > b)
          PROVE  hop[o] \in Walked(w) /\ stay[hop[o]] = hop[o]
      <3>1. hop[o] <= b
        BY <1>2, <1>7, <2>1
      <3> QED
        BY <1>6, <1>8, <2>1, <3>1
    <2> QED
      BY <1>8, <2>1 DEF Alike
  <1>11. \A o \in Walked(w) : w[o] \subseteq Walked(w)
    <2>1. a \in Int /\ b \in Int
      BY <1>2
    <2>2. Follows(Walked(w), stay, w, w)
      BY <1>3, <1>4, <1>5, <1>9, <1>10, <2>1, WalkMoved
    <2> QED
      BY <2>2 DEF Follows
  <1> QED
    BY <1>3, <1>5, <1>11 DEF a, b, stop, hop

-----------------------------------------------------------------------------
(* The notes of the new file.                                              *)

LEMMA LastNote ==
  ASSUME NEW f, Readable(f), NoteHeads(f) # {}
  PROVE  \E l \in NoteHeads(f) : /\ \A p \in NoteHeads(f) : p <= l
                                 /\ NotesEnd(f) = l + NoteSize(f.body[l + 1])
  <1>1. NoteHeads(f) \subseteq 0 .. NotesTo(f) /\ NotesTo(f) \in Nat
    BY HeadsInFile, FirstNoteSegment
  <1>2. \E l \in NoteHeads(f) : \A p \in NoteHeads(f) : p <= l
    BY <1>1, GreatestNumber
  <1> DEFINE l == CHOOSE o \in NoteHeads(f) : \A p \in NoteHeads(f) : p <= o
  <1>3. l \in NoteHeads(f) /\ \A p \in NoteHeads(f) : p <= l
    BY <1>2
  <1>4. NotesEnd(f) = l + NoteSize(f.body[l + 1])
    BY DEF NotesEnd
  <1> HIDE DEF l
  <1> QED
    BY <1>3, <1>4

LEMMA Pad4OfSome ==
  ASSUME NEW n \in Nat, n > 0
  PROVE  pad4(n) >= ALIGN
  <1>1. ALIGN \in Nat /\ ALIGN > 0
    BY EditVmcoreinfoAssumption
  <1> DEFINE m == n + ALIGN - 1
             q == m \div ALIGN
             r == (m % ALIGN)
  <1>2. m \in Nat /\ m >= ALIGN
    BY <1>1
  <1>3. q \in Nat /\ r \in 0 .. ALIGN - 1 /\ m = ALIGN * q + r
    <2> HIDE DEF m
    <2> QED
      BY <1>1, <1>2
  <1>4. pad4(n) = ALIGN * q
    BY DEF pad4
  <1> HIDE DEF q, m, r
  <1>5. q # 0
    <2> SUFFICES ASSUME q = 0 PROVE FALSE
      OBVIOUS
    <2>1. ALIGN * q = 0
      BY <1>1
    <2> QED
      BY <1>1, <1>2, <1>3, <2>1
  <1>6. PICK k \in Nat : q = k + 1
    <2>1. q - 1 \in Nat /\ q = (q - 1) + 1
      BY <1>3, <1>5
    <2> QED
      BY <2>1
  <1>7. ALIGN * (k + 1) = ALIGN * k + ALIGN /\ ALIGN * k \in Nat
    BY <1>1, <1>6
  <1> QED
    BY <1>1, <1>4, <1>6, <1>7

\* The new note begins inside the new segment: at most padding was outside the old one.
LEMMA NotesFit ==
  ASSUME IsVmcore(orig), newlen \in Nat, Located, NotesInSegment(orig)
  PROVE  vi_start < NotesTo(orig) + Grow
  <1>1. /\ Readable(orig) /\ vi_start \in NoteHeads(orig) /\ vi_start \in Nat
        /\ vi_end \in Nat /\ vi_end = vi_start + NoteSize(Old) /\ Grow \in Int
        /\ newsize \in Nat /\ newsize > 0 /\ Old.namesz \in Nat /\ pad4(newsize) \in Nat
    BY LocatedNote DEF Located
  <1>2. /\ NotesTo(orig) \in Nat /\ NotesTo(orig) = SegEnd(orig)
    BY <1>1, FirstNoteSegment DEF NotesTo
  <1>3. /\ Len(NewNote) = vi_end - vi_start + Grow /\ Len(NewNote) \in Nat /\ Len(NewNote) >= 1
        /\ Len(NewNote) = NHDR + pad4(Old.namesz) + pad4(newsize)
    BY LengthOfNewNote
  <1>4. /\ ALIGN \in Nat /\ NHDR \in Nat /\ NHDR > 0
        /\ pad4(Old.namesz) \in Nat /\ pad4(newsize) >= ALIGN
    BY <1>1, Pad4, Pad4OfSome, EditVmcoreinfoAssumption
  <1>5. PICK l \in NoteHeads(orig) : /\ \A p \in NoteHeads(orig) : p <= l
                                     /\ NotesEnd(orig) = l + NoteSize(orig.body[l + 1])
    BY <1>1, LastNote
  <1>6. l \in Nat /\ l < NotesTo(orig) /\ vi_start <= l
    BY <1>1, <1>5, HeadsInFile
  <1>7. l = vi_start \/ l >= vi_end
    <2>1. PICK w : /\ IsWalk(NotesFrom(orig), NotesTo(orig), Stops(orig), Hops(orig), w)
                   /\ NoteHeads(orig) \subseteq Walked(w)
      BY HeadsWalked
    <2>2. l \in Walked(w)
      BY <2>1
    <2> QED
      BY <1>1, <1>6, <2>1, <2>2, WayThroughNote
  <1> DEFINE e == vi_end + Grow
  <1>8. e = vi_start + Len(NewNote)
    BY <1>1, <1>3
  <1>9. CASE l = vi_start
    <2>1. NotesEnd(orig) = vi_end
      BY <1>1, <1>5, <1>9 DEF Old
    <2>2. vi_end - NotesTo(orig) < ALIGN
      BY <1>2, <2>1 DEF NotesInSegment
    <2> QED
      BY SMTT(30), <1>1, <1>2, <1>3, <1>4, <2>2
  <1>10. CASE l >= vi_end
    BY SMTT(30), <1>1, <1>2, <1>3, <1>6, <1>8, <1>10
  <1> QED
    BY <1>7, <1>9, <1>10

\* The new file has its notes at the same place, in a segment that has grown as the
\* note has.
LEMMA NewFileReadable ==
  ASSUME IsVmcore(orig), newlen \in Nat, Done, NotesInSegment(orig)
  PROVE  /\ Readable(file)
         /\ NotesFrom(file) = NotesFrom(orig)
         /\ NotesTo(file) = NotesTo(orig) + Grow
  <1>1. /\ Located /\ Readable(orig) /\ Grow \in Int
        /\ vi_start \in Nat /\ vi_start \in NoteHeads(orig)
        /\ notes_seg = NoteSeg(orig) /\ notes_seg \in DOMAIN orig.ph
        /\ file.ph = NewTable
    BY LocatedNote DEF Done, Located
  <1>2. /\ NoteSeg(orig) \in NoteSegs(orig)
        /\ NotesFrom(orig) \in Nat /\ orig.ph[NoteSeg(orig)].filesz \in Nat
        /\ NotesTo(orig) = NotesFrom(orig) + orig.ph[NoteSeg(orig)].filesz
        /\ NotesTo(orig) <= Len(orig.body) /\ Len(orig.body) \in Nat
        /\ NotesFrom(orig) <= vi_start
    BY <1>1, FirstNoteSegment, HeadsInFile
  <1>3. vi_start < NotesTo(orig) + Grow
    BY <1>1, NotesFit
  <1>4. /\ DOMAIN file.ph = DOMAIN orig.ph
        /\ \A k \in DOMAIN orig.ph :
             /\ k > notes_seg => file.ph[k].filesz = orig.ph[k].filesz
             /\ k = notes_seg => /\ file.ph[k].offset = orig.ph[k].offset
                                 /\ file.ph[k].filesz = orig.ph[k].filesz + Grow
             /\ file.ph[k].type = orig.ph[k].type
    BY <1>1, NewEntries
  <1>5. DOMAIN orig.ph = 1 .. Len(orig.ph) /\ Len(orig.ph) \in Nat
    BY SequenceLen DEF IsVmcore
  <1>6. NoteSegs(file) = NoteSegs(orig)
    BY <1>4 DEF NoteSegs
  <1>7. NoteSeg(file) = NoteSeg(orig)
    BY <1>6 DEF NoteSeg
  <1>8. NotesFrom(file) = NotesFrom(orig)
    BY <1>1, <1>4, <1>7 DEF NotesFrom
  <1>9. /\ file.ph[notes_seg].filesz \in Nat
        /\ NotesTo(file) = NotesTo(orig) + Grow
    <2>1. file.ph[notes_seg].filesz = orig.ph[notes_seg].filesz + Grow
      BY <1>1, <1>4
    <2>2. SegEnd(file) = NotesFrom(file) + file.ph[notes_seg].filesz
      BY <1>1, <1>7 DEF SegEnd, NotesFrom
    <2> QED
      BY <1>1, <1>2, <1>3, <1>8, <2>1, <2>2 DEF NotesTo
  <1>10. IsSequence(file.ph)
    <2> DEFINE t == file.ph
    <2>1. DOMAIN t = 1 .. Len(orig.ph)
      BY <1>4, <1>5
    <2>2. t = [k \in DOMAIN orig.ph |-> t[k]]
      BY <1>1 DEF NewTable
    <2>3. t = [k \in 1 .. Len(orig.ph) |-> t[k]]
      BY <1>5, <2>2
    <2> HIDE DEF t
    <2>4. IsSequence(t)
      BY <1>5, <2>1, <2>3, Tabled
    <2> QED
      BY <2>4 DEF t
  <1>11. ASSUME NEW k \in NoteSegs(file) PROVE file.ph[k].filesz \in Nat
    <2>1. k \in DOMAIN orig.ph /\ k \in NoteSegs(orig) /\ k \in Nat
      BY <1>5, <1>6 DEF NoteSegs
    <2>2. notes_seg <= k
      <3>1. NoteSegs(orig) \subseteq Nat /\ NoteSegs(orig) # {}
        BY <1>2, <1>5 DEF NoteSegs
      <3>2. \E i \in NoteSegs(orig) : \A j \in NoteSegs(orig) : i <= j
        BY <3>1, LeastNumber
      <3>3. \A j \in NoteSegs(orig) : NoteSeg(orig) <= j
        BY <3>2 DEF NoteSeg
      <3> QED
        BY <1>1, <2>1, <3>3
    <2>3. orig.ph[k].filesz \in Nat
      BY <2>1 DEF IsVmcore
    <2>4. k > notes_seg \/ k = notes_seg
      BY <1>1, <1>5, <2>1, <2>2
    <2> QED
      BY <1>4, <1>9, <2>1, <2>3, <2>4
  <1>12. IsSequence(file.body) /\ Len(file.body) = Len(orig.body) + Grow
    BY BodyOfNew
  <1>13. SegEnd(file) <= Len(file.body)
    BY <1>1, <1>2, <1>9, <1>12 DEF NotesTo
  <1>14. \A i \in DOMAIN file.body : file.body[i].t = "hdr" => IsNoteHeader(file.body[i])
    BY NewHeaders
  <1>15. Readable(file)
    BY <1>2, <1>6, <1>8, <1>10, <1>11, <1>12, <1>13, <1>14 DEF Readable
  <1> QED
    BY <1>8, <1>9, <1>15

\* Where an offset of the walk is in the new file.
Shift(o) == IF o <= vi_start THEN o ELSE o + Grow

\* From there the walk over the new file sees what the old one saw, but for the size
\* of the note, and goes where the old one went.
LEMMA WalkGoesOn ==
  ASSUME IsVmcore(orig), newlen \in Nat, Done, NotesInSegment(orig),
         NEW w, IsWalk(NotesFrom(orig), NotesTo(orig), Stops(orig), Hops(orig), w),
         NEW o \in Walked(w)
  PROVE  /\ Shift(o) \in NotesFrom(file) .. NotesTo(file)
         /\ o \in Stops(orig) <=> Shift(o) \in Stops(file)
         /\ o \notin Stops(orig) =>
              /\ Hops(orig)[o] \in Int
              /\ Hops(orig)[o] > NotesTo(orig) <=> Hops(file)[Shift(o)] > NotesTo(file)
              /\ Hops(orig)[o] <= NotesTo(orig) => Hops(file)[Shift(o)] = Shift(Hops(orig)[o])
              /\ file.body[Shift(o) + 1] = IF o = vi_start THEN [Old EXCEPT !.descsz = newsize]
                                           ELSE orig.body[o + 1]
  <1> DEFINE a == NotesFrom(orig)
             b == NotesTo(orig)
             c == NotesTo(file)
             s == Shift(o)
  <1>1. /\ Located /\ Readable(orig) /\ Grow \in Int
        /\ vi_start \in Nat /\ vi_start \in NoteHeads(orig)
        /\ vi_end \in Nat /\ vi_start < vi_end /\ vi_end = vi_start + NoteSize(Old)
        /\ Old.namesz \in Nat /\ IsNoteHeader(Old)
        /\ newsize \in Nat /\ pad4(newsize) \in Nat
    BY LocatedNote DEF Done, Located
  <1>2. /\ a \in Nat /\ b \in Nat /\ b <= Len(orig.body) /\ Len(orig.body) \in Nat
        /\ a <= vi_start
    BY <1>1, FirstNoteSegment, HeadsInFile
  <1>3. Readable(file) /\ NotesFrom(file) = a /\ c = b + Grow /\ c \in Int
    BY <1>1, <1>2, NewFileReadable
  <1>4. vi_start < c
    BY <1>1, <1>3, NotesFit
  <1>5. /\ Len(NewNote) = vi_end - vi_start + Grow /\ Len(NewNote) \in Nat /\ Len(NewNote) >= 1
        /\ NewNote[1] = [Old EXCEPT !.descsz = newsize]
        /\ Len(NewNote) = NHDR + pad4(Old.namesz) + pad4(newsize)
    BY <1>1, LengthOfNewNote
  <1>6. /\ Len(file.body) \in Nat /\ Len(file.body) = Len(orig.body) + Grow
        /\ \A i \in 1 .. vi_start : file.body[i] = orig.body[i]
        /\ \A i \in 1 .. Len(NewNote) : file.body[vi_start + i] = NewNote[i]
        /\ \A i \in vi_end + 1 .. Len(orig.body) : file.body[i + Grow] = orig.body[i]
    BY BodyOfNew
  <1>7. /\ o \in a .. b /\ o \in Nat
        /\ \/ /\ o < vi_start /\ o \notin Stops(orig)
              /\ Hops(orig)[o] \in Walked(w) /\ Hops(orig)[o] <= vi_start
           \/ o = vi_start
           \/ o >= vi_end
        /\ vi_start \notin Stops(orig) /\ Hops(orig)[vi_start] = vi_end
        /\ vi_start < b
    BY <1>1, WayThroughNote DEF Walked
  <1>8. o \notin Stops(orig) =>
          /\ o < b /\ Hops(orig)[o] = o + NoteSize(orig.body[o + 1]) /\ Hops(orig)[o] \in Int
          /\ NoteSize(orig.body[o + 1]) \in Int /\ Hops(orig)[o] > o
          /\ orig.body[o + 1].t = "hdr"
    <2> SUFFICES ASSUME o \notin Stops(orig)
                 PROVE  /\ o < b /\ Hops(orig)[o] = o + NoteSize(orig.body[o + 1])
                        /\ Hops(orig)[o] \in Int
                        /\ NoteSize(orig.body[o + 1]) \in Int /\ Hops(orig)[o] > o
                        /\ orig.body[o + 1].t = "hdr"
      OBVIOUS
    <2>1. /\ o < b /\ Hops(orig)[o] = o + NoteSize(orig.body[o + 1])
          /\ Hops(orig)[o] \in Int /\ Hops(orig)[o] > o
          /\ orig.body[o + 1].t = "hdr"
          /\ orig.body[o + 1].namesz \in Nat /\ orig.body[o + 1].descsz \in Nat
      BY <1>1, <1>7, HopsForward
    <2>2. NoteSize(orig.body[o + 1]) \in Int
      BY <2>1, NoteSizes
    <2> QED
      BY <2>1, <2>2
  <1>9. ASSUME NEW q \in a .. c, q < c
        PROVE  /\ q \in Stops(file) <=> file.body[q + 1].t # "hdr"
               /\ q \notin Stops(file) => Hops(file)[q] = q + NoteSize(file.body[q + 1])
    <2>0. c <= Len(file.body) /\ Len(file.body) \in Nat
      BY <1>3, FirstNoteSegment
    <2>1. q \in Nat /\ q < Len(file.body)
      <3> HIDE DEF a, c
      <3> QED
        BY <1>2, <1>3, <1>9, <2>0
    <2>2. HeadAt(file, q) = file.body[q + 1]
      BY <1>3, <2>1, HeadOf
    <2> QED
      BY <1>3, <1>9, <2>2 DEF Stops, Hops
  <1> HIDE DEF a, b, c, s
  <1>10. CASE o < vi_start
    <2>1. s = o /\ o \notin Stops(orig) /\ Hops(orig)[o] <= vi_start
      BY <1>1, <1>7, <1>10 DEF s, Shift
    <2>2. file.body[o + 1] = orig.body[o + 1]
      BY <1>1, <1>6, <1>7, <1>10
    <2>3. o \in a .. c /\ o < c
      BY <1>1, <1>3, <1>4, <1>7, <1>10
    <2>4. o \notin Stops(file) /\ Hops(file)[o] = Hops(orig)[o]
      BY <1>8, <1>9, <2>1, <2>2, <2>3
    <2>5. Hops(orig)[o] \in Int /\ ~(Hops(orig)[o] > b) /\ ~(Hops(orig)[o] > c)
      BY SMTT(30), <1>1, <1>2, <1>3, <1>4, <1>7, <1>8, <2>1
    <2>6. Shift(Hops(orig)[o]) = Hops(orig)[o]
      BY <2>1 DEF Shift
    <2> QED
      BY <1>1, <1>3, <1>7, <1>10, <2>1, <2>2, <2>3, <2>4, <2>5, <2>6 DEF a, b, c, s
  <1>11. CASE o = vi_start
    <2>1. s = vi_start
      BY <1>1, <1>11 DEF s, Shift
    <2>2. file.body[vi_start + 1] = [Old EXCEPT !.descsz = newsize]
      BY <1>5, <1>6
    <2> DEFINE h == file.body[vi_start + 1]
    <2>3. h.t = "hdr" /\ h.namesz = Old.namesz /\ h.descsz = newsize
      <3>1. DOMAIN Old = {"t", "vi", "namesz", "descsz"}
        BY <1>1 DEF IsNoteHeader
      <3>2. Old.t = "hdr"
        BY <1>7, <1>8, <1>11 DEF Old
      <3> QED
        BY <2>2, <3>1, <3>2
    <2>4. NoteSize(h) = Len(NewNote)
      BY <1>5, <2>3 DEF NoteSize
    <2>5. vi_start \in a .. c /\ vi_start < c
      BY <1>1, <1>2, <1>3, <1>4
    <2>6. vi_start \notin Stops(file) /\ Hops(file)[vi_start] = vi_start + Len(NewNote)
      BY <1>9, <2>3, <2>4, <2>5
    <2>7. Hops(file)[vi_start] = vi_end + Grow
      BY <1>1, <1>5, <2>6
    <2>8. Shift(vi_end) = vi_end + Grow
      BY <1>1 DEF Shift
    <2>9. vi_end > b <=> vi_end + Grow > c
      BY <1>1, <1>2, <1>3
    <2> HIDE DEF h
    <2> QED
      BY <1>1, <1>3, <1>7, <1>11, <2>1, <2>2, <2>5, <2>6, <2>7, <2>8, <2>9 DEF a, b, c, s
  <1>12. CASE o >= vi_end
    <2>1. s = o + Grow /\ s \in Int /\ o # vi_start
      BY <1>1, <1>7, <1>12 DEF s, Shift
    <2>2. s \in a .. c
      BY SMTT(30), <1>1, <1>2, <1>3, <1>5, <1>7, <1>12, <2>1
    <2>3. CASE o = b
      <3>1. s = c
        BY <1>3, <2>1, <2>3
      <3>2. o \in Stops(orig) /\ s \in Stops(file)
        BY <1>3, <1>7, <2>2, <2>3, <3>1 DEF Stops, a, b, c
      <3> QED
        BY <1>3, <2>2, <3>2 DEF a, b, c, s
    <2>4. CASE o < b
      <3>1. s < c
        BY <1>1, <1>2, <1>3, <1>7, <2>1, <2>4
      <3>2. file.body[s + 1] = orig.body[o + 1]
        <4>1. o + 1 \in vi_end + 1 .. Len(orig.body) /\ (o + 1) + Grow = s + 1
          BY <1>1, <1>2, <1>7, <1>12, <2>1, <2>4
        <4> QED
          BY <1>6, <4>1
      <3>3. o \in Stops(orig) <=> orig.body[o + 1].t # "hdr"
        <4>1. o < Len(orig.body)
          BY <1>2, <1>7, <2>4
        <4>2. HeadAt(orig, o) = orig.body[o + 1]
          BY <1>1, <1>7, <4>1, HeadOf
        <4> QED
          BY <1>2, <1>7, <2>4, <4>2 DEF Stops, a, b
      <3>4. /\ s \in Stops(file) <=> file.body[s + 1].t # "hdr"
            /\ s \notin Stops(file) => Hops(file)[s] = s + NoteSize(file.body[s + 1])
        BY <1>9, <2>2, <3>1
      <3>5. o \in Stops(orig) <=> s \in Stops(file)
        BY <3>2, <3>3, <3>4
      <3>6. ASSUME o \notin Stops(orig)
            PROVE  /\ Hops(file)[s] = Hops(orig)[o] + Grow
                   /\ Hops(orig)[o] \in Int /\ Hops(orig)[o] > vi_start
                   /\ Hops(orig)[o] > b <=> Hops(file)[s] > c
        <4>1. /\ Hops(orig)[o] = o + NoteSize(orig.body[o + 1]) /\ Hops(orig)[o] \in Int
              /\ NoteSize(orig.body[o + 1]) \in Int /\ Hops(orig)[o] > o
          BY <1>8, <3>6
        <4>2. Hops(file)[s] = s + NoteSize(orig.body[o + 1])
          BY <3>2, <3>4, <3>5, <3>6
        <4>3. Hops(file)[s] = Hops(orig)[o] + Grow
          BY <1>1, <1>7, <2>1, <4>1, <4>2
        <4> QED
          BY SMTT(30), <1>1, <1>2, <1>3, <1>7, <1>12, <4>1, <4>3
      <3>7. o \notin Stops(orig) => Shift(Hops(orig)[o]) = Hops(orig)[o] + Grow
        BY <1>1, <3>6 DEF Shift
      <3> QED
        BY <1>3, <2>1, <2>2, <3>2, <3>5, <3>6, <3>7 DEF a, b, c, s
    <2> QED
      BY <1>2, <1>7, <2>3, <2>4
  <1> QED
    BY <1>1, <1>7, <1>10, <1>11, <1>12

\* The new file has the notes of the old one, each where it was moved to.
LEMMA NotesMoved ==
  ASSUME IsVmcore(orig), newlen \in Nat, Done, NotesInSegment(orig)
  PROVE  /\ \A p \in NoteHeads(orig) :
              /\ Shift(p) \in NoteHeads(file)
              /\ p \in Nat /\ (p <= vi_start \/ p >= vi_end)
              /\ file.body[Shift(p) + 1] = IF p = vi_start THEN [Old EXCEPT !.descsz = newsize]
                                           ELSE orig.body[p + 1]
         /\ \A q \in NoteHeads(file) : \E p \in NoteHeads(orig) : q = Shift(p)
  <1> DEFINE a == NotesFrom(orig)
             b == NotesTo(orig)
             c == NotesTo(file)
             stop == Stops(orig)
             hop == Hops(orig)
             halt == Stops(file)
             skip == Hops(file)
             move == [o \in a .. b |-> Shift(o)]
  <1>1. /\ Located /\ Readable(orig) /\ vi_start \in NoteHeads(orig) /\ vi_start \in Nat
    BY LocatedNote DEF Done
  <1>2. Readable(file) /\ NotesFrom(file) = a
    BY NewFileReadable
  <1>3. PICK w : /\ IsWalk(a, b, stop, hop, w) /\ NoteHeads(orig) = w[a]
                 /\ a \in Walked(w) /\ NoteHeads(orig) \subseteq Walked(w)
    BY <1>1, HeadsWalked
  <1>4. PICK v : IsWalk(a, c, halt, skip, v) /\ NoteHeads(file) = v[a]
    BY <1>2, NoteWalk
  <1>5. /\ a \in Int /\ b \in Int /\ a <= vi_start
        /\ Forward(a, b, stop, hop)
    BY <1>1, FirstNoteSegment, HeadsInFile, HopsForward DEF Forward
  <1>6. c \in Int
    BY <1>2, FirstNoteSegment
  <1>7. Walked(w) \in SUBSET (a .. b)
    BY DEF Walked
  <1>8. ASSUME NEW o \in Walked(w)
        PROVE  /\ Shift(o) \in a .. c
               /\ o \in stop <=> Shift(o) \in halt
               /\ o \notin stop =>
                    /\ hop[o] \in Int
                    /\ hop[o] > b <=> skip[Shift(o)] > c
                    /\ hop[o] <= b => skip[Shift(o)] = Shift(hop[o])
                    /\ file.body[Shift(o) + 1] =
                         IF o = vi_start THEN [Old EXCEPT !.descsz = newsize]
                         ELSE orig.body[o + 1]
               /\ o \notin stop /\ hop[o] <= b => hop[o] \in Walked(w)
               /\ o \in Nat /\ (o <= vi_start \/ o >= vi_end)
    <2>1. /\ o \notin stop /\ hop[o] <= b => hop[o] \in Walked(w)
          /\ o \in Nat /\ (o < vi_start \/ o = vi_start \/ o >= vi_end)
      BY <1>1, <1>3, WayThroughNote
    <2>2. o <= vi_start \/ o >= vi_end
      BY <1>1, <2>1
    <2>3. /\ Shift(o) \in NotesFrom(file) .. c
          /\ o \in stop <=> Shift(o) \in halt
          /\ o \notin stop =>
               /\ hop[o] \in Int
               /\ hop[o] > b <=> skip[Shift(o)] > c
               /\ hop[o] <= b => skip[Shift(o)] = Shift(hop[o])
               /\ file.body[Shift(o) + 1] =
                    IF o = vi_start THEN [Old EXCEPT !.descsz = newsize]
                    ELSE orig.body[o + 1]
      BY <1>3, WalkGoesOn
    <2> HIDE DEF a, b, c, stop, hop, halt, skip
    <2> QED
      BY <1>2, <2>1, <2>2, <2>3
  <1>9. \A p \in NoteHeads(orig) : p \in a .. b /\ p \notin stop
    <2> HIDE DEF a, b, stop, hop
    <2>1. \A o \in a .. b : w[o] \subseteq {p \in a .. b : p >= o /\ p \notin stop}
      BY <1>3, <1>5, WalkInRange
    <2>2. a \in a .. b
      BY <1>3, <1>7
    <2> QED
      BY <1>3, <2>1, <2>2
  <1>10. \A o \in Walked(w) : move[o] = Shift(o)
    BY <1>7
  <1> HIDE DEF a, b, c, stop, hop, halt, skip, move
  <1>11. Alike(Walked(w), move, b, stop, hop, c, halt, skip)
    <2>1. ASSUME NEW o \in Walked(w)
          PROVE  /\ o \in stop <=> move[o] \in halt
                 /\ o \notin stop =>
                      /\ hop[o] > b <=> skip[move[o]] > c
                      /\ ~(hop[o] > b) => hop[o] \in Walked(w) /\ skip[move[o]] = move[hop[o]]
      <3>1. move[o] = Shift(o)
        BY <1>10
      <3>2. ASSUME o \notin stop, ~(hop[o] > b)
            PROVE  hop[o] \in Walked(w) /\ skip[move[o]] = move[hop[o]]
        <4>1. hop[o] <= b
          BY <1>5, <1>8, <3>2
        <4>2. hop[o] \in Walked(w) /\ skip[Shift(o)] = Shift(hop[o])
          BY <1>8, <3>2, <4>1
        <4> QED
          BY <1>10, <3>1, <4>2
      <3> QED
        BY <1>8, <3>1, <3>2
    <2> QED
      BY <2>1 DEF Alike
  <1>12. \A o \in Walked(w) : move[o] \in a .. c
    BY <1>8, <1>10
  <1>13. Follows(Walked(w), move, w, v)
    BY <1>3, <1>4, <1>5, <1>6, <1>7, <1>11, <1>12, WalkMoved
  <1>14. v[move[a]] = {move[p] : p \in w[a]}
    BY <1>3, <1>13 DEF Follows
  <1>15. move[a] = a
    <2>1. Shift(a) = a
      BY <1>5 DEF Shift
    <2> QED
      BY <1>3, <1>10, <2>1
  <1>16. NoteHeads(file) = {move[p] : p \in NoteHeads(orig)}
    BY <1>3, <1>4, <1>14, <1>15
  <1>17. ASSUME NEW p \in NoteHeads(orig)
         PROVE  /\ Shift(p) \in NoteHeads(file)
                /\ p \in Nat /\ (p <= vi_start \/ p >= vi_end)
                /\ file.body[Shift(p) + 1] = IF p = vi_start THEN [Old EXCEPT !.descsz = newsize]
                                             ELSE orig.body[p + 1]
    <2>1. p \in Walked(w) /\ p \notin stop
      BY <1>3, <1>9
    <2>2. move[p] = Shift(p) /\ move[p] \in NoteHeads(file)
      BY <1>10, <1>16, <2>1
    <2> QED
      BY <1>8, <2>1, <2>2
  <1>18. ASSUME NEW q \in NoteHeads(file) PROVE \E p \in NoteHeads(orig) : q = Shift(p)
    <2>1. PICK p \in NoteHeads(orig) : q = move[p]
      BY <1>16
    <2>2. q = Shift(p)
      BY <1>3, <1>10, <2>1
    <2> QED
      BY <2>2
  <1> QED
    BY <1>17, <1>18

LEMMA NoteFound ==
  ASSUME IsVmcore(orig), newlen \in Nat, Done, NotesInSegment(orig)
  PROVE  /\ NotesEnd(file) - SegEnd(file) = NotesEnd(orig) - SegEnd(orig)
         /\ vi_start \in VmcoreinfoNotes(file)
         /\ \A p \in VmcoreinfoNotes(file) : p <= vi_start
         /\ file.body[vi_start + 1] = [Old EXCEPT !.descsz = newsize]
         /\ {file.body[o + 1].namesz : o \in NoteHeads(file)} =
            {orig.body[o + 1].namesz : o \in NoteHeads(orig)}
  <1>1. /\ Located /\ Readable(orig) /\ Grow \in Int
        /\ vi_start \in Nat /\ vi_start \in NoteHeads(orig)
        /\ vi_end \in Nat /\ vi_start < vi_end /\ vi_end = vi_start + NoteSize(Old)
        /\ IsNoteHeader(Old) /\ newsize \in Nat
    BY LocatedNote DEF Done, Located
  <1>2. /\ Readable(file) /\ SegEnd(file) = SegEnd(orig) + Grow
        /\ SegEnd(orig) \in Nat
    BY <1>1, NewFileReadable, FirstNoteSegment DEF NotesTo
  <1>3. \A p \in NoteHeads(orig) :
          /\ Shift(p) \in NoteHeads(file)
          /\ p \in Nat /\ (p <= vi_start \/ p >= vi_end)
          /\ file.body[Shift(p) + 1] = IF p = vi_start THEN [Old EXCEPT !.descsz = newsize]
                                       ELSE orig.body[p + 1]
    BY NotesMoved
  <1>4. \A q \in NoteHeads(file) : \E p \in NoteHeads(orig) : q = Shift(p)
    BY NotesMoved
  <1> DEFINE h == [Old EXCEPT !.descsz = newsize]
  <1>5. h.vi = Old.vi /\ h.namesz = Old.namesz /\ h.descsz = newsize
    BY <1>1 DEF IsNoteHeader
  <1> HIDE DEF h
  <1>6. Shift(vi_start) = vi_start
    BY <1>1 DEF Shift
  <1>7. vi_start \in NoteHeads(file) /\ file.body[vi_start + 1] = h
    BY <1>1, <1>3, <1>6 DEF h
  <1>8. ASSUME NEW p \in NoteHeads(orig)
        PROVE  /\ file.body[Shift(p) + 1].vi = orig.body[p + 1].vi
               /\ file.body[Shift(p) + 1].namesz = orig.body[p + 1].namesz
    <2>1. CASE p = vi_start
      BY <1>5, <1>6, <1>7, <2>1 DEF Old
    <2>2. CASE p # vi_start
      BY <1>3, <2>2
    <2> QED
      BY <2>1, <2>2
  <1>9. vi_start \in VmcoreinfoNotes(file)
    <2>1. orig.body[vi_start + 1].vi
      BY <1>1 DEF Located, VmcoreinfoNotes
    <2>2. file.body[vi_start + 1].vi = orig.body[vi_start + 1].vi
      BY <1>1, <1>6, <1>8
    <2> QED
      BY <1>7, <2>1, <2>2 DEF VmcoreinfoNotes
  <1>10. ASSUME NEW q \in VmcoreinfoNotes(file) PROVE q <= vi_start
    <2>1. q \in NoteHeads(file) /\ file.body[q + 1].vi
      BY DEF VmcoreinfoNotes
    <2>2. PICK p \in NoteHeads(orig) : q = Shift(p)
      BY <1>4, <2>1
    <2>3. p \in VmcoreinfoNotes(orig)
      BY <1>8, <2>1, <2>2 DEF VmcoreinfoNotes
    <2>4. p <= vi_start
      BY <1>1, <2>3 DEF Located
    <2> QED
      BY <2>2, <2>4 DEF Shift
  <1>11. {file.body[o + 1].namesz : o \in NoteHeads(file)} =
         {orig.body[o + 1].namesz : o \in NoteHeads(orig)}
    <2>1. ASSUME NEW q \in NoteHeads(file)
          PROVE  \E p \in NoteHeads(orig) : file.body[q + 1].namesz = orig.body[p + 1].namesz
      BY <1>4, <1>8
    <2>2. ASSUME NEW p \in NoteHeads(orig)
          PROVE  \E q \in NoteHeads(file) : orig.body[p + 1].namesz = file.body[q + 1].namesz
      BY <1>3, <1>8
    <2> QED
      BY <2>1, <2>2
  <1>12. NotesEnd(file) - SegEnd(file) = NotesEnd(orig) - SegEnd(orig)
    <2>1. PICK l \in NoteHeads(orig) : /\ \A p \in NoteHeads(orig) : p <= l
                                       /\ NotesEnd(orig) = l + NoteSize(orig.body[l + 1])
      BY <1>1, LastNote
    <2>2. PICK m \in NoteHeads(file) : /\ \A p \in NoteHeads(file) : p <= m
                                       /\ NotesEnd(file) = m + NoteSize(file.body[m + 1])
      BY <1>2, <1>7, LastNote
    <2>3. PICK p \in NoteHeads(orig) : m = Shift(p)
      BY <1>4
    <2>4. l \in Nat /\ p \in Nat /\ m \in Nat /\ p <= l /\ vi_start <= l
      BY <1>1, <1>2, <1>3, <2>1, HeadsInFile
    <2>5. Shift(l) <= m
      BY <1>3, <2>2
    <2>6. p = l
      <3> SUFFICES ASSUME p < l PROVE FALSE
        BY <2>4
      <3>0. ~(l <= vi_start)
        <4> SUFFICES ASSUME l <= vi_start PROVE FALSE
          OBVIOUS
        <4>1. Shift(l) = l /\ Shift(p) = p
          BY <1>1, <2>4 DEF Shift
        <4> QED
          BY <2>3, <2>4, <2>5, <4>1
      <3>1. l >= vi_end /\ Shift(l) = l + Grow
        BY <1>3, <3>0 DEF Shift
      <3>2. CASE p <= vi_start
        <4>1. m = p /\ vi_end + Grow > vi_start
          <5>1. Len(NewNote) = vi_end - vi_start + Grow /\ Len(NewNote) >= 1 /\ Len(NewNote) \in Nat
            BY <1>1, LengthOfNewNote
          <5>2. vi_end + Grow > vi_start
            BY <1>1, <5>1
          <5> QED
            BY <2>3, <3>2, <5>2 DEF Shift
        <4> QED
          BY <1>1, <2>4, <2>5, <3>1, <3>2, <4>1
      <3>3. CASE ~(p <= vi_start)
        <4>1. m = p + Grow
          BY <2>3, <3>3 DEF Shift
        <4> QED
          BY <1>1, <2>4, <2>5, <3>1, <4>1
      <3> QED
        BY <3>2, <3>3
    <2>7. /\ orig.body[l + 1].namesz \in Nat /\ orig.body[l + 1].descsz \in Nat
          /\ file.body[m + 1].namesz \in Nat /\ file.body[m + 1].descsz \in Nat
      BY <1>1, <1>2, <2>1, <2>2, HeadsInFile
    <2>8. NoteSize(orig.body[l + 1]) \in Nat /\ NoteSize(file.body[m + 1]) \in Nat
      BY <2>7, NoteSizes
    <2>9. NotesEnd(file) = NotesEnd(orig) + Grow
      <3>1. CASE l = vi_start
        <4>1. m = vi_start /\ NotesEnd(orig) = vi_end
          BY <1>1, <1>6, <2>1, <2>3, <2>6, <3>1 DEF Old
        <4>2. file.body[m + 1] = h
          BY <1>7, <4>1
        <4>3. NoteSize(h) = Len(NewNote) /\ Len(NewNote) = vi_end - vi_start + Grow
          BY <1>1, <1>5, LengthOfNewNote DEF NoteSize
        <4> QED
          BY <1>1, <2>2, <4>1, <4>2, <4>3
      <3>2. CASE l # vi_start
        <4>1. m = l + Grow /\ file.body[m + 1] = orig.body[l + 1]
          BY <1>1, <1>3, <2>3, <2>4, <2>6, <3>2 DEF Shift
        <4> QED
          BY <1>1, <2>1, <2>2, <2>4, <2>8, <4>1
      <3> QED
        BY <3>1, <3>2
    <2>10. NotesEnd(orig) \in Int
      BY <2>1, <2>4, <2>8
    <2> QED
      BY <1>1, <1>2, <2>9, <2>10
  <1> QED
    BY <1>7, <1>9, <1>10, <1>11, <1>12 DEF h

\* The description of the note is the new one, with its terminator.
LEMMA DescriptionFound ==
  ASSUME IsVmcore(orig), newlen \in Nat, Done
  PROVE  Bytes(file.body, vi_start + NHDR + pad4(Old.namesz), newsize) =
         [k \in 1 .. newsize |-> IF k < newsize THEN NewByte(k) ELSE Nul]
  <1>1. /\ Located /\ vi_start \in Nat /\ vi_end \in Nat /\ Grow \in Int
        /\ Old.namesz \in Nat /\ newsize \in Nat /\ pad4(newsize) \in Nat
        /\ vi_end <= Len(orig.body) /\ Len(orig.body) \in Nat
    BY LocatedNote DEF Done
  <1>2. NHDR \in Nat /\ pad4(Old.namesz) \in Nat /\ newsize <= pad4(newsize)
    BY <1>1, Pad4, EditVmcoreinfoAssumption
  <1>3. /\ Len(NewNote) = vi_end - vi_start + Grow /\ Len(NewNote) \in Nat
        /\ Len(NewNote) = NHDR + pad4(Old.namesz) + pad4(newsize)
    BY <1>1, LengthOfNewNote
  <1>4. /\ IsSequence(file.body) /\ Len(file.body) = Len(orig.body) + Grow
        /\ \A i \in 1 .. Len(NewNote) : file.body[vi_start + i] = NewNote[i]
    BY BodyOfNew
  <1>5. DOMAIN file.body = 1 .. Len(file.body) /\ Len(file.body) \in Nat
    BY <1>4, SequenceLen
  <1>6. PICK g : g = NHDR + pad4(Old.namesz)
    OBVIOUS
  <1>7. g \in Nat /\ Len(NewNote) = g + pad4(newsize)
    BY <1>2, <1>3, <1>6
  <1>8. ASSUME NEW k \in 1 .. newsize
        PROVE  /\ vi_start + NHDR + pad4(Old.namesz) + k \in DOMAIN file.body
               /\ file.body[vi_start + NHDR + pad4(Old.namesz) + k] =
                    IF k < newsize THEN NewByte(k) ELSE Nul
    <2>1. vi_start + NHDR + pad4(Old.namesz) + k = vi_start + (g + k)
      BY <1>1, <1>2, <1>6
    <2>2. g + k \in 1 .. Len(NewNote) /\ k \in 1 .. pad4(newsize)
      BY <1>1, <1>2, <1>7
    <2>3. vi_start + (g + k) \in DOMAIN file.body
      <3>1. vi_start + Len(NewNote) <= Len(file.body)
        BY <1>1, <1>3, <1>4
      <3> QED
        BY SMTT(30), <1>1, <1>3, <1>5, <2>2, <3>1
    <2>4. NewNote[g + k] = IF k < newsize THEN NewByte(k) ELSE Nul
      BY <1>1, <1>6, <2>2, BytesOfNewNote
    <2> QED
      BY <1>4, <2>1, <2>2, <2>3, <2>4
  <1> QED
    BY <1>8 DEF Bytes

\* When editvmcoreinfo ends well and the header still finds the table, a reader of the
\* file meets the same notes as before, and the last VMCOREINFO among them is the new
\* one, whole.
THEOREM NewNoteIsFound == RepairFairSpec => []NewNoteReadable
  <1>1. ASSUME RepairInv PROVE NewNoteReadable
    <2> SUFFICES ASSUME Succeeded, NotesInSegment(orig) PROVE NewNoteReadable
      BY DEF NewNoteReadable
    <2>1. IsVmcore(orig) /\ newlen \in Nat /\ Done /\ Located
      BY <1>1 DEF RepairInv, EditInv, BodyInv, Succeeded, Done
    <2>2. /\ vi_start \in Nat /\ vi_end = vi_start + NoteSize(Old) /\ IsNoteHeader(Old)
          /\ Grow \in Int /\ vi_end \in Nat
      BY <2>1, LocatedNote DEF Located
    <2> DEFINE h == file.body[vi_start + 1]
    <2>3. /\ NotesEnd(file) - SegEnd(file) = NotesEnd(orig) - SegEnd(orig)
          /\ vi_start \in VmcoreinfoNotes(file)
          /\ \A p \in VmcoreinfoNotes(file) : p <= vi_start
          /\ h = [Old EXCEPT !.descsz = newsize]
          /\ {file.body[o + 1].namesz : o \in NoteHeads(file)} =
             {orig.body[o + 1].namesz : o \in NoteHeads(orig)}
      BY <2>1, NoteFound
    <2>4. h.namesz = Old.namesz /\ h.descsz = newsize
      BY <2>2, <2>3 DEF IsNoteHeader
    <2>5. Bytes(file.body, vi_start + NHDR + pad4(h.namesz), newsize) =
          [k \in 1 .. newsize |-> IF k < newsize THEN NewByte(k) ELSE Nul]
      BY <2>1, <2>4, DescriptionFound
    <2>6. Len(file.body) - Len(orig.body) = NoteSize(h) - (vi_end - vi_start)
      <3>1. Len(file.body) = Len(orig.body) + Grow
        BY <2>1, BodyOfNew
      <3>2. NoteSize(h) = Len(NewNote) /\ Len(NewNote) = vi_end - vi_start + Grow
        BY <2>1, <2>4, LengthOfNewNote DEF NoteSize
      <3>3. Len(orig.body) \in Nat
        BY <2>1, LocatedNote
      <3> QED
        BY <2>2, <3>1, <3>2, <3>3
    <2> DEFINE Found(o) ==
                 LET b == file.body[o + 1]
                 IN /\ \A p \in VmcoreinfoNotes(file) : p <= o
                    /\ b.descsz = newsize
                    /\ Bytes(file.body, o + NHDR + pad4(b.namesz), newsize) =
                         [k \in 1 .. newsize |-> IF k < newsize THEN NewByte(k) ELSE Nul]
                    /\ Len(file.body) - Len(orig.body) = NoteSize(b) - (vi_end - vi_start)
    <2>7. Found(vi_start)
      BY <2>3, <2>4, <2>5, <2>6
    <2> HIDE DEF Found
    <2>8. \E o \in VmcoreinfoNotes(file) : Found(o)
      BY <2>3, <2>7
    <2> QED
      BY <2>3, <2>8 DEF NewNoteReadable, Found
  <1> QED
    BY <1>1, RepairInvariance, PTL

-----------------------------------------------------------------------------
(* The repair as a whole.                                                  *)

\* From the start of editvmcoreinfo after a hunt on: it was given what the hunt has
\* saved, and the file that phys2virt has left.
GivenInv ==
  pc # "idle" =>
    /\ hpc = "over"
    /\ output # None =>
         /\ newlen = Len(output)
         /\ IsVmcore(dumped)
         /\ orig.body = dumped.body
         /\ WithoutVaddr(orig) = WithoutVaddr(dumped)
         /\ outcome = "whole" =>
              \A k \in DOMAIN orig.ph :
                orig.ph[k].vaddr = IF zero THEN <<0, 0>> ELSE dumped.ph[k].paddr

LEMMA GivenStep ==
  ASSUME RepairInv, GivenInv, [RepairNext]_repairVars
  PROVE  GivenInv'
  <1>0. HealInv
    BY DEF RepairInv
  <1>1. CASE UNCHANGED repairVars
    BY <1>1 DEF GivenInv, repairVars, vars, p2vVars, findVars
  <1>2. CASE hpc # "over" /\ findvmcoreinfo /\ UNCHANGED <<vars, p2vVars>>
    <2>1. pc = "idle" /\ pc' = "idle"
      BY <1>2 DEF GivenInv, vars
    <2> QED
      BY <2>1 DEF GivenInv
  <1>3. CASE prompt
    BY <1>3 DEF GivenInv, prompt, vars, p2vVars
  <1>4. CASE Repairing /\ phys2virt /\ UNCHANGED <<editRest, findVars>>
    BY <1>4 DEF GivenInv, Repairing, editRest
  <1>5. CASE editvmcoreinfo
    <2>1. /\ pc = "idle" /\ hpc = "over" /\ newlen' = Len(output) /\ orig' = file
          /\ UNCHANGED <<hpc, output, outcome, zero, dumped>>
      BY <1>5 DEF editvmcoreinfo, p2vVars, findVars
    <2> QED
      BY <1>0, <2>1 DEF GivenInv, HealInv
  <1>6. CASE Next /\ UNCHANGED <<p2vVars, findVars>>
    <2>1. /\ pc # "idle" /\ UNCHANGED <<newlen, orig>>
          /\ UNCHANGED <<hpc, output, outcome, zero, dumped>>
      BY <1>6 DEF Next, Step, call_fails, killed, read_newdata, refuse_elfdata, read_elfdata,
                  update_offsets, shift_data, save_refused, save, truncate, write_note,
                  restore, elfVars,
                  p2vVars, findVars
    <2> QED
      BY <2>1 DEF GivenInv
  <1> QED
    BY <1>1, <1>2, <1>3, <1>4, <1>5, <1>6 DEF RepairNext

\* With other virtual addresses the notes are the same, and the layout.
LEMMA SameLayout ==
  ASSUME NEW f, NEW g, IsVmcore(f), IsVmcore(g), f.body = g.body,
         WithoutVaddr(f) = WithoutVaddr(g), NoteSegs(f) # {}
  PROVE  /\ Conventional(f) => Conventional(g)
         /\ NotesInSegment(f) => NotesInSegment(g)
  <1>1. /\ DOMAIN f.ph = DOMAIN g.ph
        /\ \A k \in DOMAIN f.ph :
             /\ f.ph[k].type = g.ph[k].type
             /\ f.ph[k].offset = g.ph[k].offset /\ f.ph[k].filesz = g.ph[k].filesz
    BY SameButVaddr
  <1>2. NoteSegs(f) = NoteSegs(g)
    BY <1>1 DEF NoteSegs
  <1>3. NoteSeg(f) = NoteSeg(g)
    BY <1>2 DEF NoteSeg
  <1>4. NoteSeg(f) \in DOMAIN f.ph
    <2>1. NoteSegs(f) \subseteq Nat /\ NoteSegs(f) \subseteq DOMAIN f.ph
      BY VmcoreParts DEF NoteSegs
    <2>2. \E k \in NoteSegs(f) : \A j \in NoteSegs(f) : k <= j
      BY <2>1, LeastNumber
    <2>3. NoteSeg(f) \in NoteSegs(f)
      BY <2>2 DEF NoteSeg
    <2> QED
      BY <2>1, <2>3
  <1>5. f.ph[NoteSeg(f)].offset = g.ph[NoteSeg(g)].offset
        /\ f.ph[NoteSeg(f)].filesz = g.ph[NoteSeg(g)].filesz
    BY <1>1, <1>3, <1>4
  <1>6. NoteHeads(f) = NoteHeads(g)
    <2> DEFINE Heads(from, size, body) ==
                 LET final == from + size
                     walk[o \in from .. final] ==
                       LET h    == Bytes(body, o, 1)[1]
                           next == o + NoteSize(h)
                       IN IF o = final \/ h.t # "hdr" THEN {}
                          ELSE {o} \cup (IF next > final THEN {} ELSE walk[next])
                 IN walk[from]
    <2>1. /\ NoteHeads(f) = Heads(f.ph[NoteSeg(f)].offset, f.ph[NoteSeg(f)].filesz, f.body)
          /\ NoteHeads(g) = Heads(g.ph[NoteSeg(g)].offset, g.ph[NoteSeg(g)].filesz, g.body)
      BY DEF NoteHeads
    <2> HIDE DEF Heads
    <2> QED
      BY <1>5, <2>1
  <1>7. SegEnd(f) = SegEnd(g)
    BY <1>5 DEF SegEnd
  <1>8. NotesEnd(f) = NotesEnd(g)
    BY <1>6 DEF NotesEnd
  <1>9. PhOff(f) = PhOff(g)
    <2>1. /\ WithoutVaddr(f).e_phoff = f.e_phoff /\ WithoutVaddr(g).e_phoff = g.e_phoff
          /\ WithoutVaddr(f).data = f.data /\ WithoutVaddr(g).data = g.data
      <3>1. DOMAIN f = DOMAIN g /\ {"ph", "data", "e_phoff"} \subseteq DOMAIN f
        BY VmcoreParts
      <3> QED
        BY <3>1 DEF WithoutVaddr
    <2> QED
      BY <2>1 DEF PhOff
  <1>10. Conventional(f) => Conventional(g)
    BY <1>1, <1>2, <1>3, <1>4, <1>5, <1>6, <1>9 DEF Conventional
  <1> QED
    BY <1>7, <1>8, <1>10 DEF NotesInSegment

\* Through any hunt, any runs of phys2virt that fail or tear the table and any stop of
\* the programs: a repair that ends well has put in place what the hunt has saved, and
\* nothing of the memory is lost or moved to another address than was asked for.
THEOREM RepairIsWhole == RepairFairSpec => []Repaired
  <1>1. RepairInit \/ AloneInit => GivenInv
    BY DEF RepairInit, AloneInit, GivenInv
  <1>2. RepairInv /\ GivenInv /\ [RepairNext]_repairVars => GivenInv'
    BY GivenStep
  <1>3. ASSUME RepairInv, GivenInv PROVE Repaired
    <2> SUFFICES ASSUME Succeeded, output # None, Conventional(dumped), NotesInSegment(dumped)
                 PROVE  Repaired
      BY DEF Repaired
    <2>1. IsVmcore(orig) /\ SameHeader /\ newlen \in Nat /\ Done
      BY <1>3 DEF RepairInv, EditInv, BodyInv, Succeeded
    <2>2. /\ newlen = Len(output)
          /\ IsVmcore(dumped) /\ orig.body = dumped.body
          /\ WithoutVaddr(orig) = WithoutVaddr(dumped)
          /\ outcome = "whole" =>
               \A k \in DOMAIN orig.ph :
                 orig.ph[k].vaddr = IF zero THEN <<0, 0>> ELSE dumped.ph[k].paddr
      BY <1>3 DEF GivenInv, Succeeded
    <2>3. /\ file.ph = NewTable /\ newsize = newlen + 1
          /\ Located /\ notes_seg = NoteSeg(orig) /\ notes_seg \in DOMAIN orig.ph
          /\ notes_seg \in NoteSegs(orig) /\ IsNoteHeader(Old)
      BY <2>1, LocatedNote, FirstNoteSegment DEF Done, Located
    <2>4. /\ DOMAIN orig.ph = DOMAIN dumped.ph
          /\ \A k \in DOMAIN orig.ph :
               /\ orig.ph[k].paddr = dumped.ph[k].paddr /\ orig.ph[k].type = dumped.ph[k].type
               /\ orig.ph[k].offset = dumped.ph[k].offset
               /\ orig.ph[k].filesz = dumped.ph[k].filesz
      BY <2>1, <2>2, SameButVaddr
    <2>5. Conventional(orig) /\ NotesInSegment(orig)
      <3>1. NoteSegs(dumped) # {}
        BY <2>3, <2>4 DEF NoteSegs
      <3> QED
        BY <2>1, <2>2, <3>1, SameLayout
    <2>6. \E o \in VmcoreinfoNotes(file) : file.body[o + 1].descsz = Len(output) + 1
      <3>1. vi_start \in VmcoreinfoNotes(file) /\ file.body[vi_start + 1] = [Old EXCEPT !.descsz = newsize]
        BY <2>1, <2>5, NoteFound
      <3>2. file.body[vi_start + 1].descsz = newsize
        BY <2>3, <3>1 DEF IsNoteHeader
      <3> QED
        BY <2>2, <2>3, <3>1, <3>2
    <2>7. SegmentsIntact
      BY <2>1, <2>5, Intact
    <2>8. ASSUME NEW k \in DOMAIN file.ph
          PROVE  /\ file.ph[k].paddr = dumped.ph[k].paddr
                 /\ outcome = "whole" =>
                      file.ph[k].vaddr = IF zero THEN <<0, 0>> ELSE dumped.ph[k].paddr
                 /\ dumped.ph[k].type = "load" =>
                      Bytes(file.body, file.ph[k].offset, file.ph[k].filesz) =
                      Bytes(dumped.body, dumped.ph[k].offset, dumped.ph[k].filesz)
      <3>1. k \in DOMAIN orig.ph /\ file.ph[k].paddr = orig.ph[k].paddr
            /\ file.ph[k].vaddr = orig.ph[k].vaddr
        BY <2>1, <2>3, NewEntries
      <3>2. ASSUME dumped.ph[k].type = "load"
            PROVE  Bytes(file.body, file.ph[k].offset, file.ph[k].filesz) =
                   Bytes(dumped.body, dumped.ph[k].offset, dumped.ph[k].filesz)
        <4>1. k # notes_seg
          BY <2>3, <2>4, <3>1, <3>2 DEF NoteSegs
        <4>2. Bytes(file.body, file.ph[k].offset, file.ph[k].filesz) =
              Bytes(orig.body, orig.ph[k].offset, orig.ph[k].filesz)
          BY <2>7, <4>1 DEF SegmentsIntact
        <4> QED
          BY <2>2, <2>4, <3>1, <4>2
      <3> QED
        BY <2>2, <2>4, <3>1, <3>2
    <2> QED
      BY <2>6, <2>8 DEF Repaired
  <1> QED
    BY <1>1, <1>2, <1>3, RepairInvariance, PTL DEF RepairFairSpec

=============================================================================
