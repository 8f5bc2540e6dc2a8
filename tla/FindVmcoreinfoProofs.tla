------------------------- MODULE FindVmcoreinfoProofs -------------------------
(***************************************************************************)
(* Proofs for findvmcoreinfo.py: the pieces that the script looks at are   *)
(* those of the stream cut all at once.                                    *)
(***************************************************************************)
EXTENDS VmcoreRepair, Induction, SequenceTheorems

-----------------------------------------------------------------------------
(* Sequences and their parts.                                              *)

LEMMA SubSeqParts ==
  ASSUME NEW T, NEW s \in Seq(T), NEW a \in Nat \ {0}, NEW b \in Nat, a <= b + 1, b <= Len(s)
  PROVE  /\ SubSeq(s, a, b) \in Seq(T) /\ Len(SubSeq(s, a, b)) = b - a + 1
         /\ \A i \in 1 .. b - a + 1 : SubSeq(s, a, b)[i] = s[a + i - 1]
  OBVIOUS

\* A part of a part.
LEMMA SubSeqSubSeq ==
  ASSUME NEW T, NEW s \in Seq(T), NEW c \in Nat \ {0}, NEW e \in Nat, c <= e + 1, e <= Len(s),
         NEW a \in Nat \ {0}, NEW b \in Nat, a <= b + 1, b <= e - c + 1
  PROVE  SubSeq(SubSeq(s, c, e), a, b) = SubSeq(s, c + a - 1, c + b - 1)
  <1> DEFINE u == SubSeq(s, c, e)
             v == SubSeq(u, a, b)
             w == SubSeq(s, c + a - 1, c + b - 1)
  <1>1. /\ u \in Seq(T) /\ Len(u) = e - c + 1
        /\ \A i \in 1 .. e - c + 1 : u[i] = s[c + i - 1]
    BY SubSeqParts
  <1> HIDE DEF u
  <1>2. /\ v \in Seq(T) /\ Len(v) = b - a + 1
        /\ \A i \in 1 .. b - a + 1 : v[i] = u[a + i - 1]
    BY <1>1, SubSeqParts
  <1>3. /\ c + a - 1 \in Nat \ {0} /\ c + b - 1 \in Nat
        /\ c + a - 1 <= (c + b - 1) + 1 /\ c + b - 1 <= Len(s)
        /\ (c + b - 1) - (c + a - 1) + 1 = b - a + 1
    OBVIOUS
  <1>4. /\ w \in Seq(T) /\ Len(w) = b - a + 1
        /\ \A i \in 1 .. b - a + 1 : w[i] = s[(c + a - 1) + i - 1]
    BY <1>3, SubSeqParts
  <1> HIDE DEF v, w
  <1>5. \A i \in 1 .. b - a + 1 : v[i] = w[i]
    <2> SUFFICES ASSUME NEW i \in 1 .. b - a + 1 PROVE v[i] = w[i]
      OBVIOUS
    <2>1. a + i - 1 \in 1 .. e - c + 1 /\ c + (a + i - 1) - 1 = (c + a - 1) + i - 1
      OBVIOUS
    <2> QED
      BY <1>1, <1>2, <1>4, <2>1
  <1>6. v = w
    BY <1>2, <1>4, <1>5, SeqEqual
  <1> QED
    BY <1>6 DEF u, v, w

\* Two adjoining parts.
LEMMA SubSeqJoin ==
  ASSUME NEW T, NEW s \in Seq(T), NEW a \in Nat \ {0}, NEW b \in Nat, NEW d \in Nat,
         a <= b + 1, b <= d, d <= Len(s)
  PROVE  SubSeq(s, a, b) \o SubSeq(s, b + 1, d) = SubSeq(s, a, d)
  <1> DEFINE u == SubSeq(s, a, b)
             v == SubSeq(s, b + 1, d)
             w == SubSeq(s, a, d)
  <1>1. /\ u \in Seq(T) /\ Len(u) = b - a + 1
        /\ \A i \in 1 .. b - a + 1 : u[i] = s[a + i - 1]
    BY SubSeqParts, SMTT(30)
  <1>2. /\ v \in Seq(T) /\ Len(v) = d - (b + 1) + 1
        /\ \A i \in 1 .. d - (b + 1) + 1 : v[i] = s[(b + 1) + i - 1]
    BY SubSeqParts
  <1>3. /\ w \in Seq(T) /\ Len(w) = d - a + 1
        /\ \A i \in 1 .. d - a + 1 : w[i] = s[a + i - 1]
    BY SubSeqParts
  <1> HIDE DEF u, v, w
  <1>4. /\ u \o v \in Seq(T) /\ Len(u \o v) = Len(u) + Len(v)
        /\ \A i \in 1 .. Len(u) + Len(v) :
             (u \o v)[i] = IF i <= Len(u) THEN u[i] ELSE v[i - Len(u)]
    BY <1>1, <1>2, ConcatProperties
  <1>5. Len(u) + Len(v) = d - a + 1
    BY <1>1, <1>2
  <1>6. ASSUME NEW i \in 1 .. d - a + 1 PROVE (u \o v)[i] = w[i]
    <2>1. CASE i <= Len(u)
      <3>1. i \in 1 .. b - a + 1
        BY <1>1, <2>1
      <3> QED
        BY <1>1, <1>3, <1>4, <1>5, <2>1, <3>1
    <2>2. CASE ~(i <= Len(u))
      <3>1. i - Len(u) \in 1 .. d - (b + 1) + 1 /\ (b + 1) + (i - Len(u)) - 1 = a + i - 1
        BY <1>1, <2>2
      <3>2. (u \o v)[i] = v[i - Len(u)]
        BY <1>4, <1>5, <2>2
      <3> QED
        BY <1>2, <1>3, <3>1, <3>2
    <2> QED
      BY <2>1, <2>2
  <1>7. u \o v = w
    BY <1>3, <1>4, <1>5, <1>6, SeqEqual
  <1> QED
    BY <1>7 DEF u, v, w

\* What one reads of a sequence and what one leaves.
LEMMA SplitAt ==
  ASSUME NEW T, NEW s \in Seq(T), NEW n \in 0 .. Len(s)
  PROVE  /\ SubSeq(s, 1, n) \in Seq(T) /\ SubSeq(s, n + 1, Len(s)) \in Seq(T)
         /\ SubSeq(s, 1, n) \o SubSeq(s, n + 1, Len(s)) = s
  <1>1. Len(s) \in Nat /\ n \in Nat /\ n + 1 \in Nat \ {0}
    BY LenProperties
  <1>2. SubSeq(s, 1, n) \in Seq(T) /\ SubSeq(s, n + 1, Len(s)) \in Seq(T)
    BY <1>1, SubSeqParts
  <1>3. SubSeq(s, 1, Len(s)) = s
    OBVIOUS
  <1>4. PICK d : d = Len(s)
    OBVIOUS
  <1>5. d \in Nat /\ 1 <= n + 1 /\ n <= d /\ d <= Len(s) /\ 1 \in Nat \ {0}
    BY <1>1, <1>4
  <1>6. SubSeq(s, 1, n) \o SubSeq(s, n + 1, d) = SubSeq(s, 1, d)
    BY <1>1, <1>5, SubSeqJoin
  <1> QED
    BY <1>2, <1>3, <1>4, <1>6

LEMMA ConcatAssoc ==
  ASSUME NEW T
  PROVE  \A s, t, u \in Seq(T) : (s \o t) \o u = s \o (t \o u)
  BY ConcatAssociative, SMTT(30)

LEMMA ConcatBytes == \A s, t, u \in Seq(Byte) : (s \o t) \o u = s \o (t \o u)
  BY ConcatAssoc, SMTT(30)

LEMMA ConcatPieces == \A s, t, u \in Seq(Seq(Byte)) : (s \o t) \o u = s \o (t \o u)
  <1>1. PICK T : T = Seq(Byte)
    OBVIOUS
  <1>2. \A s, t, u \in Seq(T) : (s \o t) \o u = s \o (t \o u)
    <2> HIDE <1>1
    <2> QED
      BY ConcatAssoc, SMTT(30)
  <1> QED
    BY <1>1, <1>2

\* The last of four sequences outside of all brackets.
LastOutside(s, t, u, v) == s \o (t \o (u \o v)) = (s \o (t \o u)) \o v

LEMMA ConcatLast ==
  ASSUME NEW s \in Seq(Byte), NEW t \in Seq(Byte), NEW u \in Seq(Byte), NEW v \in Seq(Byte)
  PROVE  LastOutside(s, t, u, v)
  <1>1. PICK tu : tu = t \o u
    OBVIOUS
  <1>2. tu \in Seq(Byte)
    BY <1>1, ConcatProperties
  <1>3. tu \o v = t \o (u \o v)
    BY <1>1, ConcatBytes, SMTT(30)
  <1>4. (s \o tu) \o v = s \o (tu \o v)
    BY <1>2, ConcatBytes, SMTT(30)
  <1> QED
    BY <1>1, <1>3, <1>4 DEF LastOutside

LEMMA AppendPiece ==
  \A s \in Seq(Seq(Byte)), e \in Seq(Byte) :
    /\ Append(s, e) = s \o <<e>> /\ Append(s, e) \in Seq(Seq(Byte)) /\ <<e>> \in Seq(Seq(Byte))
  BY AppendProperties, AppendIsConcat

LEMMA AppendShape ==
  ASSUME NEW T, NEW s, s \in Seq(T), NEW e, e \in T, NEW w, w = Append(s, e)
  PROVE  /\ w # <<>> /\ Len(s) \in Nat /\ Len(w) = Len(s) + 1
         /\ \A k \in DOMAIN s : w[k] = s[k]
         /\ w[Len(w)] = e /\ DOMAIN s = 1 .. Len(s) /\ DOMAIN w = 1 .. Len(s) + 1
  <1>1. w \in Seq(T) /\ Len(w) = Len(s) + 1 /\ Len(s) \in Nat
    BY AppendProperties, LenProperties
  <1>2. w[Len(s) + 1] = e /\ \A k \in 1 .. Len(s) : w[k] = s[k]
    BY AppendProperties
  <1>3. DOMAIN s = 1 .. Len(s) /\ DOMAIN w = 1 .. Len(w)
    BY <1>1, LenProperties
  <1>4. w # <<>>
    BY <1>1, EmptySeq
  <1> QED
    BY <1>1, <1>2, <1>3, <1>4

\* The two parts of a sequence that was put together.
LEMMA ConcatParts ==
  ASSUME NEW T, NEW s, NEW t, NEW w, s \in Seq(T), t \in Seq(T), s \o t = w,
         NEW m, m = Len(s)
  PROVE  /\ m \in Nat /\ m <= Len(w) /\ s = SubSeq(w, 1, m) /\ t = SubSeq(w, m + 1, Len(w))
  <1>1. /\ w \in Seq(T) /\ Len(w) = Len(s) + Len(t)
        /\ \A i \in 1 .. Len(s) + Len(t) : w[i] = IF i <= Len(s) THEN s[i] ELSE t[i - Len(s)]
    BY ConcatProperties
  <1>2. Len(s) \in Nat /\ Len(t) \in Nat
    BY LenProperties
  <1>3. PICK k : k = Len(w)
    OBVIOUS
  <1>4. k \in Nat /\ m \in Nat /\ m <= k /\ k - m = Len(t)
    BY <1>1, <1>2, <1>3
  <1>5. /\ SubSeq(w, 1, m) \in Seq(T) /\ Len(SubSeq(w, 1, m)) = m
        /\ \A i \in 1 .. m : SubSeq(w, 1, m)[i] = w[i]
    <2>1. 1 <= m + 1 /\ m - 1 + 1 = m /\ \A i \in 1 .. m : 1 + i - 1 = i
      BY <1>4
    <2> QED
      BY <1>1, <1>3, <1>4, <2>1, SubSeqParts
  <1>6. s = SubSeq(w, 1, m)
    <2>1. \A i \in 1 .. m : SubSeq(w, 1, m)[i] = s[i]
      BY <1>1, <1>2, <1>4, <1>5
    <2> QED
      BY <1>5, <2>1, SeqEqual
  <1>7. /\ SubSeq(w, m + 1, k) \in Seq(T) /\ Len(SubSeq(w, m + 1, k)) = k - m
        /\ \A i \in 1 .. k - m : SubSeq(w, m + 1, k)[i] = w[m + i]
    <2>1. /\ m + 1 \in Nat \ {0} /\ m + 1 <= k + 1 /\ k - (m + 1) + 1 = k - m
          /\ \A i \in 1 .. k - m : (m + 1) + i - 1 = m + i
      BY <1>4
    <2> QED
      BY <1>1, <1>3, <1>4, <2>1, SubSeqParts
  <1>8. t = SubSeq(w, m + 1, k)
    <2>1. ASSUME NEW i \in 1 .. k - m PROVE SubSeq(w, m + 1, k)[i] = t[i]
      <3>1. m + i \in 1 .. Len(s) + Len(t) /\ ~(m + i <= Len(s)) /\ (m + i) - Len(s) = i
        BY <1>2, <1>4
      <3>2. w[m + i] = t[(m + i) - Len(s)]
        BY <1>1, <3>1
      <3> QED
        BY <1>7, <3>1, <3>2
    <2> QED
      BY <1>4, <1>7, <2>1, SeqEqual
  <1> QED
    BY <1>3, <1>4, <1>6, <1>8

-----------------------------------------------------------------------------
(* The stream and its pieces.                                              *)

LEMMA SepShape == Sep \in Seq(Byte) /\ Len(Sep) = SEP /\ SEP \in Nat \ {0} /\ BS \in Nat \ {0}
  <1>1. SEP \in Nat \ {0} /\ BS \in Nat \ {0}
    BY FindVmcoreinfoAssumption
  <1>2. PICK bar \in Byte : Sep = [k \in 1 .. SEP |-> bar]
    <2>1. "|" \in Byte
      BY FindVmcoreinfoAssumption, Zenon
    <2> QED
      BY <2>1, Zenon DEF Sep
  <1>3. Sep \in [1 .. SEP -> Byte]
    BY <1>2
  <1> QED
    BY <1>1, <1>3

LEMMA SepsShape ==
  ASSUME NEW s \in Seq(Byte)
  PROVE  \A p \in Seps(s) : p \in Nat \ {0} /\ p + SEP <= Len(s) + 1
  BY SepShape DEF Seps

\* The first of some places is one of them.
LEMMA FirstIsFirst ==
  ASSUME NEW S, S \subseteq Nat, S # {}
  PROVE  First(S) \in S /\ \A p \in S : First(S) <= p
  <1>1. \E o \in S : \A p \in S : o <= p
    BY LeastNumber
  <1> QED
    BY <1>1 DEF First

\* No place is before the first, and only one is.
LEMMA FirstOf ==
  ASSUME NEW S, S \subseteq Nat, NEW o \in S, \A p \in S : o <= p
  PROVE  First(S) = o
  <1>1. First(S) \in S /\ \A p \in S : First(S) <= p
    BY FirstIsFirst
  <1>2. First(S) \in Nat /\ o \in Nat /\ o <= First(S) /\ First(S) <= o
    BY <1>1
  <1> QED
    BY <1>2

Later(s, p) == {q \in Seps(s) : q >= p}

\* CutFrom is what its recursion says.
LEMMA CutFromStep ==
  ASSUME NEW s \in Seq(Byte), NEW p \in 1 .. Len(s) + 1
  PROVE  /\ CutFrom(s, p) \in Seq(Seq(Byte))
         /\ p > Len(s) => CutFrom(s, p) = <<>>
         /\ p <= Len(s) /\ Later(s, p) = {} => CutFrom(s, p) = <<SubSeq(s, p, Len(s))>>
         /\ p <= Len(s) /\ Later(s, p) # {} =>
              CutFrom(s, p) = <<SubSeq(s, p, First(Later(s, p)) - 1)>>
                              \o CutFrom(s, First(Later(s, p)) + SEP)
  <1> DEFINE n == Len(s) + 1
             T == Seq(Seq(Byte))
             stop == {o \in 1 .. n : o > Len(s) \/ Later(s, o) = {}}
             base == [o \in 1 .. n |-> IF o > Len(s) THEN <<>> ELSE <<SubSeq(s, o, Len(s))>>]
             hop == [o \in 1 .. n |-> First(Later(s, o)) + SEP]
             step == [o \in 1 .. n |-> [t \in T |-> <<SubSeq(s, o, First(Later(s, o)) - 1)>> \o t]]
             Def(g, o) == IF o > Len(s) THEN <<>>
                          ELSE IF Later(s, o) = {} THEN <<SubSeq(s, o, Len(s))>>
                          ELSE <<SubSeq(s, o, First(Later(s, o)) - 1)>>
                               \o g[First(Later(s, o)) + SEP]
  <1>1. n \in Nat /\ Len(s) \in Nat
    BY LenProperties
  <1>2. ASSUME NEW o \in 1 .. n, o \notin stop
        PROVE  /\ First(Later(s, o)) \in Nat /\ o <= First(Later(s, o))
               /\ First(Later(s, o)) + SEP \in o + 1 .. n
               /\ First(Later(s, o)) <= Len(s)
    <2>1. Later(s, o) # {}
      BY <1>2
    <2>2. Later(s, o) \subseteq Nat
      BY SepsShape DEF Later
    <2>3. First(Later(s, o)) \in Later(s, o)
      BY <2>1, <2>2, FirstIsFirst
    <2>4. PICK q \in Seps(s) : q = First(Later(s, o)) /\ q >= o
      BY <2>3 DEF Later
    <2>5. q \in Nat \ {0} /\ q + SEP <= Len(s) + 1 /\ SEP \in Nat \ {0}
      BY <2>4, SepsShape, SepShape
    <2> QED
      BY <1>1, <2>4, <2>5
  <1>3. Onward(n, stop, hop)
    BY <1>2 DEF Onward
  <1>4. ASSUME NEW o \in 1 .. n, o \in stop PROVE base[o] \in T
    <2>1. CASE o > Len(s)
      BY <2>1
    <2>2. CASE ~(o > Len(s))
      <3>1. SubSeq(s, o, Len(s)) \in Seq(Byte)
        BY <1>1, <2>2, SubSeqParts
      <3> QED
        BY <2>2, <3>1
    <2> QED
      BY <2>1, <2>2
  <1>5. ASSUME NEW o \in 1 .. n, o \notin stop, NEW t \in T
        PROVE  /\ <<SubSeq(s, o, First(Later(s, o)) - 1)>> \o t \in T
               /\ step[o][t] = <<SubSeq(s, o, First(Later(s, o)) - 1)>> \o t
    <2>1. SubSeq(s, o, First(Later(s, o)) - 1) \in Seq(Byte)
      BY <1>1, <1>2, <1>5, SubSeqParts
    <2>2. <<SubSeq(s, o, First(Later(s, o)) - 1)>> \in T
      BY <2>1
    <2>3. <<SubSeq(s, o, First(Later(s, o)) - 1)>> \o t \in T
      BY <2>2, ConcatProperties
    <2> QED
      BY <2>3
  <1>6. PICK f : Descent(f, n, stop, base, hop, step)
    <2> HIDE DEF n, stop, base, hop, step
    <2> QED
      BY <1>1, <1>3, DescentExists
  <1>7. \A o \in 1 .. n : f[o] = IF o \in stop THEN base[o] ELSE step[o][f[hop[o]]]
    <2> HIDE DEF n, stop, base, hop, step
    <2> QED
      BY <1>6 DEF Descent
  <1>8. \A o \in 1 .. n : f[o] \in T
    <2>1. \A o \in 1 .. n : o \in stop => f[o] \in T
      BY <1>4, <1>7
    <2>2. \A o \in 1 .. n : o \notin stop => (f[hop[o]] \in T => f[o] \in T)
      <3> SUFFICES ASSUME NEW o \in 1 .. n, o \notin stop, f[hop[o]] \in T PROVE f[o] \in T
        OBVIOUS
      <3>1. step[o][f[hop[o]]] \in T
        BY <1>5
      <3>2. f[o] = step[o][f[hop[o]]]
        <4> HIDE DEF n, stop, base, hop, step
        <4> QED
          BY <1>7
      <3> HIDE DEF step, hop
      <3> QED
        BY <3>1, <3>2
    <2> HIDE DEF n, stop, hop, T
    <2> QED
      BY <1>1, <1>3, <2>1, <2>2, DescentInto
  <1>9. ASSUME NEW o \in 1 .. n PROVE f[o] = Def(f, o)
    <2>1. CASE o \in stop
      BY <1>7, <2>1
    <2>2. CASE o \notin stop
      <3>1. hop[o] \in 1 .. n
        BY <1>3, <2>2 DEF Onward
      <3>2. f[o] = step[o][f[hop[o]]] /\ f[hop[o]] \in T
        BY <1>7, <1>8, <2>2, <3>1
      <3>3. f[o] = <<SubSeq(s, o, First(Later(s, o)) - 1)>> \o f[hop[o]]
        BY <1>5, <2>2, <3>2
      <3> QED
        BY <2>2, <3>3
    <2> QED
      BY <2>1, <2>2
  <1>10. \E g : g = [o \in 1 .. n |-> Def(g, o)]
    <2>1. f = [o \in 1 .. n |-> f[o]]
      <3> HIDE DEF n, stop, base, hop, step
      <3> QED
        BY <1>6 DEF Descent
    <2> HIDE DEF Def
    <2> QED
      BY <1>9, <2>1
  <1> DEFINE from == CHOOSE g : g = [o \in 1 .. n |-> Def(g, o)]
  <1>11. from = [o \in 1 .. n |-> Def(from, o)]
    BY <1>10
  <1>12. \A o : CutFrom(s, o) = from[o]
    BY DEF CutFrom, Later
  <1> HIDE DEF from
  <1>13. \A o \in 1 .. n : from[o] = Def(from, o)
    <2> HIDE DEF Def
    <2> QED
      BY <1>11
  <1>14. \A o \in 1 .. n : from[o] \in T
    <2>1. \A o \in 1 .. n : o \in stop => from[o] \in T
      BY <1>4, <1>13
    <2>2. \A o \in 1 .. n : o \notin stop => (from[hop[o]] \in T => from[o] \in T)
      <3> SUFFICES ASSUME NEW o \in 1 .. n, o \notin stop, from[hop[o]] \in T
                   PROVE  from[o] \in T
        OBVIOUS
      <3>1. hop[o] = First(Later(s, o)) + SEP
        OBVIOUS
      <3>2. from[o] = <<SubSeq(s, o, First(Later(s, o)) - 1)>> \o from[hop[o]]
        BY <1>13, <3>1
      <3>3. <<SubSeq(s, o, First(Later(s, o)) - 1)>> \o from[hop[o]] \in T
        BY <1>5
      <3> HIDE DEF hop, stop, T, n
      <3> QED
        BY <3>2, <3>3
    <2> HIDE DEF n, stop, hop, T
    <2> QED
      BY <1>1, <1>3, <2>1, <2>2, DescentInto
  <1>15. p \in 1 .. n
    OBVIOUS
  <1>16. CutFrom(s, p) \in T
    BY <1>12, <1>14, <1>15
  <1>17. CutFrom(s, p) = Def(from, p)
    BY <1>12, <1>13, <1>15
  <1>18. CutFrom(s, First(Later(s, p)) + SEP) = from[First(Later(s, p)) + SEP]
    BY <1>12
  <1>19. CASE p > Len(s)
    <2>1. CutFrom(s, p) = <<>>
      BY <1>17, <1>19
    <2> QED
      BY <1>1, <1>16, <1>19, <2>1
  <1>20. CASE ~(p > Len(s))
    <2>1. CutFrom(s, p) = IF Later(s, p) = {} THEN <<SubSeq(s, p, Len(s))>>
                          ELSE <<SubSeq(s, p, First(Later(s, p)) - 1)>>
                               \o CutFrom(s, First(Later(s, p)) + SEP)
      BY <1>17, <1>18, <1>20
    <2> QED
      BY <1>16, <1>20, <2>1
  <1> QED
    BY <1>19, <1>20

\* The stream is made of bytes.
LEMMA WrittenShape ==
  ASSUME NEW strs \in Seq(Seq(Byte))
  PROVE  Written(strs) \in Seq(Byte)
  <1> DEFINE n == Len(strs)
             T == Seq(Byte)
             step == [k \in 1 .. n |-> [t \in T |-> t \o strs[k] \o Sep]]
             Def(g, m) == IF m = 0 THEN <<>> ELSE g[m - 1] \o strs[m] \o Sep
  <1>1. n \in Nat
    BY LenProperties
  <1>2. ASSUME NEW k \in 1 .. n, NEW t \in T
        PROVE  /\ t \o strs[k] \o Sep \in T /\ step[k][t] = t \o strs[k] \o Sep
               /\ step[k][t] \in T
    <2>1. strs[k] \in T
      BY ElementOfSeq
    <2>2. t \o strs[k] \in T
      BY <2>1, ConcatProperties
    <2>3. t \o strs[k] \o Sep \in T
      BY <2>2, SepShape, ConcatProperties
    <2> QED
      BY <2>3
  <1>3. PICK f : Recursion(f, n, T, <<>>, step)
    <2>1. <<>> \in T
      OBVIOUS
    <2>2. \A k \in 1 .. n : \A t \in T : step[k][t] \in T
      BY <1>2
    <2> HIDE DEF n, T, step
    <2> QED
      BY <1>1, <2>1, <2>2, RecursionExists
  <1>4. /\ \A m \in 0 .. n : f[m] \in T
        /\ \A m \in 0 .. n : f[m] = IF m = 0 THEN <<>> ELSE step[m][f[m - 1]]
        /\ f = [m \in 0 .. n |-> f[m]]
    <2> HIDE DEF n, T, step
    <2> QED
      BY <1>3 DEF Recursion
  <1>5. ASSUME NEW m \in 0 .. n PROVE f[m] = Def(f, m)
    <2>1. CASE m = 0
      BY <1>4, <2>1
    <2>2. CASE m # 0
      <3>1. m \in 1 .. n /\ m - 1 \in 0 .. n
        BY <1>1, <2>2
      <3>2. f[m] = step[m][f[m - 1]] /\ f[m - 1] \in T
        <4> HIDE DEF n, T, step
        <4> QED
          BY <1>4, <2>2, <3>1
      <3>3. f[m] = f[m - 1] \o strs[m] \o Sep
        BY <1>2, <3>1, <3>2
      <3> QED
        BY <2>2, <3>3
    <2> QED
      BY <2>1, <2>2
  <1>6. \E g : g = [m \in 0 .. n |-> Def(g, m)]
    <2> HIDE DEF Def
    <2> QED
      BY <1>4, <1>5
  <1> DEFINE upto == CHOOSE g : g = [m \in 0 .. n |-> Def(g, m)]
  <1>7. upto = [m \in 0 .. n |-> Def(upto, m)]
    BY <1>6
  <1>8. Written(strs) = upto[n]
    BY DEF Written
  <1> HIDE DEF upto
  <1>9. \A m \in 0 .. n : upto[m] = Def(upto, m)
    <2> HIDE DEF Def
    <2> QED
      BY <1>7
  <1>9a. ASSUME NEW m \in Nat, m + 1 \in 0 .. n
         PROVE  upto[m + 1] = upto[m] \o strs[m + 1] \o Sep
    <2>1. PICK k : k = m + 1
      OBVIOUS
    <2>2. k # 0 /\ k - 1 = m
      BY <2>1
    <2>3. upto[k] = Def(upto, k)
      <3> HIDE DEF Def, n
      <3> QED
        BY <1>9, <1>9a, <2>1
    <2> HIDE DEF n, T, step
    <2> QED
      BY <2>1, <2>2, <2>3
  <1> DEFINE S == {m \in Nat : m <= n => upto[m] \in T}
  <1>10. 0 \in S
    <2>1. 0 \in 0 .. n
      BY <1>1
    <2>2. upto[0] = Def(upto, 0)
      <3> HIDE DEF Def, n
      <3> QED
        BY <1>9, <2>1
    <2>3. upto[0] = <<>>
      BY <2>2
    <2>4. <<>> \in T
      OBVIOUS
    <2> QED
      BY <2>3, <2>4
  <1>11. \A m \in Nat : m \in S => m + 1 \in S
    <2> SUFFICES ASSUME NEW m \in Nat, m + 1 <= n, upto[m] \in T PROVE upto[m + 1] \in T
      BY <1>1
    <2>1. m + 1 \in 1 .. n /\ m + 1 \in 0 .. n
      BY <1>1
    <2> QED
      BY <1>2, <1>9a, <2>1
  <1> HIDE DEF S
  <1>12. n \in S
    BY <1>1, <1>10, <1>11, SetInduction
  <1> QED
    BY <1>8, <1>12 DEF S

\* Where separators begin in a part of a stream.
LEMMA SepsInPart ==
  ASSUME NEW s \in Seq(Byte), NEW c \in Nat \ {0}, NEW e \in Nat, c <= e + 1, e <= Len(s)
  PROVE  \A i \in Int : i \in Seps(SubSeq(s, c, e)) <=>
                          /\ i >= 1 /\ c + i - 1 \in Seps(s) /\ c + i + SEP - 2 <= e
  <1>1. SubSeq(s, c, e) \in Seq(Byte) /\ Len(SubSeq(s, c, e)) = e - c + 1 /\ Len(s) \in Nat
    BY SubSeqParts, LenProperties
  <1> SUFFICES ASSUME NEW i \in Int
               PROVE  i \in Seps(SubSeq(s, c, e)) <=>
                        /\ i >= 1 /\ c + i - 1 \in Seps(s) /\ c + i + SEP - 2 <= e
    OBVIOUS
  <1>2. SEP \in Nat \ {0}
    BY SepShape
  <1> DEFINE u == SubSeq(s, c, e)
  <1>3. i \in Seps(u) <=> i >= 1 /\ i <= (e - c + 1) - SEP + 1 /\ SubSeq(u, i, i + SEP - 1) = Sep
    <2>1. Len(u) = e - c + 1
      BY <1>1
    <2> HIDE DEF u
    <2>2. i \in 1 .. Len(u) - SEP + 1 <=> i >= 1 /\ i <= (e - c + 1) - SEP + 1
      BY <1>2, <2>1
    <2> QED
      BY <2>2 DEF Seps
  <1>4. c + i - 1 \in Seps(s) <=> /\ c + i - 1 >= 1 /\ c + i - 1 <= Len(s) - SEP + 1
                                  /\ SubSeq(s, c + i - 1, (c + i - 1) + SEP - 1) = Sep
    BY <1>1, <1>2 DEF Seps
  <1>5. CASE i >= 1 /\ c + i + SEP - 2 <= e
    <2>0. PICK z \in Int : z = i + SEP - 1
      BY <1>2
    <2>1. /\ i \in Nat \ {0} /\ z \in Nat /\ i <= z + 1 /\ z <= e - c + 1
          /\ c + z - 1 = (c + i - 1) + SEP - 1
      BY <1>2, <1>5, <2>0
    <2>2. SubSeq(u, i, z) = SubSeq(s, c + i - 1, c + z - 1)
      BY <2>1, SubSeqSubSeq
    <2>3. c + i - 1 >= 1 /\ c + i - 1 <= Len(s) - SEP + 1 /\ i <= (e - c + 1) - SEP + 1
      BY <1>1, <1>2, <1>5
    <2> HIDE DEF u
    <2>4. i \in Seps(u) <=> SubSeq(u, i, i + SEP - 1) = Sep
      BY <1>3, <1>5, <2>3
    <2>5. c + i - 1 \in Seps(s) <=> SubSeq(s, c + i - 1, (c + i - 1) + SEP - 1) = Sep
      BY <1>4, <2>3
    <2>6. i \in Seps(u) <=> c + i - 1 \in Seps(s)
      BY <2>0, <2>1, <2>2, <2>4, <2>5
    <2> QED
      BY <1>5, <2>6 DEF u
  <1>6. CASE ~(i >= 1 /\ c + i + SEP - 2 <= e)
    <2> HIDE DEF u
    <2>1. i \notin Seps(u)
      BY <1>2, <1>3, <1>6
    <2> QED
      BY <1>6, <2>1 DEF u
  <1> QED
    BY <1>5, <1>6

\* The first piece of b, and where the rest of it begins in what s is cut into.
NextPiece(s, c, b, n) ==
  LET x == First(Seps(b))
  IN /\ x \in Nat \ {0} /\ x + SEP <= Len(b) + 1
     /\ SubSeq(b, 1, x - 1) \in Seq(Byte)
     /\ CutFrom(SubSeq(s, 1, n), c + x - 1 + SEP) \in Seq(Seq(Byte))
     /\ CutFrom(SubSeq(s, 1, n), c)
          = <<SubSeq(b, 1, x - 1)>> \o CutFrom(SubSeq(s, 1, n), c + x - 1 + SEP)

\* A piece cut off at the first separator of what was read is the next one of the
\* whole, however much more is to come.
LEMMA CutInPart ==
  ASSUME NEW s \in Seq(Byte), NEW c \in Nat \ {0}, NEW e \in Nat, c <= e + 1, e <= Len(s),
         Seps(SubSeq(s, c, e)) # {}, NEW n \in e .. Len(s)
  PROVE  NextPiece(s, c, SubSeq(s, c, e), n)
  <1>0. PICK b, x : b = SubSeq(s, c, e) /\ x = First(Seps(b))
    OBVIOUS
  <1>1. b \in Seq(Byte) /\ Len(b) = e - c + 1 /\ Len(s) \in Nat /\ SEP \in Nat \ {0}
    BY <1>0, SubSeqParts, LenProperties, SepShape
  <1>2. Seps(b) \subseteq Nat /\ \A p \in Seps(b) : p \in Nat \ {0} /\ p + SEP <= Len(b) + 1
    BY <1>1, SepsShape
  <1>3. x \in Seps(b) /\ \A p \in Seps(b) : x <= p
    BY <1>0, <1>2, FirstIsFirst
  <1>4. x \in Nat \ {0} /\ x + SEP <= Len(b) + 1
    BY <1>2, <1>3
  <1>4a. /\ x \in Int /\ e \in Int /\ c \in Int /\ SEP \in Int
         /\ x >= 1 /\ c >= 1 /\ SEP >= 1 /\ x + SEP <= e - c + 2
    BY <1>1, <1>4
  <1> DEFINE t == SubSeq(s, 1, n)
             y == c + x - 1
  <1>5. n \in Nat /\ n >= e /\ n <= Len(s)
    BY <1>1
  <1>6. t \in Seq(Byte) /\ Len(t) = n
    BY <1>1, <1>5, SubSeqParts
  <1>7. \A i \in Int : i \in Seps(t) <=> i >= 1 /\ i \in Seps(s) /\ i + SEP - 1 <= n
    <2>1. 1 <= n + 1
      BY <1>5
    <2>2. \A i \in Int : i \in Seps(t) <=> i >= 1 /\ 1 + i - 1 \in Seps(s) /\ 1 + i + SEP - 2 <= n
      BY <1>5, <2>1, SepsInPart
    <2> HIDE DEF t
    <2> SUFFICES ASSUME NEW i \in Int
                 PROVE  i \in Seps(t) <=> i >= 1 /\ i \in Seps(s) /\ i + SEP - 1 <= n
      OBVIOUS
    <2>3. 1 + i - 1 = i /\ (1 + i + SEP - 2 <= n <=> i + SEP - 1 <= n)
      BY <1>1, <1>5
    <2> QED
      BY <2>2, <2>3
  <1>8. \A i \in Int : i \in Seps(b) <=> i >= 1 /\ c + i - 1 \in Seps(s) /\ c + i + SEP - 2 <= e
    BY <1>0, SepsInPart
  <1> HIDE DEF t
  <1>8a. c + x - 1 \in Seps(s) /\ c + x + SEP - 2 <= e
    <2>1. x \in Int
      BY <1>4
    <2> QED
      BY <1>3, <1>8, <2>1
  <1>8b. /\ x \in Int /\ n \in Int /\ SEP \in Int /\ x >= 1 /\ SEP >= 1 /\ c >= 1
         /\ c + x + SEP <= e + 2 /\ e <= n
    <2>1. n \in Int /\ e <= n
      BY <1>5
    <2> QED
      BY <1>4a, <2>1
  <1>9. y \in Later(t, c) /\ y \in Nat \ {0}
    <2>2. y \in Int /\ y >= 1 /\ y >= c /\ y + SEP - 1 <= n
      BY <1>8b
    <2>3. y \in Seps(t)
      BY <1>7, <1>8a, <2>2
    <2> QED
      BY <2>2, <2>3 DEF Later
  <1>10. ASSUME NEW q \in Later(t, c) PROVE q >= y
    <2>1. q \in Nat \ {0} /\ q >= c /\ q \in Seps(t)
      BY <1>6, SepsShape DEF Later
    <2>2. q \in Seps(s)
      BY <1>7, <2>1
    <2> SUFFICES ASSUME q < y PROVE FALSE
      BY <1>4, <2>1
    <2> DEFINE i == q - c + 1
    <2>4. i \in Int /\ i >= 1 /\ c + i - 1 = q /\ c + i + SEP - 2 <= e /\ i < x
      BY <1>8b, <2>1
    <2>5. i \in Seps(b)
      BY <1>8, <2>2, <2>4
    <2> HIDE DEF i
    <2> QED
      BY <1>3, <1>4, <2>4, <2>5
  <1>11. First(Later(t, c)) = y
    <2>1. Later(t, c) \subseteq Nat
      BY <1>6, SepsShape DEF Later
    <2> HIDE DEF y
    <2>2. \A q \in Later(t, c) : y <= q
      BY <1>9, <1>10, <2>1
    <2> QED
      BY <1>9, <2>1, <2>2, FirstOf
  <1>12. c \in 1 .. Len(t) + 1 /\ c <= Len(t) /\ y + SEP \in 1 .. Len(t) + 1
    BY <1>6, <1>8b
  <1>13. CutFrom(t, c) = <<SubSeq(t, c, y - 1)>> \o CutFrom(t, y + SEP)
    <2> HIDE DEF y
    <2> QED
      BY <1>6, <1>9, <1>11, <1>12, CutFromStep
  <1>14. CutFrom(t, y + SEP) \in Seq(Seq(Byte))
    <2> HIDE DEF y
    <2> QED
      BY <1>6, <1>12, CutFromStep
  <1>15. SubSeq(t, c, y - 1) = SubSeq(s, c, y - 1)
    <2>0. PICK z \in Int : z = y - 1
      BY <1>8b
    <2>1. /\ z \in Nat /\ c <= z + 1 /\ z <= n - 1 + 1 /\ 1 <= n + 1
          /\ 1 + c - 1 = c /\ 1 + z - 1 = z
      BY <1>8b, <2>0
    <2> HIDE DEF y
    <2>2. SubSeq(SubSeq(s, 1, n), c, z) = SubSeq(s, 1 + c - 1, 1 + z - 1)
      BY <1>1, <1>5, <2>1, SubSeqSubSeq
    <2> QED
      BY <2>0, <2>1, <2>2 DEF t
  <1>16. SubSeq(b, 1, x - 1) = SubSeq(s, c, y - 1)
    <2>0. PICK z \in Int : z = x - 1
      BY <1>4a
    <2>1. /\ z \in Nat /\ 1 <= z + 1 /\ z <= e - c + 1 /\ c + 1 - 1 = c /\ c + z - 1 = y - 1
      BY <1>4a, <2>0
    <2>2. SubSeq(SubSeq(s, c, e), 1, z) = SubSeq(s, c + 1 - 1, c + z - 1)
      BY <2>1, SubSeqSubSeq
    <2> QED
      BY <1>0, <2>0, <2>1, <2>2
  <1>17. SubSeq(b, 1, x - 1) \in Seq(Byte)
    BY <1>1, <1>4, SubSeqParts
  <1> QED
    BY <1>0, <1>4, <1>13, <1>14, <1>15, <1>16, <1>17 DEF t, NextPiece

\* What is left when there is no more separator is the last piece.
LEMMA CutRest ==
  ASSUME NEW s \in Seq(Byte), NEW c \in Nat \ {0}, NEW e \in Nat, c <= e + 1, e <= Len(s),
         Seps(SubSeq(s, c, e)) = {}
  PROVE  CutFrom(SubSeq(s, 1, e), c)
           = IF SubSeq(s, c, e) = <<>> THEN <<>> ELSE <<SubSeq(s, c, e)>>
  <1>0. PICK b : b = SubSeq(s, c, e)
    OBVIOUS
  <1>1. b \in Seq(Byte) /\ Len(b) = e - c + 1 /\ Len(s) \in Nat /\ SEP \in Nat \ {0}
    BY <1>0, SubSeqParts, LenProperties, SepShape
  <1> DEFINE t == SubSeq(s, 1, e)
  <1>2. t \in Seq(Byte) /\ Len(t) = e
    BY <1>1, SubSeqParts
  <1>3. SubSeq(t, c, e) = b
    <2>1. c <= e + 1 /\ e <= e - 1 + 1 /\ 1 + c - 1 = c /\ 1 + e - 1 = e /\ 1 <= e + 1
      OBVIOUS
    <2>2. SubSeq(SubSeq(s, 1, e), c, e) = SubSeq(s, 1 + c - 1, 1 + e - 1)
      BY <1>1, <2>1, SubSeqSubSeq
    <2> QED
      BY <1>0, <2>1, <2>2
  <1> HIDE DEF t
  <1>4. Later(t, c) = {}
    <2> SUFFICES ASSUME NEW q \in Later(t, c) PROVE FALSE
      OBVIOUS
    <2>1. q \in Nat \ {0} /\ q + SEP <= e + 1 /\ q >= c /\ q \in Seps(t)
      BY <1>2, SepsShape DEF Later
    <2> DEFINE i == q - c + 1
    <2>2. i \in Int /\ i >= 1 /\ c + i - 1 = q /\ c + i + SEP - 2 <= e
      BY <1>1, <2>1
    <2>3. e <= Len(t)
      BY <1>2
    <2>4. \A k \in Int : k \in Seps(SubSeq(t, c, e)) <=>
                            /\ k >= 1 /\ c + k - 1 \in Seps(t) /\ c + k + SEP - 2 <= e
      BY <1>2, <2>3, SepsInPart
    <2> HIDE DEF i
    <2> QED
      BY <1>0, <1>3, <2>1, <2>2, <2>4
  <1>5. c \in 1 .. Len(t) + 1
    BY <1>2
  <1>6. CASE c > Len(t)
    <2>1. CutFrom(t, c) = <<>>
      BY <1>2, <1>5, <1>6, CutFromStep
    <2>2. b = <<>>
      BY <1>1, <1>2, <1>6, EmptySeq
    <2> QED
      BY <1>0, <2>1, <2>2 DEF t
  <1>7. CASE ~(c > Len(t))
    <2>0. c <= Len(t)
      BY <1>2, <1>7
    <2>1. CutFrom(t, c) = <<SubSeq(t, c, Len(t))>>
      BY <1>2, <1>4, <1>5, <2>0, CutFromStep
    <2>2. b # <<>>
      BY <1>1, <1>2, <1>7
    <2> QED
      BY <1>0, <1>2, <1>3, <2>1, <2>2 DEF t
  <1> QED
    BY <1>6, <1>7

-----------------------------------------------------------------------------
(* The invariant of the hunt.                                              *)

Begin(n) == SubSeq(Stream, 1, n)

HuntTypes ==
  /\ text \in Seq(Seq(Byte))
  /\ sent \in 0 .. Len(Stream)
  /\ pipe \in Seq(Byte) /\ got \in Seq(Byte) /\ buf \in Seq(Byte)
  /\ blocks \in Seq(Seq(Byte))

\* What was handed out is how the stream is cut up to byte c, however much of it
\* is to come.
Going(c) ==
  /\ c \in 1 .. sent + 1
  /\ \A n \in sent .. Len(Stream) : CutFrom(Begin(n), 1) = blocks \o CutFrom(Begin(n), c)

\* All that strings will ever have written was handed out.
Ended == strings \in {"exited", "killed"} /\ blocks = CutFrom(Begin(sent), 1)

\* There may be more.
Prefixed == \E rest \in Seq(Seq(Byte)) : CutFrom(Begin(sent), 1) = blocks \o rest

NoneYet == \A k \in DOMAIN blocks : ~IsVmcoreinfo(blocks[k])

\* What the script and the pipe hold is what the pieces handed out leave over.
Held(c) == buf \o (got \o pipe) = SubSeq(Stream, c, sent)

HuntInv ==
  /\ HuntTypes
  /\ hpc \in {"hunt", "read", "split", "last", "found", "terminate", "end", "over"}
  /\ strings = "exited" => sent = Len(Stream)
  /\ hpc \in {"read", "split", "last", "found", "terminate"} =>
       strings \in {"running", "exited", "killed"}
  /\ hpc = "hunt" => strings = "no"
  /\ hpc \in {"hunt", "read", "split", "last"} =>
       /\ \E c \in 1 .. sent + 1 : Going(c) /\ Held(c)
       /\ NoneYet
  /\ hpc \in {"hunt", "read", "last"} => Seps(buf) = {}
  /\ hpc = "last" => got = <<>> /\ pipe = <<>> /\ strings # "running"
  /\ hpc \in {"found", "terminate"} => Ended \/ \E c \in 1 .. sent + 1 : Going(c)
  /\ hpc = "found" => blocks # <<>> /\ \A k \in 1 .. Len(blocks) - 1 : ~IsVmcoreinfo(blocks[k])
  /\ hpc = "terminate" /\ output = None => Ended /\ NoneYet
  /\ hpc \in {"end", "over"} => Prefixed

LEMMA StreamShape ==
  ASSUME HuntTypes
  PROVE  /\ Stream \in Seq(Byte) /\ Len(Stream) \in Nat /\ sent \in Nat /\ sent <= Len(Stream)
         /\ SubSeq(Stream, 1, Len(Stream)) = Stream
  <1>1. Stream \in Seq(Byte)
    BY WrittenShape DEF HuntTypes, Stream
  <1> HIDE DEF Stream
  <1>2. Len(Stream) \in Nat
    BY <1>1, LenProperties
  <1>3. SubSeq(Stream, 1, Len(Stream)) = Stream
    BY <1>1
  <1> QED
    BY <1>1, <1>2, <1>3 DEF HuntTypes

\* A beginning of the stream, and its pieces from anywhere on.
LEMMA BeginShape ==
  ASSUME HuntTypes, NEW n \in 0 .. Len(Stream), NEW c \in 1 .. n + 1
  PROVE  Begin(n) \in Seq(Byte) /\ Len(Begin(n)) = n /\ CutFrom(Begin(n), c) \in Seq(Seq(Byte))
  <1>1. Stream \in Seq(Byte) /\ Len(Stream) \in Nat
    BY StreamShape
  <1>2. n \in Nat /\ n <= Len(Stream) /\ 1 <= n + 1
    BY <1>1
  <1>3. Begin(n) \in Seq(Byte) /\ Len(Begin(n)) = n
    BY <1>1, <1>2, SubSeqParts DEF Begin
  <1> QED
    BY <1>3, CutFromStep

\* In each case the pieces handed out are the first ones.
LEMMA StillPrefixed ==
  ASSUME HuntTypes, Ended \/ Prefixed \/ \E c \in 1 .. sent + 1 : Going(c)
  PROVE  Prefixed
  <1>1. Len(Stream) \in Nat /\ sent \in Nat /\ sent <= Len(Stream)
    BY StreamShape
  <1>2. CASE Ended
    <2>1. blocks \o <<>> = blocks /\ <<>> \in Seq(Seq(Byte))
      BY ConcatEmptySeq DEF HuntTypes
    <2> QED
      BY <1>2, <2>1 DEF Ended, Prefixed
  <1>3. CASE \E c \in 1 .. sent + 1 : Going(c)
    <2>1. PICK c \in 1 .. sent + 1 : Going(c)
      BY <1>3
    <2>2. sent \in sent .. Len(Stream) /\ sent \in 0 .. Len(Stream)
      BY <1>1
    <2>3. CutFrom(Begin(sent), 1) = blocks \o CutFrom(Begin(sent), c)
      BY <2>1, <2>2 DEF Going
    <2>4. CutFrom(Begin(sent), c) \in Seq(Seq(Byte))
      BY <2>2, BeginShape
    <2> QED
      BY <2>3, <2>4 DEF Prefixed
  <1> QED
    BY <1>2, <1>3

\* The same, in every state of the hunt.
LEMMA HuntPrefixed == HuntInv => Prefixed
  <1> SUFFICES ASSUME HuntInv PROVE Prefixed
    OBVIOUS
  <1>1. HuntTypes
    BY DEF HuntInv
  <1>2. Ended \/ Prefixed \/ \E c \in 1 .. sent + 1 : Going(c)
    BY DEF HuntInv
  <1> QED
    BY <1>1, <1>2, StillPrefixed

\* Before anything is read.
LEMMA HuntStarts ==
  ASSUME text \in Seq(Seq(Byte)), sent = 0, pipe = <<>>, got = <<>>, buf = <<>>, blocks = <<>>
  PROVE  HuntTypes /\ Going(1) /\ Held(1) /\ NoneYet /\ Seps(buf) = {}
  <1>1. Stream \in Seq(Byte)
    BY WrittenShape DEF Stream
  <1> HIDE DEF Stream
  <1>2. Len(Stream) \in Nat /\ SubSeq(Stream, 1, 0) = <<>>
    BY <1>1
  <1>3. <<>> \in Seq(Byte) /\ <<>> \in Seq(Seq(Byte)) /\ <<>> \o (<<>> \o <<>>) = <<>>
    OBVIOUS
  <1>4. HuntTypes
    BY <1>2, <1>3 DEF HuntTypes
  <1>5. Going(1)
    <2> SUFFICES ASSUME NEW n \in 0 .. Len(Stream)
                 PROVE  CutFrom(Begin(n), 1) = <<>> \o CutFrom(Begin(n), 1)
      BY DEF Going
    <2>1. 1 \in 1 .. n + 1
      BY <1>2
    <2>2. CutFrom(Begin(n), 1) \in Seq(Seq(Byte))
      BY <1>4, <2>1, BeginShape
    <2> QED
      BY <2>2, ConcatEmptySeq
  <1>6. Held(1)
    BY <1>2, <1>3 DEF Held
  <1>7. NoneYet
    BY DEF NoneYet
  <1>8. Seps(buf) = {}
    <2> SUFFICES ASSUME NEW p \in Seps(buf) PROVE FALSE
      OBVIOUS
    <2>1. p \in Nat \ {0} /\ p + SEP <= Len(buf) + 1
      BY <1>3, SepsShape
    <2>2. Len(buf) = 0 /\ SEP \in Nat \ {0}
      BY SepShape
    <2> QED
      BY <2>1, <2>2
  <1> QED
    BY <1>4, <1>5, <1>6, <1>7, <1>8

LEMMA HuntInit == RepairInit \/ AloneInit => HuntInv
  <1>1. RepairInit => HuntInv
    <2> SUFFICES ASSUME RepairInit PROVE HuntInv
      OBVIOUS
    <2>1. /\ text \in Texts /\ sent = 0 /\ pipe = <<>> /\ got = <<>> /\ buf = <<>>
          /\ blocks = <<>> /\ strings = "no" /\ hpc = "hunt"
      BY DEF RepairInit, InitFind
    <2>2. text \in Seq(Seq(Byte))
      BY <2>1, FindVmcoreinfoAssumption
    <2>3. HuntTypes /\ Going(1) /\ Held(1) /\ NoneYet /\ Seps(buf) = {}
      BY <2>1, <2>2, HuntStarts
    <2>4. \E c \in 1 .. sent + 1 : Going(c) /\ Held(c)
      BY <2>1, <2>3
    <2> QED
      BY <2>1, <2>3, <2>4 DEF HuntInv
  <1>2. AloneInit => HuntInv
    <2> SUFFICES ASSUME AloneInit PROVE HuntInv
      OBVIOUS
    <2>1. /\ text = <<>> /\ sent = 0 /\ pipe = <<>> /\ got = <<>> /\ buf = <<>>
          /\ blocks = <<>> /\ strings = "no" /\ hpc = "over"
      BY DEF AloneInit
    <2>2. text \in Seq(Seq(Byte))
      BY <2>1
    <2>3. HuntTypes /\ Going(1)
      BY <2>1, <2>2, HuntStarts
    <2>4. Prefixed
      BY <2>1, <2>3, StillPrefixed
    <2> QED
      BY <2>1, <2>3, <2>4 DEF HuntInv
  <1> QED
    BY <1>1, <1>2

-----------------------------------------------------------------------------
(* The steps keep the invariant.                                           *)

\* The stream does not change, nor how it is cut.
LEMMA SameStream ==
  ASSUME text' = text
  PROVE  Stream' = Stream /\ \A n : Begin(n)' = Begin(n)
  <1>1. Stream' = Stream
    BY DEF Stream
  <1> QED
    BY <1>1 DEF Begin

\* What was handed out stays so when strings goes on.
LEMMA StillGoing ==
  ASSUME HuntTypes, text' = text, sent' \in sent .. Len(Stream), blocks' = blocks,
         NEW c, Going(c)
  PROVE  c \in 1 .. sent' + 1 /\ Going(c)'
  <1>1. Stream' = Stream /\ \A n : Begin(n)' = Begin(n)
    BY SameStream
  <1>2. Len(Stream) \in Nat /\ sent \in Nat
    BY StreamShape
  <1>3. c \in 1 .. sent' + 1
    <2>1. PICK a, b : a = sent /\ b = sent'
      OBVIOUS
    <2>2. c \in 1 .. a + 1 /\ a \in Int /\ b \in Int /\ a <= b
      BY <1>2, <2>1 DEF Going
    <2>3. c \in 1 .. b + 1
      BY <2>2
    <2> QED
      BY <2>1, <2>3
  <1>4. \A n \in sent' .. Len(Stream) : n \in sent .. Len(Stream)
    BY <1>2
  <1> QED
    BY <1>1, <1>3, <1>4 DEF Going

\* Steps that leave stream, pipe and pieces alone.
LEMMA SameHunt ==
  ASSUME HuntTypes, UNCHANGED <<text, sent, blocks>>
  PROVE  /\ \A c : Going(c) => Going(c)'
         /\ Prefixed => Prefixed'
         /\ NoneYet => NoneYet'
         /\ Ended /\ strings' = strings => Ended'
         /\ UNCHANGED <<pipe, got, buf>> => \A c : Held(c) => Held(c)'
  <1>1. Stream' = Stream /\ \A n : Begin(n)' = Begin(n)
    BY SameStream
  <1>2. \A c : Going(c) => Going(c)'
    BY <1>1 DEF Going
  <1>3. Prefixed => Prefixed'
    <2>1. Begin(sent)' = Begin(sent)
      BY <1>1 DEF Begin
    <2> QED
      BY <2>1 DEF Prefixed
  <1>4. NoneYet => NoneYet'
    BY DEF NoneYet, IsVmcoreinfo
  <1>5. Ended /\ strings' = strings => Ended'
    <2>1. Begin(sent)' = Begin(sent)
      BY <1>1 DEF Begin
    <2> QED
      BY <2>1 DEF Ended
  <1>6. UNCHANGED <<pipe, got, buf>> => \A c : Held(c) => Held(c)'
    BY <1>1 DEF Held
  <1> QED
    BY <1>2, <1>3, <1>4, <1>5, <1>6

LEMMA WriteKeeps == HuntInv /\ hpc # "over" /\ strings_write => HuntInv'
  <1> SUFFICES ASSUME HuntInv, hpc # "over", strings_write PROVE HuntInv'
    OBVIOUS
  <1>1. /\ strings = "running" /\ text' = text /\ got' = got /\ buf' = buf /\ blocks' = blocks
        /\ output' = output /\ hpc' = hpc
    BY DEF strings_write
  <1>2. HuntTypes /\ Prefixed
    BY HuntPrefixed DEF HuntInv
  <1>3. Stream \in Seq(Byte) /\ Len(Stream) \in Nat /\ sent \in Nat /\ sent <= Len(Stream)
    BY <1>2, StreamShape
  <1>4. Stream' = Stream /\ \A n : Begin(n)' = Begin(n)
    BY <1>1, SameStream
  <1>5. NoneYet => NoneYet'
    BY <1>1 DEF NoneYet, IsVmcoreinfo
  <1>6. CASE hpc = "end"
    <2>1. strings' = "killed" /\ sent' = sent /\ pipe' = pipe
      BY <1>6 DEF strings_write
    <2>2. Prefixed'
      BY <1>1, <1>2, <2>1, SameHunt
    <2>3. HuntTypes'
      BY <1>1, <1>2, <1>4, <2>1 DEF HuntTypes
    <2> QED
      BY <1>1, <1>6, <2>1, <2>2, <2>3 DEF HuntInv
  <1>7. CASE hpc # "end"
    <2>1. PICK n \in 1 .. PIPE - Len(pipe) :
            /\ sent + n <= Len(Stream) /\ sent' = sent + n
            /\ pipe' = pipe \o SubSeq(Stream, sent + 1, sent + n) /\ strings' = strings
      BY <1>7 DEF strings_write
    <2>2. n \in Nat \ {0}
      <3>1. Len(pipe) \in Nat /\ PIPE \in Nat
        BY <1>2, LenProperties, FindVmcoreinfoAssumption DEF HuntTypes
      <3> QED
        BY <3>1
    <2>3. sent' \in sent .. Len(Stream) /\ sent' \in 0 .. Len(Stream)
      BY <1>3, <2>1, <2>2
    <2>4. PICK more : more = SubSeq(Stream, sent + 1, sent + n)
      OBVIOUS
    <2>5. more \in Seq(Byte)
      BY <1>3, <2>1, <2>2, <2>4, SubSeqParts
    <2>6. pipe' \in Seq(Byte) /\ pipe' = pipe \o more
      BY <1>2, <2>1, <2>4, <2>5, ConcatProperties DEF HuntTypes
    <2>7. HuntTypes'
      BY <1>1, <1>2, <1>4, <2>3, <2>6 DEF HuntTypes
    <2>8. ASSUME NEW c \in 1 .. sent + 1, Going(c), Held(c)
          PROVE  c \in 1 .. sent' + 1 /\ Going(c)' /\ Held(c)'
      <3>1. c \in 1 .. sent' + 1 /\ Going(c)'
        BY <1>1, <1>2, <2>3, <2>8, StillGoing
      <3>2. SubSeq(Stream, c, sent) \o SubSeq(Stream, sent + 1, sent + n)
              = SubSeq(Stream, c, sent + n)
        <4>1. c \in Nat \ {0} /\ c <= sent + 1 /\ sent + n \in Nat /\ sent <= sent + n
          BY <1>3, <2>2
        <4> QED
          BY <1>3, <2>1, <4>1, SubSeqJoin
      <3>3. /\ got \in Seq(Byte) /\ pipe \in Seq(Byte) /\ buf \in Seq(Byte)
            /\ got \o pipe \in Seq(Byte)
        BY <1>2, ConcatProperties DEF HuntTypes
      <3>4. LastOutside(buf, got, pipe, more)
        BY <2>5, <3>3, ConcatLast
      <3>5. Held(c)'
        BY <1>1, <1>4, <2>1, <2>4, <2>6, <2>8, <3>2, <3>4 DEF Held, LastOutside
      <3> QED
        BY <3>1, <3>5
    <2>9. hpc \in {"found", "terminate"} => \E c \in 1 .. sent' + 1 : Going(c)'
      <3> SUFFICES ASSUME hpc \in {"found", "terminate"}
                   PROVE  \E c \in 1 .. sent' + 1 : Going(c)'
        OBVIOUS
      <3>1. PICK c \in 1 .. sent + 1 : Going(c)
        BY <1>1 DEF HuntInv, Ended
      <3> QED
        BY <1>1, <1>2, <2>3, <3>1, StillGoing
    <2>10. hpc \in {"read", "split"} => \E c \in 1 .. sent' + 1 : Going(c)' /\ Held(c)'
      <3> SUFFICES ASSUME hpc \in {"read", "split"}
                   PROVE  \E c \in 1 .. sent' + 1 : Going(c)' /\ Held(c)'
        OBVIOUS
      <3>1. PICK c \in 1 .. sent + 1 : Going(c) /\ Held(c)
        BY DEF HuntInv
      <3> QED
        BY <2>8, <3>1
    <2>11. hpc \in {"read", "split", "found", "terminate"} /\ ~(hpc = "terminate" /\ output = None)
      BY <1>1, <1>7 DEF HuntInv, Ended
    <2> QED
      BY <1>1, <1>5, <2>1, <2>7, <2>9, <2>10, <2>11 DEF HuntInv, Seps
  <1> QED
    BY <1>6, <1>7

\* strings ends.
LEMMA StringsEnds ==
  ASSUME HuntInv, strings = "running",
         strings' = "killed" \/ (strings' = "exited" /\ sent = Len(Stream)),
         UNCHANGED <<text, sent, pipe, got, buf, blocks, output, hpc>>
  PROVE  HuntInv'
  <1>1. HuntTypes
    BY DEF HuntInv
  <1>2. Stream' = Stream
    BY SameStream
  <1>3. HuntTypes'
    BY <1>1, <1>2 DEF HuntTypes
  <1>4. /\ \A c : Going(c) => Going(c)'
        /\ Prefixed => Prefixed'
        /\ NoneYet => NoneYet'
        /\ \A c : Held(c) => Held(c)'
    BY <1>1, SameHunt
  <1>5. ~Ended
    BY DEF Ended
  <1>6. Seps(buf)' = Seps(buf)
    BY DEF Seps
  <1>7. hpc \in {"read", "split", "last"} => \E c \in 1 .. sent' + 1 : Going(c)' /\ Held(c)'
    BY <1>4 DEF HuntInv
  <1>8. hpc \in {"found", "terminate"} => \E c \in 1 .. sent' + 1 : Going(c)'
    BY <1>4, <1>5 DEF HuntInv
  <1>9. hpc \in {"found"} => \A k \in 1 .. Len(blocks') - 1 : ~IsVmcoreinfo(blocks[k])'
    BY DEF HuntInv, IsVmcoreinfo
  <1> QED
    BY <1>2, <1>3, <1>4, <1>5, <1>6, <1>7, <1>8, <1>9 DEF HuntInv

LEMMA PopenKeeps == HuntInv /\ Popen => HuntInv'
  <1> SUFFICES ASSUME HuntInv, Popen PROVE HuntInv'
    OBVIOUS
  <1>1. /\ hpc = "hunt" /\ hpc' = "read" /\ strings' = "running"
        /\ UNCHANGED <<text, sent, pipe, got, buf, blocks, output>>
    BY DEF Popen
  <1>2. HuntTypes
    BY DEF HuntInv
  <1>3. Stream' = Stream
    BY <1>1, SameStream
  <1>4. HuntTypes'
    BY <1>1, <1>2, <1>3 DEF HuntTypes
  <1>5. (\A c : Going(c) => Going(c)') /\ (NoneYet => NoneYet') /\ (\A c : Held(c) => Held(c)')
    BY <1>1, <1>2, SameHunt
  <1>6. \E c \in 1 .. sent' + 1 : Going(c)' /\ Held(c)'
    BY <1>1, <1>5 DEF HuntInv
  <1>7. Seps(buf)' = {}
    BY <1>1 DEF HuntInv, Seps
  <1> QED
    BY <1>1, <1>4, <1>5, <1>6, <1>7 DEF HuntInv

LEMMA ReadWaitKeeps == HuntInv /\ read_wait => HuntInv'
  <1> SUFFICES ASSUME HuntInv, read_wait PROVE HuntInv'
    OBVIOUS
  <1>1. /\ hpc = "read" /\ hpc' = "read"
        /\ UNCHANGED <<text, sent, strings, buf, blocks, output>>
    BY DEF read_wait
  <1>2. HuntTypes
    BY DEF HuntInv
  <1>3. Stream' = Stream
    BY <1>1, SameStream
  <1>4. PICK n \in 1 .. BS - Len(got) :
          /\ n <= Len(pipe)
          /\ got' = got \o SubSeq(pipe, 1, n) /\ pipe' = SubSeq(pipe, n + 1, Len(pipe))
    BY DEF read_wait
  <1>5. PICK s, t : s = SubSeq(pipe, 1, n) /\ t = SubSeq(pipe, n + 1, Len(pipe))
    OBVIOUS
  <1>6. pipe \in Seq(Byte) /\ got \in Seq(Byte) /\ buf \in Seq(Byte)
    BY <1>2 DEF HuntTypes
  <1>7. n \in 0 .. Len(pipe)
    BY <1>4, <1>6, LenProperties, SepShape
  <1>8. s \in Seq(Byte) /\ t \in Seq(Byte) /\ s \o t = pipe
    BY <1>5, <1>6, <1>7, SplitAt
  <1>9. got' = got \o s /\ pipe' = t /\ got' \in Seq(Byte) /\ got' \o pipe' = got \o pipe
    <2>1. got \o s \in Seq(Byte)
      BY <1>6, <1>8, ConcatProperties
    <2>2. (got \o s) \o t = got \o (s \o t)
      <3>1. got \in Seq(Byte) /\ s \in Seq(Byte) /\ t \in Seq(Byte)
        BY <1>6, <1>8
      <3> QED
        BY <3>1, ConcatBytes
    <2> QED
      BY <1>4, <1>5, <1>8, <2>1, <2>2
  <1>10. HuntTypes'
    BY <1>1, <1>2, <1>3, <1>8, <1>9 DEF HuntTypes
  <1>11. (\A c : Going(c) => Going(c)') /\ (NoneYet => NoneYet')
    BY <1>1, <1>2, SameHunt
  <1>12. \A c : Held(c) => Held(c)'
    BY <1>1, <1>3, <1>9 DEF Held
  <1>13. \E c \in 1 .. sent' + 1 : Going(c)' /\ Held(c)'
    BY <1>1, <1>11, <1>12 DEF HuntInv
  <1>14. Seps(buf)' = {}
    BY <1>1 DEF HuntInv, Seps
  <1> QED
    BY <1>1, <1>3, <1>10, <1>11, <1>13, <1>14 DEF HuntInv

LEMMA ReadKeeps == HuntInv /\ read => HuntInv'
  <1> SUFFICES ASSUME HuntInv, read PROVE HuntInv'
    OBVIOUS
  <1>1. /\ hpc = "read" /\ got' = <<>>
        /\ UNCHANGED <<text, sent, pipe, strings, blocks, output>>
    BY DEF read
  <1>2. HuntTypes
    BY DEF HuntInv
  <1>3. Stream' = Stream
    BY <1>1, SameStream
  <1>4. (\A c : Going(c) => Going(c)') /\ (NoneYet => NoneYet')
    BY <1>1, <1>2, SameHunt
  <1>5. pipe \in Seq(Byte) /\ got \in Seq(Byte) /\ buf \in Seq(Byte) /\ <<>> \in Seq(Byte)
    BY <1>2 DEF HuntTypes
  <1>6. CASE got = <<>>
    <2>1. hpc' = "last" /\ buf' = buf
      BY <1>6 DEF read, IsEof
    <2>2. pipe = <<>> /\ strings # "running"
      <3>1. Len(got) # BS
        BY <1>6, SepShape
      <3> QED
        BY <3>1 DEF read
    <2>3. HuntTypes'
      BY <1>1, <1>2, <1>3, <1>5, <2>1 DEF HuntTypes
    <2>4. \A c : Held(c) => Held(c)'
      BY <1>1, <1>3, <1>6, <2>1 DEF Held
    <2>5. \E c \in 1 .. sent' + 1 : Going(c)' /\ Held(c)'
      BY <1>1, <1>4, <2>4 DEF HuntInv
    <2>6. Seps(buf)' = {}
      BY <1>1, <2>1 DEF HuntInv, Seps
    <2> QED
      BY <1>1, <1>3, <1>4, <2>1, <2>2, <2>3, <2>5, <2>6 DEF HuntInv
  <1>7. CASE got # <<>>
    <2>1. hpc' = "split" /\ buf' = buf \o got
      BY <1>7 DEF read, IsEof, Extended
    <2>2. buf' \in Seq(Byte)
      BY <1>5, <2>1, ConcatProperties
    <2>3. HuntTypes'
      BY <1>1, <1>2, <1>3, <1>5, <2>2 DEF HuntTypes
    <2>4. buf' \o (got' \o pipe') = buf \o (got \o pipe)
      <3>1. <<>> \o pipe = pipe
        BY <1>5, ConcatEmptySeq
      <3>2. (buf \o got) \o pipe = buf \o (got \o pipe)
        BY <1>5, ConcatBytes
      <3> QED
        BY <1>1, <2>1, <3>1, <3>2
    <2>5. \A c : Held(c) => Held(c)'
      BY <1>1, <1>3, <2>4 DEF Held
    <2>6. \E c \in 1 .. sent' + 1 : Going(c)' /\ Held(c)'
      BY <1>1, <1>4, <2>5 DEF HuntInv
    <2> QED
      BY <1>1, <1>3, <1>4, <2>1, <2>3, <2>6 DEF HuntInv
  <1> QED
    BY <1>6, <1>7

\* Two sequences are one part of a sequence.
Together(b, g, s, c, v) == b \o g = SubSeq(s, c, v)

\* What is left of b, and of g behind it, when the first piece of b is cut off,
\* and how that goes on with the pieces of s.
CutOffLeaves(s, c, v, b, g) ==
  LET x == First(Seps(b))
      rest == SubSeq(b, x + SEP, Len(b))
  IN /\ SubSeq(b, 1, x - 1) \in Seq(Byte) /\ rest \in Seq(Byte)
     /\ \E d \in 1 .. v + 1 :
          /\ Together(rest, g, s, d, v)
          /\ \A n \in v .. Len(s) :
               /\ CutFrom(SubSeq(s, 1, n), d) \in Seq(Seq(Byte))
               /\ CutFrom(SubSeq(s, 1, n), c)
                    = <<SubSeq(b, 1, x - 1)>> \o CutFrom(SubSeq(s, 1, n), d)

LEMMA CutOff ==
  ASSUME NEW s \in Seq(Byte), NEW c \in Nat \ {0}, NEW v \in Nat, c <= v + 1, v <= Len(s),
         NEW b \in Seq(Byte), NEW g \in Seq(Byte), Together(b, g, s, c, v), Seps(b) # {}
  PROVE  CutOffLeaves(s, c, v, b, g)
  <1>0. PICK x, m : x = First(Seps(b)) /\ m = Len(b)
    OBVIOUS
  <1>1. PICK all : all = SubSeq(s, c, v)
    OBVIOUS
  <1>2. all \in Seq(Byte) /\ Len(all) = v - c + 1 /\ Len(s) \in Nat /\ SEP \in Nat \ {0}
    BY <1>1, SubSeqParts, LenProperties, SepShape
  <1>3. m \in Nat /\ m <= Len(all) /\ b = SubSeq(all, 1, m) /\ g = SubSeq(all, m + 1, Len(all))
    <2>1. b \o g = all
      BY <1>1 DEF Together
    <2> QED
      BY <1>0, <2>1, ConcatParts
  <1>4. PICK e \in Int : e = c + m - 1
    <2>1. m \in Nat
      BY <1>3
    <2>2. c + m - 1 \in Int
      BY <2>1
    <2> QED
      BY <2>2
  <1>5. /\ m \in Nat /\ e \in Nat /\ c <= e + 1 /\ e <= v /\ e <= Len(s)
        /\ m <= v - c + 1 /\ m = e - c + 1
    BY <1>2, <1>3, <1>4
  <1>6. b = SubSeq(s, c, e)
    <2>1. 1 <= m + 1 /\ c + 1 - 1 = c
      BY <1>3
    <2>2. SubSeq(SubSeq(s, c, v), 1, m) = SubSeq(s, c + 1 - 1, c + m - 1)
      BY <1>3, <1>5, <2>1, SubSeqSubSeq
    <2> QED
      BY <1>1, <1>3, <1>4, <2>1, <2>2
  <1>7. g = SubSeq(s, e + 1, v)
    <2>1. PICK k, p : k = Len(all) /\ p = m + 1
      OBVIOUS
    <2>2. /\ p \in Nat \ {0} /\ k \in Nat /\ p <= k + 1 /\ k <= v - c + 1
          /\ c + p - 1 = e + 1 /\ c + k - 1 = v
      BY <1>2, <1>3, <1>5, <2>1
    <2>3. SubSeq(SubSeq(s, c, v), p, k) = SubSeq(s, c + p - 1, c + k - 1)
      BY <2>2, SubSeqSubSeq
    <2> QED
      BY <1>1, <1>3, <2>1, <2>2, <2>3
  <1>8. x \in Nat \ {0} /\ x + SEP <= m + 1
    <2>1. Seps(b) \subseteq Nat /\ \A p \in Seps(b) : p \in Nat \ {0} /\ p + SEP <= m + 1
      BY <1>0, SepsShape
    <2>2. x \in Seps(b)
      BY <1>0, <2>1, FirstIsFirst
    <2> QED
      BY <2>1, <2>2
  <1>8a. /\ SEP \in Int /\ x \in Int /\ m \in Int /\ e \in Int
         /\ x >= 1 /\ SEP >= 1 /\ m = e - c + 1 /\ e <= v /\ x + SEP <= m + 1
    BY <1>5, <1>8, SepShape
  <1>9. PICK a \in Int : a = x + SEP
    BY <1>8a
  <1>9a. PICK d \in Int : d = c + x - 1 + SEP
    BY <1>8a
  <1>10. ASSUME NEW n \in e .. Len(s)
         PROVE  /\ SubSeq(b, 1, x - 1) \in Seq(Byte)
                /\ CutFrom(SubSeq(s, 1, n), d) \in Seq(Seq(Byte))
                /\ CutFrom(SubSeq(s, 1, n), c)
                     = <<SubSeq(b, 1, x - 1)>> \o CutFrom(SubSeq(s, 1, n), d)
    <2>1. /\ c \in Nat \ {0} /\ e \in Nat /\ c <= e + 1 /\ e <= Len(s)
          /\ Seps(SubSeq(s, c, e)) # {}
      BY <1>5, <1>6
    <2>2. NextPiece(s, c, SubSeq(s, c, e), n)
      BY <2>1, CutInPart
    <2>3. NextPiece(s, c, b, n)
      BY <1>6, <2>2
    <2>4. /\ SubSeq(b, 1, x - 1) \in Seq(Byte)
          /\ CutFrom(SubSeq(s, 1, n), c + x - 1 + SEP) \in Seq(Seq(Byte))
          /\ CutFrom(SubSeq(s, 1, n), c)
               = <<SubSeq(b, 1, x - 1)>> \o CutFrom(SubSeq(s, 1, n), c + x - 1 + SEP)
      BY <1>0, <2>3 DEF NextPiece
    <2> QED
      BY <1>9a, <2>4, Zenon
  <1>11. SubSeq(b, 1, x - 1) \in Seq(Byte)
    <2>1. e \in e .. Len(s)
      BY <1>2, <1>5
    <2> QED
      BY <1>10, <2>1
  <1>12. /\ d \in Int /\ d >= 1 /\ d <= e + 1 /\ d <= v + 1 /\ a >= 1 /\ a <= m + 1
         /\ c + a - 1 = d /\ c + m - 1 = e
    BY <1>8a, <1>9, <1>9a
  <1>12c. /\ d \in 1 .. v + 1 /\ d \in Nat \ {0} /\ a \in Nat \ {0} /\ a <= m + 1 /\ m \in Nat
          /\ e \in Nat /\ c <= e + 1 /\ m <= e - c + 1 /\ c + a - 1 = d /\ c + m - 1 = e
          /\ d <= e + 1
    BY <1>5, <1>12
  <1>13. SubSeq(b, a, m) = SubSeq(s, d, e) /\ SubSeq(b, a, m) \in Seq(Byte)
    <2>1. SubSeq(SubSeq(s, c, e), a, m) = SubSeq(s, c + a - 1, c + m - 1)
      BY <1>5, <1>12c, SubSeqSubSeq
    <2>2. SubSeq(s, d, e) \in Seq(Byte)
      BY <1>5, <1>12c, SubSeqParts
    <2> QED
      BY <1>6, <1>12c, <2>1, <2>2
  <1>14. Together(SubSeq(b, a, m), g, s, d, v)
    <2>1. SubSeq(s, d, e) \o SubSeq(s, e + 1, v) = SubSeq(s, d, v)
      BY <1>5, <1>12c, SubSeqJoin
    <2> QED
      BY <1>7, <1>13, <2>1 DEF Together
  <1>15. \A n \in v .. Len(s) : n \in e .. Len(s)
    BY <1>2, <1>5
  <1> QED
    BY <1>0, <1>9, <1>10, <1>11, <1>12c, <1>13, <1>14, <1>15 DEF CutOffLeaves

LEMMA SplitKeeps == HuntInv /\ split => HuntInv'
  <1> SUFFICES ASSUME HuntInv, split PROVE HuntInv'
    OBVIOUS
  <1>1. hpc = "split" /\ UNCHANGED <<text, sent, pipe, strings, got, output>>
    BY DEF split
  <1>2. HuntTypes /\ NoneYet
    BY <1>1 DEF HuntInv
  <1>3. Stream' = Stream /\ \A n : Begin(n)' = Begin(n)
    BY <1>1, SameStream
  <1>4. PICK c \in 1 .. sent + 1 : Going(c) /\ Held(c)
    BY <1>1 DEF HuntInv
  <1>5. CASE Seps(buf) = {}
    <2>1. hpc' = "read" /\ UNCHANGED <<buf, blocks>>
      BY <1>5 DEF split
    <2>2. HuntTypes'
      BY <1>1, <1>2, <1>3, <2>1 DEF HuntTypes
    <2>3. (\A d : Going(d) => Going(d)') /\ NoneYet' /\ (\A d : Held(d) => Held(d)')
      BY <1>1, <1>2, <2>1, SameHunt
    <2>4. \E d \in 1 .. sent' + 1 : Going(d)' /\ Held(d)'
      BY <1>1, <1>4, <2>3
    <2>5. Seps(buf)' = {}
      BY <1>5, <2>1 DEF Seps
    <2> QED
      BY <1>1, <1>3, <2>1, <2>2, <2>3, <2>4, <2>5 DEF HuntInv
  <1>6. CASE Seps(buf) # {}
    <2>1. PICK x, m : x = First(Seps(buf)) /\ m = Len(buf)
      OBVIOUS
    <2>2. PICK piece, rest, gp : /\ piece = SubSeq(buf, 1, x - 1)
                                 /\ rest = SubSeq(buf, x + SEP, m) /\ gp = got \o pipe
      OBVIOUS
    <2>3. /\ blocks' = Append(blocks, piece) /\ buf' = rest
          /\ hpc' = IF IsVmcoreinfo(piece) THEN "found" ELSE "split"
      BY <1>6, <2>1, <2>2 DEF split, Yield
    <2>4. /\ Stream \in Seq(Byte) /\ Len(Stream) \in Nat /\ sent \in Nat /\ sent <= Len(Stream)
          /\ c \in Nat \ {0} /\ c <= sent + 1 /\ buf \in Seq(Byte) /\ gp \in Seq(Byte)
          /\ blocks \in Seq(Seq(Byte)) /\ got \in Seq(Byte) /\ pipe \in Seq(Byte)
      BY <1>2, <2>2, StreamShape, ConcatProperties DEF HuntTypes
    <2>5. /\ piece \in Seq(Byte) /\ rest \in Seq(Byte)
          /\ \E d \in 1 .. sent + 1 :
               /\ Together(rest, gp, Stream, d, sent)
               /\ \A n \in sent .. Len(Stream) :
                    /\ CutFrom(Begin(n), d) \in Seq(Seq(Byte))
                    /\ CutFrom(Begin(n), c) = <<piece>> \o CutFrom(Begin(n), d)
      <3>1. Together(buf, gp, Stream, c, sent)
        BY <1>4, <2>2 DEF Together, Held
      <3>2. CutOffLeaves(Stream, c, sent, buf, gp)
        BY <1>6, <2>4, <3>1, CutOff
      <3> QED
        BY <2>1, <2>2, <3>2, Zenon DEF CutOffLeaves, Begin
    <2>6. PICK d \in 1 .. sent + 1 :
               /\ Together(rest, gp, Stream, d, sent)
               /\ \A n \in sent .. Len(Stream) :
                    /\ CutFrom(Begin(n), d) \in Seq(Seq(Byte))
                    /\ CutFrom(Begin(n), c) = <<piece>> \o CutFrom(Begin(n), d)
      BY <2>5
    <2>7. PICK p : p = <<piece>>
      OBVIOUS
    <2>8. p \in Seq(Seq(Byte)) /\ blocks' = blocks \o p /\ blocks' \in Seq(Seq(Byte))
      <3>1. blocks \in Seq(Seq(Byte)) /\ piece \in Seq(Byte)
        BY <2>4, <2>5
      <3> QED
        BY <2>3, <2>7, <3>1, AppendPiece, Zenon
    <2>9. Held(d)'
      BY <1>1, <1>3, <2>2, <2>3, <2>6 DEF Held, Together
    <2>10. ASSUME NEW n \in sent .. Len(Stream)
           PROVE  CutFrom(Begin(n), 1) = blocks' \o CutFrom(Begin(n), d)
      <3>1. PICK t : t = CutFrom(Begin(n), d)
        OBVIOUS
      <3>2. t \in Seq(Seq(Byte)) /\ CutFrom(Begin(n), c) = p \o t
        BY <2>6, <2>7, <3>1
      <3>3. CutFrom(Begin(n), 1) = blocks \o (p \o t)
        BY <1>4, <3>2 DEF Going
      <3>4. (blocks \o p) \o t = blocks \o (p \o t)
        BY <2>4, <2>8, <3>2, ConcatPieces
      <3> QED
        BY <2>8, <3>1, <3>3, <3>4
    <2>11. Going(d)'
      BY <1>1, <1>3, <2>6, <2>10 DEF Going
    <2>12. HuntTypes'
      BY <1>1, <1>2, <1>3, <2>3, <2>5, <2>8 DEF HuntTypes
    <2>13. \E k \in 1 .. sent' + 1 : Going(k)' /\ Held(k)'
      BY <1>1, <2>6, <2>9, <2>11
    <2>14. /\ blocks' # <<>> /\ Len(blocks') = Len(blocks) + 1
           /\ \A k \in DOMAIN blocks : blocks'[k] = blocks[k]
           /\ blocks'[Len(blocks')] = piece /\ DOMAIN blocks = 1 .. Len(blocks)
           /\ DOMAIN blocks' = 1 .. Len(blocks) + 1 /\ Len(blocks) \in Nat
      <3>1. PICK w, T : w = blocks' /\ T = Seq(Byte)
        OBVIOUS
      <3>2. blocks \in Seq(T) /\ piece \in T /\ w = Append(blocks, piece)
        BY <2>3, <2>4, <2>5, <3>1
      <3>3. /\ w # <<>> /\ Len(blocks) \in Nat /\ Len(w) = Len(blocks) + 1
            /\ \A k \in DOMAIN blocks : w[k] = blocks[k]
            /\ w[Len(w)] = piece /\ DOMAIN blocks = 1 .. Len(blocks)
            /\ DOMAIN w = 1 .. Len(blocks) + 1
        BY <3>2, AppendShape
      <3> QED
        BY <3>1, <3>3
    <2>15. \A k \in 1 .. Len(blocks') - 1 : ~IsVmcoreinfo(blocks'[k])
      BY <1>2, <2>14 DEF NoneYet
    <2>16. ~IsVmcoreinfo(piece) => NoneYet'
      <3> SUFFICES ASSUME ~IsVmcoreinfo(piece) PROVE \A k \in DOMAIN blocks' : ~IsVmcoreinfo(blocks'[k])
        BY DEF NoneYet, IsVmcoreinfo
      <3> QED
        BY <2>14, <2>15
    <2>17. \A k \in 1 .. Len(blocks') - 1 : ~IsVmcoreinfo(blocks[k])'
      BY <2>15 DEF IsVmcoreinfo
    <2> QED
      BY <1>1, <1>3, <2>3, <2>12, <2>13, <2>14, <2>16, <2>17 DEF HuntInv
  <1> QED
    BY <1>5, <1>6

LEMMA LastKeeps == HuntInv /\ last => HuntInv'
  <1> SUFFICES ASSUME HuntInv, last PROVE HuntInv'
    OBVIOUS
  <1>1. hpc = "last" /\ UNCHANGED <<text, sent, pipe, strings, got, buf, output>>
    BY DEF last
  <1>2. /\ HuntTypes /\ NoneYet /\ Seps(buf) = {} /\ got = <<>> /\ pipe = <<>>
        /\ strings \in {"exited", "killed"}
    BY <1>1 DEF HuntInv
  <1>3. Stream' = Stream /\ \A n : Begin(n)' = Begin(n)
    BY <1>1, SameStream
  <1>4. PICK c \in 1 .. sent + 1 : Going(c) /\ Held(c)
    BY <1>1 DEF HuntInv
  <1>5. /\ Stream \in Seq(Byte) /\ Len(Stream) \in Nat /\ sent \in Nat /\ sent <= Len(Stream)
        /\ c \in Nat \ {0} /\ c <= sent + 1 /\ buf \in Seq(Byte) /\ blocks \in Seq(Seq(Byte))
    BY <1>2, StreamShape DEF HuntTypes
  <1>6. buf = SubSeq(Stream, c, sent)
    <2>1. PICK w : w = SubSeq(Stream, c, sent)
      OBVIOUS
    <2>2. buf \o (got \o pipe) = w
      BY <1>4, <2>1 DEF Held
    <2>3. got \o pipe = <<>>
      BY <1>2, ConcatEmptySeq
    <2>4. buf \o <<>> = buf
      BY <1>5, ConcatEmptySeq
    <2>5. buf = w
      BY <2>2, <2>3, <2>4, Zenon
    <2> QED
      BY <2>1, <2>5
  <1>7. CutFrom(Begin(sent), c) = IF buf = <<>> THEN <<>> ELSE <<buf>>
    <2>1. Seps(SubSeq(Stream, c, sent)) = {}
      BY <1>2, <1>6
    <2>2. CutFrom(SubSeq(Stream, 1, sent), c)
            = IF SubSeq(Stream, c, sent) = <<>> THEN <<>> ELSE <<SubSeq(Stream, c, sent)>>
      BY <1>5, <2>1, CutRest
    <2> QED
      BY <1>6, <2>2 DEF Begin
  <1>8. CutFrom(Begin(sent), 1) = blocks \o CutFrom(Begin(sent), c)
    <2>1. sent \in sent .. Len(Stream)
      BY <1>5
    <2> QED
      BY <1>4, <2>1 DEF Going
  <1>9. CASE buf = <<>>
    <2>1. hpc' = "terminate" /\ blocks' = blocks
      BY <1>9 DEF last
    <2>2. blocks = CutFrom(Begin(sent), 1)
      BY <1>5, <1>7, <1>8, <1>9, ConcatEmptySeq
    <2>3. Ended'
      <3>1. Begin(sent)' = Begin(sent)
        BY <1>1, <1>3 DEF Begin
      <3> QED
        BY <1>1, <1>2, <2>1, <2>2, <3>1 DEF Ended
    <2>4. NoneYet' /\ HuntTypes'
      BY <1>1, <1>2, <1>3, <2>1 DEF NoneYet, IsVmcoreinfo, HuntTypes
    <2> QED
      BY <1>1, <1>2, <1>3, <2>1, <2>3, <2>4 DEF HuntInv
  <1>10. CASE buf # <<>>
    <2>1. /\ blocks' = Append(blocks, buf)
          /\ hpc' = IF IsVmcoreinfo(buf) THEN "found" ELSE "terminate"
      BY <1>10 DEF last, Yield
    <2>2. blocks' = CutFrom(Begin(sent), 1) /\ blocks' \in Seq(Seq(Byte))
      <3>1. Append(blocks, buf) = blocks \o <<buf>> /\ Append(blocks, buf) \in Seq(Seq(Byte))
        BY <1>5, AppendPiece
      <3> QED
        BY <1>7, <1>8, <1>10, <2>1, <3>1
    <2>3. Ended'
      <3>1. Begin(sent)' = Begin(sent)
        BY <1>1, <1>3 DEF Begin
      <3> QED
        BY <1>1, <1>2, <2>2, <3>1 DEF Ended
    <2>4. HuntTypes'
      BY <1>1, <1>2, <1>3, <2>2 DEF HuntTypes
    <2>5. /\ blocks' # <<>> /\ Len(blocks') = Len(blocks) + 1
          /\ \A k \in DOMAIN blocks : blocks'[k] = blocks[k]
          /\ blocks'[Len(blocks')] = buf /\ DOMAIN blocks = 1 .. Len(blocks)
          /\ DOMAIN blocks' = 1 .. Len(blocks) + 1 /\ Len(blocks) \in Nat
      <3>1. PICK w, T, b : w = blocks' /\ T = Seq(Byte) /\ b = buf
        OBVIOUS
      <3>2. blocks \in Seq(T) /\ b \in T /\ w = Append(blocks, b)
        BY <1>5, <2>1, <3>1
      <3>3. /\ w # <<>> /\ Len(blocks) \in Nat /\ Len(w) = Len(blocks) + 1
            /\ \A k \in DOMAIN blocks : w[k] = blocks[k]
            /\ w[Len(w)] = b /\ DOMAIN blocks = 1 .. Len(blocks)
            /\ DOMAIN w = 1 .. Len(blocks) + 1
        BY <3>2, AppendShape
      <3> QED
        BY <3>1, <3>3
    <2>6. \A k \in 1 .. Len(blocks') - 1 : ~IsVmcoreinfo(blocks'[k])
      BY <1>2, <2>5 DEF NoneYet
    <2>7. ~IsVmcoreinfo(buf) => NoneYet'
      <3> SUFFICES ASSUME ~IsVmcoreinfo(buf)
                   PROVE  \A k \in DOMAIN blocks' : ~IsVmcoreinfo(blocks'[k])
        BY DEF NoneYet, IsVmcoreinfo
      <3> QED
        BY <2>5, <2>6
    <2>8. \A k \in 1 .. Len(blocks') - 1 : ~IsVmcoreinfo(blocks[k])'
      BY <2>6 DEF IsVmcoreinfo
    <2> QED
      BY <1>1, <1>2, <1>3, <2>1, <2>3, <2>4, <2>5, <2>7, <2>8 DEF HuntInv
  <1> QED
    BY <1>9, <1>10

\* The script ends, in whatever way.
LEMMA GoneKeeps ==
  ASSUME HuntInv, gone, UNCHANGED <<text, sent, blocks>>,
         strings' = strings \/ strings' = "killed"
  PROVE  HuntInv'
  <1>1. HuntTypes /\ Prefixed
    BY HuntPrefixed DEF HuntInv
  <1>2. Stream' = Stream
    BY SameStream
  <1>3. Prefixed'
    BY <1>1, SameHunt
  <1>4. hpc' = "end" /\ got' = <<>> /\ buf' = <<>> /\ pipe' = <<>>
    BY DEF gone
  <1>5. HuntTypes'
    <2>1. <<>> \in Seq(Byte)
      OBVIOUS
    <2> QED
      BY <1>1, <1>2, <1>4, <2>1 DEF HuntTypes
  <1>6. strings' = "exited" => sent' = Len(Stream')
    BY <1>2 DEF HuntInv
  <1> QED
    BY <1>3, <1>4, <1>5, <1>6 DEF HuntInv

\* What is saved is a file.
LEMMA SavedIsFile ==
  ASSUME NEW s, s \in Seq(Byte), NEW n, n \in 0 .. Len(s)
  PROVE  SubSeq(s, 1, n) # None
  <1>1. Len(s) \in Nat /\ n \in Nat /\ n <= Len(s) /\ 1 <= n + 1
    BY LenProperties
  <1>2. PICK t : t = SubSeq(s, 1, n)
    OBVIOUS
  <1>3. t \in Seq(Byte)
    BY <1>1, <1>2, SubSeqParts
  <1>4. ASSUME t = <<"no file">> PROVE FALSE
    <2>1. t[1] \in Byte
      <3>1. PICK x : x = "no file"
        OBVIOUS
      <3>2. t = <<x>>
        BY <1>4, <3>1
      <3> HIDE <1>2, <3>1
      <3> QED
        BY <1>3, <3>2
    <2>2. t[1] = "no file"
      BY <1>4
    <2>3. "no file" \notin Byte
      BY FindVmcoreinfoAssumption, Zenon
    <2> QED
      BY <2>1, <2>2, <2>3
  <1> QED
    BY <1>2, <1>4 DEF None

LEMMA SaveKeeps == HuntInv /\ save_output => HuntInv'
  <1> SUFFICES ASSUME HuntInv, save_output PROVE HuntInv'
    OBVIOUS
  <1>1. hpc = "found" /\ UNCHANGED <<text, sent, strings, blocks>>
    BY DEF save_output
  <1>2. PICK n \in 0 .. Len(blocks[Len(blocks)]) :
          /\ output' = SubSeq(blocks[Len(blocks)], 1, n)
          /\ (hpc' = "terminate" /\ UNCHANGED <<got, buf, pipe>>) \/ gone
    BY DEF save_output
  <1>3. CASE gone
    BY <1>1, <1>3, GoneKeeps
  <1>4. CASE hpc' = "terminate" /\ UNCHANGED <<got, buf, pipe>>
    <2>1. HuntTypes /\ blocks # <<>>
      BY <1>1 DEF HuntInv
    <2>2. blocks \in Seq(Seq(Byte))
      BY <2>1 DEF HuntTypes
    <2>3. blocks[Len(blocks)] \in Seq(Byte)
      BY <2>1, <2>2
    <2>4. output' # None
      BY <1>2, <2>3, SavedIsFile
    <2>5. Stream' = Stream
      BY <1>1, SameStream
    <2>6. HuntTypes'
      BY <1>1, <1>4, <2>1, <2>5 DEF HuntTypes
    <2>7. Ended' \/ \E c \in 1 .. sent' + 1 : Going(c)'
      <3>1. (\A c : Going(c) => Going(c)') /\ (Ended => Ended')
        BY <1>1, <2>1, SameHunt
      <3> QED
        BY <1>1, <3>1 DEF HuntInv
    <2> QED
      BY <1>1, <1>4, <2>4, <2>5, <2>6, <2>7 DEF HuntInv
  <1> QED
    BY <1>2, <1>3, <1>4

LEMMA TerminateKeeps == HuntInv /\ (terminate \/ script_dies) => HuntInv'
  BY GoneKeeps DEF terminate, script_dies

\* With the next program another hunt can not begin: nothing is left to cut.
LEMMA PromptKeeps == HuntInv /\ prompt => HuntInv'
  <1> SUFFICES ASSUME HuntInv, prompt PROVE HuntInv'
    OBVIOUS
  <1>1. /\ hpc' = "over" /\ text' = <<>> /\ sent' = 0 /\ strings' = "no" /\ blocks' = <<>>
        /\ UNCHANGED <<pipe, got, buf>>
    BY DEF prompt
  <1>2. PICK s : s = Stream'
    OBVIOUS
  <1>3. s \in Seq(Byte)
    <2>1. text' \in Seq(Seq(Byte))
      BY <1>1
    <2>2. s = Written(text')
      BY <1>2 DEF Stream
    <2> QED
      BY <2>1, <2>2, WrittenShape
  <1>4. HuntTypes'
    <2>1. 0 \in 0 .. Len(s)
      BY <1>3, LenProperties
    <2>2. <<>> \in Seq(Seq(Byte))
      OBVIOUS
    <2> QED
      BY <1>1, <1>2, <2>1, <2>2 DEF HuntInv, HuntTypes
  <1>5. Prefixed'
    <2>1. PICK t : t = SubSeq(s, 1, 0)
      OBVIOUS
    <2>2. t \in Seq(Byte) /\ Len(t) = 0
      BY <1>3, <2>1, LenProperties, SubSeqParts
    <2>3. CutFrom(t, 1) \in Seq(Seq(Byte))
      <3>1. 1 \in 1 .. Len(t) + 1
        BY <2>2
      <3> QED
        BY <2>2, <3>1, CutFromStep
    <2>4. Begin(sent)' = t
      BY <1>1, <1>2, <2>1 DEF Begin
    <2>5. PICK r : r = CutFrom(t, 1)
      OBVIOUS
    <2>6. <<>> \o r = r
      BY <2>3, <2>5, ConcatEmptySeq
    <2> QED
      BY <1>1, <2>3, <2>4, <2>5, <2>6 DEF Prefixed
  <1> QED
    BY <1>1, <1>4, <1>5 DEF HuntInv

\* The other programs do not touch what the hunt has left.
LEMMA OthersKeep == HuntInv /\ UNCHANGED findVars => HuntInv'
  <1> SUFFICES ASSUME HuntInv, UNCHANGED findVars PROVE HuntInv'
    OBVIOUS
  <1>1. UNCHANGED <<text, sent, pipe, strings, got, buf, blocks, output, hpc>>
    BY DEF findVars
  <1>2. HuntTypes
    BY DEF HuntInv
  <1>3. Stream' = Stream
    BY <1>1, SameStream
  <1>4. /\ \A c : Going(c) => Going(c)'
        /\ Prefixed => Prefixed'
        /\ NoneYet => NoneYet'
        /\ Ended => Ended'
        /\ \A c : Held(c) => Held(c)'
    BY <1>1, <1>2, SameHunt
  <1>5. HuntTypes'
    BY <1>1, <1>2, <1>3 DEF HuntTypes
  <1>6. Seps(buf)' = Seps(buf)
    BY <1>1 DEF Seps
  <1>7. hpc \in {"hunt", "read", "split", "last"} => \E c \in 1 .. sent' + 1 : Going(c)' /\ Held(c)'
    BY <1>1, <1>4 DEF HuntInv
  <1>8. hpc \in {"found", "terminate"} => Ended' \/ \E c \in 1 .. sent' + 1 : Going(c)'
    BY <1>1, <1>4 DEF HuntInv
  <1>9. hpc \in {"found"} => \A k \in 1 .. Len(blocks') - 1 : ~IsVmcoreinfo(blocks[k])'
    BY <1>1 DEF HuntInv, IsVmcoreinfo
  <1> QED
    BY <1>1, <1>3, <1>4, <1>5, <1>6, <1>7, <1>8, <1>9 DEF HuntInv

LEMMA HuntStep == HuntInv /\ [RepairNext]_repairVars => HuntInv'
  <1> SUFFICES ASSUME HuntInv, [RepairNext]_repairVars PROVE HuntInv'
    OBVIOUS
  <1>1. CASE hpc # "over" /\ findvmcoreinfo
    <2>1. CASE strings_write
      BY <1>1, <2>1, WriteKeeps
    <2>2. CASE strings_exit \/ strings_dies
      BY <2>2, StringsEnds DEF strings_exit, strings_dies
    <2>3. CASE script
      BY <2>3, PopenKeeps, ReadWaitKeeps, ReadKeeps, SplitKeeps, LastKeeps, SaveKeeps,
         TerminateKeeps DEF script
    <2>4. CASE script_dies
      BY <2>4, TerminateKeeps
    <2> QED
      BY <1>1, <2>1, <2>2, <2>3, <2>4 DEF findvmcoreinfo, stringsProc
  <1>2. CASE prompt
    BY <1>2, PromptKeeps
  <1>3. CASE UNCHANGED findVars
    BY <1>3, OthersKeep
  <1>4. CASE Repairing /\ phys2virt /\ UNCHANGED <<editRest, findVars>>
    BY <1>4, OthersKeep
  <1>5. CASE editvmcoreinfo
    <2>1. UNCHANGED findVars
      BY <1>5 DEF editvmcoreinfo
    <2> QED
      BY <2>1, OthersKeep
  <1>6. CASE Next /\ UNCHANGED <<p2vVars, findVars>>
    BY <1>6, OthersKeep
  <1>7. CASE UNCHANGED repairVars
    <2>1. UNCHANGED findVars
      BY <1>7 DEF repairVars
    <2> QED
      BY <2>1, OthersKeep
  <1> QED
    BY <1>1, <1>2, <1>4, <1>5, <1>6, <1>7 DEF RepairNext

\* Whatever strings and the script do, and in whatever order, the pieces handed out,
\* what the script holds and what is in the pipe are one beginning of the stream.
THEOREM HuntInvariance == RepairFairSpec => []HuntInv
  <1>1. RepairInit \/ AloneInit => HuntInv
    BY HuntInit
  <1>2. HuntInv /\ [RepairNext]_repairVars => HuntInv'
    BY HuntStep
  <1> QED
    BY <1>1, <1>2, PTL DEF RepairFairSpec

\* What the invariant says of the pieces.
LEMMA HuntIsExact == HuntInv => BlocksExact
  <1> SUFFICES ASSUME HuntInv PROVE BlocksExact
    OBVIOUS
  <1>1. HuntTypes /\ Prefixed
    BY HuntPrefixed DEF HuntInv
  <1>2. /\ Stream \in Seq(Byte) /\ Len(Stream) \in Nat /\ sent \in Nat /\ sent <= Len(Stream)
        /\ SubSeq(Stream, 1, Len(Stream)) = Stream /\ blocks \in Seq(Seq(Byte))
    BY <1>1, StreamShape DEF HuntTypes
  <1>3. PICK pieces : pieces = Cut(SubSeq(Stream, 1, sent))
    OBVIOUS
  <1>4. pieces = CutFrom(Begin(sent), 1)
    BY <1>3 DEF Cut, Begin
  <1>5. Len(blocks) <= Len(pieces) /\ SubSeq(pieces, 1, Len(blocks)) = blocks
    <2>1. PICK rest \in Seq(Seq(Byte)) : pieces = blocks \o rest
      BY <1>1, <1>4 DEF Prefixed
    <2>2. PICK m : m = Len(blocks)
      OBVIOUS
    <2>3. m <= Len(pieces) /\ blocks = SubSeq(pieces, 1, m)
      BY <1>2, <2>1, <2>2, ConcatParts
    <2> QED
      BY <2>2, <2>3
  <1>6. Exhausted => blocks = pieces /\ \A k \in DOMAIN pieces : ~IsVmcoreinfo(pieces[k])
    <2> SUFFICES ASSUME Exhausted
                 PROVE  blocks = pieces /\ \A k \in DOMAIN pieces : ~IsVmcoreinfo(pieces[k])
      OBVIOUS
    <2>1. Ended /\ NoneYet
      BY DEF Exhausted, HuntInv
    <2> QED
      BY <1>4, <2>1 DEF Ended, NoneYet
  <1>7. ASSUME hpc = "found", strings # "killed"
        PROVE  blocks[Len(blocks)] = Cut(Stream)[Len(blocks)]
    <2>1. blocks # <<>> /\ (Ended \/ \E c \in 1 .. sent + 1 : Going(c))
      BY <1>7 DEF HuntInv
    <2>2. Cut(Stream) = CutFrom(Begin(Len(Stream)), 1)
      BY <1>2 DEF Cut, Begin
    <2>3. CASE Ended
      <3>1. sent = Len(Stream)
        BY <1>7, <2>3 DEF Ended, HuntInv
      <3> QED
        BY <2>2, <2>3, <3>1 DEF Ended
    <2>4. CASE \E c \in 1 .. sent + 1 : Going(c)
      <3>1. PICK c \in 1 .. sent + 1 : Going(c)
        BY <2>4
      <3>2. PICK t : t = CutFrom(Begin(Len(Stream)), c)
        OBVIOUS
      <3>3. t \in Seq(Seq(Byte))
        <4>1. Len(Stream) \in 0 .. Len(Stream) /\ c \in 1 .. Len(Stream) + 1
          BY <1>2
        <4> QED
          BY <1>1, <3>2, <4>1, BeginShape
      <3>4. Cut(Stream) = blocks \o t
        <4>1. Len(Stream) \in sent .. Len(Stream)
          BY <1>2
        <4> QED
          BY <2>2, <3>1, <3>2, <4>1 DEF Going
      <3>5. PICK m : m = Len(blocks)
        OBVIOUS
      <3>6. m \in 1 .. Len(blocks) + Len(t) /\ m <= Len(blocks)
        <4>1. Len(blocks) \in Nat /\ Len(t) \in Nat /\ Len(blocks) # 0
          BY <1>2, <2>1, <3>3, LenProperties, EmptySeq
        <4> QED
          BY <3>5, <4>1
      <3>7. (blocks \o t)[m] = blocks[m]
        BY <1>2, <3>3, <3>6, ConcatProperties
      <3> QED
        BY <3>4, <3>5, <3>7
    <2> QED
      BY <2>1, <2>3, <2>4
  <1>8. hpc = "found" => \A k \in 1 .. Len(blocks) - 1 : ~IsVmcoreinfo(blocks[k])
    BY DEF HuntInv
  <1> QED
    BY <1>3, <1>5, <1>6, <1>7, <1>8 DEF BlocksExact

\* The pieces are those of the stream cut all at once, wherever a read ends: for
\* every vmcore, every separator length, every size of the reads and of the pipe.
THEOREM BlocksAreExact == RepairFairSpec => []BlocksExact
  BY HuntInvariance, HuntIsExact, PTL

=============================================================================
