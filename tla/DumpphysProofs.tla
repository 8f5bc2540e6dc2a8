--------------------------- MODULE DumpphysProofs ---------------------------
(***************************************************************************)
(* Proofs for dumpphys, for any vmcore: what is written is, frame by       *)
(* frame, what is promised, and the summary denies only what there is not. *)
(***************************************************************************)
EXTENDS Dumpphys, Induction, SequenceTheorems

-----------------------------------------------------------------------------
(* What is promised, frame by frame.                                       *)

\* All that an output file may hold, unit by unit.
Unit ==
  ({"page", "info"} \X Int \X Int) \cup {<<"---">>, Old, Beyond}

LEMMA DumpShape ==
  ASSUME dump \in Dumps
  PROVE  /\ Frames \in Nat /\ DOMAIN dump = 0 .. Frames - 1
         /\ \A p \in DOMAIN dump : /\ dump[p].marks \subseteq 0 .. PAGE - 1
                                   /\ dump[p].present \in BOOLEAN /\ dump[p].ok \in BOOLEAN
                                   /\ dump[p].spills \in BOOLEAN
         /\ PAGE \in Nat \ {0} /\ MARK \in 1 .. PAGE
  BY DumpphysAssumption DEF Frames

\* What is written of a page or of a string, and how much that is.
LEMMA Pieces ==
  ASSUME NEW p \in Int, NEW o \in Int, PAGE \in Nat
  PROVE  /\ PageData(p) \in Seq(Unit) /\ <<Info(p, o)>> \in Seq(Unit)
         /\ <<Info(p, o), Beyond>> \in Seq(Unit)
         /\ Dashes \in Seq(Unit) /\ <<>> \in Seq(Unit)
         /\ Len(PageData(p)) = PAGE
  <1>1. \A k \in 1 .. PAGE : <<"page", p, k>> \in Unit
    BY DEF Unit
  <1> DEFINE f == [k \in 1 .. PAGE |-> <<"page", p, k>>]
  <1>2. f \in [1 .. PAGE -> Unit]
    BY <1>1
  <1>3. f \in Seq(Unit) /\ Len(f) = PAGE
    <2> HIDE DEF f
    <2> QED
      BY <1>2
  <1>4. Info(p, o) \in Unit /\ <<"---">> \in Unit /\ Beyond \in Unit
    BY DEF Info, Unit
  <1>5. <<Info(p, o)>> \in Seq(Unit) /\ <<Info(p, o), Beyond>> \in Seq(Unit)
    <2> HIDE DEF Unit
    <2> QED
      BY <1>4
  <1> QED
    BY <1>3, <1>4, <1>5 DEF PageData, Dashes

\* The first marker is one.
LEMMA FirstMarker ==
  ASSUME dump \in Dumps, NEW p \in DOMAIN dump, SeenIn(p) # {}
  PROVE  /\ First(SeenIn(p)) \in Int
         /\ FirstSeen(p) = <<Info(p, First(SeenIn(p)))>>
  <1>1. SeenIn(p) \subseteq Nat
    BY DumpShape DEF Seen, SeenIn
  <1>2. \E o \in SeenIn(p) : \A q \in SeenIn(p) : o <= q
    BY <1>1, LeastNumber
  <1>3. First(SeenIn(p)) \in SeenIn(p)
    BY <1>2 DEF First
  <1> QED
    BY <1>1, <1>3 DEF FirstSeen

\* What is written of frame p from the first marker on.
TextOf(p, o) ==
  IF ~args.flexible /\ RunsOn(p, o) THEN <<Info(p, o), Beyond>> ELSE <<Info(p, o)>>

LEMMA Text ==
  ASSUME dump \in Dumps, NEW p \in DOMAIN dump, SeenIn(p) # {}, NEW o, o = First(SeenIn(p))
  PROVE  FirstSeen(p) \o Excess(p) = TextOf(p, o) /\ TextOf(p, o) \in Seq(Unit)
  <1>1. o \in Int /\ FirstSeen(p) = <<Info(p, o)>> /\ p \in Int /\ PAGE \in Nat
    BY FirstMarker, DumpShape
  <1>2. <<Info(p, o)>> \in Seq(Unit) /\ <<Info(p, o), Beyond>> \in Seq(Unit)
    BY <1>1, Pieces
  <1>3. <<Info(p, o)>> \o <<>> = <<Info(p, o)>>
    BY <1>2, ConcatEmptySeq
  <1>4. <<Info(p, o)>> \o <<Beyond>> = <<Info(p, o), Beyond>>
    <2>1. PICK a, b : a = Info(p, o) /\ b = Beyond
      OBVIOUS
    <2>2. <<a>> \in Seq({a, b}) /\ <<b>> \in Seq({a, b}) /\ <<a, b>> \in Seq({a, b})
      OBVIOUS
    <2>3. /\ <<a>> \o <<b>> \in Seq({a, b}) /\ Len(<<a>> \o <<b>>) = Len(<<a>>) + Len(<<b>>)
          /\ \A i \in 1 .. Len(<<a>>) + Len(<<b>>) :
               (<<a>> \o <<b>>)[i] = IF i <= Len(<<a>>) THEN <<a>>[i] ELSE <<b>>[i - Len(<<a>>)]
      BY <2>2, ConcatProperties
    <2>4. Len(<<a>>) = 1 /\ Len(<<b>>) = 1 /\ Len(<<a, b>>) = 2
      OBVIOUS
    <2>5. /\ Len(<<a>> \o <<b>>) = 2
          /\ (<<a>> \o <<b>>)[1] = a /\ (<<a>> \o <<b>>)[2] = b
      BY <2>3, <2>4
    <2> DEFINE s == <<a>> \o <<b>>
               t == <<a, b>>
    <2>6. \A i \in 1 .. 2 : s[i] = t[i]
      BY <2>5
    <2>7. s \in Seq({a, b}) /\ t \in Seq({a, b}) /\ Len(s) = 2 /\ Len(t) = 2
      BY <2>2, <2>3, <2>4, <2>5
    <2> HIDE DEF s, t
    <2>8. s = t
      BY <2>6, <2>7, SeqEqual
    <2> QED
      BY <2>1, <2>8 DEF s, t
  <1> QED
    BY <1>1, <1>2, <1>3, <1>4 DEF Excess, TextOf

LEMMA WantedUnits ==
  ASSUME dump \in Dumps, NEW p \in DOMAIN dump
  PROVE  Wanted(p) \in Seq(Unit)
  <1>1. p \in Int /\ PAGE \in Nat
    BY DumpShape
  <1>2. PageData(p) \in Seq(Unit) /\ <<>> \in Seq(Unit) /\ Dashes \in Seq(Unit)
    BY <1>1, Pieces
  <1>3. CASE SeenIn(p) = {}
    BY <1>2, <1>3 DEF Wanted
  <1>4. CASE SeenIn(p) # {}
    <2> DEFINE t == FirstSeen(p) \o Excess(p)
    <2>1. t \in Seq(Unit)
      BY <1>4, Text
    <2> HIDE DEF t
    <2>2. t \o Dashes \in Seq(Unit) /\ t \o <<>> \in Seq(Unit)
      BY <1>2, <2>1, ConcatProperties
    <2> QED
      BY <1>2, <1>4, <2>2 DEF Wanted, t
  <1> QED
    BY <1>3, <1>4

\* The search for one string is over with the first.
Over(s) == args.op = "check_vmcoreinfo" /\ ~args.cont /\ s # <<>>

LEMMA PromisedStep ==
  ASSUME dump \in Dumps
  PROVE  /\ PromisedOf(0) = <<>>
         /\ \A n \in 0 .. Frames : PromisedOf(n) \in Seq(Unit)
         /\ \A n \in 0 .. Frames - 1 :
              PromisedOf(n + 1) = IF Over(PromisedOf(n)) THEN PromisedOf(n)
                                  ELSE PromisedOf(n) \o Wanted(n)
  <1> DEFINE F == Frames
             T == Seq(Unit)
             step == [k \in 1 .. F |-> [t \in T |-> IF Over(t) THEN t ELSE t \o Wanted(k - 1)]]
             upto[m \in 0 .. Frames] ==
               IF m = 0 THEN <<>>
               ELSE IF args.op = "check_vmcoreinfo" /\ ~args.cont /\ upto[m - 1] # <<>>
               THEN upto[m - 1]
               ELSE upto[m - 1] \o Wanted(m - 1)
  <1>1. F \in Nat /\ DOMAIN dump = 0 .. F - 1
    BY DumpShape
  <1>2. \A k \in 1 .. F : Wanted(k - 1) \in Seq(Unit)
    BY <1>1, WantedUnits
  <1>3. \A k \in 1 .. F : \A t \in T : t \o Wanted(k - 1) \in T
    BY <1>2, ConcatProperties
  <1>4. \A k \in 1 .. F : \A t \in T : /\ step[k][t] \in T
                                       /\ step[k][t] = IF Over(t) THEN t ELSE t \o Wanted(k - 1)
    <2> HIDE DEF T, F
    <2> QED
      BY <1>3
  <1>5. <<>> \in T
    OBVIOUS
  <1>6. PICK f : /\ f = [k \in 0 .. F |-> IF k = 0 THEN <<>> ELSE step[k][f[k - 1]]]
                 /\ \A k \in 0 .. F : f[k] \in T
    <2>1. \A k \in 1 .. F : \A t \in T : step[k][t] \in T
      BY <1>4
    <2>2. F \in Nat /\ <<>> \in T
      BY <1>1, <1>5
    <2> HIDE DEF T, F, step
    <2>3. \E f : Recursion(f, F, T, <<>>, step)
      BY <2>1, <2>2, RecursionExists
    <2> QED
      BY <2>3 DEF Recursion
  <1> DEFINE Def(g, m) ==
               IF m = 0 THEN <<>>
               ELSE IF args.op = "check_vmcoreinfo" /\ ~args.cont /\ g[m - 1] # <<>>
               THEN g[m - 1]
               ELSE g[m - 1] \o Wanted(m - 1)
  <1>7. ASSUME NEW m \in 0 .. F
        PROVE  f[m] = Def(f, m)
    <2>1. CASE m = 0
      BY <1>6, <2>1
    <2>2. CASE m # 0
      <3>1. m \in 1 .. F /\ m - 1 \in 0 .. F
        BY <1>1, <2>2
      <3>2. f[m] = step[m][f[m - 1]] /\ f[m - 1] \in T
        <4> HIDE DEF T, step, F
        <4> QED
          BY <1>6, <2>2, <3>1
      <3> HIDE DEF T, step, F
      <3> QED
        BY <1>4, <2>2, <3>1, <3>2 DEF Over
    <2> QED
      BY <2>1, <2>2
  <1>8. f = [m \in 0 .. Frames |-> Def(f, m)]
    <2>1. f = [m \in 0 .. F |-> f[m]]
      <3> HIDE DEF T, step, F
      <3> QED
        BY <1>6
    <2> HIDE DEF Def
    <2> QED
      BY <1>7, <2>1
  <1>9. upto = [m \in 0 .. Frames |-> Def(upto, m)]
    BY <1>8
  <1>10. \A n : PromisedOf(n) = upto[n]
    BY DEF PromisedOf
  <1> HIDE DEF upto
  <1> DEFINE S == {m \in Nat : m > F \/ upto[m] = f[m]}
  <1>11. 0 \in S
    BY <1>1, <1>7, <1>9
  <1>12. \A m \in Nat : m \in S => m + 1 \in S
    <2> SUFFICES ASSUME NEW m \in Nat, m \in S, m + 1 <= F PROVE upto[m + 1] = f[m + 1]
      BY <1>1
    <2>1. upto[m] = f[m] /\ m + 1 \in 0 .. F /\ m + 1 # 0 /\ (m + 1) - 1 = m
      BY <1>1
    <2>2. upto[m + 1] = Def(upto, m + 1)
      BY <1>9, <2>1
    <2>3. f[m + 1] = Def(f, m + 1)
      BY <1>7, <2>1
    <2>4. Def(upto, m + 1) = Def(f, m + 1)
      BY <2>1
    <2> HIDE DEF Def
    <2> QED
      BY <2>2, <2>3, <2>4
  <1>13. \A m \in 0 .. F : upto[m] = f[m]
    <2> HIDE DEF F
    <2>1. Nat \subseteq S
      <3> HIDE DEF S
      <3> QED
        BY <1>11, <1>12, SetInduction
    <2> QED
      BY <1>1, <2>1
  <1>14. \A m \in 0 .. F : PromisedOf(m) = f[m] /\ PromisedOf(m) \in T
    <2> HIDE DEF T, F, step
    <2> QED
      BY <1>6, <1>10, <1>13
  <1>15. PromisedOf(0) = <<>>
    BY <1>1, <1>7, <1>14
  <1>16. ASSUME NEW n \in 0 .. F - 1
         PROVE  PromisedOf(n + 1) = IF Over(PromisedOf(n)) THEN PromisedOf(n)
                                    ELSE PromisedOf(n) \o Wanted(n)
    <2>1. n \in 0 .. F /\ n + 1 \in 0 .. F /\ n + 1 # 0 /\ (n + 1) - 1 = n
      BY <1>1
    <2>2. PromisedOf(n) = f[n] /\ PromisedOf(n + 1) = f[n + 1]
      BY <1>14, <2>1
    <2>3. f[n + 1] = Def(f, n + 1)
      BY <1>7, <2>1
    <2> QED
      BY <2>1, <2>2, <2>3 DEF Over
  <1> QED
    BY <1>14, <1>15, <1>16

\* What a step does to the dump and to the options: nothing.
LEMMA SamePromise ==
  ASSUME UNCHANGED argVars
  PROVE  /\ Frames' = Frames
         /\ \A p : /\ Present(p)' <=> Present(p)
                   /\ Reads(p)' <=> Reads(p)
                   /\ SeenIn(p)' = SeenIn(p)
         /\ \A n : PromisedOf(n)' = PromisedOf(n)
  <1>1. dump' = dump /\ args' = args
    BY DEF argVars
  <1>2. Frames' = Frames
    BY <1>1 DEF Frames
  <1>3. ASSUME NEW p PROVE Present(p)' <=> Present(p)
    BY <1>1 DEF Present
  <1>4. ASSUME NEW p PROVE Reads(p)' <=> Reads(p)
    BY <1>1, <1>3 DEF Reads
  <1>5. ASSUME NEW p PROVE SeenIn(p)' = SeenIn(p)
    BY <1>1 DEF SeenIn, Seen
  <1>6. ASSUME NEW p PROVE FirstSeen(p)' = FirstSeen(p)
    BY <1>1, <1>5 DEF FirstSeen
  <1>6a. ASSUME NEW p PROVE Excess(p)' = Excess(p)
    BY <1>1, <1>5 DEF Excess, RunsOn
  <1>7. ASSUME NEW p PROVE Wanted(p)' = Wanted(p)
    BY <1>1, <1>4, <1>5, <1>6, <1>6a DEF Wanted
  <1>8. ASSUME NEW n PROVE PromisedOf(n)' = PromisedOf(n)
    BY <1>1, <1>7 DEF PromisedOf, Frames
  <1> QED
    BY <1>2, <1>3, <1>4, <1>5, <1>8

\* Frames that cannot be read add nothing.
LEMMA NothingAdded ==
  ASSUME dump \in Dumps, NEW a \in Nat, NEW b \in Nat, a <= b, b <= Frames,
         \A p \in a .. b - 1 : ~Reads(p)
  PROVE  PromisedOf(b) = PromisedOf(a)
  <1> DEFINE S == {k \in Nat : a + k <= b => PromisedOf(a + k) = PromisedOf(a)}
  <1>0. Frames \in Nat
    BY DumpShape
  <1>1. 0 \in S
    BY <1>0
  <1>2. \A k \in Nat : k \in S => k + 1 \in S
    <2> SUFFICES ASSUME NEW k \in Nat, PromisedOf(a + k) = PromisedOf(a), a + (k + 1) <= b
                 PROVE  PromisedOf(a + (k + 1)) = PromisedOf(a)
      OBVIOUS
    <2> DEFINE n == a + k
    <2>1. n \in 0 .. Frames - 1 /\ n \in 0 .. Frames /\ n \in a .. b - 1 /\ a + (k + 1) = n + 1
      BY <1>0
    <2> HIDE DEF n
    <2>2. Wanted(n) = <<>>
      BY <2>1 DEF Wanted
    <2>3. PromisedOf(n) \in Seq(Unit)
      BY <2>1, PromisedStep
    <2>4. PromisedOf(n) \o <<>> = PromisedOf(n)
      BY <2>3, ConcatEmptySeq
    <2>5. PromisedOf(n + 1) = PromisedOf(n)
      BY <2>1, <2>2, <2>4, PromisedStep
    <2> QED
      BY <2>1, <2>5 DEF n
  <1>3. Nat \subseteq S
    <2> HIDE DEF S
    <2> QED
      BY <1>1, <1>2, SetInduction
  <1>4. b - a \in Nat /\ a + (b - a) = b
    OBVIOUS
  <1> QED
    BY <1>3, <1>4

\* s is a beginning of t.
Begins(s, t) == Len(s) <= Len(t) /\ SubSeq(t, 1, Len(s)) = s

LEMMA BeginsConcat ==
  ASSUME NEW T, NEW s \in Seq(T), NEW t \in Seq(T), NEW u \in Seq(T), Begins(s, t)
  PROVE  Begins(s, t \o u) /\ Begins(s, s)
  <1>1. /\ t \o u \in Seq(T) /\ Len(t \o u) = Len(t) + Len(u)
        /\ \A i \in 1 .. Len(t) : (t \o u)[i] = t[i]
    BY ConcatProperties
  <1>2. Len(s) \in Nat /\ Len(t) \in Nat /\ Len(u) \in Nat /\ Len(s) <= Len(t)
    BY LenProperties DEF Begins
  <1> DEFINE v == t \o u
             l == Len(s)
  <1>3. l <= Len(v) /\ v \in Seq(T)
    BY <1>1, <1>2
  <1> HIDE DEF v
  <1>4. \A i \in 1 .. l : v[i] = t[i] /\ i \in 1 .. Len(t)
    BY <1>1, <1>2 DEF v
  <1>5. SubSeq(v, 1, l) = SubSeq(t, 1, l)
    BY <1>2, <1>3, <1>4
  <1>6. SubSeq(s, 1, l) = s
    OBVIOUS
  <1> QED
    BY <1>2, <1>3, <1>5, <1>6 DEF Begins, v

\* What is promised of the first frames is a beginning of what is promised of all.
LEMMA PromisedBegins ==
  ASSUME dump \in Dumps, NEW a \in 0 .. Frames
  PROVE  Begins(PromisedOf(a), Promised)
  <1> DEFINE S == {k \in Nat : a + k <= Frames => Begins(PromisedOf(a), PromisedOf(a + k))}
  <1>0. Frames \in Nat /\ DOMAIN dump = 0 .. Frames - 1 /\ PromisedOf(a) \in Seq(Unit)
    BY DumpShape, PromisedStep
  <1>1. 0 \in S
    <2>1. Begins(PromisedOf(a), PromisedOf(a))
      BY <1>0 DEF Begins
    <2>2. a + 0 = a
      BY <1>0
    <2> QED
      BY <2>1, <2>2
  <1>2. \A k \in Nat : k \in S => k + 1 \in S
    <2> SUFFICES ASSUME NEW k \in Nat, a + (k + 1) <= Frames,
                        a + k <= Frames => Begins(PromisedOf(a), PromisedOf(a + k))
                 PROVE  Begins(PromisedOf(a), PromisedOf(a + (k + 1)))
      OBVIOUS
    <2> DEFINE n == a + k
    <2>1. n \in 0 .. Frames - 1 /\ n \in 0 .. Frames /\ a + (k + 1) = n + 1
      BY <1>0
    <2>2. Begins(PromisedOf(a), PromisedOf(n))
      BY <1>0
    <2> HIDE DEF n
    <2>3. PromisedOf(n) \in Seq(Unit) /\ Wanted(n) \in Seq(Unit)
      BY <1>0, <2>1, PromisedStep, WantedUnits
    <2>4. Begins(PromisedOf(a), PromisedOf(n) \o Wanted(n))
      BY <1>0, <2>2, <2>3, BeginsConcat
    <2>5. Begins(PromisedOf(a), PromisedOf(n + 1))
      BY <2>1, <2>2, <2>4, PromisedStep
    <2> QED
      BY <2>1, <2>5 DEF n
  <1>3. Nat \subseteq S
    <2> HIDE DEF S
    <2> QED
      BY <1>1, <1>2, SetInduction
  <1>4. Frames - a \in Nat /\ a + (Frames - a) = Frames
    BY <1>0
  <1> QED
    BY <1>0, <1>3, <1>4 DEF Promised

-----------------------------------------------------------------------------
(* The output file.                                                        *)

\* A write puts its bytes behind those before the offset.
LEMMA Wrote ==
  ASSUME out \in Seq(Unit), woff \in 0 .. Len(out), NEW s \in Seq(Unit)
  PROVE  /\ Overwritten(s) \in Seq(Unit)
         /\ woff + Len(s) \in 0 .. Len(Overwritten(s))
         /\ SubSeq(Overwritten(s), 1, woff + Len(s)) = SubSeq(out, 1, woff) \o s
         /\ \A k \in woff + Len(s) + 1 .. Len(Overwritten(s)) :
              k \in woff + 1 .. Len(out) /\ Overwritten(s)[k] = out[k]
  <1> DEFINE last == IF woff + Len(s) > Len(out) THEN woff + Len(s) ELSE Len(out)
             f == Overwritten(s)
             top == woff + Len(s)
             old == SubSeq(out, 1, woff)
  <1>1. Len(s) \in Nat /\ Len(out) \in Nat /\ woff \in Nat
    BY LenProperties
  <1>2. last \in Nat /\ top <= last /\ top \in Nat /\ Len(out) <= last /\ (last > top => last = Len(out))
    BY <1>1
  <1>3. f = [k \in 1 .. last |-> IF k \in woff + 1 .. woff + Len(s) THEN s[k - woff] ELSE out[k]]
    BY DEF Overwritten
  <1> HIDE DEF f
  <1>4. \A k \in 1 .. last : f[k] = IF k \in woff + 1 .. woff + Len(s) THEN s[k - woff] ELSE out[k]
    BY <1>3
  <1>5. \A k \in 1 .. last : f[k] \in Unit
    <2> SUFFICES ASSUME NEW k \in 1 .. last PROVE f[k] \in Unit
      OBVIOUS
    <2>1. CASE k \in woff + 1 .. woff + Len(s)
      <3>1. k - woff \in 1 .. Len(s)
        <4> HIDE DEF last
        <4> QED
          BY <1>1, <1>2, <2>1
      <3>2. f[k] = s[k - woff]
        BY <1>4, <2>1
      <3>3. s[k - woff] \in Unit
        BY <3>1, ElementOfSeq
      <3> QED
        BY <3>2, <3>3
    <2>2. CASE k \notin woff + 1 .. woff + Len(s)
      <3>1. k \in 1 .. Len(out)
        BY <1>1, <1>2, <2>2
      <3> QED
        BY <1>4, <2>2, <3>1, ElementOfSeq
    <2> QED
      BY <2>1, <2>2
  <1>6. f \in Seq(Unit) /\ Len(f) = last
    <2>1. f \in [1 .. last -> Unit]
      BY <1>3, <1>5
    <2> HIDE DEF last
    <2> QED
      BY <1>2, <2>1
  <1>7. old \in Seq(Unit) /\ Len(old) = woff /\ \A k \in 1 .. woff : old[k] = out[k]
    BY <1>1
  <1>8. /\ SubSeq(f, 1, top) \in Seq(Unit) /\ Len(SubSeq(f, 1, top)) = top
        /\ \A k \in 1 .. top : SubSeq(f, 1, top)[k] = f[k]
    <2> HIDE DEF top, last
    <2> QED
      BY <1>2, <1>6
  <1> HIDE DEF old
  <1>9. /\ old \o s \in Seq(Unit) /\ Len(old \o s) = top
        /\ \A k \in 1 .. top : (old \o s)[k] = IF k <= woff THEN out[k] ELSE s[k - woff]
    <2>1. /\ old \o s \in Seq(Unit) /\ Len(old \o s) = Len(old) + Len(s)
          /\ \A i \in 1 .. Len(old) + Len(s) :
               (old \o s)[i] = IF i <= Len(old) THEN old[i] ELSE s[i - Len(old)]
      BY <1>7, ConcatProperties
    <2> QED
      BY <1>1, <1>7, <2>1
  <1>10. \A k \in 1 .. top : SubSeq(f, 1, top)[k] = (old \o s)[k]
    <2> SUFFICES ASSUME NEW k \in 1 .. top PROVE f[k] = IF k <= woff THEN out[k] ELSE s[k - woff]
      BY <1>8, <1>9
    <2> QED
      BY <1>1, <1>2, <1>4
  <1>11. SubSeq(f, 1, top) = old \o s
    <2> HIDE DEF top
    <2> QED
      BY <1>2, <1>8, <1>9, <1>10, SeqEqual
  <1>12. \A k \in top + 1 .. Len(f) : k \in woff + 1 .. Len(out) /\ f[k] = out[k]
    <2> SUFFICES ASSUME NEW k \in top + 1 .. last
                 PROVE  k \in woff + 1 .. Len(out) /\ f[k] = out[k]
      BY <1>6
    <2>1. k \in woff + 1 .. Len(out) /\ k \in 1 .. last /\ k \notin woff + 1 .. woff + Len(s)
      BY <1>1, <1>2
    <2> QED
      BY <1>4, <2>1
  <1> QED
    BY <1>2, <1>6, <1>11, <1>12 DEF f, old

\* Behind the offset the file holds what it held before.
OldBehind == \A k \in woff + 1 .. Len(out) : out[k] = Old

\* What write() leaves.
LEMMA WriteOutcome ==
  ASSUME out \in Seq(Unit), woff \in 0 .. Len(out), short \in BOOLEAN, OldBehind,
         NEW s \in Seq(Unit), NEW t \in Seq(Unit), write(s, t)
  PROVE  /\ out' \in Seq(Unit) /\ woff' \in 0 .. Len(out') /\ short' \in BOOLEAN
         /\ OldBehind'
         /\ ~short' => /\ ~short
                       /\ SubSeq(out', 1, woff') = SubSeq(out, 1, woff) \o (s \o t)
  <1>1. PICK n \in 0 .. Len(s), m \in 0 .. Len(t) :
          /\ out' = Overwritten(SubSeq(s, 1, n) \o SubSeq(t, 1, m))
          /\ woff' = woff + n + m
          /\ short' = (short \/ n < Len(s) \/ m < Len(t))
    BY DEF write
  <1>2. n \in Nat /\ m \in Nat /\ n <= Len(s) /\ m <= Len(t) /\ Len(s) \in Nat /\ Len(t) \in Nat
    BY LenProperties
  <1> DEFINE a == SubSeq(s, 1, n)
             b == SubSeq(t, 1, m)
             moved == a \o b
  <1>3. a \in Seq(Unit) /\ Len(a) = n /\ (n = Len(s) => a = s)
    BY <1>2
  <1>4. b \in Seq(Unit) /\ Len(b) = m /\ (m = Len(t) => b = t)
    BY <1>2
  <1> HIDE DEF a, b
  <1>5. moved \in Seq(Unit) /\ Len(moved) = n + m
    BY <1>3, <1>4, ConcatProperties
  <1>6. woff' = woff + Len(moved) /\ out' = Overwritten(moved)
    BY <1>1, <1>2, <1>5, LenProperties DEF a, b
  <1> HIDE DEF moved
  <1>7. /\ out' \in Seq(Unit) /\ woff' \in 0 .. Len(out')
        /\ \A k \in woff' + 1 .. Len(out') : k \in woff + 1 .. Len(out) /\ out'[k] = out[k]
        /\ SubSeq(out', 1, woff') = SubSeq(out, 1, woff) \o moved
    <2>1. moved \in Seq(Unit)
      BY <1>5
    <2> QED
      BY <1>6, <2>1, Wrote
  <1>8. ~short' => ~short /\ moved = s \o t
    <2> SUFFICES ASSUME ~short' PROVE ~short /\ moved = s \o t
      OBVIOUS
    <2>1. ~(short \/ n < Len(s) \/ m < Len(t))
      BY <1>1
    <2>2. ~short /\ n = Len(s) /\ m = Len(t)
      BY <1>2, <2>1
    <2> QED
      BY <1>3, <1>4, <2>2 DEF moved
  <1>9. short' \in BOOLEAN
    BY <1>1
  <1>10. OldBehind'
    BY <1>7 DEF OldBehind
  <1> QED
    BY <1>7, <1>8, <1>9, <1>10

-----------------------------------------------------------------------------
(* The invariant.                                                          *)

Types ==
  /\ dump \in Dumps /\ args \in Options /\ (args.cont => args.op = "check_vmcoreinfo")
  /\ out \in Seq(Unit) /\ woff \in 0 .. Len(out) /\ short \in BOOLEAN /\ OldBehind
  /\ found_count \in Nat

\* The walk is at a frame of the dump, and within a range all frames are present.
Place ==
  /\ addr \in 0 .. Frames
  /\ pc = "pages" => /\ offset \in Nat /\ end \in Nat /\ offset <= end /\ end = addr
                     /\ \A p \in offset .. end - 1 : Present(p)

\* The frame that the walk is at.
At == IF pc = "pages" THEN offset ELSE addr

\* The first n frames are dealt with.
Done(n) ==
  /\ ~short => SubSeq(out, 1, woff) = PromisedOf(n)
  /\ args.op = "check_vmcoreinfo" /\ ~args.cont => PromisedOf(n) = <<>>
  /\ args.op = "check_vmcoreinfo" /\ ~(args.flexible /\ args.cont) /\ found_count = 0 =>
       \A p \in 0 .. n - 1 : Reads(p) => SeenIn(p) = {}
  /\ ~args.persist => \A p \in 0 .. n - 1 : Present(p) => dump[p].ok

\* At any moment the first few are written.
Begun == ~short => \E n \in 0 .. Frames : SubSeq(out, 1, woff) = PromisedOf(n)

Searching == pc \in {"start", "find", "pages"}

\* What is true of the frames passed, and of all at the end unless there was an error.
Progress ==
  /\ pc \in {"start", "find", "pages", "report", "exit"}
  /\ Searching => rv = 0 /\ Done(At)
  /\ pc = "report" /\ rv = 0 => Done(Frames)
  /\ pc = "exit" /\ status = 0 => Done(Frames)
  /\ said = "none" => /\ pc = "exit" /\ Done(Frames)
                      /\ args.op = "check_vmcoreinfo" /\ found_count = 0

IInv == Types /\ Place /\ Begun /\ Progress

LEMMA InitIInv == Init => IInv
  <1> SUFFICES ASSUME Init PROVE IInv
    OBVIOUS
  <1>0. /\ dump \in Dumps /\ out \in Outputs /\ woff = 0 /\ short = FALSE /\ found_count = 0
        /\ pc = "start" /\ addr = 0 /\ rv = 0 /\ status = 0 /\ said = ""
    BY DEF Init
  <1>1. args \in Options /\ (args.cont => args.op = "check_vmcoreinfo")
    BY DEF Init
  <1>2. out \in Seq(Unit) /\ Len(out) \in Nat /\ \A k \in 1 .. Len(out) : out[k] = Old
    <2>1. out \in Seq({Old}) /\ {Old} \subseteq Unit
      BY <1>0, DumpphysAssumption DEF Unit
    <2> HIDE DEF Unit
    <2>2. Len(out) \in Nat /\ DOMAIN out = 1 .. Len(out) /\ out = [i \in 1 .. Len(out) |-> out[i]]
      BY <2>1
    <2>3. \A i \in 1 .. Len(out) : out[i] \in Unit
      BY <2>1, ElementOfSeq
    <2>4. out \in [1 .. Len(out) -> Unit]
      BY <2>2, <2>3
    <2>5. \A i \in 1 .. Len(out) : out[i] = Old
      BY <2>1, ElementOfSeq
    <2> QED
      BY <2>2, <2>4, <2>5
  <1>3. Types
    <2>1. 0 \in 0 .. Len(out) /\ FALSE \in BOOLEAN /\ 0 \in Nat
      BY <1>2
    <2>2. OldBehind
      <3>0. woff = 0
        BY Zenon, <1>0
      <3>1. woff + 1 = 1
        BY <3>0
      <3> QED
        BY <1>2, <3>1 DEF OldBehind
    <2> QED
      BY <1>0, <1>1, <1>2, <2>1, <2>2 DEF Types
  <1>4. Frames \in Nat /\ 0 \in 0 .. Frames
    <2>1. dump \in Dumps
      BY <1>0
    <2>2. Frames \in Nat
      BY <2>1, DumpShape
    <2> QED
      BY <2>2
  <1>5. PromisedOf(0) = <<>>
    <2>1. dump \in Dumps
      BY <1>0
    <2> QED
      BY <2>1, PromisedStep
  <1>6. SubSeq(out, 1, woff) = PromisedOf(0)
    <2>1. SubSeq(out, 1, 0) = <<>>
      BY <1>2
    <2> QED
      BY <1>0, <1>5, <2>1
  <1>7. Place
    BY <1>0, <1>4 DEF Place
  <1>8. Begun
    BY <1>4, <1>6 DEF Begun
  <1>9. 0 .. 0 - 1 = {}
    OBVIOUS
  <1>10. Done(0)
    BY <1>5, <1>6, <1>9 DEF Done
  <1>11. Progress
    BY <1>0, <1>10 DEF Progress, Searching, At
  <1> QED
    BY <1>3, <1>7, <1>8, <1>11 DEF IInv

\* What is said of the frames done depends on few variables.
LEMMA SameDone ==
  ASSUME UNCHANGED argVars, UNCHANGED outVars, UNCHANGED found_count, NEW n
  PROVE  Done(n)' <=> Done(n)
  <1>1. /\ dump' = dump /\ args' = args /\ out' = out /\ woff' = woff /\ short' = short
        /\ found_count' = found_count
    BY DEF argVars, outVars
  <1>2. /\ \A p : Present(p)' <=> Present(p)
        /\ \A p : Reads(p)' <=> Reads(p)
        /\ \A p : SeenIn(p)' = SeenIn(p)
        /\ PromisedOf(n)' = PromisedOf(n)
    BY SamePromise
  <1> QED
    BY <1>1, <1>2 DEF Done

\* A step that writes nothing leaves the output and the dump as they are.
LEMMA NothingWritten ==
  ASSUME Types, Begun, UNCHANGED argVars, UNCHANGED outVars, found_count' \in Nat
  PROVE  Types' /\ Begun'
  <1>1. /\ dump' = dump /\ args' = args /\ out' = out /\ woff' = woff /\ short' = short
    BY DEF argVars, outVars
  <1>2. Frames' = Frames /\ \A n : PromisedOf(n)' = PromisedOf(n)
    BY SamePromise
  <1>3. Types'
    BY <1>1 DEF Types, OldBehind
  <1>4. Begun'
    BY <1>1, <1>2 DEF Begun
  <1> QED
    BY <1>3, <1>4

\* Frames without a page that can be read are passed.
LEMMA PassedOver ==
  ASSUME Types, NEW a \in Nat, NEW b \in Nat, a <= b, b <= Frames, Done(a),
         \A p \in a .. b - 1 : ~Reads(p),
         args.persist \/ \A p \in a .. b - 1 : ~Present(p)
  PROVE  Done(b)
  <1>1. PromisedOf(b) = PromisedOf(a)
    BY NothingAdded DEF Types
  <1>2. \A p \in 0 .. b - 1 : p \in 0 .. a - 1 \/ p \in a .. b - 1
    OBVIOUS
  <1> QED
    BY <1>1, <1>2 DEF Done

\* A frame of the range that the walk is in.
LEMMA InRange ==
  ASSUME IInv, pc = "pages", offset < end
  PROVE  /\ offset \in 0 .. Frames - 1 /\ offset \in DOMAIN dump /\ offset \in Int
         /\ Frames \in Nat /\ Present(offset) /\ Done(offset) /\ PAGE \in Nat
  <1>1. /\ Frames \in Nat /\ DOMAIN dump = 0 .. Frames - 1 /\ PAGE \in Nat
    BY DumpShape DEF IInv, Types
  <1>2. /\ offset \in Nat /\ end \in 0 .. Frames /\ \A p \in offset .. end - 1 : Present(p)
    BY DEF IInv, Place
  <1>3. Done(offset)
    BY DEF IInv, Progress, Searching, At
  <1>4. offset \in offset .. end - 1 /\ offset \in 0 .. Frames - 1
    BY <1>1, <1>2
  <1> QED
    BY <1>1, <1>2, <1>3, <1>4

\* After the next frame is written: so much more is promised.
LEMMA FrameWritten ==
  ASSUME IInv, pc = "pages", offset < end, UNCHANGED argVars, found_count' \in Nat,
         NEW o, o = offset,
         NEW s \in Seq(Unit), NEW t \in Seq(Unit), s \o t = Wanted(offset), write(s, t)
  PROVE  Types' /\ Begun' /\ (~short' => SubSeq(out', 1, woff') = PromisedOf(o + 1)')
  <1>1. /\ o \in 0 .. Frames - 1 /\ Frames \in Nat /\ Done(o) /\ o + 1 \in 0 .. Frames
    BY InRange
  <1>2. /\ dump \in Dumps /\ out \in Seq(Unit) /\ woff \in 0 .. Len(out) /\ short \in BOOLEAN
        /\ OldBehind /\ args \in Options /\ (args.cont => args.op = "check_vmcoreinfo")
    BY DEF IInv, Types
  <1>3. /\ out' \in Seq(Unit) /\ woff' \in 0 .. Len(out') /\ short' \in BOOLEAN
        /\ OldBehind'
        /\ ~short' => ~short /\ SubSeq(out', 1, woff') = SubSeq(out, 1, woff) \o (s \o t)
    BY <1>2, WriteOutcome
  <1>4. dump' = dump /\ args' = args
    BY DEF argVars
  <1>5. Types'
    BY <1>2, <1>3, <1>4 DEF Types
  <1>6. ~Over(PromisedOf(o))
    BY <1>1 DEF Done, Over
  <1>7. PromisedOf(o + 1) = PromisedOf(o) \o Wanted(o)
    BY <1>1, <1>2, <1>6, PromisedStep
  <1>8. ~short' => SubSeq(out', 1, woff') = PromisedOf(o + 1)
    BY <1>1, <1>3, <1>7 DEF Done
  <1>9. PromisedOf(o + 1)' = PromisedOf(o + 1) /\ \A n : PromisedOf(n)' = PromisedOf(n)
    BY SamePromise
  <1>10. Frames' = Frames
    BY SamePromise
  <1>11. Begun'
    BY <1>1, <1>8, <1>9, <1>10 DEF Begun
  <1> QED
    BY <1>5, <1>8, <1>9, <1>11

\* The page function reports an error.
LEMMA ReturnedError ==
  ASSUME IInv, pc = "pages", return(-1), UNCHANGED <<argVars, addr, said>>
  PROVE  Place' /\ Progress'
  <1>1. pc' = "report" /\ rv' = -1 /\ addr' = addr /\ said' = said
    BY DEF return
  <1>2. Frames' = Frames
    BY SamePromise
  <1>3. said # "none"
    BY DEF IInv, Progress
  <1>4. Place'
    BY <1>1, <1>2 DEF IInv, Place
  <1>5. Progress'
    BY <1>1, <1>3 DEF Progress, Searching
  <1> QED
    BY <1>4, <1>5

\* The page function does not.
LEMMA ReturnedZero ==
  ASSUME IInv, pc = "pages", offset < end, return(0), UNCHANGED <<argVars, addr, end, said>>,
         NEW o, o = offset, Done(o + 1)'
  PROVE  Place' /\ Progress'
  <1>1. /\ pc' = "pages" /\ rv' = 0 /\ addr' = addr /\ end' = end /\ said' = said
        /\ offset' = o + 1
    BY DEF return
  <1>2. Frames' = Frames /\ \A p : Present(p)' <=> Present(p)
    BY SamePromise
  <1>3. said # "none"
    BY DEF IInv, Progress
  <1>4. Place'
    BY <1>1, <1>2 DEF IInv, Place
  <1>5. Done(At)'
    BY <1>1 DEF Done, At
  <1>6. Progress'
    BY <1>1, <1>3, <1>5 DEF Progress, Searching
  <1> QED
    BY <1>4, <1>6

\* What is left to show of the next frame, when it was written or has nothing to write.
LEMMA DoneNext ==
  ASSUME IInv, pc = "pages", offset < end, dump[offset].ok, UNCHANGED argVars,
         NEW o, o = offset,
         ~short' => SubSeq(out', 1, woff') = PromisedOf(o + 1)',
         args.op = "check_vmcoreinfo" /\ ~args.cont => PromisedOf(o + 1) = <<>>,
         found_count' \in Nat,
         args.op = "check_vmcoreinfo" /\ ~(args.flexible /\ args.cont) /\ found_count' = 0
           => found_count = 0 /\ SeenIn(o) = {}
  PROVE  Done(o + 1)'
  <1>1. o \in Nat /\ Done(o)
    BY InRange
  <1>2. dump' = dump /\ args' = args
    BY DEF argVars
  <1>3. /\ \A p : Present(p)' <=> Present(p)
        /\ \A p : Reads(p)' <=> Reads(p)
        /\ \A p : SeenIn(p)' = SeenIn(p)
        /\ PromisedOf(o + 1)' = PromisedOf(o + 1)
    BY SamePromise
  <1>4. \A p \in 0 .. (o + 1) - 1 : p \in 0 .. o - 1 \/ p = o
    BY <1>1
  <1> QED
    BY <1>1, <1>2, <1>3, <1>4 DEF Done

\* The marker that the search finds is the first that it is to see.
LEMMA FoundIsFirst ==
  ASSUME IInv, Page("check_vmcoreinfo")
  PROVE  /\ Hits = SeenIn(offset) /\ Reads(offset)
         /\ Hits = {} => Wanted(offset) = <<>>
         /\ Hits # {} =>
              /\ TextOf(offset, Hit) \in Seq(Unit) /\ Dashes \in Seq(Unit)
              /\ ~args.cont => Wanted(offset) = TextOf(offset, Hit) \o <<>>
              /\ args.cont => Wanted(offset) = TextOf(offset, Hit) \o Dashes
  <1>1. /\ pc = "pages" /\ args.op = "check_vmcoreinfo" /\ offset < end /\ dump[offset].ok
    BY DEF Page
  <1>2. /\ offset \in DOMAIN dump /\ offset \in Int /\ Present(offset) /\ PAGE \in Nat
        /\ dump \in Dumps
    BY <1>1, InRange DEF IInv, Types
  <1>3. Reads(offset)
    BY <1>1, <1>2 DEF Reads
  <1>4. Hits = SeenIn(offset)
    BY DEF Hits, SeenIn, Marks
  <1>5. Hits = {} => Wanted(offset) = <<>>
    BY <1>1, <1>3, <1>4 DEF Wanted
  <1>6. Hits # {} => /\ TextOf(offset, Hit) \in Seq(Unit)
                     /\ FirstSeen(offset) \o Excess(offset) = TextOf(offset, Hit)
    BY <1>2, <1>4, Text DEF Hit
  <1>7. Dashes \in Seq(Unit)
    BY <1>2, Pieces
  <1>8. Hits # {} => Wanted(offset) = TextOf(offset, Hit) \o (IF args.cont THEN Dashes ELSE <<>>)
    BY <1>1, <1>3, <1>4, <1>6 DEF Wanted
  <1> QED
    BY <1>3, <1>4, <1>5, <1>6, <1>7, <1>8

-----------------------------------------------------------------------------
(* The steps keep the invariant.                                           *)

LEMMA MainKeeps == IInv /\ main => IInv'
  <1> SUFFICES ASSUME IInv, main PROVE IInv'
    OBVIOUS
  <1>1. /\ pc = "start" /\ UNCHANGED argVars /\ UNCHANGED outVars /\ found_count' = found_count
        /\ addr' = addr /\ rv' = rv /\ said' = said
        /\ pc' = "find" \/ (pc' = "exit" /\ status' = 1)
    BY DEF main, exit, rangeVars
  <1>2. Types' /\ Begun'
    BY <1>1, NothingWritten DEF IInv, Types
  <1>3. Frames' = Frames
    BY <1>1, SamePromise
  <1>4. Place'
    BY <1>1, <1>3 DEF IInv, Place
  <1>5. Done(addr) /\ rv = 0 /\ said # "none"
    BY <1>1 DEF IInv, Progress, Searching, At
  <1>6. PICK a : a = addr
    OBVIOUS
  <1>7. Done(a)'
    BY <1>1, <1>5, <1>6, SameDone
  <1>8. Done(At)' \/ pc' = "exit"
    BY <1>1, <1>6, <1>7 DEF Done, At
  <1>9. Progress'
    BY <1>1, <1>5, <1>8 DEF Progress, Searching
  <1> QED
    BY <1>2, <1>4, <1>9 DEF IInv

\* An error before or between the pages.
LEMMA ErrorKeeps ==
  ASSUME IInv, pc' = "exit", status' # 0, pc # "exit",
         UNCHANGED <<argVars, outVars, found_count, addr, said>>
  PROVE  IInv'
  <1>1. Types' /\ Begun'
    BY NothingWritten DEF IInv, Types
  <1>2. Frames' = Frames
    BY SamePromise
  <1>3. Place'
    BY <1>2 DEF IInv, Place
  <1>4. Progress'
    BY DEF IInv, Progress, Searching
  <1> QED
    BY <1>1, <1>3, <1>4 DEF IInv

LEMMA NoMoreRangesKeeps == IInv /\ no_more_ranges => IInv'
  <1> SUFFICES ASSUME IInv, no_more_ranges PROVE IInv'
    OBVIOUS
  <1>1. /\ pc = "find" /\ UNCHANGED argVars /\ UNCHANGED outVars /\ found_count' = found_count
        /\ addr' = addr /\ rv' = 0 /\ said' = said /\ pc' = "report"
        /\ \A p \in DOMAIN dump : p >= addr => ~Present(p)
    BY DEF no_more_ranges, rangeVars
  <1>2. Types' /\ Begun'
    BY <1>1, NothingWritten DEF IInv, Types
  <1>3. Frames' = Frames
    BY <1>1, SamePromise
  <1>4. Place'
    BY <1>1, <1>3 DEF IInv, Place
  <1>5. Done(addr) /\ said # "none"
    BY <1>1 DEF IInv, Progress, Searching, At
  <1>6. /\ Frames \in Nat /\ DOMAIN dump = 0 .. Frames - 1 /\ addr \in 0 .. Frames
    BY DumpShape DEF IInv, Types, Place
  <1>7. \A p \in addr .. Frames - 1 : ~Present(p) /\ ~Reads(p)
    BY <1>1, <1>6 DEF Reads
  <1>8. Done(Frames)
    BY <1>5, <1>6, <1>7, PassedOver DEF IInv
  <1>9. PICK n : n = Frames
    OBVIOUS
  <1>10. Done(n)'
    BY <1>1, <1>8, <1>9, SameDone
  <1>11. Done(Frames)'
    BY <1>3, <1>9, <1>10 DEF Done
  <1>12. Progress'
    BY <1>1, <1>5, <1>11 DEF Progress, Searching
  <1> QED
    BY <1>2, <1>4, <1>12 DEF IInv

LEMMA NextRangeKeeps == IInv /\ next_range => IInv'
  <1> SUFFICES ASSUME IInv, next_range PROVE IInv'
    OBVIOUS
  <1>1. /\ pc = "find" /\ UNCHANGED argVars /\ UNCHANGED outVars /\ found_count' = found_count
        /\ rv' = rv /\ said' = said /\ pc' = "pages"
    BY DEF next_range
  <1>2. PICK b \in DOMAIN dump :
          /\ b >= addr /\ \A p \in addr .. b - 1 : ~Present(p)
          /\ \E n \in DOMAIN dump :
               /\ \A p \in b .. b + n : Present(p)
               /\ offset' = b /\ end' = b + n + 1 /\ addr' = b + n + 1
    BY DEF next_range
  <1>3. PICK n \in DOMAIN dump :
          /\ \A p \in b .. b + n : Present(p)
          /\ offset' = b /\ end' = b + n + 1 /\ addr' = b + n + 1
    BY <1>2
  <1>4. Types' /\ Begun'
    BY <1>1, NothingWritten DEF IInv, Types
  <1>5. Frames' = Frames /\ \A p : Present(p)' <=> Present(p)
    BY <1>1, SamePromise
  <1>6. /\ Frames \in Nat /\ DOMAIN dump = 0 .. Frames - 1 /\ addr \in 0 .. Frames
    BY DumpShape DEF IInv, Types, Place
  <1>7. b \in Nat /\ n \in Nat /\ b <= Frames
    BY <1>6
  <1>8. b + n \in DOMAIN dump
    <2>1. b + n \in b .. b + n
      BY <1>7
    <2> QED
      BY <1>3, <2>1 DEF Present
  <1>9. b + n + 1 \in 0 .. Frames /\ b + n + 1 \in Nat
    BY <1>6, <1>7, <1>8
  <1>10. \A p \in b .. (b + n + 1) - 1 : Present(p)
    BY <1>3, <1>7
  <1>11. Place'
    <2>1. addr' \in 0 .. Frames'
      BY <1>3, <1>5, <1>9
    <2>2. offset' \in Nat /\ end' \in Nat /\ offset' <= end' /\ end' = addr'
      BY <1>3, <1>7, <1>9
    <2>3. \A p \in offset' .. end' - 1 : Present(p)'
      BY <1>3, <1>5, <1>10
    <2> QED
      BY <2>1, <2>2, <2>3 DEF Place
  <1>12. Done(addr) /\ rv = 0 /\ said # "none"
    BY <1>1 DEF IInv, Progress, Searching, At
  <1>13. \A p \in addr .. b - 1 : ~Present(p) /\ ~Reads(p)
    BY <1>2 DEF Reads
  <1>14. Done(b)
    <2>1. addr \in Nat /\ addr <= b
      BY <1>2, <1>6, <1>7
    <2>2. Types
      BY DEF IInv
    <2> QED
      BY <1>7, <1>12, <1>13, <2>1, <2>2, PassedOver
  <1>15. Done(b)'
    BY <1>1, <1>14, SameDone
  <1>16. Done(At)'
    BY <1>1, <1>3, <1>15 DEF Done, At
  <1>17. Progress'
    BY <1>1, <1>12, <1>16 DEF Progress, Searching
  <1> QED
    BY <1>4, <1>11, <1>17 DEF IInv

LEMMA RangeDoneKeeps == IInv /\ range_done => IInv'
  <1> SUFFICES ASSUME IInv, range_done PROVE IInv'
    OBVIOUS
  <1>1. /\ pc = "pages" /\ UNCHANGED argVars /\ UNCHANGED outVars /\ found_count' = found_count
        /\ addr' = addr /\ rv' = rv /\ said' = said /\ pc' = "find" /\ offset = end
    BY DEF range_done, rangeVars
  <1>2. Types' /\ Begun'
    BY <1>1, NothingWritten DEF IInv, Types
  <1>3. Frames' = Frames
    BY <1>1, SamePromise
  <1>4. Place'
    BY <1>1, <1>3 DEF IInv, Place
  <1>5. Done(addr) /\ rv = 0 /\ said # "none"
    BY <1>1 DEF IInv, Progress, Searching, At, Place
  <1>6. PICK a : a = addr
    OBVIOUS
  <1>7. Done(a)'
    BY <1>1, <1>5, <1>6, SameDone
  <1>8. Done(At)'
    BY <1>1, <1>6, <1>7 DEF Done, At
  <1>9. Progress'
    BY <1>1, <1>5, <1>8 DEF Progress, Searching
  <1> QED
    BY <1>2, <1>4, <1>9 DEF IInv

LEMMA ReadFailsKeeps == IInv /\ read_fails => IInv'
  <1> SUFFICES ASSUME IInv, read_fails PROVE IInv'
    OBVIOUS
  <1>1. /\ pc = "pages" /\ UNCHANGED argVars /\ UNCHANGED outVars /\ found_count' = found_count
        /\ addr' = addr /\ end' = end /\ rv' = rv /\ said' = said
        /\ offset < end /\ ~dump[offset].ok
    BY DEF read_fails
  <1>2. CASE ~args.persist
    <2>1. pc' = "exit" /\ status' = 1
      BY <1>2 DEF read_fails, exit
    <2> QED
      BY <1>1, <2>1, ErrorKeeps
  <1>3. CASE args.persist
    <2>1. pc' = "pages" /\ offset' = offset + 1
      BY <1>1, <1>3 DEF read_fails, Passed
    <2>2. Types' /\ Begun'
      BY <1>1, NothingWritten DEF IInv, Types
    <2>3. Frames' = Frames /\ \A p : Present(p)' <=> Present(p)
      BY <1>1, SamePromise
    <2>4. Place'
      BY <1>1, <2>1, <2>3 DEF IInv, Place
    <2>5. rv = 0 /\ said # "none"
      BY <1>1 DEF IInv, Progress, Searching
    <2>6. PICK o : o = offset
      OBVIOUS
    <2>7. o \in 0 .. Frames - 1 /\ Frames \in Nat /\ Done(o)
      BY <1>1, <2>6, InRange
    <2>8. \A p \in o .. (o + 1) - 1 : ~Reads(p)
      BY <1>1, <2>6, <2>7 DEF Reads
    <2>9. o \in Nat /\ o + 1 \in Nat /\ o <= o + 1 /\ o + 1 <= Frames
      BY <2>7
    <2>10. Done(o + 1)
      BY <1>3, <2>7, <2>8, <2>9, PassedOver DEF IInv
    <2>11. Done(o + 1)'
      BY <1>1, <2>10, SameDone
    <2>12. Done(At)'
      BY <2>1, <2>6, <2>11 DEF Done, At
    <2>13. Progress'
      BY <1>1, <2>1, <2>5, <2>12 DEF Progress, Searching
    <2> QED
      BY <2>2, <2>4, <2>13 DEF IInv
  <1> QED
    BY <1>2, <1>3

LEMMA BitmapFailsKeeps == IInv /\ bitmap_fails => IInv'
  <1> SUFFICES ASSUME IInv, bitmap_fails PROVE IInv'
    OBVIOUS
  <1>1. /\ pc = "find" /\ UNCHANGED argVars /\ UNCHANGED outVars /\ found_count' = found_count
        /\ addr' = addr /\ said' = said /\ pc' = "exit" /\ status' = 1
    BY DEF bitmap_fails, exit, rangeVars
  <1> QED
    BY <1>1, ErrorKeeps

LEMMA DumpPageKeeps == IInv /\ dump_page => IInv'
  <1> SUFFICES ASSUME IInv, dump_page PROVE IInv'
    OBVIOUS
  <1>1. /\ pc = "pages" /\ args.op = "dump_page" /\ offset < end /\ dump[offset].ok
        /\ UNCHANGED argVars /\ addr' = addr /\ end' = end /\ found_count' = found_count
        /\ status' = status /\ said' = said
    BY DEF dump_page, Page
  <1>2. found_count' \in Nat
    BY <1>1 DEF IInv, Types
  <1>3. CASE write(PageData(offset), <<>>) /\ return(0)
    <2>1. /\ Present(offset) /\ offset \in Int /\ PAGE \in Nat
      BY <1>1, InRange
    <2>2. /\ PageData(offset) \in Seq(Unit) /\ <<>> \in Seq(Unit)
      BY <2>1, Pieces
    <2>3. PageData(offset) \o <<>> = Wanted(offset)
      BY <1>1, <2>1, <2>2, ConcatEmptySeq DEF Wanted, Reads
    <2>4. PICK o, s, t : o = offset /\ s = PageData(offset) /\ t = <<>>
      OBVIOUS
    <2>5. s \in Seq(Unit) /\ t \in Seq(Unit) /\ s \o t = Wanted(offset) /\ write(s, t)
      BY <1>3, <2>2, <2>3, <2>4
    <2>6. Types' /\ Begun' /\ (~short' => SubSeq(out', 1, woff') = PromisedOf(o + 1)')
      BY <1>1, <1>2, <2>4, <2>5, FrameWritten
    <2>7. Done(o + 1)'
      BY <1>1, <1>2, <2>4, <2>6, DoneNext
    <2>8. Place' /\ Progress'
      BY <1>1, <1>3, <2>4, <2>7, ReturnedZero
    <2> QED
      BY <2>6, <2>8 DEF IInv
  <1>4. CASE return(-1) /\ UNCHANGED outVars
    <2>1. Types' /\ Begun'
      BY <1>1, <1>2, <1>4, NothingWritten DEF IInv
    <2>2. Place' /\ Progress'
      BY <1>1, <1>4, ReturnedError
    <2> QED
      BY <2>1, <2>2 DEF IInv
  <1> QED
    BY <1>3, <1>4 DEF dump_page

LEMMA NoVmcoreinfoKeeps == IInv /\ no_vmcoreinfo => IInv'
  <1> SUFFICES ASSUME IInv, no_vmcoreinfo PROVE IInv'
    OBVIOUS
  <1>1. /\ pc = "pages" /\ args.op = "check_vmcoreinfo" /\ offset < end /\ dump[offset].ok
        /\ UNCHANGED argVars /\ addr' = addr /\ end' = end /\ found_count' = found_count
        /\ status' = status /\ said' = said /\ UNCHANGED outVars
        /\ Page("check_vmcoreinfo") /\ Hits = {} /\ return(0)
    BY DEF no_vmcoreinfo, Page
  <1>2. Types /\ Begun /\ found_count' \in Nat
    BY <1>1 DEF IInv, Types
  <1>3. Types' /\ Begun'
    BY <1>1, <1>2, NothingWritten
  <1>4. SeenIn(offset) = {} /\ Wanted(offset) = <<>>
    BY <1>1, FoundIsFirst
  <1>5. PICK o : o = offset
    OBVIOUS
  <1>6. /\ o \in 0 .. Frames - 1 /\ o \in 0 .. Frames /\ Done(o) /\ dump \in Dumps
    BY <1>1, <1>2, <1>5, InRange DEF Types
  <1>7. PromisedOf(o + 1) = PromisedOf(o)
    <2>1. PromisedOf(o) \in Seq(Unit)
      BY <1>6, PromisedStep
    <2>2. PromisedOf(o) \o <<>> = PromisedOf(o)
      BY <2>1, ConcatEmptySeq
    <2> QED
      BY <1>4, <1>5, <1>6, <2>2, PromisedStep
  <1>8. PromisedOf(o + 1)' = PromisedOf(o + 1)
    BY <1>1, SamePromise
  <1>9. ~short' => SubSeq(out', 1, woff') = PromisedOf(o + 1)'
    BY <1>1, <1>6, <1>7, <1>8 DEF Done, outVars
  <1>10. Done(o + 1)'
    <2>1. args.op = "check_vmcoreinfo" /\ ~args.cont => PromisedOf(o + 1) = <<>>
      BY <1>6, <1>7 DEF Done
    <2> QED
      BY <1>1, <1>2, <1>4, <1>5, <1>9, <2>1, DoneNext
  <1>11. Place' /\ Progress'
    BY <1>1, <1>5, <1>10, ReturnedZero
  <1> QED
    BY <1>3, <1>11 DEF IInv

\* A string is written, and perhaps the dashes.
LEMMA ReportedKeeps ==
  ASSUME IInv, Page("check_vmcoreinfo"), Hits # {}, Reported(TextOf(offset, Hit)),
         UNCHANGED <<argVars, addr, end, status, said>>,
         found_count' \in Nat, args.flexible \/ found_count' # 0
  PROVE  IInv'
  <1>1. /\ pc = "pages" /\ args.op = "check_vmcoreinfo" /\ offset < end /\ dump[offset].ok
    BY DEF Page
  <1>2. TextOf(offset, Hit) \in Seq(Unit) /\ Dashes \in Seq(Unit) /\ <<>> \in Seq(Unit)
    BY FoundIsFirst
  <1>3. CASE args.cont
    <2>1. write(TextOf(offset, Hit), Dashes) /\ return(0)
      BY <1>3 DEF Reported
    <2>2. PICK o, s, t : o = offset /\ s = TextOf(offset, Hit) /\ t = Dashes
      OBVIOUS
    <2>3. s \in Seq(Unit) /\ t \in Seq(Unit) /\ s \o t = Wanted(offset) /\ write(s, t)
      BY <1>2, <1>3, <2>1, <2>2, FoundIsFirst
    <2>4. Types' /\ Begun' /\ (~short' => SubSeq(out', 1, woff') = PromisedOf(o + 1)')
      BY <1>1, <2>2, <2>3, FrameWritten
    <2>5. Done(o + 1)'
      BY <1>1, <1>3, <2>2, <2>4, DoneNext
    <2>6. Place' /\ Progress'
      BY <1>1, <2>1, <2>2, <2>5, ReturnedZero
    <2> QED
      BY <2>4, <2>6 DEF IInv
  <1>4. CASE ~args.cont
    <2>1. write(TextOf(offset, Hit), <<>>) /\ return(-1)
      BY <1>4 DEF Reported
    <2>2. PICK o, s, t : o = offset /\ s = TextOf(offset, Hit) /\ t = <<>>
      OBVIOUS
    <2>3. s \in Seq(Unit) /\ t \in Seq(Unit) /\ s \o t = Wanted(offset) /\ write(s, t)
      BY <1>2, <1>4, <2>1, <2>2, FoundIsFirst
    <2>4. Types' /\ Begun'
      BY <1>1, <2>2, <2>3, FrameWritten
    <2>5. Place' /\ Progress'
      BY <1>1, <2>1, ReturnedError
    <2> QED
      BY <2>4, <2>5 DEF IInv
  <1> QED
    BY <1>3, <1>4

LEMMA PageBeginsKeeps == IInv /\ page_begins_with_vmcoreinfo => IInv'
  <1> SUFFICES ASSUME IInv, page_begins_with_vmcoreinfo PROVE IInv'
    OBVIOUS
  <1>1. found_count' \in Nat /\ found_count' # 0
    BY DEF page_begins_with_vmcoreinfo, Counted, IInv, Types
  <1>2. TextOf(offset, Hit) = <<Info(offset, Hit)>>
    BY DEF TextOf, page_begins_with_vmcoreinfo
  <1> QED
    BY <1>1, <1>2, ReportedKeeps DEF page_begins_with_vmcoreinfo

LEMMA PageContainsKeeps == IInv /\ page_contains_vmcoreinfo => IInv'
  <1> SUFFICES ASSUME IInv, page_contains_vmcoreinfo PROVE IInv'
    OBVIOUS
  <1>1. found_count' \in Nat
    BY DEF page_contains_vmcoreinfo, IInv, Types
  <1>2. TextOf(offset, Hit) = <<Info(offset, Hit)>>
    BY DEF TextOf, page_contains_vmcoreinfo
  <1> QED
    BY <1>1, <1>2, ReportedKeeps DEF page_contains_vmcoreinfo

LEMMA PageOverrunKeeps == IInv /\ page_overrun => IInv'
  <1> SUFFICES ASSUME IInv, page_overrun PROVE IInv'
    OBVIOUS
  <1>1. /\ pc = "pages" /\ UNCHANGED argVars /\ addr' = addr /\ end' = end /\ said' = said
        /\ Page("check_vmcoreinfo") /\ Hits # {}
    BY DEF page_overrun, Page
  <1>2. CASE exit(139) /\ UNCHANGED <<outVars, found_count, rv, offset>>
    <2>1. pc' = "exit" /\ status' = 139
      BY <1>2 DEF exit
    <2> QED
      BY <1>1, <1>2, <2>1, ErrorKeeps
  <1>3. CASE /\ Reported(<<Info(offset, Hit), Beyond>>)
             /\ found_count' = Counted
             /\ UNCHANGED status
    <2>1. found_count' \in Nat /\ found_count' # 0
      BY <1>3 DEF Counted, IInv, Types
    <2>2. TextOf(offset, Hit) = <<Info(offset, Hit), Beyond>>
      BY DEF TextOf, page_overrun
    <2> QED
      BY <1>1, <1>3, <2>1, <2>2, ReportedKeeps
  <1> QED
    BY <1>2, <1>3 DEF page_overrun

LEMMA ReadStringFailsKeeps == IInv /\ read_string_fails => IInv'
  <1> SUFFICES ASSUME IInv, read_string_fails PROVE IInv'
    OBVIOUS
  <1>1. /\ pc = "pages" /\ UNCHANGED argVars /\ addr' = addr /\ said' = said
        /\ found_count' = found_count /\ UNCHANGED outVars /\ return(-1)
    BY DEF read_string_fails, Page
  <1>2. Types /\ Begun /\ found_count' \in Nat
    BY <1>1 DEF IInv, Types
  <1>3. Types' /\ Begun'
    BY <1>1, <1>2, NothingWritten
  <1>4. Place' /\ Progress'
    BY <1>1, ReturnedError
  <1> QED
    BY <1>3, <1>4 DEF IInv

LEMMA ReportKeeps == IInv /\ report => IInv'
  <1> SUFFICES ASSUME IInv, report PROVE IInv'
    OBVIOUS
  <1>1. /\ pc = "report" /\ UNCHANGED argVars /\ UNCHANGED outVars /\ found_count' = found_count
        /\ addr' = addr /\ rv' = rv /\ pc' = "exit"
        /\ status' = IF rv # 0 THEN 1 ELSE 0
    BY DEF report, exit, rangeVars
  <1>2. Types /\ Begun /\ found_count' \in Nat
    BY <1>1 DEF IInv, Types
  <1>3. Types' /\ Begun'
    BY <1>1, <1>2, NothingWritten
  <1>4. Frames' = Frames
    BY <1>1, SamePromise
  <1>5. Place'
    BY <1>1, <1>4 DEF IInv, Place
  <1>5a. said' = "none" => args.op = "check_vmcoreinfo" /\ rv = 0 /\ found_count = 0
    <2>1. args.op \in {"dump_page", "check_vmcoreinfo"}
      BY <1>2 DEF Types, Options
    <2>2. said' = IF args.op = "dump_page" THEN ""
                  ELSE IF found_count > 1 THEN "found"
                  ELSE IF rv = 0 /\ found_count = 0 THEN "none" ELSE ""
      BY DEF report
    <2> QED
      BY <2>1, <2>2
  <1>6. rv = 0 => Done(Frames)
    BY <1>1 DEF IInv, Progress
  <1>7. PICK n : n = Frames
    OBVIOUS
  <1>8. rv = 0 => Done(n)'
    BY <1>1, <1>6, <1>7, SameDone
  <1>9. rv = 0 => Done(Frames)'
    BY <1>4, <1>7, <1>8 DEF Done
  <1>10. args' = args
    BY <1>1 DEF argVars
  <1>11. Progress'
    BY <1>1, <1>5a, <1>9, <1>10 DEF Progress, Searching
  <1> QED
    BY <1>3, <1>5, <1>11 DEF IInv

LEMMA StutterKeeps == IInv /\ UNCHANGED vars => IInv'
  <1> SUFFICES ASSUME IInv, UNCHANGED vars PROVE IInv'
    OBVIOUS
  <1>1. /\ UNCHANGED argVars /\ UNCHANGED outVars /\ found_count' = found_count
        /\ addr' = addr /\ offset' = offset /\ end' = end
        /\ pc' = pc /\ rv' = rv /\ status' = status /\ said' = said
    BY DEF vars, rangeVars
  <1>2. Types /\ Begun /\ found_count' \in Nat
    BY <1>1 DEF IInv, Types
  <1>3. Types' /\ Begun'
    BY <1>1, <1>2, NothingWritten
  <1>4. Frames' = Frames /\ \A p : Present(p)' <=> Present(p)
    BY <1>1, SamePromise
  <1>5. Place'
    BY <1>1, <1>4 DEF IInv, Place
  <1>6. PICK n, a : n = Frames /\ a = At
    OBVIOUS
  <1>7. (Done(n) => Done(n)') /\ (Done(a) => Done(a)')
    BY <1>1, SameDone
  <1>8. (Done(Frames) => Done(Frames)') /\ (Done(At) => Done(At)')
    <2>1. At' = a
      BY <1>1, <1>6 DEF At
    <2> QED
      BY <1>4, <1>6, <1>7, <2>1 DEF Done
  <1>9. args' = args
    BY <1>1 DEF argVars
  <1>10. Progress'
    BY <1>1, <1>8, <1>9 DEF IInv, Progress, Searching
  <1> QED
    BY <1>3, <1>5, <1>10 DEF IInv

-----------------------------------------------------------------------------
(* Theorems.                                                               *)

\* The invariant holds always: the walk is where it thinks it is, and the output,
\* the count and the frames passed belong together (count_pages, dump_page and
\* check_vmcoreinfo).
THEOREM Invariance == Spec => []IInv
  <1>1. IInv /\ [Next]_vars => IInv'
    BY MainKeeps, NoMoreRangesKeeps, NextRangeKeeps, RangeDoneKeeps, ReadFailsKeeps,
       DumpPageKeeps, NoVmcoreinfoKeeps, PageBeginsKeeps, PageContainsKeeps,
       PageOverrunKeeps, ReadStringFailsKeeps, ReportKeeps, StutterKeeps, BitmapFailsKeeps
    DEF Next
  <1> QED
    BY <1>1, InitIInv, PTL DEF Spec

\* What count_pages has written through the page functions is at every moment a
\* beginning of what is promised, and with status 0 all of it, unless a write of
\* check_vmcoreinfo failed or a write fell short; an overrunning string with what lies
\* behind it included.  Behind it the file always holds what it held before.
THEOREM OutputIsExact == Spec => []OutputExact
  <1>1. IInv => OutputExact
    <2>0. IInv => \A k \in woff + 1 .. Len(out) : out[k] = Old
      BY DEF IInv, Types, OldBehind
    <2> SUFFICES ASSUME IInv, ~short
                 PROVE  /\ woff <= Len(Promised) /\ SubSeq(out, 1, woff) = SubSeq(Promised, 1, woff)
                        /\ pc = "exit" /\ status = 0 => SubSeq(out, 1, woff) = Promised
                        /\ pc = "exit" /\ status = 0 /\ ~args.persist =>
                             \A p \in DOMAIN dump : Present(p) => dump[p].ok
      BY <2>0 DEF OutputExact
    <2>1. PICK n \in 0 .. Frames : SubSeq(out, 1, woff) = PromisedOf(n)
      BY DEF IInv, Begun
    <2>2. dump \in Dumps /\ out \in Seq(Unit) /\ woff \in 0 .. Len(out)
      BY DEF IInv, Types
    <2>3. Len(SubSeq(out, 1, woff)) = woff
      BY <2>2
    <2>4. Begins(PromisedOf(n), Promised)
      BY <2>2, PromisedBegins
    <2>5. woff <= Len(Promised) /\ SubSeq(out, 1, woff) = SubSeq(Promised, 1, woff)
      BY <2>1, <2>3, <2>4 DEF Begins
    <2>6. DOMAIN dump = 0 .. Frames - 1
      BY <2>2, DumpShape
    <2>7. pc = "exit" /\ status = 0 => Done(Frames)
      BY DEF IInv, Progress
    <2> QED
      BY <2>5, <2>6, <2>7 DEF Done, Promised
  <1> QED
    BY <1>1, Invariance, PTL

\* Except with -I and -f together, main says that nothing was found only of a vmcore
\* without a readable page that shows a marker, whatever pages could not be read on
\* the way.
THEOREM NoneIsNone == Spec => []NoneMeansNone
  <1>1. IInv => NoneMeansNone
    <2>1. IInv => DOMAIN dump = 0 .. Frames - 1
      BY DumpShape DEF IInv, Types
    <2> QED
      BY <2>1 DEF IInv, Progress, Done, NoneMeansNone, NothingToFind
  <1> QED
    BY <1>1, Invariance, PTL

=============================================================================
