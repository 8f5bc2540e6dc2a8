------------------------------ MODULE Induction ------------------------------
(***************************************************************************)
(* Induction over the natural numbers, for a set of numbers in place of a  *)
(* predicate, so that first-order provers can use it; and what follows     *)
(* from it for functions defined by recursion.                             *)
(***************************************************************************)
EXTENDS Integers, FiniteSetTheorems, TLAPS

\* A set of numbers that has 0 and with every number the next has all of them: if it
\* lacked n, then adding 1 would map its members below n one to one to those but 0.
LEMMA SetInduction ==
  ASSUME NEW S, 0 \in S, \A n \in Nat : n \in S => n + 1 \in S
  PROVE  Nat \subseteq S
  <1> SUFFICES ASSUME NEW n \in Nat, n \notin S PROVE FALSE
    OBVIOUS
  <1> DEFINE T == {k \in 0 .. n : k \in S}
             U == T \ {0}
             f == [k \in T |-> k + 1]
  <1>1. IsFiniteSet(T)
    <2>1. IsFiniteSet(0 .. n)
      BY FS_Interval
    <2> QED
      BY <2>1, FS_Subset
  <1>2. 0 \in T
    OBVIOUS
  <1>3. IsFiniteSet(U) /\ Cardinality(U) = Cardinality(T) - 1
    <2> HIDE DEF T
    <2> QED
      BY <1>1, <1>2, FS_RemoveElement
  <1>4. f \in Injection(T, U)
    <2>1. ASSUME NEW k \in T PROVE k + 1 \in U
      <3>1. k \in Nat /\ k <= n /\ k # n /\ k \in S
        BY <2>1
      <3>2. k + 1 \in S /\ k + 1 \in 0 .. n /\ k + 1 # 0
        BY <3>1
      <3> QED
        BY <3>2
    <2>2. f \in [T -> U]
      BY <2>1
    <2>3. \A a, b \in T : f[a] = f[b] => a = b
      OBVIOUS
    <2> HIDE DEF T, U, f
    <2> QED
      BY <2>2, <2>3 DEF Injection, IsInjective
  <1>5. Cardinality(T) <= Cardinality(U)
    <2> HIDE DEF T, U, f
    <2> QED
      BY <1>3, <1>4, FS_Injection
  <1>6. Cardinality(T) \in Nat
    BY <1>1, FS_CardinalityType
  <1> HIDE DEF T, U
  <1> QED
    BY <1>3, <1>5, <1>6

\* The same from some number on.
LEMMA SetInductionFrom ==
  ASSUME NEW m \in Int, NEW S, m \in S, \A n \in Int : n >= m /\ n \in S => n + 1 \in S
  PROVE  \A n \in Int : n >= m => n \in S
  <1> DEFINE T == {k \in Nat : m + k \in S}
  <1>1. 0 \in T
    OBVIOUS
  <1>2. \A k \in Nat : k \in T => k + 1 \in T
    <2> SUFFICES ASSUME NEW k \in Nat, k \in T PROVE k + 1 \in T
      OBVIOUS
    <2>1. m + k \in Int /\ m + k >= m /\ m + k \in S
      OBVIOUS
    <2>2. (m + k) + 1 \in S
      BY <2>1
    <2>3. (m + k) + 1 = m + (k + 1)
      OBVIOUS
    <2> QED
      BY <2>2, <2>3
  <1>3. Nat \subseteq T
    <2> HIDE DEF T
    <2> QED
      BY <1>1, <1>2, SetInduction
  <1> SUFFICES ASSUME NEW n \in Int, n >= m PROVE n \in S
    OBVIOUS
  <1>4. n - m \in Nat /\ m + (n - m) = n
    OBVIOUS
  <1>5. n - m \in T
    BY <1>3, <1>4
  <1> QED
    BY <1>4, <1>5

\* A set of natural numbers that is not empty has a least one.
LEMMA LeastNumber ==
  ASSUME NEW T, T \subseteq Nat, T # {}
  PROVE  \E k \in T : \A j \in T : k <= j
  <1> SUFFICES ASSUME ~ \E k \in T : \A j \in T : k <= j PROVE FALSE
    OBVIOUS
  <1> DEFINE S == {n \in Nat : \A j \in T : n <= j}
  <1>1. 0 \in S
    OBVIOUS
  <1>2. \A n \in Nat : n \in S => n + 1 \in S
    <2> SUFFICES ASSUME NEW n \in Nat, n \in S PROVE n + 1 \in S
      OBVIOUS
    <2>1. n \notin T
      OBVIOUS
    <2>2. ASSUME NEW j \in T PROVE n + 1 <= j
      <3>1. n <= j /\ n # j /\ j \in Nat
        BY <2>1
      <3> QED
        BY <3>1
    <2> QED
      BY <2>2
  <1>3. Nat \subseteq S
    <2> HIDE DEF S
    <2> QED
      BY <1>1, <1>2, SetInduction
  <1>4. PICK j : j \in T
    OBVIOUS
  <1>5. j \in Nat /\ j + 1 \in Nat
    BY <1>4
  <1>6. j + 1 <= j
    BY <1>3, <1>4, <1>5
  <1> QED
    BY <1>5, <1>6

\* A set of natural numbers with an upper bound that is not empty has a greatest one.
LEMMA GreatestNumber ==
  ASSUME NEW b \in Nat, NEW T, T \subseteq 0 .. b, T # {}
  PROVE  \E k \in T : \A j \in T : j <= k
  <1> DEFINE U == {n \in Nat : b - n \in T}
  <1>1. PICK j : j \in T
    OBVIOUS
  <1>2. b - j \in Nat /\ b - (b - j) = j
    BY <1>1
  <1>3. U \subseteq Nat /\ U # {}
    BY <1>1, <1>2
  <1>4. PICK n \in U : \A m \in U : n <= m
    <2> HIDE DEF U
    <2> QED
      BY <1>3, LeastNumber
  <1>5. ASSUME NEW i \in T PROVE i <= b - n
    <2>1. i \in Nat /\ b - i \in Nat /\ b - (b - i) = i
      OBVIOUS
    <2>2. b - i \in U
      BY <2>1
    <2>3. n <= b - i
      BY <1>4, <2>2
    <2> QED
      BY <1>4, <2>1, <2>3
  <1>6. b - n \in T
    BY <1>4
  <1> QED
    BY <1>5, <1>6

-----------------------------------------------------------------------------
(* Functions defined by recursion.                                         *)

\* f begins with base and goes on step by step, among the values T.
Recursion(f, n, T, base, step) ==
  /\ f = [k \in 0 .. n |-> IF k = 0 THEN base ELSE step[k][f[k - 1]]]
  /\ \A k \in 0 .. n : f[k] \in T

\* A value for 0 and a step from each number to the next define a function.
LEMMA RecursionExists ==
  ASSUME NEW n \in Nat, NEW T, NEW base \in T, NEW step,
         \A k \in 1 .. n : \A t \in T : step[k][t] \in T
  PROVE  \E f : Recursion(f, n, T, base, step)
  <1> DEFINE Upto(m, f) == /\ f[0] = base
                           /\ \A k \in 1 .. m : f[k] = step[k][f[k - 1]]
                           /\ \A k \in 0 .. m : f[k] \in T
             S == {m \in Nat : m <= n => \E f : Upto(m, f)}
  <1>1. 0 \in S
    <2>1. 1 .. 0 = {} /\ 0 .. 0 = {0}
      OBVIOUS
    <2>2. Upto(0, [k \in {0} |-> base])
      BY <2>1
    <2> HIDE DEF Upto
    <2> QED
      BY <2>2
  <1>2. \A m \in Nat : m \in S => m + 1 \in S
    <2> SUFFICES ASSUME NEW m \in Nat, m \in S, m + 1 <= n PROVE \E f : Upto(m + 1, f)
      <3> HIDE DEF Upto
      <3> QED
        OBVIOUS
    <2>1. PICK f : Upto(m, f)
      <3>1. m <= n
        OBVIOUS
      <3> HIDE DEF Upto
      <3> QED
        BY <3>1
    <2> DEFINE g == [k \in 0 .. m + 1 |-> IF k = m + 1 THEN step[m + 1][f[m]] ELSE f[k]]
    <2>2. \A k \in 0 .. m : g[k] = f[k]
      OBVIOUS
    <2>3. g[m + 1] = step[m + 1][f[m]]
      OBVIOUS
    <2> HIDE DEF g, S
    <2>4. g[m + 1] \in T /\ m \in 0 .. m /\ 0 \in 0 .. m
      BY <2>1, <2>3
    <2>5. \A k \in 1 .. m + 1 : g[k] = step[k][g[k - 1]]
      <3> SUFFICES ASSUME NEW k \in 1 .. m + 1 PROVE g[k] = step[k][g[k - 1]]
        OBVIOUS
      <3>1. CASE k = m + 1
        <4>1. k - 1 = m
          BY <3>1
        <4> QED
          BY <2>2, <2>3, <2>4, <3>1, <4>1
      <3>2. CASE k # m + 1
        <4>1. k \in 1 .. m /\ k \in 0 .. m /\ k - 1 \in 0 .. m
          BY <3>2
        <4> QED
          BY <2>1, <2>2, <4>1
      <3> QED
        BY <3>1, <3>2
    <2>6. \A k \in 0 .. m + 1 : g[k] \in T
      <3> SUFFICES ASSUME NEW k \in 0 .. m + 1 PROVE g[k] \in T
        OBVIOUS
      <3>1. k = m + 1 \/ k \in 0 .. m
        OBVIOUS
      <3> QED
        BY <2>1, <2>2, <2>4, <3>1
    <2>7. Upto(m + 1, g)
      BY <2>1, <2>2, <2>4, <2>5, <2>6
    <2> HIDE DEF Upto
    <2> QED
      BY <2>7
  <1> HIDE DEF S
  <1>3. n \in S
    BY <1>1, <1>2, SetInduction
  <1>4. PICK f : Upto(n, f)
    <2> HIDE DEF Upto
    <2> QED
      BY <1>3 DEF S
  <1> DEFINE Next(k) == IF k = 0 THEN base ELSE step[k][f[k - 1]]
             g == [k \in 0 .. n |-> f[k]]
             h == [k \in 0 .. n |-> IF k = 0 THEN base ELSE step[k][g[k - 1]]]
  <1>5. ASSUME NEW k \in 0 .. n PROVE f[k] = IF k = 0 THEN base ELSE step[k][g[k - 1]]
    <2>1. CASE k = 0
      BY <1>4, <2>1
    <2>2. CASE k # 0
      <3>1. k \in 1 .. n /\ k - 1 \in 0 .. n
        BY <2>2
      <3>2. g[k - 1] = f[k - 1]
        BY <3>1
      <3> QED
        BY <1>4, <2>2, <3>1, <3>2
    <2> QED
      BY <2>1, <2>2
  <1>6. g = h
    BY <1>5
  <1>7. \A k \in 0 .. n : g[k] \in T
    BY <1>4
  <1>8. Recursion(g, n, T, base, step)
    BY <1>6, <1>7 DEF Recursion
  <1> HIDE DEF g
  <1> QED
    BY <1>8

-----------------------------------------------------------------------------
(* Walks over a range of offsets, each hop forward, as the programs walk   *)
(* over the notes of a file: w[o] is the set of offsets that a walk from o *)
(* on meets before it stops or leaves the range.                           *)

Met(b, stop, hop, w, o) ==
  IF o \in stop THEN {} ELSE {o} \cup (IF hop[o] > b THEN {} ELSE w[hop[o]])

IsWalk(a, b, stop, hop, w) == w = [o \in a .. b |-> Met(b, stop, hop, w, o)]

Forward(a, b, stop, hop) == \A o \in a .. b : o \notin stop => hop[o] \in Int /\ hop[o] > o

\* There is a function that this recursion defines: the range is extended to the
\* left offset by offset.
LEMMA WalkExists ==
  ASSUME NEW a \in Int, NEW b \in Int, NEW stop, NEW hop, Forward(a, b, stop, hop)
  PROVE  \E w : IsWalk(a, b, stop, hop, w)
  <1>0. \A o \in a .. b : o \notin stop => hop[o] \in Int /\ hop[o] > o
    BY DEF Forward
  <1> DEFINE Walk(w, n) == \A o \in b - n + 1 .. b : w[o] = Met(b, stop, hop, w, o)
             S == {n \in Nat : n <= b - a + 1 => \E w : Walk(w, n)}
  <1>1. 0 \in S
    <2>1. b - 0 + 1 .. b = {}
      OBVIOUS
    <2>2. \E w : Walk(w, 0)
      BY <2>1
    <2> HIDE DEF Walk
    <2> QED
      BY <2>2
  <1>2. ASSUME NEW n \in Nat, n + 1 <= b - a + 1, n \in S
        PROVE  \E w : Walk(w, n + 1)
    <2>1. PICK v : Walk(v, n)
      BY <1>2
    <2> DEFINE m == b - n
               w == [o \in m .. b |-> IF o = m THEN Met(b, stop, hop, v, o) ELSE v[o]]
    <2>2. m \in Int /\ a <= m /\ m = b - (n + 1) + 1 /\ m + 1 = b - n + 1
      BY <1>2
    <2>3. ASSUME NEW o \in m .. b PROVE w[o] = Met(b, stop, hop, w, o)
      <3>0. o \in Int /\ m <= o /\ o <= b
        BY <2>2
      <3>1. o \notin stop => hop[o] \in Int /\ hop[o] > o
        BY <1>0, <2>2, <3>0
      <3>2. o \notin stop /\ ~(hop[o] > b) => w[hop[o]] = v[hop[o]]
        <4> SUFFICES ASSUME o \notin stop, ~(hop[o] > b) PROVE w[hop[o]] = v[hop[o]]
          OBVIOUS
        <4>1. hop[o] \in m .. b /\ hop[o] # m
          BY <3>0, <3>1, <2>2
        <4> QED
          BY <4>1
      <3>3. Met(b, stop, hop, w, o) = Met(b, stop, hop, v, o)
        <4> HIDE DEF w
        <4> QED
          BY <3>2 DEF Met
      <3>4. w[o] = Met(b, stop, hop, v, o)
        <4>1. CASE o = m
          BY <4>1
        <4>2. CASE o # m
          <5>1. o \in b - n + 1 .. b
            BY <3>0, <4>2, <2>2
          <5>2. v[o] = Met(b, stop, hop, v, o)
            BY <5>1, <2>1
          <5> QED
            BY <5>2, <4>2
        <4> QED
          BY <4>1, <4>2
      <3> QED
        BY <3>3, <3>4
    <2>4. Walk(w, n + 1)
      <3> HIDE DEF w
      <3> QED
        BY <2>2, <2>3
    <2> QED
      BY <2>4
  <1>3. Nat \subseteq S
    <2>1. \A n \in Nat : n \in S => n + 1 \in S
      <3> HIDE DEF Walk
      <3> QED
        BY <1>2
    <2> HIDE DEF S
    <2> QED
      BY <1>1, <2>1, SetInduction
  <1>4. CASE a <= b
    <2>1. b - a + 1 \in Nat /\ b - (b - a + 1) + 1 = a
      BY <1>4
    <2>2. b - a + 1 \in S
      BY <1>3, <2>1
    <2>3. PICK v : Walk(v, b - a + 1)
      BY <2>1, <2>2
    <2> DEFINE w == [o \in a .. b |-> v[o]]
    <2>4. ASSUME NEW o \in a .. b PROVE v[o] = Met(b, stop, hop, w, o)
      <3>1. v[o] = Met(b, stop, hop, v, o)
        BY <2>1, <2>3
      <3>2. o \notin stop /\ ~(hop[o] > b) => hop[o] \in a .. b
        BY <1>0
      <3>3. o \notin stop /\ ~(hop[o] > b) => w[hop[o]] = v[hop[o]]
        BY <3>2
      <3> HIDE DEF w
      <3> QED
        BY <3>1, <3>3 DEF Met
    <2>5. w = [o \in a .. b |-> Met(b, stop, hop, w, o)]
      BY <2>4
    <2> HIDE DEF w
    <2> QED
      BY <2>5 DEF IsWalk
  <1>5. CASE ~(a <= b)
    <2>1. a .. b = {}
      BY <1>5
    <2>2. <<>> = [o \in a .. b |-> Met(b, stop, hop, <<>>, o)]
      BY <2>1
    <2> QED
      BY <2>2 DEF IsWalk
  <1> QED
    BY <1>4, <1>5

\* Whatever function it is, a walk meets only offsets of the range at which it does
\* not stop.
LEMMA WalkInRange ==
  ASSUME NEW a \in Int, NEW b \in Int, NEW stop, NEW hop, Forward(a, b, stop, hop),
         NEW w, IsWalk(a, b, stop, hop, w)
  PROVE  \A o \in a .. b : w[o] \subseteq {p \in a .. b : p >= o /\ p \notin stop}
  <1> DEFINE Good(o) == w[o] \subseteq {p \in a .. b : p >= o /\ p \notin stop}
             S == {n \in Nat : \A o \in a .. b : o > b - n => Good(o)}
  <1>0. \A o \in a .. b :
          /\ w[o] = Met(b, stop, hop, w, o)
          /\ o \notin stop => hop[o] \in Int /\ hop[o] > o
    BY DEF IsWalk, Forward
  <1>1. 0 \in S
    OBVIOUS
  <1>2. \A n \in Nat : n \in S => n + 1 \in S
    <2> SUFFICES ASSUME NEW n \in Nat, n \in S, NEW o \in a .. b, o > b - (n + 1)
                 PROVE  Good(o)
      OBVIOUS
    <2>1. CASE o \in stop
      BY <1>0, <2>1 DEF Met
    <2>2. CASE o \notin stop /\ hop[o] > b
      <3>1. w[o] = {o}
        BY <1>0, <2>2 DEF Met
      <3> QED
        BY <2>2, <3>1
    <2>3. CASE o \notin stop /\ ~(hop[o] > b)
      <3>1. hop[o] \in a .. b /\ hop[o] > b - n /\ hop[o] > o
        BY <1>0, <2>3
      <3>2. Good(hop[o])
        BY <3>1
      <3>3. w[o] = {o} \cup w[hop[o]]
        BY <1>0, <2>3 DEF Met
      <3> QED
        BY <2>3, <3>1, <3>2, <3>3
    <2> QED
      BY <2>1, <2>2, <2>3
  <1>3. Nat \subseteq S
    <2> HIDE DEF S
    <2> QED
      BY <1>1, <1>2, SetInduction
  <1> SUFFICES ASSUME NEW o \in a .. b PROVE Good(o)
    OBVIOUS
  <1>4. b - o + 1 \in Nat /\ o > b - (b - o + 1)
    OBVIOUS
  <1>5. b - o + 1 \in S
    BY <1>3, <1>4
  <1> QED
    BY <1>4, <1>5

\* Two walks that go the same way: from offset o of R the first stops, leaves its range
\* or hops within R as the second does from move[o].  Then the second meets what the
\* first meets, moved.
Alike(R, move, b, stop, hop, c, halt, skip) ==
  \A o \in R :
    /\ o \in stop <=> move[o] \in halt
    /\ o \notin stop => /\ hop[o] > b <=> skip[move[o]] > c
                        /\ ~(hop[o] > b) => hop[o] \in R /\ skip[move[o]] = move[hop[o]]

Follows(R, move, w, v) ==
  \A o \in R : w[o] \subseteq R /\ v[move[o]] = {move[p] : p \in w[o]}

LEMMA WalkMoved ==
  ASSUME NEW a \in Int, NEW b \in Int, NEW stop, NEW hop, Forward(a, b, stop, hop),
         NEW w, IsWalk(a, b, stop, hop, w),
         NEW d \in Int, NEW c \in Int, NEW halt, NEW skip, NEW v, IsWalk(d, c, halt, skip, v),
         NEW R \in SUBSET (a .. b), NEW move, \A o \in R : move[o] \in d .. c,
         Alike(R, move, b, stop, hop, c, halt, skip)
  PROVE  Follows(R, move, w, v)
  <1> DEFINE Good(o) == w[o] \subseteq R /\ v[move[o]] = {move[p] : p \in w[o]}
             S == {n \in Nat : \A o \in R : o > b - n => Good(o)}
  <1>0. \A o \in R :
          /\ o \in a .. b
          /\ w[o] = Met(b, stop, hop, w, o)
          /\ v[move[o]] = Met(c, halt, skip, v, move[o])
          /\ o \notin stop => hop[o] \in Int /\ hop[o] > o
    BY DEF IsWalk, Forward
  <1>1. 0 \in S
    OBVIOUS
  <1>2. ASSUME NEW n \in Nat, n \in S, NEW o \in R, o > b - (n + 1)
        PROVE  Good(o)
    <2>1. CASE o \in stop
      <3>1. w[o] = {} /\ v[move[o]] = {}
        BY <1>0, <2>1 DEF Met, Alike
      <3> QED
        BY <3>1
    <2>2. CASE o \notin stop /\ hop[o] > b
      <3>1. w[o] = {o} /\ v[move[o]] = {move[o]}
        BY <1>0, <2>2 DEF Met, Alike
      <3> QED
        BY <3>1
    <2>3. CASE o \notin stop /\ ~(hop[o] > b)
      <3>1. hop[o] \in R /\ hop[o] > b - n
        BY <1>0, <1>2, <2>3 DEF Alike
      <3>2. Good(hop[o])
        BY <1>2, <3>1
      <3>3. w[o] = {o} \cup w[hop[o]] /\ v[move[o]] = {move[o]} \cup v[move[hop[o]]]
        BY <1>0, <2>3 DEF Met, Alike
      <3> QED
        BY <3>2, <3>3
    <2> QED
      BY <2>1, <2>2, <2>3
  <1>3. Nat \subseteq S
    <2>1. \A n \in Nat : n \in S => n + 1 \in S
      <3> SUFFICES ASSUME NEW n \in Nat, n \in S PROVE n + 1 \in S
        OBVIOUS
      <3>1. \A o \in R : o > b - (n + 1) => Good(o)
        BY <1>2
      <3> HIDE DEF Good
      <3> QED
        BY <3>1
    <2> HIDE DEF S
    <2> QED
      BY <1>1, <2>1, SetInduction
  <1> SUFFICES ASSUME NEW o \in R PROVE Good(o)
    BY DEF Follows
  <1>4. o \in a .. b /\ b - o + 1 \in Nat /\ o > b - (b - o + 1)
    OBVIOUS
  <1>5. b - o + 1 \in S
    BY <1>3, <1>4
  <1> QED
    BY <1>4, <1>5

-----------------------------------------------------------------------------
(* Functions on 1 .. n that look up a later value: from o, unless o is one *)
(* of those to stop at, that of hop[o].                                    *)

Onward(n, stop, hop) == \A o \in 1 .. n : o \notin stop => hop[o] \in o + 1 .. n

Descent(f, n, stop, base, hop, step) ==
  f = [o \in 1 .. n |-> IF o \in stop THEN base[o] ELSE step[o][f[hop[o]]]]

\* There is one.
LEMMA DescentExists ==
  ASSUME NEW n \in Nat, NEW stop, NEW base, NEW hop, NEW step, Onward(n, stop, hop)
  PROVE  \E f : Descent(f, n, stop, base, hop, step)
  <1> DEFINE Next(f, o) == IF o \in stop THEN base[o] ELSE step[o][f[hop[o]]]
             Part(f, m) == \A o \in n - m + 1 .. n : f[o] = Next(f, o)
             S == {m \in Nat : m <= n => \E f : Part(f, m)}
  <1>1. 0 \in S
    <2>1. n - 0 + 1 .. n = {}
      OBVIOUS
    <2>2. Part(<<>>, 0)
      BY <2>1
    <2> HIDE DEF Part
    <2> QED
      BY <2>2
  <1>2. \A m \in Nat : m \in S => m + 1 \in S
    <2> SUFFICES ASSUME NEW m \in Nat, m \in S, m + 1 <= n PROVE \E f : Part(f, m + 1)
      <3> HIDE DEF Part
      <3> QED
        OBVIOUS
    <2>1. PICK f : Part(f, m)
      <3>1. m <= n
        OBVIOUS
      <3> HIDE DEF Part
      <3> QED
        BY <3>1
    <2> DEFINE g == [o \in 1 .. n |-> IF o = n - m THEN Next(f, o) ELSE f[o]]
    <2>2. \A o \in n - m + 1 .. n : g[o] = f[o] /\ o \in 1 .. n
      BY DEF Next
    <2>3. g[n - m] = Next(f, n - m) /\ n - m \in 1 .. n
      OBVIOUS
    <2> HIDE DEF g, S
    <2>4. ASSUME NEW o \in n - (m + 1) + 1 .. n PROVE g[o] = Next(g, o)
      <3>1. o \in n - m .. n /\ o \in 1 .. n
        OBVIOUS
      <3>2. o \notin stop => hop[o] \in n - m + 1 .. n
        BY <3>1 DEF Onward
      <3>3. Next(g, o) = Next(f, o)
        BY <2>2, <3>2
      <3>4. CASE o = n - m
        BY <2>3, <3>3, <3>4
      <3>5. CASE o # n - m
        <4>1. o \in n - m + 1 .. n
          BY <3>1, <3>5
        <4>2. f[o] = Next(f, o) /\ g[o] = f[o]
          BY <2>1, <2>2, <4>1
        <4> QED
          BY <3>3, <4>2
      <3> QED
        BY <3>4, <3>5
    <2>5. Part(g, m + 1)
      BY <2>4
    <2> HIDE DEF Part
    <2> QED
      BY <2>5
  <1> HIDE DEF S
  <1>3. n \in S
    BY <1>1, <1>2, SetInduction
  <1>4. PICK f : Part(f, n)
    <2> HIDE DEF Part
    <2> QED
      BY <1>3 DEF S
  <1> DEFINE g == [o \in 1 .. n |-> f[o]]
             h == [o \in 1 .. n |-> Next(g, o)]
  <1>5. ASSUME NEW o \in 1 .. n PROVE f[o] = Next(g, o)
    <2>1. f[o] = Next(f, o)
      BY <1>4
    <2>2. o \notin stop => hop[o] \in 1 .. n
      BY DEF Onward
    <2>3. o \notin stop => g[hop[o]] = f[hop[o]]
      BY <2>2
    <2> QED
      BY <2>1, <2>3
  <1>6. g = h
    <2> HIDE DEF Next
    <2> QED
      BY <1>5
  <1>7. Descent(g, n, stop, base, hop, step)
    BY <1>6 DEF Descent
  <1> HIDE DEF g
  <1> QED
    BY <1>7

\* Induction along the hops.
LEMMA DescentInto ==
  ASSUME NEW n \in Nat, NEW T, NEW stop, NEW hop, Onward(n, stop, hop), NEW g,
         \A o \in 1 .. n : o \in stop => g[o] \in T,
         \A o \in 1 .. n : o \notin stop => (g[hop[o]] \in T => g[o] \in T)
  PROVE  \A o \in 1 .. n : g[o] \in T
  <1> DEFINE S == {m \in Nat : \A o \in 1 .. n : o > n - m => g[o] \in T}
  <1>1. 0 \in S
    OBVIOUS
  <1>2. \A m \in Nat : m \in S => m + 1 \in S
    <2> SUFFICES ASSUME NEW m \in Nat, m \in S, NEW o \in 1 .. n, o > n - (m + 1), o \notin stop
                 PROVE  g[o] \in T
      OBVIOUS
    <2>1. hop[o] \in o + 1 .. n
      BY DEF Onward
    <2>2. hop[o] \in 1 .. n /\ hop[o] > n - m
      BY <2>1
    <2> QED
      BY <2>2
  <1> HIDE DEF S
  <1>3. n \in S
    BY <1>1, <1>2, SetInduction
  <1> QED
    BY <1>3 DEF S

=============================================================================
