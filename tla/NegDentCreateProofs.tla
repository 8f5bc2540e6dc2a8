-------------------------- MODULE NegDentCreateProofs --------------------------
(***************************************************************************)
(* Proofs for negdentcreate, with any number of threads: what main adds up *)
(* without a lock is never more than what the workers have done, exit      *)
(* status 0 means that everything is done, and a program that ends without *)
(* an error leaves no name half-way through an operation.  All of it rests *)
(* on the workers' ranges being disjoint and on cur being incremented only *)
(* after the last system call of a name.                                   *)
(***************************************************************************)
EXTENDS NegDentCreate, FiniteSetTheorems, TLAPS

WorkRecord ==
  [start : Nat, stop : Nat, cur : Nat, cnt : 0 .. ULONG - 1, error : BOOLEAN,
   pc : {"never", "open", "test", "op", "fail", "pass", "again", "close", "ended"},
   call : Nat, cancelled : BOOLEAN]

TypeInv ==
  /\ op \in Ops /\ loop \in Loops /\ nthread \in Threads /\ asked \in Counts
  /\ count \in Nat /\ increment \in Nat
  /\ files \subseteq Name /\ before \subseteq Name /\ did \subseteq Nat
  /\ work \in Seq(WorkRecord)
  /\ exiting \in BOOLEAN
  /\ sigint \in {"blocked", "blocked_pending", "ready", "pending"}
  /\ mpc \in {"divide", "create", "poll", "verdict", "join", "exited", "crashed"}
  /\ i \in Nat /\ progress \in 0 .. ULONG - 1 /\ err \in Nat

\* The division of the names among the threads.
CountInv ==
  /\ increment <= count /\ count <= asked
  /\ mpc # "divide" /\ nthread > 0 => count = increment * nthread
  /\ Len(work) > 0 => Len(work) <= nthread /\ mpc # "divide"

\* Where main is, and what it has concluded.
MainInv ==
  /\ i <= Len(work)
  /\ mpc \in {"divide", "create"} => i = Len(work) /\ err = 0 /\ progress = 0
  /\ err <= i \/ mpc # "poll"
  /\ err <= Len(work) + 1
  /\ mpc = "verdict" => err <= Len(work)
  /\ mpc \in {"join", "exited"} => err <= 1
  /\ mpc = "join" => \A w \in 1 .. i : work[w].pc = "ended"
  /\ mpc = "exited" => \A w \in Worker : work[w].pc = "ended"
  /\ mpc = "verdict" /\ err = 0 /\ ~exiting => ~loop /\ progress >= count
  /\ mpc \in {"join", "exited"} /\ err = 0 => ~loop /\ progress >= count

\* pthread_cancel comes after an error, and once for each thread.
CancelAsked(w) ==
  \/ mpc = "verdict" /\ err # 0 /\ w <= i
  \/ mpc \in {"join", "exited"} /\ err # 0
  \/ mpc = "crashed"

\* A worker keeps to its own range, and stands before the name it failed at.
InRange(r) ==
  /\ r.cur \in r.start .. r.stop
  /\ r.call \in 1 .. Len(Calls(op))
  /\ r.pc \in {"never", "open"} => r.cur = r.start
  /\ r.pc \in {"op", "fail"} => r.cur < r.stop
  /\ ~loop => r.cnt = 0
  /\ r.error /\ increment > 0 => r.cur < r.stop /\ r.pc = "ended"

WorkInv ==
  \A w \in Worker :
    /\ work[w].start = (w - 1) * increment
    /\ work[w].stop = w * increment
    /\ InRange(work[w])
    /\ work[w].cancelled => CancelAsked(w)

\* The names done: of each range those before cur.
DidInv ==
  /\ \A n \in did : n < Len(work) * increment
  /\ ~loop => \A w \in Worker : \A n \in work[w].start .. work[w].stop - 1 :
                n \in did <=> n < work[w].cur

\* main has counted no more than what was done in the ranges it has read.
ProgInv ==
  ~loop => /\ progress <= Cardinality(did)
           /\ mpc = "poll" => progress <= Cardinality(did \cap (0 .. i * increment - 1))

\* A worker that may have left its name between two system calls.
Busy(r) ==
  /\ r.cur < r.stop
  /\ \/ r.pc = "op" /\ r.call > 1
     \/ r.pc = "fail"
     \/ r.pc = "ended" /\ (r.error \/ r.cancelled)

FileInv ==
  /\ op \in {"stat", "open"} => files = before
  /\ \A n \in Name : (\A w \in Worker : Busy(work[w]) => work[w].cur # n)
                       => (n \in files <=> n \in Outcome(did))
  /\ \A w \in Worker : work[w].pc = "op" /\ work[w].call > 1 =>
       /\ op \in {"create", "create_close_unlink"} => work[w].cur \in files
       /\ op = "create_unlink_close" => (work[w].cur \in files <=> work[w].call = 2)

IInv == TypeInv /\ CountInv /\ MainInv /\ WorkInv /\ DidInv /\ ProgInv /\ FileInv

-----------------------------------------------------------------------------
(* Arithmetic.                                                             *)

\* Multiplication is monotone.
LEMMA Times ==
  ASSUME NEW a \in Nat, NEW b \in Nat, NEW c \in Nat, a <= b
  PROVE  a * c \in Nat /\ b * c \in Nat /\ a * c <= b * c
  <1>1. PICK d \in Nat : b = a + d
    <2> WITNESS b - a \in Nat
    <2> QED
      OBVIOUS
  <1>2. b * c = a * c + d * c /\ d * c \in Nat /\ a * c \in Nat
    BY <1>1
  <1> QED
    BY <1>2

\* A number below the modulus is its own remainder, whatever multiple is added.
LEMMA Remainder ==
  ASSUME NEW m \in Nat \ {0}, NEW r \in 0 .. m - 1, NEW k \in Int
  PROVE  (k * m + r) % m = r
  <1> DEFINE n == k * m + r
             q == n \div m
  <1>1. k * m \in Int /\ n \in Int
    OBVIOUS
  <1>2. q \in Int /\ n % m \in 0 .. m - 1 /\ n = q * m + (n % m)
    BY <1>1
  <1> HIDE DEF q
  <1>3. q * m \in Int
    BY <1>2
  <1>4. q < k + 1
    <2>1. q >= k + 1 => q * m >= k * m + m
      BY <1>2
    <2> QED
      BY <1>1, <1>2, <1>3, <2>1
  <1>5. k < q + 1
    <2>1. k >= q + 1 => k * m >= q * m + m
      BY <1>2
    <2> QED
      BY <1>1, <1>2, <1>3, <2>1
  <1>6. k = q
    BY <1>2, <1>4, <1>5
  <1> QED
    BY <1>1, <1>2, <1>6

\* Division with remainder.
LEMMA DivMod ==
  ASSUME NEW p \in Nat \ {0}, NEW n \in Nat
  PROVE  /\ n \div p \in Nat
         /\ n % p \in 0 .. p - 1
         /\ n = (n \div p) * p + (n % p)
  OBVIOUS

\* The unsigned division of the names, by a thread count of either sign.
LEMMA Division ==
  ASSUME NEW m \in Nat \ {0}, NEW t \in Int, t # 0, -m < t, t < m,
         NEW c \in 0 .. m - 1, NEW inc, inc = c \div (t % m)
  PROVE  /\ inc \in Nat /\ (inc * t) % m \in Nat
         /\ inc <= (inc * t) % m /\ (inc * t) % m <= c
         /\ t > 0 => (inc * t) % m = inc * t
  <1> DEFINE q == t % m
             e == inc * q
  <1>1. q \in 1 .. m - 1 /\ q = IF t > 0 THEN t ELSE t + m
    <2>1. CASE t > 0
      <3>1. (0 * m + t) % m = t
        BY <2>1, Remainder
      <3> QED
        BY <2>1, <3>1
    <2>2. CASE t < 0
      <3>1. ((-1) * m + (t + m)) % m = t + m
        <4>1. t + m \in 0 .. m - 1
          BY <2>2
        <4> HIDE DEF q
        <4> QED
          BY <4>1, Remainder
      <3>2. (-1) * m + (t + m) = t
        OBVIOUS
      <3> QED
        BY <2>2, <3>1, <3>2
    <2> QED
      BY <2>1, <2>2
  <1>2. inc = c \div q /\ c \in Nat
    OBVIOUS
  <1> HIDE DEF q
  <1>3. inc \in Nat /\ c % q \in 0 .. q - 1 /\ c = inc * q + (c % q)
    <2>1. q \in Nat \ {0}
      BY <1>1
    <2> QED
      BY <1>2, <2>1, DivMod
  <1>4. e \in Nat /\ e <= c /\ inc <= e
    <2>1. inc * 1 <= inc * q
      BY <1>1, <1>3
    <2> QED
      BY <1>1, <1>3, <2>1
  <1>5. (inc * t) % m = e
    <2>1. CASE t > 0
      <3>1. (0 * m + e) % m = e
        BY <1>4, Remainder
      <3> QED
        BY <1>1, <1>3, <2>1, <3>1
    <2>2. CASE t < 0
      <3>1. ((-inc) * m + e) % m = e
        <4>1. e \in 0 .. m - 1 /\ -inc \in Int
          BY <1>3, <1>4
        <4> HIDE DEF e
        <4> QED
          BY <4>1, Remainder
      <3>2. (-inc) * m + e = inc * t
        <4>1. q = t + m
          BY <1>1, <2>2
        <4>2. e = inc * t + inc * m
          BY <1>3, <4>1
        <4>3. (-inc) * m = -(inc * m)
          BY <1>3
        <4> QED
          BY <1>3, <4>2, <4>3
      <3> QED
        BY <3>1, <3>2
    <2> QED
      BY <2>1, <2>2
  <1>6. t > 0 => e = inc * t
    BY <1>1
  <1> HIDE DEF e
  <1> QED
    BY <1>3, <1>4, <1>5, <1>6

-----------------------------------------------------------------------------
(* What the invariant says of the ranges and of the names done.            *)

\* Every operation has one to three system calls.
LEMMA CallList ==
  ASSUME op \in Ops
  PROVE  \/ op = "stat" /\ Len(Calls(op)) = 1 /\ Calls(op)[1] = "fstatat"
         \/ op = "open" /\ Len(Calls(op)) = 2
              /\ Calls(op)[1] = "openat" /\ Calls(op)[2] = "close"
         \/ op = "create" /\ Len(Calls(op)) = 2
              /\ Calls(op)[1] = "creat" /\ Calls(op)[2] = "close"
         \/ op = "unlink" /\ Len(Calls(op)) = 1 /\ Calls(op)[1] = "unlinkat"
         \/ op = "create_close_unlink" /\ Len(Calls(op)) = 3
              /\ Calls(op)[1] = "creat" /\ Calls(op)[2] = "close" /\ Calls(op)[3] = "unlinkat"
         \/ op = "create_unlink_close" /\ Len(Calls(op)) = 3
              /\ Calls(op)[1] = "creat" /\ Calls(op)[2] = "unlinkat" /\ Calls(op)[3] = "close"
  <1>1. op \in {"stat", "open", "create", "unlink", "create_close_unlink",
                "create_unlink_close"}
    BY NegDentAssumption DEF NegDentAssumption
  <1>2. CASE op = "stat"
    BY <1>2 DEF Calls
  <1>3. CASE op = "open"
    BY <1>3 DEF Calls
  <1>4. CASE op = "create"
    BY <1>4 DEF Calls
  <1>5. CASE op = "unlink"
    BY <1>5 DEF Calls
  <1>6. CASE op = "create_close_unlink"
    BY <1>6 DEF Calls
  <1>7. CASE op = "create_unlink_close"
    BY <1>7 DEF Calls
  <1> QED
    BY <1>1, <1>2, <1>3, <1>4, <1>5, <1>6, <1>7

\* The ranges lie within the names to deal with, and no two of them meet.
LEMMA Ranges ==
  ASSUME TypeInv, CountInv, WorkInv
  PROVE  /\ \A w \in Worker :
              /\ work[w] \in WorkRecord
              /\ work[w].stop = work[w].start + increment
              /\ work[w].stop <= count
         /\ \A v, w \in Worker : v # w =>
              work[v].stop <= work[w].start \/ work[w].stop <= work[v].start
  <1>1. Len(work) \in Nat /\ increment \in Nat /\ count \in Nat /\ nthread \in Int
    BY NegDentAssumption DEF TypeInv, NegDentAssumption
  <1>2. ASSUME NEW w \in Worker
        PROVE  /\ work[w] \in WorkRecord
               /\ work[w].stop = work[w].start + increment
               /\ work[w].stop <= count
    <2>1. w \in Nat \ {0} /\ w <= Len(work)
      BY <1>1 DEF Worker
    <2>2. work[w] \in WorkRecord
      BY <1>1, <2>1 DEF TypeInv
    <2>3. w - 1 \in Nat /\ (w - 1) * increment + increment = w * increment
      BY <1>1, <2>1
    <2>4. work[w].stop = work[w].start + increment
      BY <2>3 DEF WorkInv
    <2>5. nthread \in Nat /\ w <= nthread /\ count = increment * nthread
      BY <1>1, <2>1 DEF CountInv
    <2>6. w * increment <= nthread * increment /\ nthread * increment = increment * nthread
      BY <1>1, <2>1, <2>5, Times
    <2>7. work[w].stop = w * increment
      BY DEF WorkInv
    <2>8. work[w].stop <= count
      <3>1. w * increment \in Nat /\ increment * nthread \in Nat
        BY <1>1, <2>1, <2>5
      <3> QED
        BY <1>1, <2>5, <2>6, <2>7, <3>1
    <2> QED
      BY <2>2, <2>4, <2>8
  <1>3. ASSUME NEW v \in Worker, NEW w \in Worker, v < w
        PROVE  work[v].stop <= work[w].start
    <2>1. v \in Nat /\ w - 1 \in Nat /\ v <= w - 1
      BY <1>1, <1>3 DEF Worker
    <2>2. v * increment <= (w - 1) * increment
      BY <1>1, <2>1, Times
    <2> QED
      BY <2>2 DEF WorkInv
  <1>4. ASSUME NEW v \in Worker, NEW w \in Worker, v # w
        PROVE  work[v].stop <= work[w].start \/ work[w].stop <= work[v].start
    <2>1. v < w \/ w < v
      BY <1>1, <1>4 DEF Worker
    <2> QED
      BY <1>3, <2>1
  <1> QED
    BY <1>2, <1>4

\* The names that were done are among those to deal with.
LEMMA DidBound ==
  ASSUME TypeInv, CountInv, DidInv
  PROVE  /\ did \subseteq 0 .. count - 1
         /\ 0 .. count - 1 \subseteq Name
         /\ IsFiniteSet(did) /\ Cardinality(did) \in Nat /\ Cardinality(did) <= count
         /\ Cardinality(did) = count => did = 0 .. count - 1
         /\ count < ULONG
  <1>1. /\ Len(work) \in Nat /\ increment \in Nat /\ count \in Nat /\ nthread \in Int
        /\ asked \in Nat /\ asked < ULONG /\ ULONG \in Nat /\ count <= asked
    BY NegDentAssumption DEF TypeInv, CountInv, NegDentAssumption
  <1>2. did \subseteq 0 .. count - 1
    <2>1. SUFFICES ASSUME NEW n \in did PROVE n \in 0 .. count - 1
      OBVIOUS
    <2>2. n \in Nat /\ n < Len(work) * increment
      BY DEF TypeInv, DidInv
    <2>3. Len(work) > 0
      <3>1. Len(work) = 0 => Len(work) * increment = 0
        BY <1>1
      <3> QED
        BY <1>1, <2>2, <3>1
    <2>4. nthread \in Nat /\ Len(work) <= nthread /\ count = increment * nthread
      BY <1>1, <2>3 DEF CountInv
    <2>5. /\ Len(work) * increment \in Nat
          /\ Len(work) * increment <= nthread * increment
          /\ nthread * increment = increment * nthread
      BY <1>1, <2>4, Times
    <2> QED
      BY <1>1, <2>2, <2>4, <2>5
  <1>3. 0 .. count - 1 \subseteq Name
    <2>1. 0 .. count - 1 \subseteq 0 .. asked - 1
      BY <1>1
    <2>2. 0 .. asked - 1 \subseteq Name
      BY DEF Name, TypeInv
    <2> QED
      BY <2>1, <2>2
  <1>4. IsFiniteSet(0 .. count - 1) /\ Cardinality(0 .. count - 1) = count
    <2>1. 0 \in Int /\ count - 1 \in Int
      BY <1>1
    <2>2. /\ IsFiniteSet(0 .. count - 1)
          /\ Cardinality(0 .. count - 1) = IF 0 > count - 1 THEN 0 ELSE (count - 1) - 0 + 1
      BY <2>1, FS_Interval
    <2> QED
      BY <1>1, <2>2
  <1>5. /\ IsFiniteSet(did) /\ Cardinality(did) <= count
        /\ Cardinality(did) = count => did = 0 .. count - 1
    BY <1>2, <1>4, FS_Subset
  <1>6. Cardinality(did) \in Nat
    BY <1>5, FS_CardinalityType
  <1> QED
    BY <1>1, <1>2, <1>3, <1>5, <1>6

-----------------------------------------------------------------------------
(* The steps of a worker.                                                  *)

\* Only worker w's record changes.
LEMMA OneRecord ==
  ASSUME TypeInv, NEW w \in Worker, NEW r \in WorkRecord, Becomes(w, r)
  PROVE  /\ work' \in Seq(WorkRecord) /\ Len(work') = Len(work) /\ Worker' = Worker
         /\ work'[w] = r
         /\ \A v \in Worker : v # w => work'[v] = work[v]
         /\ UNCHANGED <<op, loop, nthread, asked, count, increment, before,
                        exiting, sigint, mpc, i, progress, err>>
  BY DEF TypeInv, Becomes, Worker, options

\* A step that leaves the files and the names done alone keeps the invariant, if it
\* keeps to the range, does not go back, and forgets no name that was left half-way.
LEMMA QuietStep ==
  ASSUME IInv, NEW w \in Worker, NEW r \in WorkRecord, Becomes(w, r),
         files' = files, did' = did,
         r.start = work[w].start, r.stop = work[w].stop,
         r.cancelled = work[w].cancelled, InRange(r),
         work[w].pc # "ended",
         ~loop => r.cur = work[w].cur,
         Busy(work[w]) => Busy(r) /\ r.cur = work[w].cur,
         r.pc = "op" => r.call = 1
  PROVE  IInv'
  <1> USE DEF IInv
  <1>1. /\ work' \in Seq(WorkRecord) /\ Len(work') = Len(work) /\ Worker' = Worker
        /\ work'[w] = r
        /\ \A v \in Worker : v # w => work'[v] = work[v]
        /\ UNCHANGED <<op, loop, nthread, asked, count, increment, before,
                       exiting, sigint, mpc, i, progress, err>>
    BY OneRecord
  <1>2. TypeInv'
    BY <1>1 DEF TypeInv
  <1>3. CountInv'
    BY <1>1 DEF CountInv
  <1>4. MainInv'
    <2>1. \A v \in Worker : work[v].pc = "ended" => work'[v].pc = "ended"
      BY <1>1
    <2>2. mpc = "join" => \A v \in 1 .. i : v \in Worker
      BY DEF MainInv, TypeInv, Worker
    <2> QED
      BY <1>1, <2>1, <2>2 DEF MainInv
  <1>5. WorkInv'
    <2>1. \A v \in Worker : CancelAsked(v)' <=> CancelAsked(v)
      BY <1>1 DEF CancelAsked
    <2>2. \A v \in Worker : v # w => InRange(work[v])'
      BY <1>1 DEF InRange, WorkInv
    <2>3. InRange(work[w])'
      BY <1>1 DEF InRange
    <2> QED
      BY <1>1, <2>1, <2>2, <2>3 DEF WorkInv
  <1>6. DidInv'
    BY <1>1 DEF DidInv
  <1>7. ProgInv'
    BY <1>1 DEF ProgInv
  <1>8. FileInv'
    <2>1. Outcome(did)' = Outcome(did)
      BY <1>1 DEF Outcome
    <2>2. \A v \in Worker : Busy(work[v]) => Busy(work'[v]) /\ work'[v].cur = work[v].cur
      BY <1>1
    <2>3. ASSUME NEW n \in Name, \A v \in Worker : Busy(work'[v]) => work'[v].cur # n
          PROVE  n \in files' <=> n \in Outcome(did)'
      BY <2>1, <2>2, <2>3 DEF FileInv
    <2>4. \A v \in Worker : work'[v].pc = "op" /\ work'[v].call > 1 => v # w
      BY <1>1
    <2> HIDE DEF Busy, Outcome
    <2> QED
      BY <1>1, <2>3, <2>4 DEF FileInv, Busy
  <1> QED
    BY <1>2, <1>3, <1>4, <1>5, <1>6, <1>7, <1>8

\* All but a system call that succeeds is such a step.
LEMMA QuietSteps ==
  ASSUME IInv, NEW w \in Worker,
         \/ worker_cancelled(w) \/ worker_open(w) \/ worker_test(w) \/ worker_fail(w)
         \/ worker_pass(w) \/ worker_again(w) \/ worker_close(w)
         \/ /\ work[w].pc = "op" /\ Becomes(w, [work[w] EXCEPT !.pc = "fail"])
            /\ UNCHANGED <<files, did>>
  PROVE  IInv'
  <1>1. /\ work[w] \in WorkRecord /\ InRange(work[w])
        /\ work[w].stop = work[w].start + increment /\ increment \in Nat
        /\ 1 \in 1 .. Len(Calls(op)) /\ loop \in BOOLEAN /\ ULONG \in Nat \ {0}
    <2>1. op \in Ops /\ loop \in BOOLEAN /\ asked \in Nat /\ asked < ULONG /\ ULONG \in Nat
      BY NegDentAssumption DEF IInv, TypeInv, NegDentAssumption
    <2> QED
      BY SMTT(30), <2>1, Ranges, CallList DEF IInv, TypeInv, WorkInv
  <1> DEFINE W == work[w]
  <1>2. CASE worker_cancelled(w)
    <2> DEFINE r == [W EXCEPT !.pc = "ended"]
    <2>1. Becomes(w, r) /\ files' = files /\ did' = did /\ W.pc # "ended" /\ W.cancelled
      BY <1>2 DEF worker_cancelled
    <2>2. r \in WorkRecord /\ InRange(r)
      BY <1>1, <2>1 DEF WorkRecord, InRange
    <2>3. /\ r.start = W.start /\ r.stop = W.stop /\ r.cancelled = W.cancelled
          /\ r.cur = W.cur /\ r.pc = "ended"
      BY <1>1 DEF WorkRecord
    <2>4. Busy(W) => Busy(r)
      BY <2>1, <2>3 DEF Busy
    <2> HIDE DEF r
    <2> QED
      BY <2>1, <2>2, <2>3, <2>4, QuietStep
  <1>3. CASE worker_open(w)
    <2>1. W.pc = "open" /\ W.cur = W.start /\ files' = files /\ did' = did
      BY <1>1, <1>3 DEF worker_open, InRange
    <2>2. CASE Becomes(w, [W EXCEPT !.pc = "test", !.cur = W.start])
      <3> DEFINE r == [W EXCEPT !.pc = "test", !.cur = W.start]
      <3>1. r \in WorkRecord /\ InRange(r)
        BY <1>1, <2>1 DEF WorkRecord, InRange
      <3>2. /\ r.start = W.start /\ r.stop = W.stop /\ r.cancelled = W.cancelled
            /\ r.cur = W.cur /\ r.pc = "test"
        BY <1>1, <2>1 DEF WorkRecord
      <3>3. ~Busy(W)
        BY <2>1 DEF Busy
      <3>4. Becomes(w, r)
        BY <2>2
      <3> HIDE DEF r
      <3> QED
        BY <2>1, <3>1, <3>2, <3>3, <3>4, QuietStep
    <2>3. CASE Becomes(w, [W EXCEPT !.pc = "ended", !.error = TRUE])
      <3> DEFINE r == [W EXCEPT !.pc = "ended", !.error = TRUE]
      <3>0. r \in WorkRecord /\ r.call = W.call /\ r.cnt = W.cnt
        BY <1>1 DEF WorkRecord
      <3>2. /\ r.start = W.start /\ r.stop = W.stop /\ r.cancelled = W.cancelled
            /\ r.cur = W.cur /\ r.pc = "ended"
        BY <1>1 DEF WorkRecord
      <3>1. InRange(r)
        <4>1. W.start \in Nat /\ (increment > 0 => W.cur < W.stop)
          BY <1>1, <2>1 DEF WorkRecord
        <4> QED
          BY <1>1, <3>0, <3>2, <4>1 DEF InRange
      <3>3. ~Busy(W)
        BY <2>1 DEF Busy
      <3>4. Becomes(w, r)
        BY <2>3
      <3> HIDE DEF r
      <3> QED
        BY <2>1, <3>0, <3>1, <3>2, <3>3, <3>4, QuietStep
    <2> QED
      BY <1>3, <2>2, <2>3 DEF worker_open
  <1>4. CASE worker_test(w)
    <2> DEFINE to == IF W.cur < W.stop /\ ~exiting THEN "op" ELSE "pass"
               r == [W EXCEPT !.pc = to, !.call = 1]
    <2>1. Becomes(w, r) /\ files' = files /\ did' = did /\ W.pc = "test"
      BY <1>4 DEF worker_test
    <2>2. to \in {"op", "pass"} /\ (to = "op" => W.cur < W.stop)
      OBVIOUS
    <2> HIDE DEF to
    <2>3. r \in WorkRecord /\ InRange(r)
      BY <1>1, <2>1, <2>2 DEF WorkRecord, InRange
    <2>4. /\ r.start = W.start /\ r.stop = W.stop /\ r.cancelled = W.cancelled
          /\ r.cur = W.cur /\ r.call = 1
      BY <1>1 DEF WorkRecord
    <2>5. ~Busy(W)
      BY <2>1 DEF Busy
    <2> HIDE DEF r
    <2> QED
      BY <2>1, <2>3, <2>4, <2>5, QuietStep
  <1>5. CASE worker_fail(w)
    <2> DEFINE r == [W EXCEPT !.pc = "ended", !.error = TRUE]
    <2>1. Becomes(w, r) /\ files' = files /\ did' = did /\ W.pc = "fail"
      BY <1>5 DEF worker_fail
    <2>2. r \in WorkRecord /\ InRange(r)
      BY <1>1, <2>1 DEF WorkRecord, InRange
    <2>3. /\ r.start = W.start /\ r.stop = W.stop /\ r.cancelled = W.cancelled
          /\ r.cur = W.cur /\ r.pc = "ended" /\ r.error
      BY <1>1 DEF WorkRecord
    <2>4. Busy(W) => Busy(r)
      BY <2>3 DEF Busy
    <2> HIDE DEF r
    <2> QED
      BY <2>1, <2>2, <2>3, <2>4, QuietStep
  <1>6. CASE worker_pass(w)
    <2> DEFINE n == IF loop THEN (W.cnt + 1) % ULONG ELSE W.cnt
               r == [W EXCEPT !.cnt = n, !.pc = "again"]
    <2>1. Becomes(w, r) /\ files' = files /\ did' = did /\ W.pc = "pass"
      BY <1>6 DEF worker_pass
    <2>2. n \in 0 .. ULONG - 1 /\ (~loop => n = W.cnt)
      <3>1. PICK c \in 0 .. ULONG - 1 : c = W.cnt
        BY <1>1 DEF WorkRecord
      <3>2. (c + 1) % ULONG \in 0 .. ULONG - 1
        BY NegDentAssumption
      <3> QED
        BY <3>1, <3>2
    <2> HIDE DEF n
    <2>3. r \in WorkRecord /\ InRange(r)
      BY <1>1, <2>1, <2>2 DEF WorkRecord, InRange
    <2>4. /\ r.start = W.start /\ r.stop = W.stop /\ r.cancelled = W.cancelled
          /\ r.cur = W.cur /\ r.pc = "again"
      BY <1>1 DEF WorkRecord
    <2>5. ~Busy(W)
      BY <2>1 DEF Busy
    <2> HIDE DEF r
    <2> QED
      BY <2>1, <2>3, <2>4, <2>5, QuietStep
  <1>7. CASE worker_again(w)
    <2>1. W.pc = "again" /\ files' = files /\ did' = did
      BY <1>7 DEF worker_again
    <2>2. ~Busy(W)
      BY <2>1 DEF Busy
    <2>3. CASE loop /\ Becomes(w, [W EXCEPT !.pc = "test", !.cur = W.start])
      <3> DEFINE r == [W EXCEPT !.pc = "test", !.cur = W.start]
      <3>0. r \in WorkRecord /\ r.call = W.call /\ r.error = W.error /\ r.cur = W.start
        BY <1>1 DEF WorkRecord
      <3>1. /\ r.start = W.start /\ r.stop = W.stop /\ r.cancelled = W.cancelled
            /\ r.pc = "test"
        BY <1>1 DEF WorkRecord
      <3>2. InRange(r)
        <4>1. loop /\ W.start \in Nat /\ W.start \in W.start .. W.stop
          BY <1>1, <2>3 DEF WorkRecord
        <4> QED
          BY <1>1, <2>1, <3>0, <3>1, <4>1 DEF InRange
      <3>3. Becomes(w, r)
        BY <2>3
      <3> HIDE DEF r
      <3> QED
        BY <2>1, <2>2, <2>3, <3>0, <3>1, <3>2, <3>3, QuietStep
    <2>4. CASE Becomes(w, [W EXCEPT !.pc = "close"])
      <3> DEFINE r == [W EXCEPT !.pc = "close"]
      <3>1. r \in WorkRecord /\ InRange(r)
        BY <1>1, <2>1 DEF WorkRecord, InRange
      <3>2. /\ r.start = W.start /\ r.stop = W.stop /\ r.cancelled = W.cancelled
            /\ r.cur = W.cur /\ r.pc = "close"
        BY <1>1 DEF WorkRecord
      <3>3. Becomes(w, r)
        BY <2>4
      <3> HIDE DEF r
      <3> QED
        BY <2>1, <2>2, <3>1, <3>2, <3>3, QuietStep
    <2> QED
      BY <1>7, <2>3, <2>4 DEF worker_again, Again
  <1>8. CASE worker_close(w)
    <2> DEFINE r == [W EXCEPT !.pc = "ended"]
    <2>1. Becomes(w, r) /\ files' = files /\ did' = did /\ W.pc = "close"
      BY <1>8 DEF worker_close
    <2>2. r \in WorkRecord /\ InRange(r)
      BY <1>1, <2>1 DEF WorkRecord, InRange
    <2>3. /\ r.start = W.start /\ r.stop = W.stop /\ r.cancelled = W.cancelled
          /\ r.cur = W.cur /\ r.pc = "ended"
      BY <1>1 DEF WorkRecord
    <2>4. ~Busy(W)
      BY <2>1 DEF Busy
    <2> HIDE DEF r
    <2> QED
      BY <2>1, <2>2, <2>3, <2>4, QuietStep
  <1>9. CASE W.pc = "op" /\ Becomes(w, [W EXCEPT !.pc = "fail"]) /\ UNCHANGED <<files, did>>
    <2> DEFINE r == [W EXCEPT !.pc = "fail"]
    <2>1. Becomes(w, r) /\ files' = files /\ did' = did /\ W.pc = "op"
      BY <1>9
    <2>2. r \in WorkRecord /\ InRange(r)
      BY <1>1, <2>1 DEF WorkRecord, InRange
    <2>3. /\ r.start = W.start /\ r.stop = W.stop /\ r.cancelled = W.cancelled
          /\ r.cur = W.cur /\ r.pc = "fail"
      BY <1>1 DEF WorkRecord
    <2>4. Busy(W) => Busy(r)
      BY <2>3 DEF Busy
    <2> HIDE DEF r
    <2> QED
      BY <2>1, <2>2, <2>3, <2>4, QuietStep
  <1> QED
    BY <1>2, <1>3, <1>4, <1>5, <1>6, <1>7, <1>8, <1>9

\* What a successful call leaves of the name n it is applied to.
LEMMA CallEffect ==
  ASSUME op \in Ops, NEW n \in Name, files \subseteq Name,
         NEW k \in 1 .. Len(Calls(op)), NEW c, c = Calls(op)[k],
         files' = Effect(c, n),
         k > 1 => /\ op \in {"create", "create_close_unlink"} => n \in files
                  /\ op = "create_unlink_close" => (n \in files <=> k = 2)
  PROVE  /\ files' \subseteq Name
         /\ \A m : m # n => (m \in files' <=> m \in files)
         /\ op \in {"stat", "open"} => files' = files
         /\ k < Len(Calls(op)) =>
              /\ op \in {"create", "create_close_unlink"} => n \in files'
              /\ op = "create_unlink_close" => (n \in files' <=> k + 1 = 2)
         /\ k = Len(Calls(op)) =>
              /\ op = "create" => n \in files'
              /\ op \in {"unlink", "create_close_unlink", "create_unlink_close"}
                   => n \notin files'
         /\ op \in {"stat", "open", "create", "unlink", "create_close_unlink",
                    "create_unlink_close"}
  <1>1. /\ c = "creat" => files' = files \cup {n}
        /\ c = "unlinkat" => files' = files \ {n}
        /\ c \notin {"creat", "unlinkat"} => files' = files
    BY DEF Effect
  <1>2. files' \subseteq Name /\ \A m : m # n => (m \in files' <=> m \in files)
    BY <1>1
  <1>3. CASE op = "stat" /\ Len(Calls(op)) = 1 /\ Calls(op)[1] = "fstatat"
    BY <1>1, <1>2, <1>3
  <1>4. CASE op = "open" /\ Len(Calls(op)) = 2
               /\ Calls(op)[1] = "openat" /\ Calls(op)[2] = "close"
    BY <1>1, <1>2, <1>4
  <1>5. CASE op = "create" /\ Len(Calls(op)) = 2
               /\ Calls(op)[1] = "creat" /\ Calls(op)[2] = "close"
    BY <1>1, <1>2, <1>5
  <1>6. CASE op = "unlink" /\ Len(Calls(op)) = 1 /\ Calls(op)[1] = "unlinkat"
    BY <1>1, <1>2, <1>6
  <1>7. CASE op = "create_close_unlink" /\ Len(Calls(op)) = 3
               /\ Calls(op)[1] = "creat" /\ Calls(op)[2] = "close" /\ Calls(op)[3] = "unlinkat"
    <2>1. CASE k = 1
      <3>1. c = "creat" /\ files' = files \cup {n} /\ k < Len(Calls(op))
        BY <1>1, <1>7, <2>1
      <3> QED
        BY <1>2, <1>7, <2>1, <3>1
    <2>2. CASE k = 2
      <3>1. c = "close" /\ files' = files /\ k < Len(Calls(op))
        BY <1>1, <1>7, <2>2
      <3> QED
        BY <1>2, <1>7, <2>2, <3>1
    <2>3. CASE k = 3
      <3>1. c = "unlinkat" /\ files' = files \ {n} /\ k = Len(Calls(op))
        BY <1>1, <1>7, <2>3
      <3>2. n \notin files'
        BY <3>1
      <3>3. ~(k < Len(Calls(op)))
        BY <3>1
      <3> QED
        BY <1>2, <1>7, <3>2, <3>3
    <2> QED
      BY <1>7, <2>1, <2>2, <2>3
  <1>8. CASE op = "create_unlink_close" /\ Len(Calls(op)) = 3
               /\ Calls(op)[1] = "creat" /\ Calls(op)[2] = "unlinkat" /\ Calls(op)[3] = "close"
    <2>1. CASE k = 1
      BY <1>1, <1>2, <1>8, <2>1
    <2>2. CASE k = 2
      BY <1>1, <1>2, <1>8, <2>2
    <2>3. CASE k = 3
      BY <1>1, <1>2, <1>8, <2>3
    <2> QED
      BY <1>8, <2>1, <2>2, <2>3
  <1> QED
    BY <1>3, <1>4, <1>5, <1>6, <1>7, <1>8, CallList

\* A call that succeeds: the operation goes on, or the name is done and cur is the next.
LEMMA CallStep ==
  ASSUME IInv, NEW w \in Worker, work[w].pc = "op",
         files' = Effect(Calls(op)[work[w].call], work[w].cur),
         IF MoreCalls(w)
         THEN Becomes(w, [work[w] EXCEPT !.call = @ + 1]) /\ did' = did
         ELSE /\ Becomes(w, [work[w] EXCEPT !.pc = "test", !.cur = @ + 1])
              /\ did' = did \cup {work[w].cur}
  PROVE  IInv'
  <1> DEFINE W == work[w]
             n == W.cur
             k == W.call
             more == k < Len(Calls(op))
             go == [W EXCEPT !.call = @ + 1]
             next == [W EXCEPT !.pc = "test", !.cur = @ + 1]
             r == IF more THEN go ELSE next
  <1>1. /\ W \in WorkRecord /\ InRange(W)
        /\ W.stop = W.start + increment /\ W.stop <= count /\ increment \in Nat /\ count \in Nat
        /\ Len(Calls(op)) \in Nat
    BY Ranges, CallList DEF IInv, TypeInv, WorkInv
  <1>2. n \in Nat /\ n \in W.start .. W.stop - 1 /\ k \in 1 .. Len(Calls(op)) /\ W.start \in Nat
        /\ W.stop \in Nat
    BY <1>1 DEF InRange, WorkRecord
  <1>3. n \in 0 .. count - 1 /\ n \in Name
    <2>1. n \in 0 .. count - 1
      BY SMTT(30), <1>1, <1>2
    <2> QED
      BY <2>1, DidBound DEF IInv
  <1>4. /\ go \in WorkRecord /\ go.start = W.start /\ go.stop = W.stop /\ go.cur = n
        /\ go.pc = "op" /\ go.call = k + 1 /\ go.cnt = W.cnt /\ go.error = W.error
        /\ go.cancelled = W.cancelled
    <2>1. k + 1 \in Nat
      BY <1>2
    <2>2. go = [W EXCEPT !.call = k + 1]
      OBVIOUS
    <2> HIDE DEF go
    <2> QED
      BY <1>1, <2>1, <2>2 DEF WorkRecord
  <1>5. /\ next \in WorkRecord /\ next.start = W.start /\ next.stop = W.stop
        /\ next.cur = n + 1 /\ next.pc = "test" /\ next.call = k /\ next.cnt = W.cnt
        /\ next.error = W.error /\ next.cancelled = W.cancelled
    <2>1. n + 1 \in Nat
      BY <1>2
    <2>2. next = [W EXCEPT !.pc = "test", !.cur = n + 1]
      OBVIOUS
    <2> HIDE DEF next
    <2> QED
      BY <1>1, <2>1, <2>2 DEF WorkRecord
  <1>6. /\ Becomes(w, r) /\ r \in WorkRecord
        /\ did' = IF more THEN did ELSE did \cup {n}
    BY <1>4, <1>5 DEF MoreCalls
  <1>7. InRange(r) /\ r.start = W.start /\ r.stop = W.stop /\ r.cancelled = W.cancelled
        /\ r.pc # "ended"
    <2>1. CASE more
      <3>1. k + 1 \in 1 .. Len(Calls(op))
        BY <1>1, <1>2, <2>1
      <3> HIDE DEF go, next
      <3> QED
        BY <1>1, <1>2, <1>4, <2>1, <3>1 DEF InRange
    <2>2. CASE ~more
      <3>1. n + 1 \in W.start .. W.stop
        BY SMTT(30), <1>1, <1>2
      <3> HIDE DEF go, next
      <3> QED
        BY <1>1, <1>2, <1>5, <2>2, <3>1 DEF InRange
    <2> QED
      BY <2>1, <2>2
  <1>8. /\ more => r.cur = n /\ r.pc = "op" /\ r.call = k + 1
        /\ ~more => r.cur = n + 1 /\ r.pc = "test"
    BY <1>4, <1>5
  <1> HIDE DEF r, go, next
  <1>9. /\ work' \in Seq(WorkRecord) /\ Len(work') = Len(work) /\ Worker' = Worker
        /\ work'[w] = r
        /\ \A v \in Worker : v # w => work'[v] = work[v]
        /\ UNCHANGED <<op, loop, nthread, asked, count, increment, before,
                       exiting, sigint, mpc, i, progress, err>>
    BY <1>6, OneRecord DEF IInv
  <1>10. \A v \in Worker : v # w => n \notin work[v].start .. work[v].stop - 1
    <2>1. ASSUME NEW v \in Worker, v # w
          PROVE  n \notin work[v].start .. work[v].stop - 1
      <3>1. work[v].stop <= W.start \/ W.stop <= work[v].start
        BY <2>1, Ranges DEF IInv
      <3>2. work[v].start \in Nat /\ work[v].stop \in Nat
        BY Ranges DEF IInv, WorkRecord
      <3>3. n < W.stop /\ W.start <= n /\ n \in Nat /\ W.start \in Nat /\ W.stop \in Nat
        BY <1>2
      <3> HIDE DEF n
      <3> QED
        BY <3>1, <3>2, <3>3
    <2> QED
      BY <2>1
  <1>11. \A v \in Worker : v # w /\ work[v].cur < work[v].stop => work[v].cur # n
    <2>1. \A v \in Worker : work[v] \in WorkRecord /\ InRange(work[v])
      BY Ranges DEF IInv, WorkInv
    <2> QED
      BY SMTT(30), <1>10, <2>1 DEF InRange, WorkRecord
  <1>12. /\ files' \subseteq Name
         /\ \A m : m # n => (m \in files' <=> m \in files)
         /\ op \in {"stat", "open"} => files' = files
         /\ more =>
              /\ op \in {"create", "create_close_unlink"} => n \in files'
              /\ op = "create_unlink_close" => (n \in files' <=> k + 1 = 2)
         /\ k = Len(Calls(op)) =>
              /\ op = "create" => n \in files'
              /\ op \in {"unlink", "create_close_unlink", "create_unlink_close"}
                   => n \notin files'
         /\ op \in {"stat", "open", "create", "unlink", "create_close_unlink",
                    "create_unlink_close"}
    <2>1. op \in Ops /\ files \subseteq Name
      BY DEF IInv, TypeInv
    <2>2. k > 1 => /\ op \in {"create", "create_close_unlink"} => n \in files
                   /\ op = "create_unlink_close" => (n \in files <=> k = 2)
      BY DEF IInv, FileInv
    <2> QED
      BY <1>2, <1>3, <2>1, <2>2, CallEffect
  <1>13. did \subseteq did' /\ did' \subseteq did \cup {n} /\ (more => did' = did)
         /\ (~more => did' = did \cup {n})
    BY <1>6
  <1> HIDE DEF W, n, k, more
  <1>14. TypeInv'
    <2>1. did' \subseteq Nat
      BY <1>2, <1>13 DEF IInv, TypeInv
    <2> QED
      BY <1>9, <1>12, <2>1 DEF IInv, TypeInv
  <1>15. CountInv'
    BY <1>9 DEF IInv, CountInv
  <1>16. MainInv'
    <2>1. \A v \in Worker : work[v].pc = "ended" => work'[v].pc = "ended"
      BY <1>9
    <2>2. mpc = "join" => \A v \in 1 .. i : v \in Worker
      BY DEF IInv, MainInv, TypeInv, Worker
    <2> QED
      BY <1>9, <2>1, <2>2 DEF IInv, MainInv
  <1>17. WorkInv'
    <2>1. \A v \in Worker : CancelAsked(v)' <=> CancelAsked(v)
      BY <1>9 DEF CancelAsked
    <2>2. \A v \in Worker : v # w => InRange(work[v])'
      BY <1>9 DEF IInv, InRange, WorkInv
    <2>3. InRange(work[w])'
      BY <1>7, <1>9 DEF InRange
    <2> QED
      BY <1>7, <1>9, <2>1, <2>2, <2>3 DEF IInv, WorkInv, W
  <1>18. DidInv'
    <2>1. n < Len(work) * increment
      <3>1. w \in Nat /\ Len(work) \in Nat /\ w <= Len(work)
        BY DEF IInv, TypeInv, Worker
      <3>2. /\ w * increment <= Len(work) * increment
            /\ w * increment \in Nat /\ Len(work) * increment \in Nat
        BY <1>1, <3>1, Times
      <3>3. W.stop = w * increment
        BY DEF IInv, WorkInv, W
      <3> QED
        BY <1>2, <3>2, <3>3
    <2>2. \A m \in did' : m < Len(work') * increment'
      BY <1>9, <1>13, <2>1 DEF IInv, DidInv
    <2>3. ASSUME ~loop, NEW v \in Worker, NEW m \in work'[v].start .. work'[v].stop - 1
          PROVE  m \in did' <=> m < work'[v].cur
      <3>1. CASE v # w
        <4>1. work'[v] = work[v] /\ m # n
          BY <1>9, <1>10, <2>3, <3>1
        <4>2. m \in did <=> m < work[v].cur
          BY <2>3, <4>1 DEF IInv, DidInv
        <4> QED
          BY <1>13, <4>1, <4>2
      <3>2. CASE v = w
        <4>1. m \in W.start .. W.stop - 1 /\ work'[v] = r /\ m \in Nat
          BY <1>2, <1>7, <1>9, <2>3, <3>2
        <4>2. m \in did <=> m < n
          BY <2>3, <4>1 DEF IInv, DidInv, W, n
        <4>3. CASE more
          BY <1>8, <1>13, <4>1, <4>2, <4>3
        <4>4. CASE ~more
          <5>1. m \in did' <=> m < n \/ m = n
            BY <1>13, <4>2, <4>4
          <5> QED
            BY <1>2, <1>8, <4>1, <4>4, <5>1
        <4> QED
          BY <4>3, <4>4
      <3> QED
        BY <3>1, <3>2
    <2> QED
      BY <1>9, <2>2, <2>3 DEF DidInv
  <1>19. ProgInv'
    <2>1. IsFiniteSet(did')
      <3>1. IsFiniteSet(did)
        BY DidBound DEF IInv
      <3>2. IsFiniteSet(did \cup {n})
        BY <3>1, FS_AddElement
      <3> QED
        BY <1>13, <3>1, <3>2
    <2> DEFINE front == 0 .. i * increment - 1
    <2>2. Cardinality(did) <= Cardinality(did') /\ Cardinality(did) \in Nat
          /\ Cardinality(did') \in Nat
      BY <1>13, <2>1, FS_Subset, FS_CardinalityType
    <2>3. IsFiniteSet(did' \cap front) /\ IsFiniteSet(did \cap front)
      <3>1. did' \cap front \in SUBSET did' /\ did \cap front \in SUBSET did'
        BY <1>13
      <3> QED
        BY <2>1, <3>1, FS_Subset
    <2>4. /\ Cardinality(did \cap front) <= Cardinality(did' \cap front)
          /\ Cardinality(did \cap front) \in Nat /\ Cardinality(did' \cap front) \in Nat
      <3>1. did \cap front \in SUBSET (did' \cap front)
        BY <1>13
      <3> HIDE DEF front
      <3> QED
        BY <2>3, <3>1, FS_Subset, FS_CardinalityType
    <2>5. front' = front
      BY <1>9
    <2>6. progress \in Nat
      BY DEF IInv, TypeInv
    <2> QED
      BY <1>9, <2>2, <2>4, <2>5, <2>6 DEF IInv, ProgInv
  <1>20. FileInv'
    <2>1. \A m : m # n => (m \in Outcome(did)' <=> m \in Outcome(did))
      BY <1>9, <1>13 DEF Outcome
    <2>2. ~more => (n \in files' <=> n \in Outcome(did)') \/ op \in {"stat", "open"}
      <3>1. ~more => k = Len(Calls(op))
        BY <1>1, <1>2 DEF more
      <3> QED
        BY <1>9, <1>12, <1>13, <3>1 DEF Outcome
    <2>3. op \in {"stat", "open"} => files' = before' /\ Outcome(did)' = before'
      BY <1>9, <1>12 DEF IInv, FileInv, Outcome
    <2>4. \A v \in Worker : v # w => (Busy(work'[v]) <=> Busy(work[v]))
      BY <1>9
    <2>5. more => Busy(work'[w]) /\ work'[w].cur = n
      BY <1>2, <1>7, <1>8, <1>9 DEF Busy
    <2>6. Busy(work[w]) => work[w].cur = n
      BY DEF n, W
    <2>7. ASSUME NEW m \in Name, \A v \in Worker : Busy(work'[v]) => work'[v].cur # m
          PROVE  m \in files' <=> m \in Outcome(did)'
      <3>1. CASE m = n
        <4>1. ~more
          BY <2>5, <2>7, <3>1
        <4> QED
          BY <2>2, <2>3, <3>1, <4>1
      <3>2. CASE m # n
        <4>1. \A v \in Worker : Busy(work[v]) => work[v].cur # m
          BY <1>9, <2>4, <2>6, <2>7, <3>2
        <4>2. m \in files <=> m \in Outcome(did)
          BY <4>1 DEF IInv, FileInv
        <4> QED
          BY <1>12, <2>1, <3>2, <4>2
      <3> QED
        BY <3>1, <3>2
    <2>8. ASSUME NEW v \in Worker, work'[v].pc = "op", work'[v].call > 1
          PROVE  /\ op \in {"create", "create_close_unlink"} => work'[v].cur \in files'
                 /\ op = "create_unlink_close" =>
                      (work'[v].cur \in files' <=> work'[v].call = 2)
      <3>1. CASE v = w
        <4>1. more /\ work'[v].cur = n /\ work'[v].call = k + 1
          BY <1>8, <1>9, <2>8, <3>1
        <4> QED
          BY <1>12, <4>1
      <3>2. CASE v # w
        <4>1. work'[v] = work[v]
          BY <1>9, <3>2
        <4>2. work[v].cur < work[v].stop
          BY <2>8, <4>1 DEF IInv, WorkInv, InRange
        <4>3. work[v].cur # n
          BY <1>11, <3>2, <4>2
        <4>4. work[v].cur \in files' <=> work[v].cur \in files
          BY <1>12, <4>3
        <4> QED
          BY <2>8, <4>1, <4>4 DEF IInv, FileInv
      <3> QED
        BY <3>1, <3>2
    <2> QED
      BY <1>9, <2>3, <2>7, <2>8 DEF FileInv
  <1> QED
    BY <1>14, <1>15, <1>16, <1>17, <1>18, <1>19, <1>20 DEF IInv

\* Every step of a worker keeps the invariant.
LEMMA WorkerStep ==
  ASSUME IInv, NEW w \in Worker, stat_worker(w)
  PROVE  IInv'
  <1>1. CASE \/ worker_cancelled(w) \/ worker_open(w) \/ worker_test(w) \/ worker_fail(w)
             \/ worker_pass(w) \/ worker_again(w) \/ worker_close(w)
    BY <1>1, QuietSteps
  <1>2. CASE worker_call(w)
    <2> DEFINE n == work[w].cur
               c == Calls(op)[work[w].call]
    <2>1. CASE /\ files' = Effect(c, n)
               /\ IF MoreCalls(w)
                  THEN Becomes(w, [work[w] EXCEPT !.call = @ + 1]) /\ did' = did
                  ELSE /\ Becomes(w, [work[w] EXCEPT !.pc = "test", !.cur = @ + 1])
                       /\ did' = did \cup {n}
      <3>1. work[w].pc = "op"
        BY <1>2 DEF worker_call
      <3> QED
        BY <2>1, <3>1, CallStep
    <2>2. CASE Becomes(w, [work[w] EXCEPT !.pc = "fail"]) /\ UNCHANGED <<files, did>>
      <3>1. work[w].pc = "op"
        BY <1>2 DEF worker_call
      <3> QED
        BY <2>2, <3>1, QuietSteps
    <2> QED
      BY <1>2, <2>1, <2>2 DEF worker_call
  <1> QED
    BY <1>1, <1>2 DEF stat_worker

-----------------------------------------------------------------------------
(* The steps of main.                                                      *)

\* What main adds up for a worker is what that worker has done.
LEMMA FrontGrows ==
  ASSUME IInv, ~loop, NEW w \in Worker
  PROVE  /\ Cardinality(did \cap (0 .. work[w].start - 1)) \in Nat
         /\ Cardinality(did \cap (0 .. work[w].stop - 1)) \in Nat
         /\ Cardinality(did \cap (0 .. work[w].stop - 1))
              >= Cardinality(did \cap (0 .. work[w].start - 1)) + (work[w].cur - work[w].start)
         /\ Cardinality(did \cap (0 .. work[w].stop - 1)) <= Cardinality(did)
  <1> DEFINE W == work[w]
             A == did \cap (0 .. W.start - 1)
             B == W.start .. W.cur - 1
             C == did \cap (0 .. W.stop - 1)
  <1>1. /\ W.start \in Nat /\ W.stop \in Nat /\ W.cur \in Nat
        /\ W.start <= W.cur /\ W.cur <= W.stop
    BY Ranges DEF IInv, WorkInv, InRange, WorkRecord
  <1>2. IsFiniteSet(did) /\ did \subseteq Nat
    BY DidBound DEF IInv, TypeInv
  <1>3. B \subseteq did
    <2>1. \A m \in W.start .. W.stop - 1 : m \in did <=> m < W.cur
      BY DEF IInv, DidInv
    <2>2. \A m \in B : m \in W.start .. W.stop - 1 /\ m < W.cur
      BY <1>1
    <2> HIDE DEF B
    <2> QED
      BY <2>1, <2>2
  <1>4. IsFiniteSet(B) /\ Cardinality(B) = W.cur - W.start
    <2>1. /\ IsFiniteSet(B)
          /\ Cardinality(B) = IF W.start > W.cur - 1 THEN 0 ELSE (W.cur - 1) - W.start + 1
      <3>1. W.start \in Int /\ W.cur - 1 \in Int
        BY <1>1
      <3> QED
        BY <3>1, FS_Interval
    <2> HIDE DEF B
    <2> QED
      BY <1>1, <2>1
  <1>5. A \in SUBSET did /\ C \in SUBSET did
    OBVIOUS
  <1>6. /\ IsFiniteSet(A) /\ IsFiniteSet(C) /\ Cardinality(C) <= Cardinality(did)
        /\ Cardinality(A) \in Nat /\ Cardinality(C) \in Nat
    BY <1>2, <1>5, FS_Subset, FS_CardinalityType
  <1>7. A \cap B = {} /\ A \cup B \in SUBSET C
    <2>1. \A m \in A : m \in did /\ m \in 0 .. W.stop - 1 /\ m < W.start
      BY <1>1
    <2>2. \A m \in B : m \in did /\ m \in 0 .. W.stop - 1 /\ ~(m < W.start)
      BY <1>1, <1>3
    <2> HIDE DEF A, B
    <2> QED
      BY <2>1, <2>2
  <1> HIDE DEF A, B, C
  <1>8. /\ IsFiniteSet(A \cup B)
        /\ Cardinality(A \cup B) = Cardinality(A) + Cardinality(B) - Cardinality(A \cap B)
    BY <1>4, <1>6, FS_Union
  <1>9. Cardinality(A \cup B) <= Cardinality(C) /\ Cardinality(A \cap B) = 0
    BY <1>6, <1>7, FS_Subset, FS_EmptySet
  <1>10. Cardinality(C) >= Cardinality(A) + (W.cur - W.start)
    BY <1>1, <1>4, <1>6, <1>8, <1>9
  <1> QED
    BY <1>6, <1>10 DEF A, C

\* What a step that leaves the options, the files and the workers alone has to keep.
LEMMA SameShared ==
  ASSUME IInv, UNCHANGED <<options, shared>>, mpc' # "divide", mpc # "divide",
         \A w \in Worker : work[w].cancelled => CancelAsked(w)'
  PROVE  CountInv' /\ WorkInv' /\ DidInv' /\ FileInv'
  <1>1. /\ UNCHANGED <<op, loop, nthread, asked, count, increment, before, files, did, work>>
        /\ Worker' = Worker
    BY DEF options, shared, Worker
  <1>2. CountInv'
    BY <1>1 DEF IInv, CountInv
  <1>3. WorkInv'
    <2>1. \A w \in Worker : InRange(work[w])'
      BY <1>1 DEF IInv, WorkInv, InRange
    <2> QED
      BY <1>1, <2>1 DEF IInv, WorkInv
  <1>4. DidInv'
    BY <1>1 DEF IInv, DidInv
  <1>5. FileInv'
    <2>1. Outcome(did)' = Outcome(did)
      BY <1>1 DEF Outcome
    <2>2. \A w \in Worker : Busy(work'[w]) <=> Busy(work[w])
      BY <1>1
    <2> HIDE DEF Busy, Outcome
    <2> QED
      BY <1>1, <2>1, <2>2 DEF IInv, FileInv
  <1> QED
    BY <1>2, <1>3, <1>4, <1>5

\* Before the division there is no worker, and nothing was done.
LEMMA DivideStep ==
  ASSUME IInv, main_divide
  PROVE  IInv'
  <1>1. /\ mpc = "divide" /\ Len(work) = 0 /\ Worker = {} /\ did = {}
        /\ i = 0 /\ err = 0 /\ progress = 0
    <2>1. mpc = "divide"
      BY DEF main_divide
    <2>2. Len(work) = 0 /\ Worker = {}
      BY <2>1 DEF IInv, CountInv, TypeInv, Worker
    <2>3. i = 0 /\ err = 0 /\ progress = 0
      BY <2>1, <2>2 DEF IInv, MainInv
    <2>4. did = {}
      <3>1. Len(work) * increment = 0
        BY <2>2 DEF IInv, TypeInv
      <3>2. \A n \in did : n \in Nat /\ n < 0
        BY <3>1 DEF IInv, TypeInv, DidInv
      <3> QED
        BY <3>2
    <2> QED
      BY <2>1, <2>2, <2>3, <2>4
  <1>2. /\ UNCHANGED <<op, loop, nthread, asked, before, files, did, work, exiting, sigint,
                       i, progress, err>>
        /\ Worker' = {}
    BY <1>1 DEF main_divide, shared, Worker
  <1>3. /\ count \in Nat /\ increment \in Nat /\ increment <= count /\ count <= asked
        /\ asked \in Nat /\ asked < ULONG /\ ULONG \in Nat \ {0}
        /\ nthread \in Int /\ -ULONG < nthread /\ nthread < ULONG
    BY NegDentAssumption DEF IInv, TypeInv, CountInv, NegDentAssumption
  <1>4. /\ count' \in Nat /\ increment' \in Nat /\ increment' <= count' /\ count' <= asked
        /\ nthread > 0 => count' = increment' * nthread
        /\ mpc' \in {"create", "crashed"}
    <2>1. CASE nthread = 0
      BY <1>3, <2>1 DEF main_divide
    <2>2. CASE nthread # 0
      <3>1. /\ increment' = count \div (nthread % ULONG)
            /\ count' = (increment' * nthread) % ULONG /\ mpc' = "create"
        BY <2>2 DEF main_divide
      <3>2. count \in 0 .. ULONG - 1
        BY <1>3
      <3>3. /\ increment' \in Nat /\ (increment' * nthread) % ULONG \in Nat
            /\ increment' <= (increment' * nthread) % ULONG
            /\ (increment' * nthread) % ULONG <= count
            /\ nthread > 0 => (increment' * nthread) % ULONG = increment' * nthread
        BY <1>3, <2>2, <3>1, <3>2, Division
      <3> QED
        BY <1>3, <3>1, <3>3
    <2> QED
      BY <2>1, <2>2
  <1>5. TypeInv'
    BY <1>2, <1>4 DEF IInv, TypeInv
  <1>6. CountInv'
    BY <1>1, <1>2, <1>4 DEF CountInv
  <1>7. MainInv'
    BY <1>1, <1>2, <1>4 DEF MainInv
  <1>8. WorkInv' /\ DidInv'
    BY <1>1, <1>2 DEF WorkInv, DidInv
  <1>9. ProgInv'
    BY <1>1, <1>2, <1>4, FS_EmptySet DEF ProgInv
  <1>10. FileInv'
    <2>1. Outcome(did)' = Outcome(did)
      BY <1>2 DEF Outcome
    <2> HIDE DEF Outcome, Busy
    <2> QED
      BY <1>1, <1>2, <2>1 DEF IInv, FileInv
  <1> QED
    BY <1>5, <1>6, <1>7, <1>8, <1>9, <1>10 DEF IInv

\* A new worker takes the range after those of the others, where nothing was done.
LEMMA CreateStep ==
  ASSUME IInv, main_create
  PROVE  IInv'
  <1>1. /\ mpc = "create" /\ i < nthread /\ i = Len(work) /\ err = 0 /\ progress = 0
        /\ i' = i + 1
        /\ UNCHANGED <<op, loop, nthread, asked, count, increment, before, files, did,
                       exiting, sigint, mpc, progress, err>>
    BY DEF main_create, IInv, MainInv, options
  <1>2. /\ i \in Nat /\ increment \in Nat /\ nthread \in Int /\ ULONG \in Nat \ {0}
        /\ Len(work) \in Nat /\ 1 \in 1 .. Len(Calls(op))
    <2>1. op \in Ops /\ asked \in Nat /\ asked < ULONG /\ ULONG \in Nat
      BY NegDentAssumption DEF IInv, TypeInv, NegDentAssumption
    <2> QED
      BY <2>1, CallList, NegDentAssumption DEF IInv, TypeInv, NegDentAssumption
  <1> DEFINE s == i * increment
  <1>3. PICK r \in {Work(s), [Work(s) EXCEPT !.pc = "never"]} : work' = Append(work, r)
    BY DEF main_create
  <1> DEFINE w == i + 1
  <1>4. s \in Nat /\ s + increment \in Nat /\ (i + 1) * increment = s + increment
    BY <1>2
  <1> HIDE DEF s
  <1>5. /\ r \in WorkRecord /\ r.start = s /\ r.stop = s + increment /\ r.cur = s /\ r.cnt = 0
        /\ r.error = FALSE /\ r.pc \in {"open", "never"} /\ r.call = 1 /\ r.cancelled = FALSE
    <2> DEFINE fields(x) ==
          /\ x \in WorkRecord /\ x.start = s /\ x.stop = s + increment /\ x.cur = s
          /\ x.cnt = 0 /\ x.error = FALSE /\ x.call = 1 /\ x.cancelled = FALSE
    <2>1. fields(Work(s)) /\ Work(s).pc = "open"
      BY <1>2, <1>4 DEF Work, Stop, WorkRecord
    <2>2. CASE r = Work(s)
      BY <2>1, <2>2
    <2>3. CASE r = [Work(s) EXCEPT !.pc = "never"]
      <3> HIDE DEF Work
      <3> QED
        BY <2>1, <2>3 DEF WorkRecord
    <2> QED
      BY <1>3, <2>2, <2>3
  <1>6. InRange(r)
    <2>1. r.cur \in r.start .. r.stop
      BY <1>2, <1>4, <1>5
    <2> QED
      BY <1>2, <1>5, <2>1 DEF InRange
  <1>7. /\ work' \in Seq(WorkRecord) /\ Len(work') = w /\ w \in Nat /\ work'[w] = r
        /\ Worker' = Worker \cup {w} /\ w \notin Worker
        /\ \A v \in Worker : work'[v] = work[v]
    <2>1. work' = Append(work, r) /\ work \in Seq(WorkRecord)
      BY <1>3 DEF IInv, TypeInv
    <2>2. /\ work' \in Seq(WorkRecord) /\ Len(work') = w /\ w \in Nat /\ work'[w] = r
          /\ \A v \in 1 .. Len(work) : work'[v] = work[v]
      BY <1>1, <1>2, <1>5, <2>1
    <2>3. 1 .. w = 1 .. Len(work) \cup {w} /\ w \notin 1 .. Len(work)
      BY <1>1, <1>2
    <2> QED
      BY <2>2, <2>3 DEF Worker
  <1> HIDE DEF w
  <1>8. w = i + 1
    BY DEF w
  <1>9. TypeInv'
    BY <1>1, <1>2, <1>7 DEF IInv, TypeInv
  <1>10. CountInv'
    BY <1>1, <1>2, <1>7, <1>8 DEF IInv, CountInv
  <1>11. MainInv'
    BY <1>1, <1>2, <1>7, <1>8 DEF MainInv
  <1>12. WorkInv'
    <2>1. \A v \in Worker : InRange(work[v])' /\ CancelAsked(v)' = CancelAsked(v)
      BY <1>1, <1>7 DEF IInv, WorkInv, InRange, CancelAsked
    <2>2. InRange(r)' /\ work'[w] = r
      BY <1>1, <1>6, <1>7 DEF InRange
    <2>3. /\ r.start = (w - 1) * increment
          /\ r.stop = w * increment
      BY <1>2, <1>4, <1>5, <1>8 DEF s
    <2>4. ~CancelAsked(w) /\ ~r.cancelled
      BY <1>1, <1>5 DEF CancelAsked
    <2>5. ASSUME NEW v \in Worker'
          PROVE  /\ work'[v].start = (v - 1) * increment'
                 /\ work'[v].stop = v * increment'
                 /\ InRange(work[v])'
                 /\ work'[v].cancelled => CancelAsked(v)'
      <3>1. CASE v \in Worker
        BY <1>1, <1>7, <2>1, <3>1 DEF IInv, WorkInv
      <3>2. CASE v = w
        BY <1>1, <2>2, <2>3, <2>4, <3>2 DEF InRange
      <3> QED
        BY <1>7, <3>1, <3>2
    <2> QED
      BY <2>5 DEF WorkInv
  <1>13. \A n \in did : n \in Nat /\ n < s
    BY <1>1 DEF IInv, TypeInv, DidInv, s
  <1>14. DidInv'
    <2>1. \A n \in did : n < w * increment
      BY <1>2, <1>4, <1>8, <1>13
    <2>2. \A n \in r.start .. r.stop - 1 : n \in did <=> n < r.cur
      BY <1>4, <1>5, <1>13
    <2> QED
      BY <1>1, <1>7, <2>1, <2>2 DEF IInv, DidInv
  <1>15. ProgInv'
    <2>1. Cardinality(did) \in Nat
      BY DidBound DEF IInv
    <2> QED
      BY <1>1, <2>1 DEF ProgInv
  <1>16. FileInv'
    <2>1. Outcome(did)' = Outcome(did)
      BY <1>1 DEF Outcome
    <2>2. \A v \in Worker : Busy(work'[v]) <=> Busy(work[v])
      BY <1>7
    <2>3. work'[w].pc # "op"
      BY <1>5, <1>7
    <2> HIDE DEF Outcome, Busy
    <2> QED
      BY <1>1, <1>7, <2>1, <2>2, <2>3 DEF IInv, FileInv
  <1> QED
    BY <1>9, <1>10, <1>11, <1>12, <1>14, <1>15, <1>16 DEF IInv

\* main adds up one more worker.
LEMMA PollStep ==
  ASSUME IInv, main_poll
  PROVE  IInv'
  <1> DEFINE w == i + 1
             W == work[w]
             sum == progress + Done(W) + W.cnt * (W.stop - W.start)
  <1>1. /\ mpc = "poll" /\ i < Len(work) /\ progress' = sum % ULONG
        /\ err' = err + Errors(W) /\ i' = i + 1
        /\ UNCHANGED <<options, shared, exiting, sigint, mpc>>
    BY DEF main_poll
  <1>2. /\ i \in Nat /\ progress \in Nat /\ err \in Nat /\ increment \in Nat /\ loop \in BOOLEAN
        /\ w \in Worker /\ Len(work) \in Nat /\ ULONG \in Nat \ {0}
    <2>1. asked \in Nat /\ asked < ULONG /\ ULONG \in Nat
      BY NegDentAssumption DEF IInv, TypeInv, NegDentAssumption
    <2>2. loop \in BOOLEAN
      BY NegDentAssumption DEF IInv, TypeInv, NegDentAssumption
    <2> QED
      BY <1>1, <2>1, <2>2 DEF IInv, TypeInv, Worker
  <1>3. /\ W \in WorkRecord /\ W.start = i * increment /\ W.stop = i' * increment
        /\ W.start <= W.cur /\ W.cur <= W.stop
        /\ W.start \in Nat /\ W.stop \in Nat /\ W.cur \in Nat /\ W.cnt \in Nat
        /\ (~loop => W.cnt = 0) /\ (W.error \in BOOLEAN)
    <2>1. W \in WorkRecord
      BY <1>2, Ranges DEF IInv
    <2>2. W.start = (w - 1) * increment /\ W.stop = w * increment /\ InRange(W)
      BY <1>2 DEF IInv, WorkInv
    <2>3. (w - 1) * increment = i * increment
      BY <1>2
    <2> HIDE DEF W, w
    <2>4. W.start <= W.cur /\ W.cur <= W.stop /\ (~loop => W.cnt = 0)
      BY <2>1, <2>2 DEF InRange, WorkRecord
    <2>5. W.start = i * increment /\ W.stop = i' * increment
      BY <1>1, <2>2, <2>3 DEF w
    <2> QED
      BY <2>1, <2>4, <2>5 DEF WorkRecord
  <1>4. Errors(W) \in {0, 1}
    BY DEF Errors
  <1> HIDE DEF W
  <1>5. W.stop - W.start \in Nat /\ W.cnt * (W.stop - W.start) \in Nat /\ Done(W) = W.cur - W.start
    BY <1>3 DEF Done
  <1>6. sum \in Nat /\ progress' \in 0 .. ULONG - 1
    <2>1. sum \in Nat
      BY SMTT(30), <1>2, <1>3, <1>5
    <2> HIDE DEF sum
    <2> QED
      BY <1>1, <1>2, <2>1
  <1>7. TypeInv'
    <2>1. err' \in Nat /\ i' \in Nat
      BY <1>1, <1>2, <1>4
    <2> QED
      BY <1>1, <1>6, <2>1 DEF IInv, TypeInv, options, shared
  <1>8. CountInv' /\ WorkInv' /\ DidInv' /\ FileInv'
    <2>1. \A v \in Worker : ~work[v].cancelled
      BY <1>1 DEF IInv, WorkInv, CancelAsked
    <2> QED
      BY <1>1, <2>1, SameShared
  <1>9. MainInv'
    <2>1. Len(work') = Len(work)
      BY <1>1 DEF shared
    <2> QED
      BY <1>1, <1>2, <1>4, <2>1 DEF IInv, MainInv
  <1>10. ProgInv'
    <2>1. CASE loop
      BY <1>1, <2>1 DEF ProgInv, options
    <2>2. CASE ~loop
      <3>1. /\ Cardinality(did \cap (0 .. W.start - 1)) \in Nat
            /\ Cardinality(did \cap (0 .. W.stop - 1)) \in Nat
            /\ Cardinality(did \cap (0 .. W.stop - 1))
                 >= Cardinality(did \cap (0 .. W.start - 1)) + (W.cur - W.start)
            /\ Cardinality(did \cap (0 .. W.stop - 1)) <= Cardinality(did)
        BY <1>2, <2>2, FrontGrows DEF W
      <3>2. progress <= Cardinality(did \cap (0 .. W.start - 1))
        BY <1>1, <1>3, <2>2 DEF IInv, ProgInv
      <3>3. sum = progress + (W.cur - W.start)
        <4>1. W.cnt * (W.stop - W.start) = 0
          BY <1>3, <1>5, <2>2
        <4> QED
          BY <1>2, <1>3, <1>5, <4>1
      <3>4. Cardinality(did) \in Nat /\ Cardinality(did) < ULONG
        <4>1. Cardinality(did) \in Nat /\ Cardinality(did) <= count /\ count < ULONG
          BY DidBound DEF IInv
        <4>2. count \in Nat
          BY DEF IInv, TypeInv
        <4> QED
          BY <1>2, <4>1, <4>2
      <3> HIDE DEF sum
      <3>5. sum <= Cardinality(did \cap (0 .. W.stop - 1)) /\ sum \in 0 .. ULONG - 1
        BY SMTT(30), <1>2, <1>3, <1>6, <3>1, <3>2, <3>3, <3>4
      <3>6. sum % ULONG = sum
        BY <1>2, <3>5
      <3>7. /\ did' = did /\ mpc' = "poll" /\ i' * increment' = W.stop
        BY <1>1, <1>3 DEF options, shared
      <3>8. /\ progress' <= Cardinality(did')
            /\ progress' <= Cardinality(did' \cap (0 .. i' * increment' - 1))
        <4>1. did' \cap (0 .. i' * increment' - 1) = did \cap (0 .. W.stop - 1)
          BY <3>7
        <4>2. progress' = sum
          BY <1>1, <3>6
        <4>3. sum <= Cardinality(did)
          BY <1>6, <3>1, <3>4, <3>5
        <4> QED
          BY <3>5, <3>7, <4>1, <4>2, <4>3
      <3> QED
        BY <3>8 DEF ProgInv
    <2> QED
      BY <1>2, <2>1, <2>2
  <1> QED
    BY <1>7, <1>8, <1>9, <1>10 DEF IInv

\* main asks one worker to end, and only after an error.
LEMMA CancelStep ==
  ASSUME IInv, main_cancel
  PROVE  IInv'
  <1> DEFINE w == i + 1
             W == work[w]
             r == [W EXCEPT !.cancelled = ToCancel(W)]
  <1>1. /\ mpc = "verdict" /\ err # 0 /\ i < Len(work) /\ i' = i + 1
        /\ work' = [work EXCEPT ![w].cancelled = ToCancel(work[w])]
        /\ UNCHANGED <<op, loop, nthread, asked, count, increment, before, files, did,
                       exiting, sigint, mpc, progress, err>>
    BY DEF main_cancel, options
  <1>2. /\ i \in Nat /\ w \in Worker /\ w \in Nat /\ Len(work) \in Nat
        /\ work \in Seq(WorkRecord) /\ W \in WorkRecord
    BY <1>1 DEF IInv, TypeInv, Worker
  <1>3. ToCancel(W) \in BOOLEAN
    BY DEF ToCancel
  <1>4. /\ r \in WorkRecord /\ r.start = W.start /\ r.stop = W.stop /\ r.cur = W.cur
        /\ r.cnt = W.cnt /\ r.error = W.error /\ r.pc = W.pc /\ r.call = W.call
    BY <1>2, <1>3 DEF WorkRecord
  <1>5. ~W.cancelled
    BY <1>1, <1>2 DEF IInv, WorkInv, CancelAsked
  <1>6. work' = [work EXCEPT ![w] = r]
    BY <1>1, <1>2
  <1> HIDE DEF r
  <1>7. /\ work' \in Seq(WorkRecord) /\ Len(work') = Len(work) /\ Worker' = Worker
        /\ work'[w] = r
        /\ \A v \in Worker : v # w => work'[v] = work[v]
    BY <1>2, <1>4, <1>6 DEF Worker
  <1>8. \A v \in Worker :
          /\ work'[v].start = work[v].start /\ work'[v].stop = work[v].stop
          /\ work'[v].cur = work[v].cur /\ work'[v].cnt = work[v].cnt
          /\ work'[v].error = work[v].error /\ work'[v].pc = work[v].pc
          /\ work'[v].call = work[v].call
          /\ v # w => work'[v].cancelled = work[v].cancelled
    BY <1>4, <1>7
  <1>9. TypeInv'
    BY <1>1, <1>2, <1>7 DEF IInv, TypeInv
  <1>10. CountInv'
    BY <1>1, <1>7 DEF IInv, CountInv
  <1>11. MainInv'
    BY <1>1, <1>2, <1>7 DEF IInv, MainInv
  <1>12. WorkInv'
    <2>1. \A v \in Worker : InRange(work[v])'
      BY <1>1, <1>8 DEF IInv, WorkInv, InRange
    <2>2. ASSUME NEW v \in Worker, work'[v].cancelled
          PROVE  CancelAsked(v)'
      <3>1. v = w \/ (v # w /\ work[v].cancelled)
        BY <1>8, <2>2
      <3>2. v <= i + 1 /\ v \in Nat
        BY <1>1, <1>2, <3>1 DEF IInv, WorkInv, CancelAsked, Worker
      <3> QED
        BY <1>1, <3>2 DEF CancelAsked
    <2> QED
      BY <1>1, <1>7, <1>8, <2>1, <2>2 DEF IInv, WorkInv
  <1>13. DidInv'
    BY <1>1, <1>7, <1>8 DEF IInv, DidInv
  <1>14. ProgInv'
    BY <1>1 DEF IInv, ProgInv
  <1>15. FileInv'
    <2>1. Outcome(did)' = Outcome(did)
      BY <1>1 DEF Outcome
    <2>2. \A v \in Worker : Busy(work[v]) => Busy(work'[v]) /\ work'[v].cur = work[v].cur
      BY <1>5, <1>8 DEF Busy
    <2>3. ASSUME NEW n \in Name, \A v \in Worker : Busy(work'[v]) => work'[v].cur # n
          PROVE  n \in files' <=> n \in Outcome(did)'
      <3>1. \A v \in Worker : Busy(work[v]) => work[v].cur # n
        BY <2>2, <2>3
      <3> HIDE DEF Busy, Outcome
      <3> QED
        BY <1>1, <2>1, <3>1 DEF IInv, FileInv
    <2> HIDE DEF Busy, Outcome
    <2> QED
      BY <1>1, <1>7, <1>8, <2>3 DEF IInv, FileInv
  <1> QED
    BY <1>9, <1>10, <1>11, <1>12, <1>13, <1>14, <1>15 DEF IInv

\* A step of main that touches neither the workers nor the options.
LEMMA MainOnly ==
  ASSUME IInv, UNCHANGED <<options, shared>>, mpc # "divide", mpc' # "divide",
         mpc' \in {"poll", "verdict", "join", "exited", "crashed"},
         mpc \notin {"exited", "crashed"},
         exiting' \in BOOLEAN,
         sigint' \in {"blocked", "blocked_pending", "ready", "pending"},
         i' \in Nat, progress' \in Nat, err' \in Nat,
         progress' \in {progress, 0},
         mpc' = "poll" => progress' = 0,
         mpc \in {"verdict", "join"} /\ err # 0 =>
           \/ mpc = "verdict" /\ mpc' = "verdict" /\ err' # 0 /\ i <= i'
           \/ mpc' \in {"join", "exited"} /\ err' # 0
           \/ mpc' = "crashed",
         MainInv'
  PROVE  IInv'
  <1>1. TypeInv'
    <2>1. progress' \in 0 .. ULONG - 1
      <3>1. progress \in 0 .. ULONG - 1 /\ ULONG \in Nat
        BY NegDentAssumption DEF IInv, TypeInv, NegDentAssumption
      <3> QED
        BY <3>1
    <2> QED
      BY <2>1 DEF IInv, TypeInv, options, shared
  <1>2. \A w \in Worker : work[w].cancelled => CancelAsked(w)'
    <2>1. SUFFICES ASSUME NEW w \in Worker, work[w].cancelled
                   PROVE  CancelAsked(w)'
      OBVIOUS
    <2>2. CancelAsked(w)
      BY <2>1 DEF IInv, WorkInv
    <2>3. w \in Nat /\ i \in Nat
      BY DEF IInv, TypeInv, Worker
    <2>4. mpc \in {"verdict", "join"} /\ err # 0 /\ (mpc = "verdict" => w <= i)
      BY <2>2 DEF CancelAsked
    <2>5. \/ mpc' = "verdict" /\ mpc = "verdict" /\ err' # 0 /\ i <= i'
          \/ mpc' \in {"join", "exited"} /\ err' # 0
          \/ mpc' = "crashed"
      BY <2>4
    <2> QED
      BY <2>3, <2>4, <2>5 DEF CancelAsked
  <1>3. CountInv' /\ WorkInv' /\ DidInv' /\ FileInv'
    BY <1>2, SameShared
  <1>4. ProgInv'
    <2>1. did' = did /\ loop' = loop /\ progress \in Nat
      BY DEF IInv, TypeInv, options, shared
    <2>2. IsFiniteSet(did) /\ Cardinality(did) \in Nat
      BY DidBound DEF IInv
    <2>3. Cardinality(did' \cap (0 .. i' * increment' - 1)) \in Nat
      <3>1. did' \cap (0 .. i' * increment' - 1) \in SUBSET did
        BY <2>1
      <3>2. IsFiniteSet(did' \cap (0 .. i' * increment' - 1))
        BY <2>2, <3>1, FS_Subset
      <3> QED
        BY <3>2, FS_CardinalityType
    <2>4. CASE mpc' = "poll"
      BY <2>1, <2>2, <2>3, <2>4 DEF ProgInv
    <2>5. CASE mpc' # "poll"
      <3>1. ~loop => progress <= Cardinality(did)
        BY DEF IInv, ProgInv
      <3> QED
        BY <2>1, <2>2, <2>5, <3>1 DEF ProgInv
    <2> QED
      BY <2>4, <2>5
  <1> QED
    BY <1>1, <1>3, <1>4 DEF IInv

\* The other steps of main.
LEMMA OtherMainSteps ==
  ASSUME IInv,
         \/ main_unblock \/ main_sleep \/ main_verdict \/ main_join \/ main_crash
         \/ main_return
  PROVE  IInv'
  <1>1. /\ i \in Nat /\ progress \in Nat /\ err \in Nat /\ Len(work) \in Nat /\ count \in Nat
        /\ exiting \in BOOLEAN /\ sigint \in {"blocked", "blocked_pending", "ready", "pending"}
        /\ i <= Len(work) /\ err <= Len(work) + 1
    BY DEF IInv, TypeInv, MainInv
  <1>2. CASE main_unblock
    <2>1. /\ mpc = "create" /\ mpc' = "poll" /\ i' = 0 /\ progress' = 0 /\ err' = 0
          /\ UNCHANGED <<options, shared, exiting>> /\ err = 0
          /\ sigint' \in {"pending", "ready"}
      BY <1>2 DEF main_unblock, IInv, MainInv
    <2>2. MainInv'
      BY <1>1, <2>1 DEF MainInv, shared
    <2> QED
      BY <1>1, <2>1, <2>2, MainOnly
  <1>3. CASE main_sleep
    <2>1. /\ mpc = "poll" /\ i' = 0 /\ err <= i
          /\ UNCHANGED <<options, shared, exiting, sigint>>
      BY <1>1, <1>3 DEF main_sleep, IInv, MainInv
    <2>2. CASE progress' = 0 /\ err' = 0 /\ mpc' = "poll"
      <3>1. MainInv'
        BY <1>1, <2>1, <2>2 DEF MainInv, shared
      <3> QED
        BY <1>1, <2>1, <2>2, <3>1, MainOnly
    <2>3. CASE ~(Unfinished /\ err = 0 /\ ~exiting) /\ mpc' = "verdict"
               /\ UNCHANGED <<progress, err>>
      <3>1. err = 0 /\ ~exiting => ~loop /\ progress >= count
        BY <1>1, <2>3 DEF Unfinished
      <3>2. MainInv'
        BY <1>1, <2>1, <2>3, <3>1 DEF MainInv, shared, options
      <3> QED
        BY <1>1, <2>1, <2>3, <3>2, MainOnly
    <2> QED
      BY <1>3, <2>2, <2>3 DEF main_sleep
  <1>4. CASE main_verdict
    <2>1. /\ mpc = "verdict" /\ mpc' = "join" /\ i' = 0
          /\ err' = IF err # 0 \/ exiting THEN 1 ELSE 0
          /\ UNCHANGED <<options, shared, exiting, sigint, progress>>
      BY <1>4 DEF main_verdict
    <2>2. err' \in {0, 1} /\ (err' = 0 => err = 0 /\ ~exiting)
      BY <2>1
    <2>3. err' = 0 => ~loop /\ progress >= count
      BY <2>1, <2>2 DEF IInv, MainInv
    <2>4. MainInv'
      BY <1>1, <2>1, <2>2, <2>3 DEF MainInv, shared, options
    <2>5. err # 0 => err' # 0
      BY <2>1
    <2> QED
      BY <1>1, <2>1, <2>2, <2>4, <2>5, MainOnly
  <1>5. CASE main_join
    <2>1. /\ mpc = "join" /\ i < Len(work) /\ work[i + 1].pc = "ended" /\ i' = i + 1
          /\ UNCHANGED <<options, shared, exiting, sigint, mpc, progress, err>>
      BY <1>5 DEF main_join
    <2>2. \A w \in 1 .. i' : work[w].pc = "ended"
      BY <1>1, <2>1 DEF IInv, MainInv
    <2>3. MainInv'
      BY <1>1, <2>1, <2>2 DEF IInv, MainInv, shared, options
    <2> QED
      BY <1>1, <2>1, <2>3, MainOnly
  <1>6. CASE main_crash
    <2>1. /\ mpc \in {"join", "verdict"} /\ mpc' = "crashed"
          /\ UNCHANGED <<options, shared, exiting, sigint, i, progress, err>>
      BY <1>6 DEF main_crash
    <2>2. MainInv'
      BY <1>1, <2>1 DEF MainInv, shared
    <2> QED
      BY <1>1, <2>1, <2>2, MainOnly
  <1>7. CASE main_return
    <2>1. /\ mpc = "join" /\ mpc' = "exited" /\ i = Len(work)
          /\ UNCHANGED <<options, shared, exiting, sigint, i, progress, err>>
      BY <1>7 DEF main_return
    <2>2. \A w \in Worker : work[w].pc = "ended"
      BY <2>1 DEF IInv, MainInv, Worker
    <2>3. MainInv'
      BY <1>1, <2>1, <2>2 DEF IInv, MainInv, Worker, shared, options
    <2> QED
      BY <1>1, <2>1, <2>3, MainOnly
  <1> QED
    BY <1>2, <1>3, <1>4, <1>5, <1>6, <1>7

\* SIGINT comes, or its handler runs.
LEMMA SignalStep ==
  ASSUME IInv, kill \/ interrupt
  PROVE  IInv'
  <1>1. /\ UNCHANGED <<op, loop, nthread, asked, count, increment, before, files, did, work,
                       mpc, i, progress, err>>
        /\ exiting' \in {exiting, TRUE}
        /\ sigint' \in {"blocked", "blocked_pending", "ready", "pending"}
    BY DEF kill, interrupt, options, shared
  <1>2. Worker' = Worker
    BY <1>1 DEF Worker
  <1>3. TypeInv'
    BY <1>1 DEF IInv, TypeInv
  <1>4. CountInv'
    BY <1>1 DEF IInv, CountInv
  <1>5. MainInv'
    <2>1. ~exiting' => ~exiting
      BY <1>1
    <2> QED
      BY <1>1, <1>2, <2>1 DEF IInv, MainInv
  <1>6. WorkInv'
    <2>1. \A w \in Worker : InRange(work[w])' /\ CancelAsked(w)' = CancelAsked(w)
      BY <1>1 DEF IInv, WorkInv, InRange, CancelAsked
    <2> QED
      BY <1>1, <1>2, <2>1 DEF IInv, WorkInv
  <1>7. DidInv'
    BY <1>1, <1>2 DEF IInv, DidInv
  <1>8. ProgInv'
    BY <1>1 DEF IInv, ProgInv
  <1>9. FileInv'
    <2>1. Outcome(did)' = Outcome(did)
      BY <1>1 DEF Outcome
    <2>2. \A w \in Worker : Busy(work'[w]) <=> Busy(work[w])
      BY <1>1
    <2> HIDE DEF Busy, Outcome
    <2> QED
      BY <1>1, <1>2, <2>1, <2>2 DEF IInv, FileInv
  <1> QED
    BY <1>3, <1>4, <1>5, <1>6, <1>7, <1>8, <1>9 DEF IInv

-----------------------------------------------------------------------------
(* The theorems.                                                           *)

\* The invariant holds at first.
LEMMA Starts == Init => IInv
  <1> SUFFICES ASSUME Init PROVE IInv
    OBVIOUS
  <1>1. /\ work = << >> /\ Len(work) = 0 /\ Worker = {} /\ did = {} /\ mpc = "divide"
        /\ i = 0 /\ progress = 0 /\ err = 0 /\ increment = 0 /\ count = asked
        /\ before = files /\ asked \in Counts /\ asked \in Nat
    BY NegDentAssumption DEF Init, Worker, NegDentAssumption
  <1>2. TypeInv
    <2>1. files \subseteq Name
      BY DEF Init
    <2>2. work \in Seq(WorkRecord)
      BY <1>1
    <2>3. 0 \in 0 .. ULONG - 1 /\ asked < ULONG
      BY <1>1, NegDentAssumption DEF NegDentAssumption
    <2>4. /\ op \in Ops /\ loop \in Loops /\ nthread \in Threads
          /\ exiting = FALSE /\ sigint = "blocked"
      BY DEF Init
    <2> QED
      BY <1>1, <2>1, <2>2, <2>3, <2>4 DEF TypeInv
  <1>3. CountInv /\ MainInv /\ WorkInv /\ DidInv
    BY <1>1 DEF CountInv, MainInv, WorkInv, DidInv
  <1>4. ProgInv
    BY <1>1, FS_EmptySet DEF ProgInv
  <1>5. FileInv
    <2>1. \A n \in Name : n \in Outcome({}) <=> n \in before
      BY DEF Outcome
    <2> HIDE DEF Outcome, Busy
    <2> QED
      BY <1>1, <2>1 DEF FileInv
  <1> QED
    BY <1>2, <1>3, <1>4, <1>5 DEF IInv

\* Every step keeps the invariant.
LEMMA Keeps == IInv /\ [Next]_vars => IInv'
  <1> SUFFICES ASSUME IInv, [Next]_vars PROVE IInv'
    OBVIOUS
  <1>1. CASE main
    BY <1>1, DivideStep, CreateStep, PollStep, CancelStep, OtherMainSteps DEF main
  <1>2. CASE kill \/ interrupt
    BY <1>2, SignalStep
  <1>3. CASE \E w \in LiveWorker : stat_worker(w)
    BY <1>3, WorkerStep DEF LiveWorker
  <1>4. CASE UNCHANGED vars
    <2>1. /\ UNCHANGED <<op, loop, nthread, asked, count, increment, before, files, did, work,
                         exiting, sigint, mpc, i, progress, err>>
      BY <1>4 DEF vars, options, shared
    <2> QED
      BY <2>1 DEF IInv, TypeInv, CountInv, MainInv, WorkInv, DidInv, ProgInv, FileInv, Worker,
                  InRange, CancelAsked, Outcome, Busy
  <1> QED
    BY <1>1, <1>2, <1>3, <1>4 DEF Next

\* In every state the ranges are disjoint, the names done are those before cur, main's
\* sum is covered by them, and a name no worker left half-way is as its operation
\* leaves it.
THEOREM Invariance == Spec => []IInv
  BY Starts, Keeps, PTL DEF Spec

\* Every variable has its type in every state; above all progress does not wrap and
\* no worker leaves its range, for any number of threads.
THEOREM TypeCorrect == Spec => []TypeOK
  <1>1. IInv => TypeOK
    <2> SUFFICES ASSUME IInv PROVE TypeOK
      OBVIOUS
    <2>1. /\ op \in Ops /\ loop \in Loops /\ nthread \in Threads /\ asked \in Counts
          /\ files \subseteq Name /\ before \subseteq Name /\ exiting \in BOOLEAN
          /\ sigint \in {"blocked", "blocked_pending", "ready", "pending"}
          /\ mpc \in {"divide", "create", "poll", "verdict", "join", "exited", "crashed"}
      BY DEF IInv, TypeInv
    <2>2. did \subseteq 0 .. count - 1
      BY DidBound DEF IInv
    <2>3. /\ count \in 0 .. asked /\ increment \in 0 .. count
          /\ i \in 0 .. Len(work) /\ err \in 0 .. Len(work) + 1
          /\ Len(work) \in Nat
      BY NegDentAssumption DEF IInv, TypeInv, CountInv, MainInv, NegDentAssumption
    <2>4. work = << >> \/ Len(work) <= nthread
      BY <2>3 DEF IInv, TypeInv, CountInv
    <2>5. ASSUME NEW w \in Worker
          PROVE  work[w] \in
                   [start : 0 .. count, stop : 0 .. count, cur : work[w].start .. work[w].stop,
                    cnt : 0 .. ULONG - 1, error : BOOLEAN, call : 1 .. Len(Calls(op)),
                    pc : {"never", "open", "test", "op", "fail", "pass", "again", "close",
                          "ended"},
                    cancelled : BOOLEAN]
      <3>1. /\ work[w] \in WorkRecord /\ InRange(work[w])
            /\ work[w].stop = work[w].start + increment /\ work[w].stop <= count
        BY Ranges DEF IInv, WorkInv
      <3>2. work[w].start \in 0 .. count /\ work[w].stop \in 0 .. count
        BY <2>3, <3>1 DEF WorkRecord
      <3> QED
        BY <3>1, <3>2 DEF InRange, WorkRecord
    <2>6. progress \in 0 .. IF loop THEN ULONG - 1 ELSE count
      <3>1. ~loop => progress <= Cardinality(did)
        BY DEF IInv, ProgInv
      <3>2. Cardinality(did) \in Nat /\ Cardinality(did) <= count
        BY DidBound DEF IInv
      <3>3. progress \in 0 .. ULONG - 1 /\ count \in Nat
        BY DEF IInv, TypeInv
      <3> QED
        BY <3>1, <3>2, <3>3
    <2> QED
      BY <2>1, <2>2, <2>3, <2>4, <2>5, <2>6 DEF TypeOK
  <1> QED
    BY <1>1, Invariance, PTL

\* What main prints, and what it compares with count, is never more than the number
\* of names whose operation has succeeded, although it is read without a lock.
THEOREM ProgressIsHonest == Spec => []ProgressHonest
  <1>1. IInv => ProgressHonest
    BY DEF IInv, ProgInv, ProgressHonest
  <1> QED
    BY <1>1, Invariance, PTL

\* Exit status 0 means that every name was dealt with and that no worker failed.
THEOREM ZeroMeansDone == Spec => []SuccessMeansDone
  <1>1. IInv => SuccessMeansDone
    <2> SUFFICES ASSUME IInv, mpc = "exited", err = 0
                 PROVE  /\ did = 0 .. count - 1
                        /\ ~loop
                        /\ count > 0 => \A w \in Worker : ~work[w].error /\ ~work[w].cancelled
      BY DEF SuccessMeansDone
    <2>1. ~loop /\ progress >= count
      BY DEF IInv, MainInv
    <2>2. progress <= Cardinality(did)
      BY <2>1 DEF IInv, ProgInv
    <2>3. /\ Cardinality(did) \in Nat /\ Cardinality(did) <= count
          /\ Cardinality(did) = count => did = 0 .. count - 1
      BY DidBound DEF IInv
    <2>4. progress \in Nat /\ count \in Nat
      BY DEF IInv, TypeInv
    <2>5. did = 0 .. count - 1
      BY <2>1, <2>2, <2>3, <2>4
    <2>6. ASSUME count > 0, NEW w \in Worker
          PROVE  ~work[w].error /\ ~work[w].cancelled
      <3>1. ~work[w].cancelled
        BY DEF IInv, WorkInv, CancelAsked
      <3>2. increment > 0
        <4>1. Len(work) > 0 /\ Len(work) \in Nat /\ increment \in Nat /\ nthread \in Int
          BY NegDentAssumption DEF IInv, TypeInv, Worker, NegDentAssumption
        <4>2. count = increment * nthread
          BY <4>1 DEF IInv, CountInv
        <4>3. increment = 0 => increment * nthread = 0
          BY <4>1
        <4> QED
          BY <2>4, <2>6, <4>1, <4>2, <4>3
      <3>3. ~work[w].error
        <4>1. /\ work[w] \in WorkRecord /\ InRange(work[w]) /\ work[w].stop <= count
          BY Ranges DEF IInv, WorkInv
        <4>2. SUFFICES ASSUME work[w].error PROVE FALSE
          OBVIOUS
        <4>3. /\ work[w].cur \in work[w].start .. work[w].stop - 1
              /\ work[w].cur \in Nat /\ work[w].start \in Nat /\ work[w].stop \in Nat
          BY <3>2, <4>1, <4>2 DEF InRange, WorkRecord
        <4>4. work[w].cur \notin did
          BY <2>1, <4>3 DEF IInv, DidInv
        <4>5. work[w].cur \in 0 .. count - 1
          BY <2>4, <4>1, <4>3
        <4> QED
          BY <2>5, <4>4, <4>5
      <3> QED
        BY <3>1, <3>3
    <2> QED
      BY <2>1, <2>5, <2>6
  <1> QED
    BY <1>1, Invariance, PTL

\* A program that ends without an error or a cancellation, by SIGINT too, leaves no
\* name between two system calls.
THEOREM NoNameHalfDone == Spec => []NoHalfDoneName
  <1>1. IInv => NoHalfDoneName
    <2> SUFFICES ASSUME IInv, mpc = "exited",
                        \A w \in Worker : ~work[w].error /\ ~work[w].cancelled
                 PROVE  files = Outcome(did)
      BY DEF NoHalfDoneName
    <2>1. \A w \in Worker : work[w].pc = "ended"
      BY DEF IInv, MainInv
    <2>2. \A w \in Worker : ~Busy(work[w])
      BY <2>1 DEF Busy
    <2>3. \A n \in Name : n \in files <=> n \in Outcome(did)
      <3> HIDE DEF Busy
      <3> QED
        BY <2>2 DEF IInv, FileInv
    <2>4. files \subseteq Name /\ before \subseteq Name
      BY DEF IInv, TypeInv
    <2>5. did \subseteq Name
      BY DidBound DEF IInv
    <2>6. Outcome(did) \subseteq Name
      BY <2>4, <2>5 DEF Outcome
    <2> QED
      BY <2>3, <2>4, <2>6
  <1> QED
    BY <1>1, Invariance, PTL

=============================================================================
