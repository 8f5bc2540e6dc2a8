---------------------------- MODULE NegDentCreate ----------------------------
(***************************************************************************)
(* negdentcreate (negdentcreate/negdentcreate.c): main divides numbered    *)
(* file names among worker threads, each of which applies one file system  *)
(* operation to every name of its range, once or in an endless loop; main  *)
(* polls their progress without locks, and ends when the work is done, a   *)
(* worker failed, or SIGINT arrived.                                       *)
(*                                                                         *)
(* A step is one system call or one access to data the threads share (what *)
(* main_poll reads of one work is one step, see there).                    *)
(* Cancellation is deferred: in glibc openat and close act on it, fstatat  *)
(* and unlinkat do not.                                                    *)
(***************************************************************************)
EXTENDS Integers, Sequences, FiniteSets

CONSTANTS
  Ops,        \* the -o operations of this instance
  Loops,      \* the -l settings of this instance
  Threads,    \* the -t settings of this instance, as atoi reads them
  Counts,     \* the -c settings of this instance
  ULONG,      \* the modulus of an unsigned long
  Failures    \* calls that may fail for reasons of their own:
              \* "pthread_create", "open" (of the directory), "op"

ASSUME NegDentAssumption ==
  /\ Ops \subseteq {"stat", "open", "create", "unlink", "create_close_unlink",
                    "create_unlink_close"}
  /\ Loops \subseteq BOOLEAN
  /\ Threads \subseteq Int /\ \A t \in Threads : -ULONG < t /\ t < ULONG
  /\ Counts \subseteq Nat
  /\ ULONG \in Nat /\ \A c \in Counts : c < ULONG
  /\ Failures \subseteq {"pthread_create", "open", "op"}

VARIABLES
  op, loop, nthread,  \* the options
  asked,              \* history: -c as given
  count, increment,   \* names in all, and for each thread, once divided
  files,              \* the names that exist in the directory
  before,             \* history: files when the program started
  did,                \* history: names whose operation has succeeded
  work,               \* the list of struct work, in the order of creation
  exiting,            \* the flag the SIGINT handler sets
  sigint,             \* "blocked", "ready", or a signal "pending" in either
  mpc,                \* where main is
  i,                  \* how many works main's present pass has dealt with
  progress, err       \* main's locals

options == <<op, loop, nthread, asked, count, increment, before>>
shared == <<files, did, work>>
vars == <<options, shared, exiting, sigint, mpc, i, progress, err>>

Name == UNION {0 .. c - 1 : c \in Counts}

\* The system calls of each operation, in order.
Calls(o) ==
  CASE o = "stat"                -> <<"fstatat">>
    [] o = "open"                -> <<"openat", "close">>
    [] o = "create"              -> <<"creat", "close">>
    [] o = "unlink"              -> <<"unlinkat">>
    [] o = "create_close_unlink" -> <<"creat", "close", "unlinkat">>
    [] o = "create_unlink_close" -> <<"creat", "unlinkat", "close">>

CancellationPoint == {"openat", "creat", "close"}

\* Mutant: the range of a worker reaches one name into the next.
Stop_Overlap(start) == start + increment + 1

Stop(start) == start + increment

Work(start) ==
  [start |-> start, stop |-> Stop(start), cur |-> start, cnt |-> 0, error |-> FALSE,
   pc |-> "open", call |-> 1, cancelled |-> FALSE]

Init ==
  /\ op \in Ops
  /\ loop \in Loops
  /\ nthread \in Threads
  /\ asked \in Counts
  /\ count = asked
  /\ increment = 0
  /\ files \in {{}, Name}
  /\ before = files
  /\ did = {}
  /\ work = << >>
  /\ exiting = FALSE
  /\ sigint = "blocked"
  /\ mpc = "divide"
  /\ i = 0
  /\ progress = 0
  /\ err = 0

-----------------------------------------------------------------------------
(* stat_worker, and the do_... operation it calls.                         *)

Worker == 1 .. Len(work)

\* When the process is gone its threads are too.
Alive == mpc \notin {"exited", "crashed"}

LiveWorker == {w \in Worker : Alive}

\* Change some fields of worker w, and nothing that main owns.
Becomes(w, r) ==
  /\ work' = [work EXCEPT ![w] = r]
  /\ UNCHANGED <<options, exiting, sigint, mpc, i, progress, err>>

\* A thread whose cancellation was asked for ends at a cancellation point.
worker_cancelled(w) ==
  /\ work[w].cancelled
  /\ \/ work[w].pc \in {"open", "close", "fail"}
     \/ work[w].pc = "op" /\ Calls(op)[work[w].call] \in CancellationPoint
  /\ Becomes(w, [work[w] EXCEPT !.pc = "ended"])
  /\ UNCHANGED <<files, did>>

\* open the directory and enter the loop, or leave with an error.
worker_open(w) ==
  /\ work[w].pc = "open"
  /\ ~work[w].cancelled
  /\ \/ Becomes(w, [work[w] EXCEPT !.pc = "test", !.cur = work[w].start])
     \/ /\ "open" \in Failures
        /\ Becomes(w, [work[w] EXCEPT !.pc = "ended", !.error = TRUE])
  /\ UNCHANGED <<files, did>>

\* The for condition: next name, or out of the range or told to exit.
worker_test(w) ==
  /\ work[w].pc = "test"
  /\ Becomes(w, [work[w] EXCEPT
                   !.pc = IF work[w].cur < work[w].stop /\ ~exiting
                          THEN "op" ELSE "pass",
                   !.call = 1])
  /\ UNCHANGED <<files, did>>

\* What call c does to name n when it succeeds.
Effect(c, n) ==
  CASE c = "creat"    -> files \cup {n}
    [] c = "unlinkat" -> files \ {n}
    [] OTHER          -> files

\* openat and unlinkat need the file; fstatat does not mind (ENOENT).
CanSucceed(c, n) == c \in {"openat", "unlinkat"} => n \in files

MayFail(c, n) == "op" \in Failures \/ ~CanSucceed(c, n)

\* Mutant: exiting is looked at after every system call.
MoreCalls_Hasty(w) == work[w].call < Len(Calls(op)) /\ ~exiting

MoreCalls(w) == work[w].call < Len(Calls(op))

\* One system call of the operation on name cur; after the last one, cur++.
worker_call(w) ==
  LET n == work[w].cur
      c == Calls(op)[work[w].call]
  IN /\ work[w].pc = "op"
     /\ ~(work[w].cancelled /\ c \in CancellationPoint)
     /\ \/ /\ CanSucceed(c, n)
           /\ files' = Effect(c, n)
           /\ IF MoreCalls(w)
              THEN Becomes(w, [work[w] EXCEPT !.call = @ + 1]) /\ did' = did
              ELSE /\ Becomes(w, [work[w] EXCEPT !.pc = "test", !.cur = @ + 1])
                   /\ did' = did \cup {n}
        \/ /\ MayFail(c, n)
           /\ Becomes(w, [work[w] EXCEPT !.pc = "fail"])
           /\ UNCHANGED <<files, did>>

\* The operation failed: close(dirfd), error = 1, return.
worker_fail(w) ==
  /\ work[w].pc = "fail"
  /\ ~work[w].cancelled
  /\ Becomes(w, [work[w] EXCEPT !.pc = "ended", !.error = TRUE])
  /\ UNCHANGED <<files, did>>

\* End of a pass: count it when looping, and only then start over (or leave).
worker_pass(w) ==
  /\ work[w].pc = "pass"
  /\ Becomes(w, [work[w] EXCEPT !.cnt = IF loop THEN (@ + 1) % ULONG ELSE @,
                                !.pc = "again"])
  /\ UNCHANGED <<files, did>>

\* Mutant: the while condition does not look at exiting.
Again_Deaf == loop

Again == loop /\ ~exiting

worker_again(w) ==
  /\ work[w].pc = "again"
  /\ IF Again
     THEN Becomes(w, [work[w] EXCEPT !.pc = "test", !.cur = work[w].start])
     ELSE Becomes(w, [work[w] EXCEPT !.pc = "close"])
  /\ UNCHANGED <<files, did>>

worker_close(w) ==
  /\ work[w].pc = "close"
  /\ ~work[w].cancelled
  /\ Becomes(w, [work[w] EXCEPT !.pc = "ended"])
  /\ UNCHANGED <<files, did>>

stat_worker(w) ==
  \/ worker_cancelled(w)
  \/ worker_open(w)
  \/ worker_test(w)
  \/ worker_call(w)
  \/ worker_fail(w)
  \/ worker_pass(w)
  \/ worker_again(w)
  \/ worker_close(w)

-----------------------------------------------------------------------------
(* SIGINT: blocked until all threads exist, then delivered to main.        *)

\* A signal sent after the handler has run changes nothing and is left out.
kill ==
  /\ Alive
  /\ ~exiting
  /\ \/ sigint = "blocked" /\ sigint' = "blocked_pending"
     \/ sigint = "ready" /\ sigint' = "pending"
  /\ UNCHANGED <<options, shared, exiting, mpc, i, progress, err>>

interrupt ==
  /\ Alive
  /\ sigint = "pending"
  /\ exiting' = TRUE
  /\ sigint' = "ready"
  /\ UNCHANGED <<options, shared, mpc, i, progress, err>>

-----------------------------------------------------------------------------
(* main.                                                                   *)

\* Divide the names: unsigned, so that a thread count below zero is a huge one; with
\* none the program dies of SIGFPE.
main_divide ==
  /\ mpc = "divide"
  /\ IF nthread = 0 THEN mpc' = "crashed" /\ UNCHANGED <<increment, count>>
     ELSE /\ mpc' = "create"
          /\ increment' = count \div (nthread % ULONG)
          /\ count' = (increment' * nthread) % ULONG
  /\ UNCHANGED <<op, loop, nthread, asked, before, shared, exiting, sigint, i, progress, err>>

\* One turn of the creation loop.  The result of pthread_create is ignored: a
\* thread that was not created stays in the list, with no thread to it.
main_create ==
  /\ mpc = "create"
  /\ i < nthread
  /\ LET w == Work(i * increment)
     IN \/ work' = Append(work, w)
        \/ "pthread_create" \in Failures /\ work' = Append(work, [w EXCEPT !.pc = "never"])
  /\ i' = i + 1
  /\ UNCHANGED <<options, files, did, exiting, sigint, mpc, progress, err>>

main_unblock ==
  /\ mpc = "create"
  /\ i >= nthread
  /\ sigint' = IF sigint = "blocked_pending" THEN "pending" ELSE "ready"
  /\ mpc' = "poll"
  /\ i' = 0
  /\ UNCHANGED <<options, shared, exiting, progress, err>>

\* Mutant: the name a worker is at counts as done.
Done_Inclusive(w) == IF w.cur < w.stop THEN w.cur - w.start + 1 ELSE w.cur - w.start

Done(w) == w.cur - w.start

\* Mutant: a work's error is not added up.
Errors_None(w) == 0

Errors(w) == IF w.error THEN 1 ELSE 0

\* Add up one work: cur, cnt and error are read while the worker runs.  They are
\* read one after the other in the code.  In one step here: error is never reset and
\* read last, so if it is 0 it was 0 already when cur was read, and if it is 1 main
\* fails whatever it has added up.  (In a loop the sum is only printed.)
main_poll ==
  /\ mpc = "poll"
  /\ i < Len(work)
  /\ LET w == work[i + 1]
     IN /\ progress' = (progress + Done(w) + w.cnt * (w.stop - w.start)) % ULONG
        /\ err' = err + Errors(w)
  /\ i' = i + 1
  /\ UNCHANGED <<options, shared, exiting, sigint, mpc>>

\* Mutant: the last name is not waited for.
Unfinished_Early == progress + 1 < count \/ loop

Unfinished == progress < count \/ loop

\* Print, sleep, and only then look at what was added up before the sleep.
main_sleep ==
  /\ mpc = "poll"
  /\ i = Len(work)
  /\ IF Unfinished /\ err = 0 /\ ~exiting
     THEN progress' = 0 /\ err' = 0 /\ mpc' = "poll"
     ELSE mpc' = "verdict" /\ UNCHANGED <<progress, err>>
  /\ i' = 0
  /\ UNCHANGED <<options, shared, exiting, sigint>>

\* Mutant: the threads that failed are cancelled, and the others are not.
ToCancel_Inverted(w) == w.error

ToCancel(w) == ~w.error

\* The error branch, one pthread_cancel after the other.
main_cancel ==
  /\ mpc = "verdict"
  /\ err # 0
  /\ i < Len(work)
  /\ work[i + 1].pc # "never"
  /\ work' = [work EXCEPT ![i + 1].cancelled = ToCancel(work[i + 1])]
  /\ i' = i + 1
  /\ UNCHANGED <<options, files, did, exiting, sigint, mpc, progress, err>>

\* The exit status: failure after an error or a signal.
main_verdict ==
  /\ mpc = "verdict"
  /\ err # 0 => i = Len(work)
  /\ err' = IF err # 0 \/ exiting THEN 1 ELSE 0
  /\ mpc' = "join"
  /\ i' = 0
  /\ UNCHANGED <<options, shared, exiting, sigint, progress>>

main_join ==
  /\ mpc = "join"
  /\ i < Len(work)
  /\ work[i + 1].pc = "ended"
  /\ i' = i + 1
  /\ UNCHANGED <<options, shared, exiting, sigint, mpc, progress, err>>

\* To cancel or join a thread that was never created crashes the program.
main_crash ==
  /\ mpc = "join" \/ (mpc = "verdict" /\ err # 0)
  /\ i < Len(work)
  /\ work[i + 1].pc = "never"
  /\ mpc' = "crashed"
  /\ UNCHANGED <<options, shared, exiting, sigint, i, progress, err>>

main_return ==
  /\ mpc = "join"
  /\ i = Len(work)
  /\ mpc' = "exited"
  /\ UNCHANGED <<options, shared, exiting, sigint, i, progress, err>>

main ==
  \/ main_divide
  \/ main_create
  \/ main_unblock
  \/ main_poll
  \/ main_sleep
  \/ main_cancel
  \/ main_verdict
  \/ main_join
  \/ main_crash
  \/ main_return

Next == main \/ kill \/ interrupt \/ \E w \in LiveWorker : stat_worker(w)

Spec == Init /\ [][Next]_vars

(* Threads are scheduled and their system calls return; a pending signal   *)
(* that is not blocked is delivered.  Nobody has to send one.              *)
Fairness ==
  /\ WF_vars(main)
  /\ WF_vars(interrupt)
  /\ \A w \in UNION {1 .. t : t \in Threads} :
       WF_vars(w \in LiveWorker /\ stat_worker(w))

FairSpec == Spec /\ Fairness

-----------------------------------------------------------------------------
(* Properties.                                                             *)

\* The type of every variable; progress never wraps in a run that does not loop.
TypeOK ==
  /\ op \in Ops /\ loop \in Loops /\ nthread \in Threads
  /\ asked \in Counts /\ count \in 0 .. asked /\ increment \in 0 .. count
  /\ files \subseteq Name /\ before \subseteq Name /\ did \subseteq 0 .. count - 1
  /\ work = <<>> \/ Len(work) <= nthread
  /\ \A w \in Worker :
       work[w] \in [start : 0 .. count, stop : 0 .. count, cur : work[w].start .. work[w].stop,
                    cnt : 0 .. ULONG - 1, error : BOOLEAN, call : 1 .. Len(Calls(op)),
                    pc : {"never", "open", "test", "op", "fail", "pass", "again", "close",
                          "ended"},
                    cancelled : BOOLEAN]
  /\ exiting \in BOOLEAN
  /\ sigint \in {"blocked", "blocked_pending", "ready", "pending"}
  /\ mpc \in {"divide", "create", "poll", "verdict", "join", "exited", "crashed"}
  /\ i \in 0 .. Len(work)
  /\ progress \in 0 .. IF loop THEN ULONG - 1 ELSE count
  /\ err \in 0 .. Len(work) + 1

\* Exit status 0 is never given out early: every one of the (rounded) count
\* names has had its operation, and no worker failed or was cancelled, although
\* main reads cur and error without any synchronisation.  (With no name to deal
\* with, main does not wait to hear that a directory could not be opened.)
SuccessMeansDone ==
  mpc = "exited" /\ err = 0 =>
    /\ did = 0 .. count - 1
    /\ ~loop
    /\ count > 0 => \A w \in Worker : ~work[w].error /\ ~work[w].cancelled

\* What the operation leaves of a set of names when it was applied to all of N.
Outcome(N) ==
  CASE op = "create"            -> before \cup N
    [] op \in {"stat", "open"} -> before
    [] OTHER                    -> before \ N

\* When the program ends and no worker failed or was cancelled, each name is as
\* a complete operation leaves it, or untouched: SIGINT is looked at only between
\* two operations, so create_close_unlink and create_unlink_close leave no file.
NoHalfDoneName ==
  mpc = "exited" /\ (\A w \in Worker : ~work[w].error /\ ~work[w].cancelled)
    => files = Outcome(did)

\* The progress main adds up is never more than what has been done.
ProgressHonest == ~loop => progress <= Cardinality(did)

NotCreated == \E w \in Worker : work[w].pc = "never"

\* The end of the program: a thread count of zero, and joining a thread that
\* pthread_create has not made, it does not survive.
Ended == mpc = IF nthread = 0 \/ NotCreated THEN "crashed" ELSE "exited"

\* Without -l the program ends, with any number of threads, whichever calls fail,
\* unless pthread_create failed for a thread that has names to deal with: nobody looks
\* at its result (line 309), and main waits for ever for names that nobody deals with.
Terminates == ~loop ~> Ended \/ (NotCreated /\ increment > 0)

\* Once the SIGINT handler has run the program ends, in a loop too, and also when a
\* thread is missing.
InterruptStops == exiting ~> Ended

Failed == \E w \in Worker : work[w].error

Cancellable ==
  increment > 0 /\ \E k \in 1 .. Len(Calls(op)) : Calls(op)[k] \in CancellationPoint

\* When a worker fails the program ends, provided that pthread_cancel finds
\* the other workers at a cancellation point now and then.
ErrorStops == Failed /\ Cancellable ~> Ended

\* negdentcreate.c:333 says "error detected! canceling threads": after an error
\* the threads are gone and the program ends, whatever the operation.
ErrorCancelsThreads == Failed ~> mpc = "exited"

=============================================================================
