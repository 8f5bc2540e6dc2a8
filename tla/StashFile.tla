------------------------------- MODULE StashFile -------------------------------
(***************************************************************************)
(* What crashstash promises its users: one byte string, held by at most    *)
(* one task at a time.  Whoever holds it to write appends to it; whoever   *)
(* holds it to read is delivered its bytes in order, and nothing changes   *)
(* it meanwhile; it can be emptied only while nobody holds it.  A write    *)
(* that faults may damage what reads deliver until the next emptying.      *)
(***************************************************************************)
EXTENDS Integers, Sequences

CONSTANTS Task, NoTask

VARIABLES
  holder,   \* the task that has the file open, or NoTask
  access,   \* what the holder may do: "read", "write" or "nothing"
  pos,      \* how far the holder, a reader, has read
  content,  \* the bytes
  damaged,  \* a write has faulted since content was last emptied
  got       \* what the holder's last read delivered

vars == <<holder, access, pos, content, damaged, got>>

Init ==
  /\ holder = NoTask
  /\ access = "nothing"
  /\ pos = 0
  /\ content = << >>
  /\ damaged = FALSE
  /\ got = << >>

Acquire(t) ==
  /\ holder = NoTask
  /\ holder' = t
  /\ access' \in {"read", "write", "nothing"}
  /\ pos' = 0
  /\ got' = << >>
  /\ UNCHANGED <<content, damaged>>

Release ==
  /\ holder # NoTask
  /\ holder' = NoTask
  /\ access' = "nothing"
  /\ pos' = 0
  /\ got' = << >>
  /\ UNCHANGED <<content, damaged>>

Empty ==
  /\ holder = NoTask
  /\ content' = << >>
  /\ damaged' = FALSE
  /\ UNCHANGED <<holder, access, pos, got>>

Extends(s, t) == Len(s) <= Len(t) /\ SubSeq(t, 1, Len(s)) = s

Write ==
  /\ access = "write"
  /\ \/ Extends(content, content') /\ UNCHANGED damaged
     \/ damaged' = TRUE /\ UNCHANGED content
  /\ UNCHANGED <<holder, access, pos, got>>

\* The next n bytes; nothing, when the buffer faults.
Read(n) ==
  /\ access = "read"
  /\ \/ /\ got' = SubSeq(content, pos + 1, pos + n)
        /\ pos' = pos + n
     \/ damaged /\ Len(got') = n /\ pos' = pos + n
     \/ got' = << >> /\ pos' = pos
  /\ UNCHANGED <<holder, access, content, damaged>>

Next ==
  \/ \E t \in Task : Acquire(t)
  \/ Release
  \/ Empty
  \/ Write
  \/ \E n \in 0 .. Len(content) - pos : Read(n)

Spec == Init /\ [][Next]_vars

=============================================================================
