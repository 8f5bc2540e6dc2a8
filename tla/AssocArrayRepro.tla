--------------------------- MODULE AssocArrayRepro ---------------------------
(***************************************************************************)
(* The reproducer as a whole: assoc_array_constructor.py turns an array of *)
(* a vmcore into C statements (construct_array.c), make_array of repro.c   *)
(* and repro_fixed.c runs them, and main prints the array, collects it and *)
(* prints it again.  Arrays with shortcuts, which the script refuses, are  *)
(* collected directly, as the kernel would.                                *)
(***************************************************************************)
EXTENDS AssocArrayGc, Sequences

LOCAL INSTANCE SequencesExt

VARIABLES
  dumped,  \* the array in the vmcore, NULL when the function is called directly
  stmts,   \* the statements that are still to be run
  here     \* the variable node of make_array

reproVars == <<dumped, stmts, here>>
gcVars == <<new, new_root, walkVars, foldVars, nr_leaves_on_tree, result, kept, dropped>>
allVars == <<vars, reproVars>>

\* calloc'ed: no pointer is set.
EmptyNode ==
  [t |-> "node", back_pointer |-> NULL, parent_slot |-> 0, slots |-> [k \in Slot |-> NULL],
   nr |-> 0]

\* The script has assertions on both.
Constructible(a) ==
  a.root.t = "node" /\ \A x \in DOMAIN a.heap : a.heap[x].t # "shortcut"

ReproInit ==
  /\ InitLocals
  /\ stmts = <<>>
  /\ here = 0
  /\ \/ /\ prog = "repro_fixed.c"
        /\ array \in {a \in Trees : ~Constructible(a)}
        /\ dumped = NULL
        /\ pc = "start"
     \/ /\ prog \in {"repro.c", "repro_fixed.c"}
        /\ dumped \in Trees
        /\ array = [root |-> NULL, nr |-> 0, heap |-> <<>>]
        /\ pc = "constructor"

-----------------------------------------------------------------------------
(* assoc_array_constructor.py.                                             *)

\* Mutant: the way back to the parent is left out.
Subtree_NoReturn(k, inner) ==
  <<[op |-> "set_node", k |-> k], [op |-> "get_node", k |-> k]>> \o inner

\* A child: make it, go to it, construct it, come back.
Subtree(k, inner) ==
  <<[op |-> "set_node", k |-> k], [op |-> "get_node", k |-> k]>> \o inner
  \o <<[op |-> "get_parent"]>>

\* The statements for node x of array a.
construct_node(a, x) ==
  LET emit[y \in DOMAIN a.heap] ==
        LET slots == a.heap[y].slots
        IN <<[op |-> "set_data", parent_slot |-> a.heap[y].parent_slot, nr |-> a.heap[y].nr]>>
           \o FlattenSeq([j \in 1 .. FAN_OUT |->
                LET p == slots[j - 1]
                IN IF p.t = "node" THEN Subtree(j - 1, emit[p.id])
                   ELSE IF p # NULL THEN <<[op |-> "set_leaf", k |-> j - 1, leaf |-> p]>>
                   ELSE <<>>])
  IN emit[x]

construct_array ==
  /\ pc = "constructor"
  /\ IF Constructible(dumped)
     THEN /\ stmts' = <<[op |-> "root", nr |-> dumped.nr]>>
                      \o construct_node(dumped, dumped.root.id)
          /\ pc' = "make_array"
     ELSE UNCHANGED stmts /\ pc' = "refused"
  /\ UNCHANGED <<prog, array, gcVars, dumped, here>>

-----------------------------------------------------------------------------
(* make_array: one statement of construct_array.c after the other.         *)

\* The address calloc gives out next.
Fresh == Len(array.heap) + 1

\* The statement that is next, when it is one of these.
Statement(op) == pc = "make_array" /\ stmts # <<>> /\ Head(stmts).op = op

Ran == stmts' = Tail(stmts) /\ UNCHANGED <<prog, pc, gcVars, dumped>>

mknode ==
  /\ Statement("root")
  /\ array' = [root |-> NodePtr(Fresh), nr |-> Head(stmts).nr,
               heap |-> Append(array.heap, EmptyNode)]
  /\ here' = Fresh
  /\ Ran

set_data ==
  /\ Statement("set_data")
  /\ array' = [array EXCEPT !.heap[here].parent_slot = Head(stmts).parent_slot,
                            !.heap[here].nr = Head(stmts).nr]
  /\ Ran
  /\ UNCHANGED here

set_node ==
  /\ Statement("set_node")
  /\ array' = [array EXCEPT
                 !.heap = Append([@ EXCEPT ![here].slots[Head(stmts).k] = NodePtr(Fresh)],
                                 [EmptyNode EXCEPT !.back_pointer = NodePtr(here)])]
  /\ Ran
  /\ UNCHANGED here

set_leaf ==
  /\ Statement("set_leaf")
  /\ array' = [array EXCEPT !.heap[here].slots[Head(stmts).k] = Head(stmts).leaf]
  /\ Ran
  /\ UNCHANGED here

get_node ==
  /\ Statement("get_node")
  /\ here' = array.heap[here].slots[Head(stmts).k].id
  /\ Ran
  /\ UNCHANGED array

get_parent ==
  /\ Statement("get_parent")
  /\ here' = array.heap[here].back_pointer.id
  /\ Ran
  /\ UNCHANGED array

-----------------------------------------------------------------------------
(* main.                                                                   *)

\* assoc_array_print stops with an assertion at a shortcut.
Printable(heap, root) ==
  ~is_shortcut(root) /\
  \A x \in DOMAIN heap : heap[x].t = "node" =>
    \A k \in Slot : ~is_shortcut(heap[x].slots[k])

\* "Before GC": print what make_array returned, and call assoc_array_gc.
print_before ==
  /\ pc = "make_array"
  /\ stmts = <<>>
  /\ pc' = IF Printable(old, array.root) THEN "start" ELSE "assert"
  /\ UNCHANGED <<prog, array, gcVars, reproVars>>

\* "After GC": the result of the function is not looked at.
print_after ==
  /\ dumped # NULL
  /\ \/ pc = "done" /\ pc' = IF Printable(new, result.root) THEN "end" ELSE "assert"
     \/ pc = "ENOMEM" /\ pc' = IF Printable(old, result.root) THEN "end" ELSE "assert"
  /\ UNCHANGED <<prog, array, gcVars, reproVars>>

main ==
  \/ construct_array
  \/ mknode
  \/ set_data
  \/ set_node
  \/ set_leaf
  \/ get_node
  \/ get_parent
  \/ print_before
  \/ print_after

ReproNext == (Next /\ UNCHANGED reproVars) \/ main

ReproSpec == ReproInit /\ [][ReproNext]_allVars

\* One thread runs it and nothing in it waits.
ReproFairSpec == ReproSpec /\ WF_allVars(ReproNext)

-----------------------------------------------------------------------------
(* Properties.                                                             *)

\* Everything below node x of array a, without addresses.
Unfold(a, x) ==
  LET tree[y \in DOMAIN a.heap] ==
        [parent_slot |-> a.heap[y].parent_slot, nr |-> a.heap[y].nr,
         slots |-> [k \in Slot |-> LET p == a.heap[y].slots[k]
                                   IN IF p.t = "node" THEN tree[p.id] ELSE p]]
  IN tree[x]

\* assoc_array_constructor.py promises statements that "construct an equivalent
\* array": when they have run there are the same counts, slots and leaves in the
\* same places, and every back pointer and parent slot leads to the slot it is for.
RebuildsArray ==
  pc = "start" /\ dumped # NULL =>
    /\ array.nr = dumped.nr
    /\ Unfold(array, array.root.id) = Unfold(dumped, dumped.root.id)
    /\ old[array.root.id].back_pointer = NULL
    /\ \A x \in DOMAIN old \ {array.root.id} :
         old[old[x].back_pointer.id].slots[old[x].parent_slot] = NodePtr(x)

\* No assertion but the one on folded nodes can fail: shortcuts are gone before
\* their node is folded, a fold finds room, the climb has a parent, and collecting
\* brings no shortcut into an array that had none, so that main can print it.
OtherAssertionsHold == ~BugShortcut /\ ~BugFull /\ ~BugCursor /\ pc # "assert"

\* Every run ends; each retry of the compression gets somewhere.
Terminates ==
  <>(pc \in {"end", "refused", "BUG"} \/ (dumped = NULL /\ pc \in {"done", "ENOMEM"}))

=============================================================================
