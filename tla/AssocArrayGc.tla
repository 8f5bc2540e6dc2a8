---------------------------- MODULE AssocArrayGc ----------------------------
(***************************************************************************)
(* assoc_array_gc, as in the kernel (assoc_array_gc/repro.c) and as        *)
(* patched (repro_fixed.c): walk an associative array depth first, copy it *)
(* without the leaves the iterator gives up, and on the way back up fold   *)
(* children into their parents and drop shortcuts that lost their purpose. *)
(*                                                                         *)
(* A pointer is [t |-> type, id |-> which]; the copy of an object keeps    *)
(* the object's id, in another heap.  Keys are left out: collecting looks  *)
(* at none.                                                                *)
(***************************************************************************)
EXTENDS Integers, FiniteSets

CONSTANTS
  FAN_OUT,   \* ASSOC_ARRAY_FAN_OUT
  Trees      \* the arrays of this instance: [root, nr, heap]

Slot == 0 .. FAN_OUT - 1

NULL == [t |-> "null", id |-> 0]
NodePtr(x) == [t |-> "node", id |-> x]
ShortcutPtr(x) == [t |-> "shortcut", id |-> x]
OldPtr(x) == [t |-> "old", id |-> x]

\* The tag tests; a null pointer counts as a leaf, as its low bits are clear.
is_meta(p) == p.t \in {"node", "shortcut"}
is_shortcut(p) == p.t = "shortcut"

\* Pointers to objects of heap h, and its objects.
Meta(h) == [t : {"node", "shortcut"}, id : DOMAIN h]

Nodes(h) ==
  [t : {"node"}, back_pointer : {NULL} \cup Meta(h), parent_slot : Slot,
   slots : [Slot -> {NULL} \cup [t : {"leaf"}, id : Nat] \cup Meta(h)], nr : Nat]

Shortcuts(h) ==
  [t : {"shortcut"}, back_pointer : {NULL} \cup Meta(h), parent_slot : Slot,
   next_node : [t : {"node"}, id : DOMAIN h]]

\* Pointer p, from the field that back and pslot describe, leads to an object of its
\* kind that knows its place.
Leads(h, p, back, pslot) ==
  /\ p \in Meta(h)
  /\ h[p.id].t = p.t /\ h[p.id].back_pointer = back
  /\ back.t = "node" => h[p.id].parent_slot = pslot

\* An array: every object but the root is where its back pointer says, none is below
\* itself, and a leaf is in one place.
IsArray(a) ==
  LET h == a.heap
      Places == {x \in DOMAIN h : h[x].t = "node"} \X Slot
  IN /\ IsFiniteSet(DOMAIN h) /\ DOMAIN h \subseteq Nat
     /\ \A x \in DOMAIN h : h[x] \in Nodes(h) \cup Shortcuts(h)
     /\ Leads(h, a.root, NULL, 0)
     /\ \A q \in Places : is_meta(h[q[1]].slots[q[2]]) =>
          Leads(h, h[q[1]].slots[q[2]], NodePtr(q[1]), q[2])
     /\ \A x \in DOMAIN h : h[x].t = "shortcut" =>
          Leads(h, h[x].next_node, ShortcutPtr(x), 0)
     /\ \A x \in DOMAIN h \ {a.root.id} :
          LET back == h[x].back_pointer
          IN /\ back # NULL /\ h[back.id].t = back.t
             /\ [t |-> h[x].t, id |-> x] =
                  IF is_shortcut(back) THEN h[back.id].next_node
                  ELSE h[back.id].slots[h[x].parent_slot]
     /\ \A S \in SUBSET DOMAIN h : S # {} =>
          \E x \in S : h[x].back_pointer = NULL \/ h[x].back_pointer.id \notin S
     /\ \A q, r \in Places :
          h[q[1]].slots[q[2]] = h[r[1]].slots[r[2]] /\ h[q[1]].slots[q[2]].t = "leaf" => q = r

ASSUME GcAssumption ==
  /\ FAN_OUT \in Nat \ {0}
  /\ \A a \in Trees : {"root", "nr", "heap"} \subseteq DOMAIN a /\ (a.root # NULL => IsArray(a))

\* Not, or no longer, allocated.
Absent == [t |-> "absent"]
Freed == [t |-> "freed"]

VARIABLES
  prog,                \* which of the two programs it is
  array,               \* the old tree
  new,                 \* heap of the new tree: id -> object, Absent or Freed
  new_root, new_parent,
  dest,                \* *new_ptr_pp: whose field the next copy goes into
  cursor, node,        \* position in the old tree
  new_n,               \* position in the new tree
  slot, next_slot, i,
  nr_free, retained,
  nr_leaves_on_tree,
  pc,
  result,              \* what array->root and array->nr_leaves_on_tree become
  kept, dropped        \* history: the iterator's answers

treeVars == <<prog, array, new, new_root>>
walkVars == <<new_parent, dest, cursor, node, new_n>>
foldVars == <<slot, next_slot, i, nr_free, retained>>
vars == <<treeVars, walkVars, foldVars, nr_leaves_on_tree, pc, result, kept, dropped>>

\* The locals before anything is assigned to them.
InitLocals ==
  /\ new = <<>>
  /\ new_root = NULL /\ new_parent = NULL
  /\ dest = [t |-> "root"]
  /\ cursor = NULL
  /\ node = 0 /\ new_n = 0
  /\ slot = 0 /\ next_slot = 0 /\ i = 0
  /\ nr_free = 0 /\ retained = FALSE
  /\ nr_leaves_on_tree = 0
  /\ result = NULL
  /\ kept = {} /\ dropped = {}

\* One of the two functions is called with an array.
Init ==
  /\ prog \in {"repro.c", "repro_fixed.c"}
  /\ array \in Trees
  /\ pc = "start"
  /\ InitLocals

old == array.heap

\* Mutant: nothing is freed.
kfree_Leak(h, x) == h

\* Heap h without object x.
kfree(h, x) == [h EXCEPT ![x] = Freed]

\* The new heap h after *new_ptr_pp = p.
Store(h, p) ==
  IF dest.t = "shortcut" THEN [h EXCEPT ![dest.id].next_node = p]
  ELSE IF dest.t = "node" THEN [h EXCEPT ![dest.id].slots[dest.slot] = p]
  ELSE h

StoreRoot(p) == new_root' = IF dest.t = "root" THEN p ELSE new_root

-----------------------------------------------------------------------------
(* Down.                                                                   *)

\* Nothing to do for an empty array; else begin at its root.
assoc_array_gc ==
  /\ pc = "start"
  /\ pc' \in IF array.root = NULL THEN {"done"} ELSE {"descend", "ENOMEM"}
  /\ new' = [x \in DOMAIN old |-> Absent]
  /\ cursor' = array.root
  /\ result' = [root |-> array.root, nr |-> array.nr]
  /\ UNCHANGED <<prog, array, new_root, new_parent, dest, node, new_n, foldVars,
                 nr_leaves_on_tree, kept, dropped>>

\* The error path; assoc_array_destroy_subtree is a stub in this program.
enomem ==
  /\ pc' = "ENOMEM"
  /\ UNCHANGED <<treeVars, walkVars, foldVars, nr_leaves_on_tree, result, kept, dropped>>

\* Duplicate a shortcut, and step over it.  Until the node behind it is copied
\* the duplicate still points to the old one.
descend_shortcut ==
  /\ pc = "descend"
  /\ is_shortcut(cursor)
  /\ \/ enomem
     \/ LET s == old[cursor.id]
        IN /\ new' = [Store(new, cursor) EXCEPT ![cursor.id] = [s EXCEPT
                        !.back_pointer = new_parent, !.next_node = OldPtr(@.id)]]
           /\ StoreRoot(cursor)
           /\ new_parent' = cursor
           /\ dest' = [t |-> "shortcut", id |-> cursor.id]
           /\ cursor' = s.next_node
           /\ UNCHANGED <<prog, array, node, new_n, foldVars, nr_leaves_on_tree, pc, result, kept, dropped>>

descend_node ==
  /\ pc = "descend"
  /\ ~is_shortcut(cursor)
  /\ \/ enomem
     \/ /\ new' = [Store(new, cursor) EXCEPT ![cursor.id] =
                     [t |-> "node", back_pointer |-> new_parent,
                      parent_slot |-> old[cursor.id].parent_slot,
                      slots |-> [k \in Slot |-> NULL], nr |-> 0]]
        /\ StoreRoot(cursor)
        /\ node' = cursor.id
        /\ new_n' = cursor.id
        /\ new_parent' = cursor
        /\ slot' = 0
        /\ pc' = "continue_node"
        /\ UNCHANGED <<prog, array, dest, cursor, next_slot, i, nr_free, retained,
                       nr_leaves_on_tree, result, kept, dropped>>

\* One slot: an empty one, a leaf the iterator keeps or not, or a subtree.
continue_node ==
  /\ pc = "continue_node"
  /\ slot < FAN_OUT
  /\ LET ptr == old[node].slots[slot]
     IN \/ /\ ptr = NULL
           /\ slot' = slot + 1
           /\ UNCHANGED <<new, kept, dropped, dest, cursor, pc>>
        \/ /\ ptr # NULL /\ ~is_meta(ptr)
           /\ \/ /\ new' = [new EXCEPT ![new_n].slots[slot] = ptr]
                 /\ kept' = kept \cup {ptr}
                 /\ UNCHANGED dropped
              \/ /\ dropped' = dropped \cup {ptr}
                 /\ UNCHANGED <<new, kept>>
           /\ slot' = slot + 1
           /\ UNCHANGED <<dest, cursor, pc>>
        \/ /\ is_meta(ptr)
           /\ dest' = [t |-> "node", id |-> new_n, slot |-> slot]
           /\ cursor' = ptr
           /\ pc' = "descend"
           /\ UNCHANGED <<new, kept, dropped, slot>>
  /\ UNCHANGED <<prog, array, new_root, new_parent, node, new_n, next_slot, i, nr_free,
                 retained, nr_leaves_on_tree, result>>

-----------------------------------------------------------------------------
(* Compress: count, then fold in what fits.                                *)

compress ==
  /\ \/ pc = "continue_node" /\ slot = FAN_OUT
     \/ pc = "retry_compress"
  /\ new' = [new EXCEPT ![new_n].nr =
               Cardinality({k \in Slot : new[new_n].slots[k].t = "leaf"})]
  /\ nr_free' = Cardinality({k \in Slot : new[new_n].slots[k] = NULL})
  /\ slot' = 0
  /\ next_slot' = 0
  /\ retained' = FALSE
  /\ pc' = "compress"
  /\ UNCHANGED <<prog, array, new_root, walkVars, i, nr_leaves_on_tree, result, kept, dropped>>

\* The child node behind slot k of the present node, past any shortcut.
ChildAt(k) ==
  LET ptr == new[new_n].slots[k]
  IN IF is_shortcut(ptr) THEN new[ptr.id].next_node.id ELSE ptr.id

\* Mutant: one slot too many is counted on.
Fits_Loose(child) == new[child].nr <= nr_free + 2

Fits(child) == new[child].nr <= nr_free + 1

compress_skip ==
  /\ pc = "compress"
  /\ slot < FAN_OUT
  /\ ~is_meta(new[new_n].slots[slot])
  /\ slot' = slot + 1
  /\ UNCHANGED <<treeVars, walkVars, next_slot, i, nr_free, retained,
                 nr_leaves_on_tree, pc, result, kept, dropped>>

compress_retain ==
  /\ pc = "compress"
  /\ slot < FAN_OUT
  /\ is_meta(new[new_n].slots[slot])
  /\ ~Fits(ChildAt(slot))
  /\ new' = [new EXCEPT ![new_n].nr = @ + new[ChildAt(slot)].nr]
  /\ retained' = TRUE
  /\ slot' = slot + 1
  /\ UNCHANGED <<prog, array, new_root, walkVars, next_slot, i, nr_free,
                 nr_leaves_on_tree, pc, result, kept, dropped>>

\* Empty the slot and start moving the child's pointers.
compress_fold ==
  /\ pc = "compress"
  /\ slot < FAN_OUT
  /\ is_meta(new[new_n].slots[slot])
  /\ Fits(ChildAt(slot))
  /\ ~is_shortcut(new[new_n].slots[slot])
  /\ new' = [new EXCEPT ![new_n].nr = @ + new[ChildAt(slot)].nr,
                        ![new_n].slots[slot] = NULL]
  /\ cursor' = NodePtr(ChildAt(slot))
  /\ nr_free' = nr_free + 1
  /\ next_slot' = IF slot < next_slot THEN slot ELSE next_slot
  /\ i' = 0
  /\ pc' = "fold"
  /\ UNCHANGED <<prog, array, new_root, new_parent, dest, node, new_n, slot, retained,
                 nr_leaves_on_tree, result, kept, dropped>>

\* The first free slot of the present node from s on; FAN_OUT when there is none.
FreeFrom(s) ==
  CHOOSE k \in s .. FAN_OUT :
    /\ k < FAN_OUT => new[new_n].slots[k] = NULL
    /\ \A j \in s .. k - 1 : new[new_n].slots[j] # NULL

\* The child's pointer i goes into the next free slot.
fold ==
  /\ pc = "fold"
  /\ i < FAN_OUT
  /\ LET p == new[cursor.id].slots[i]
         f == FreeFrom(next_slot)
     IN \/ /\ p = NULL
           /\ UNCHANGED <<new, next_slot, nr_free>>
        \/ /\ p.t = "leaf"
           /\ f < FAN_OUT
           /\ new' = [new EXCEPT ![new_n].slots[f] = p]
           /\ next_slot' = f + 1
           /\ nr_free' = nr_free - 1
  /\ i' = i + 1
  /\ UNCHANGED <<prog, array, new_root, walkVars, slot, retained, nr_leaves_on_tree, pc, result, kept, dropped>>

\* kfree(child), next slot.
fold_end ==
  /\ pc = "fold"
  /\ i = FAN_OUT
  /\ new' = kfree(new, cursor.id)
  /\ slot' = slot + 1
  /\ pc' = "compress"
  /\ UNCHANGED <<prog, array, new_root, walkVars, next_slot, i, nr_free, retained,
                 nr_leaves_on_tree, result, kept, dropped>>

\* Mutant: also the patched program never retries.
RoomForAll_Never == FALSE

\* Mutant: retry whenever a node was retained.
RoomForAll_Always == TRUE

\* The patch: one more round while internal nodes remain in spite of room.
RoomForAll == prog = "repro_fixed.c" /\ new[new_n].nr < FAN_OUT

retry ==
  /\ pc = "compress"
  /\ slot = FAN_OUT
  /\ retained /\ RoomForAll
  /\ pc' = "retry_compress"
  /\ UNCHANGED <<treeVars, walkVars, foldVars, nr_leaves_on_tree, result, kept, dropped>>

-----------------------------------------------------------------------------
(* Up.                                                                     *)

Compressed == pc = "compress" /\ slot = FAN_OUT /\ ~(retained /\ RoomForAll)

\* The only pointer left in the present node, when it is a shortcut's.
Only == CHOOSE p \in {new[new_n].slots[k] : k \in Slot} : p # NULL

SingleShortcut == nr_free = FAN_OUT - 1 /\ is_shortcut(Only)

\* The node holds one shortcut only: drop the node, and a shortcut before it.
excise_node ==
  /\ Compressed
  /\ SingleShortcut
  /\ nr_leaves_on_tree' = new[new_n].nr
  /\ LET up     == new[new_n].back_pointer
         pre    == is_shortcut(up)
         parent == IF pre THEN new[up.id].back_pointer ELSE up
         pslot  == IF pre THEN new[up.id].parent_slot ELSE new[new_n].parent_slot
         h      == [kfree(new, new_n) EXCEPT
                      ![Only.id].back_pointer = parent,
                      ![Only.id].parent_slot = IF parent = NULL THEN 0 ELSE pslot]
         h2     == IF pre THEN kfree(h, up.id) ELSE h
     IN /\ new_parent' = parent
        /\ slot' = pslot
        /\ IF parent = NULL
           THEN /\ new' = h2
                /\ new_root' = Only
                /\ pc' = "gc_complete"
                /\ UNCHANGED new_n
           ELSE /\ new' = [h2 EXCEPT ![parent.id].slots[pslot] = Only]
                /\ new_n' = parent.id
                /\ pc' = "ascend"
                /\ UNCHANGED new_root
  /\ UNCHANGED <<prog, array, dest, cursor, node, next_slot, i, nr_free, retained, result, kept, dropped>>

\* Mutant: the node being filled stays the child.
NodeAbove_Stay(ptr) == new_n

\* The node new_n becomes when the walk goes up to ptr.
NodeAbove(ptr) == ptr.id

\* Mutant: the node keeps the slot it has in the shortcut.
Reparented_OldSlot(s) ==
  [kfree(new, s) EXCEPT ![new_n].back_pointer = new[s].back_pointer]

\* The present node takes the place of the shortcut s before it.
Reparented(s) ==
  [kfree(new, s) EXCEPT ![new_n].back_pointer = new[s].back_pointer,
                        ![new_n].parent_slot = new[s].parent_slot]

\* Otherwise drop a shortcut before a node that could hold all its leaves.
excise_shortcut ==
  /\ Compressed
  /\ ~SingleShortcut
  /\ nr_leaves_on_tree' = new[new_n].nr
  /\ is_shortcut(new[new_n].back_pointer)
  /\ LET s      == new[new_n].back_pointer.id
         parent == new[s].back_pointer
         pslot  == new[s].parent_slot
         drop   == new[new_n].nr <= FAN_OUT
         h      == IF drop THEN Reparented(s) ELSE new
     IN /\ new_parent' = parent
        /\ slot' = pslot
        /\ new' = IF drop /\ parent # NULL
                  THEN [h EXCEPT ![parent.id].slots[pslot] = NodePtr(new_n)] ELSE h
        /\ new_root' = IF drop /\ parent = NULL THEN NodePtr(new_n) ELSE new_root
        /\ pc' = IF drop /\ parent = NULL THEN "gc_complete" ELSE "ascend"
        /\ new_n' = NodeAbove(parent)
  /\ UNCHANGED <<prog, array, dest, cursor, node, next_slot, i, nr_free, retained, result, kept, dropped>>

\* Or there is no shortcut before it: the root is done, another node has a parent.
leave_node ==
  /\ Compressed
  /\ ~SingleShortcut
  /\ nr_leaves_on_tree' = new[new_n].nr
  /\ ~is_shortcut(new[new_n].back_pointer)
  /\ LET ptr == new[new_n].back_pointer
     IN IF ptr = NULL
        THEN pc' = "gc_complete" /\ UNCHANGED <<new_parent, new_n>>
        ELSE pc' = "ascend" /\ new_parent' = ptr /\ new_n' = NodeAbove(ptr)
  /\ UNCHANGED <<treeVars, dest, cursor, node, foldVars, result, kept, dropped>>

\* Where climbing the old tree from node leads: over a shortcut, if there is one.
Upper ==
  LET up == old[node].back_pointer
  IN IF is_shortcut(up)
     THEN [cursor |-> old[up.id].back_pointer, slot |-> old[up.id].parent_slot,
           shortcut |-> TRUE]
     ELSE [cursor |-> up, slot |-> old[node].parent_slot, shortcut |-> FALSE]

\* Mutant: the slot is advanced twice.
SlotAfter_Twice(s) == s + 2

\* slot++ before the loop goes on.
SlotAfter(s) == s + 1

\* Climb to the slot after the one done; above a root shortcut is nothing.
ascend_old_tree ==
  /\ pc = "ascend"
  /\ cursor' = Upper.cursor
  /\ \/ /\ Upper.cursor # NULL
        /\ node' = Upper.cursor.id
        /\ slot' = SlotAfter(Upper.slot)
        /\ pc' = "continue_node"
     \/ /\ Upper.cursor = NULL
        /\ Upper.shortcut
        /\ slot' = Upper.slot
        /\ pc' = "gc_complete"
        /\ UNCHANGED node
  /\ UNCHANGED <<treeVars, new_parent, dest, new_n, next_slot, i, nr_free, retained,
                 nr_leaves_on_tree, result, kept, dropped>>

\* assoc_array_apply_edit, and the count.
gc_complete ==
  /\ pc = "gc_complete"
  /\ result' = [root |-> new_root, nr |-> nr_leaves_on_tree]
  /\ pc' = "done"
  /\ UNCHANGED <<treeVars, walkVars, foldVars, nr_leaves_on_tree, kept, dropped>>

-----------------------------------------------------------------------------
(* The four BUG_ONs.                                                       *)

BugShortcut ==
  /\ pc = "compress" /\ slot < FAN_OUT
  /\ is_shortcut(new[new_n].slots[slot])
  /\ Fits(ChildAt(slot))

BugMeta == pc = "fold" /\ i < FAN_OUT /\ is_meta(new[cursor.id].slots[i])

BugFull ==
  /\ pc = "fold" /\ i < FAN_OUT
  /\ new[cursor.id].slots[i].t = "leaf"
  /\ FreeFrom(next_slot) = FAN_OUT

BugCursor == pc = "ascend" /\ Upper.cursor = NULL /\ ~Upper.shortcut

BUG_ON ==
  /\ BugShortcut \/ BugMeta \/ BugFull \/ BugCursor
  /\ pc' = "BUG"
  /\ UNCHANGED <<treeVars, walkVars, foldVars, nr_leaves_on_tree, result, kept, dropped>>

-----------------------------------------------------------------------------

Next ==
  \/ assoc_array_gc
  \/ descend_shortcut
  \/ descend_node
  \/ continue_node
  \/ compress
  \/ compress_skip
  \/ compress_retain
  \/ compress_fold
  \/ fold
  \/ fold_end
  \/ retry
  \/ excise_node
  \/ excise_shortcut
  \/ leave_node
  \/ ascend_old_tree
  \/ gc_complete
  \/ BUG_ON

Spec == Init /\ [][Next]_vars

\* One thread runs the collection and nothing in it waits.
FairSpec == Spec /\ WF_vars(Next)

-----------------------------------------------------------------------------
(* Properties.                                                             *)

\* Objects one pointer away from object x of the new tree.
Below(x) ==
  IF new[x].t = "shortcut" THEN {new[x].next_node.id}
  ELSE {new[x].slots[k].id : k \in {m \in Slot : is_meta(new[x].slots[m])}}

\* Everything reachable from x in at most n steps.
From(x) ==
  LET reach[n \in 0 .. Cardinality(DOMAIN new)] ==
        IF n = 0 THEN {x}
        ELSE reach[n - 1] \cup UNION {Below(y) : y \in {z \in reach[n - 1] :
                                        new[z].t \in {"node", "shortcut"}}}
  IN reach[Cardinality(DOMAIN new)]

Allocated(x) == new[x].t \in {"node", "shortcut"}

\* assoc_array_gc returned 0 after collecting something.
Collected == pc = "done" /\ array.root # NULL

\* The places below x that hold a leaf.
LeafPlaces(x) ==
  {q \in From(x) \X Slot : new[q[1]].t = "node" /\ new[q[1]].slots[q[2]].t = "leaf"}

OldLeaves ==
  UNION {{p \in {old[x].slots[k] : k \in Slot} : p.t = "leaf"} :
           x \in {y \in DOMAIN old : old[y].t = "node"}}

\* The array that replaces the old one holds each leaf the iterator kept exactly
\* once and no other, whatever was folded and excised on the way, and no leaf
\* disappears without the iterator having given it up.
KeptExactlyOnce ==
  Collected =>
    LET places == LeafPlaces(result.root.id)
    IN /\ {new[q[1]].slots[q[2]] : q \in places} = kept
       /\ Cardinality(places) = Cardinality(kept)
       /\ OldLeaves \ kept = dropped
       /\ result.nr = Cardinality(kept)

\* Everything reachable in the finished array is allocated, and everything
\* allocated is reachable: nothing dangles and nothing leaks.
NothingLostNothingDangling ==
  Collected =>
    From(result.root.id) = {x \in DOMAIN new : Allocated(x)}

\* Every finished object knows its place: back pointers and parent slots lead to
\* the very slot that points to it, after any excision in between, and the count
\* of every node is the number of leaves below it.
LinksAndCounts ==
  Collected =>
    \A x \in From(result.root.id) :
      LET back == new[x].back_pointer
      IN /\ IF x = result.root.id THEN back = NULL
            ELSE IF is_shortcut(back) THEN new[back.id].next_node.id = x
            ELSE new[back.id].slots[new[x].parent_slot] = [t |-> new[x].t, id |-> x]
         /\ new[x].t = "node" => new[x].nr = Cardinality(LeafPlaces(x))

\* The walks of the two trees stay in step: when the next slot is looked at, the
\* node being filled is the copy of the node being read, and is not freed.
WalksInStep ==
  pc = "continue_node" => new_n = node /\ new[new_n].t = "node"

\* What the patch is for: in the patched program a finished node that has room to
\* spare for all leaves below it holds only leaves, and no shortcut leads to it.
Compact ==
  Collected /\ prog = "repro_fixed.c" =>
    \A x \in From(result.root.id) :
      new[x].t = "node" /\ new[x].nr < FAN_OUT =>
        Below(x) = {} /\ ~is_shortcut(new[x].back_pointer)

\* repro_fixed.c:341 asserts "BUG_ON(assoc_array_ptr_is_meta(p))", the assertion
\* the patch is for; README.md:54 calls the patched run "successful this time!".
NoMetaFolded == prog = "repro_fixed.c" => ~BugMeta

=============================================================================
