--------------------------- MODULE MCAssocArrayGc ---------------------------
(* Model-checking instance of the reproducer: fan-out 3 and up to three    *)
(* levels. The root (1) has node 2 in slot 1, maybe behind a shortcut      *)
(* (12), and either nothing else or a leaf and a node (3) of two leaves;   *)
(* the slots of node 2 are empty, leaves, or nodes (4, 5, 6) of up to      *)
(* three leaves; a shortcut (11) may precede the root. As in every array   *)
(* built by insertions and deletions, a node that points to nodes has more *)
(* leaves below it than it has slots, and so has a node behind a shortcut. *)
(* Some arrays have a further shortcut below node 2.                       *)
EXTENDS AssocArrayRepro

CONSTANTS MinLeaves, MaxLeaves  \* how many leaves node 2 has below it

Leaf(x, k) == [t |-> "leaf", id |-> 10 * x + k + 20]

\* What a slot of node 2 may hold: nothing, a leaf, or a node of n leaves.
Empty == -1
OneLeaf == 0
InnerNode == 1 .. 3

Weight(c) == IF c = Empty THEN 0 ELSE IF c = OneLeaf THEN 1 ELSE c

Node(back, pslot, slots, n) ==
  [t |-> "node", back_pointer |-> back, parent_slot |-> pslot, slots |-> slots, nr |-> n]

LeafNode(x, back, pslot, n) ==
  Node(back, pslot, [k \in Slot |-> IF k < n THEN Leaf(x, k) ELSE NULL], n)

Shortcut(back, pslot, next) ==
  [t |-> "shortcut", back_pointer |-> back, parent_slot |-> pslot, next_node |-> next]

\* The array for: the slots of node 2, whether the rest of the root is full, and
\* whether there are shortcuts before the root and before node 2.
Tree(c, full, rootShortcut, shortcut) ==
  LET below == Weight(c[0]) + Weight(c[1]) + Weight(c[2])
      inner == {k \in Slot : c[k] \in InnerNode}
      node1 == Node(IF rootShortcut THEN ShortcutPtr(11) ELSE NULL, 0,
                    [k \in Slot |->
                       IF k = 1 THEN IF shortcut THEN ShortcutPtr(12) ELSE NodePtr(2)
                       ELSE IF ~full THEN NULL
                       ELSE IF k = 0 THEN Leaf(1, 0)
                       ELSE NodePtr(3)],
                    below + IF full THEN 3 ELSE 0)
      node2 == Node(IF shortcut THEN ShortcutPtr(12) ELSE NodePtr(1),
                    IF shortcut THEN 0 ELSE 1,
                    [k \in Slot |->
                       IF c[k] = Empty THEN NULL
                       ELSE IF c[k] = OneLeaf THEN Leaf(2, k)
                       ELSE NodePtr(4 + k)],
                    below)
      ids == {1, 2} \cup (IF full THEN {3} ELSE {}) \cup {4 + k : k \in inner}
             \cup (IF rootShortcut THEN {11} ELSE {}) \cup (IF shortcut THEN {12} ELSE {})
  IN [nr |-> node1.nr,
      root |-> IF rootShortcut THEN ShortcutPtr(11) ELSE NodePtr(1),
      heap |-> [x \in ids |->
                  CASE x = 1  -> node1
                    [] x = 2  -> node2
                    [] x = 3  -> LeafNode(3, NodePtr(1), 2, 2)
                    [] x = 11 -> Shortcut(NULL, 0, NodePtr(1))
                    [] x = 12 -> Shortcut(NodePtr(1), 1, NodePtr(2))
                    [] OTHER  -> LeafNode(x, NodePtr(2), x - 4, c[x - 4])]]

Contents ==
  {c \in [Slot -> {Empty, OneLeaf} \cup InnerNode] :
     /\ Weight(c[0]) + Weight(c[1]) + Weight(c[2]) \in MinLeaves .. MaxLeaves
     /\ \E k \in Slot : c[k] \in InnerNode}

\* As Tree, with a shortcut (13) in node 2, to node 7: two leaves and a node (8)
\* of two.
DeepTree(full, rootShortcut, shortcut) ==
  LET base  == Tree([k \in Slot |-> IF k = 0 THEN 1 ELSE IF k = 1 THEN OneLeaf ELSE Empty],
                    full, rootShortcut, shortcut)
      node7 == Node(ShortcutPtr(13), 0,
                    [k \in Slot |-> IF k = 1 THEN NodePtr(8) ELSE Leaf(7, k)], 4)
  IN [base EXCEPT
        !.nr = @ + 3,
        !.heap = [x \in (DOMAIN @ \ {4}) \cup {7, 8, 13} |->
                    CASE x = 1  -> [@[1] EXCEPT !.nr = @ + 3]
                      [] x = 2  -> [@[2] EXCEPT !.nr = @ + 3, !.slots[0] = ShortcutPtr(13)]
                      [] x = 7  -> node7
                      [] x = 8  -> LeafNode(8, NodePtr(7), 1, 2)
                      [] x = 13 -> Shortcut(NodePtr(2), 0, NodePtr(7))
                      [] OTHER  -> @[x]]]

EmptyArray == [root |-> NULL, nr |-> 0, heap |-> [x \in {1} |-> Absent]]

MCTrees ==
  {EmptyArray} \cup
  {Tree(c, f, rs, s) : c \in Contents, f \in BOOLEAN, rs \in BOOLEAN, s \in BOOLEAN} \cup
  {DeepTree(f, rs, s) : f \in BOOLEAN, rs \in BOOLEAN, s \in BOOLEAN}

=============================================================================
