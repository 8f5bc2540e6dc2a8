-------------------------- MODULE AssocArrayGcProofs --------------------------
(***************************************************************************)
(* Proofs about assoc_array_gc, for any array, fan-out and iterator.       *)
(***************************************************************************)
EXTENDS AssocArrayGc, Induction

-----------------------------------------------------------------------------
(* The array as it is before, from below: what an object lies below.       *)

Up(a, x) == a.heap[x].back_pointer

\* Sets that have, with an object, also what is above it.
Climbs(a, S) == \A z \in S : Up(a, z) # NULL => Up(a, z).id \in S

\* x and all that is above x.
Anc(a, x) ==
  {y \in DOMAIN a.heap : \A S \in SUBSET DOMAIN a.heap : x \in S /\ Climbs(a, S) => y \in S}

IsNode(a, x) == x \in DOMAIN a.heap /\ a.heap[x].t = "node"

HoldsLeaf(a, x, k, l) == IsNode(a, x) /\ k \in Slot /\ a.heap[x].slots[k] = l /\ l.t = "leaf"

\* Slot k of node y is to the right of the way from the root to x.
After(a, x, y, k) == \E w \in Anc(a, x) : Up(a, w) = NodePtr(y) /\ a.heap[w].parent_slot < k

\* What is behind slot k of node y, and below that.
Behind(a, y, k) ==
  {z \in DOMAIN a.heap : is_meta(a.heap[y].slots[k]) /\ a.heap[y].slots[k].id \in Anc(a, z)}

-----------------------------------------------------------------------------
(* Ancestors.                                                              *)

\* The fields of an object.
LEMMA ObjectShape ==
  ASSUME NEW a, IsArray(a), NEW x \in DOMAIN a.heap
  PROVE  /\ a.heap[x].t \in {"node", "shortcut"}
         /\ Up(a, x) \in {NULL} \cup Meta(a.heap)
         /\ Up(a, x) # NULL => Up(a, x).id \in DOMAIN a.heap
         /\ a.heap[x].parent_slot \in Slot
         /\ a.heap[x].t = "node" => a.heap[x] \in Nodes(a.heap)
         /\ a.heap[x].t = "shortcut" => a.heap[x] \in Shortcuts(a.heap)
  BY DEF IsArray, Nodes, Shortcuts, Up, Meta

LEMMA AncClimbs ==
  ASSUME NEW a, IsArray(a), NEW x \in DOMAIN a.heap
  PROVE  x \in Anc(a, x) /\ Anc(a, x) \subseteq DOMAIN a.heap /\ Climbs(a, Anc(a, x))
  <1>1. x \in Anc(a, x) /\ Anc(a, x) \subseteq DOMAIN a.heap
    BY DEF Anc
  <1>2. ASSUME NEW z \in Anc(a, x), Up(a, z) # NULL PROVE Up(a, z).id \in Anc(a, x)
    <2>1. z \in DOMAIN a.heap
      BY DEF Anc
    <2>2. Up(a, z).id \in DOMAIN a.heap
      BY <1>2, <2>1, ObjectShape
    <2> SUFFICES ASSUME NEW S \in SUBSET DOMAIN a.heap, x \in S, Climbs(a, S)
                 PROVE  Up(a, z).id \in S
      BY <2>2 DEF Anc
    <2>3. z \in S
      BY DEF Anc
    <2> QED
      BY <1>2, <2>3 DEF Climbs
  <1> QED
    BY <1>1, <1>2 DEF Climbs

\* A set that climbs has the ancestors of its elements.
LEMMA AncInto ==
  ASSUME NEW a, NEW S \in SUBSET DOMAIN a.heap, Climbs(a, S), NEW x \in S
  PROVE  Anc(a, x) \subseteq S
  BY DEF Anc

LEMMA AncTrans ==
  ASSUME NEW a, IsArray(a), NEW x \in DOMAIN a.heap, NEW y \in Anc(a, x)
  PROVE  y \in DOMAIN a.heap /\ Anc(a, y) \subseteq Anc(a, x)
  BY AncClimbs, AncInto

\* One step up.
LEMMA AncSplit ==
  ASSUME NEW a, IsArray(a), NEW x \in DOMAIN a.heap
  PROVE  /\ Up(a, x) = NULL => Anc(a, x) = {x}
         /\ Up(a, x) # NULL => /\ Up(a, x).id \in DOMAIN a.heap
                               /\ Anc(a, x) = {x} \cup Anc(a, Up(a, x).id)
  <1>1. CASE Up(a, x) = NULL
    <2>1. Climbs(a, {x}) /\ {x} \in SUBSET DOMAIN a.heap
      BY <1>1 DEF Climbs
    <2> QED
      BY <1>1, <2>1, AncInto, AncClimbs
  <1>2. CASE Up(a, x) # NULL
    <2> DEFINE u == Up(a, x).id
    <2>1. u \in DOMAIN a.heap /\ u \in Anc(a, x)
      BY <1>2, ObjectShape, AncClimbs DEF Climbs
    <2> HIDE DEF u
    <2>2. u \in Anc(a, u) /\ Anc(a, u) \subseteq DOMAIN a.heap /\ Climbs(a, Anc(a, u))
      BY <2>1, AncClimbs
    <2>3. Climbs(a, {x} \cup Anc(a, u)) /\ {x} \cup Anc(a, u) \in SUBSET DOMAIN a.heap
      BY <2>2 DEF Climbs, u
    <2>4. Anc(a, x) \subseteq {x} \cup Anc(a, u)
      BY <2>3, AncInto
    <2>5. Anc(a, u) \subseteq Anc(a, x) /\ x \in Anc(a, x)
      BY <2>1, AncTrans, AncClimbs
    <2> QED
      BY <1>2, <2>1, <2>4, <2>5 DEF u
  <1> QED
    BY <1>1, <1>2

\* Every set of objects has one with nothing of the set above it.
LEMMA Highest ==
  ASSUME NEW a, IsArray(a), NEW S \in SUBSET DOMAIN a.heap, S # {}
  PROVE  \E u \in S : \A w \in S : w \in Anc(a, u) => w = u
  <1> DEFINE T == {v \in DOMAIN a.heap : \E w \in S : w \in Anc(a, v)}
  <1>1. S \subseteq T
    BY AncClimbs
  <1>2. PICK u \in T : Up(a, u) = NULL \/ Up(a, u).id \notin T
    <2>1. T \in SUBSET DOMAIN a.heap /\ T # {}
      BY <1>1
    <2> HIDE DEF T
    <2> QED
      BY <2>1 DEF IsArray, Up
  <1>3. \A w \in S : w \in Anc(a, u) => w = u
    <2> SUFFICES ASSUME NEW w \in S, w \in Anc(a, u), w # u PROVE FALSE
      OBVIOUS
    <2>1. u \in DOMAIN a.heap /\ Up(a, u) # NULL /\ w \in Anc(a, Up(a, u).id)
          /\ Up(a, u).id \in DOMAIN a.heap
      BY AncSplit
    <2> QED
      BY <1>2, <2>1
  <1>4. u \in S
    BY <1>3
  <1> QED
    BY <1>3, <1>4

\* Nothing is above itself.
LEMMA AncOnce ==
  ASSUME NEW a, IsArray(a), NEW x \in DOMAIN a.heap, NEW y \in Anc(a, x), x \in Anc(a, y)
  PROVE  x = y
  <1> SUFFICES ASSUME x # y PROVE FALSE
    OBVIOUS
  <1> DEFINE S == {z \in Anc(a, x) : x \in Anc(a, z)}
  <1>1. x \in S /\ S \in SUBSET DOMAIN a.heap
    BY AncClimbs
  <1>2. PICK u \in S : Up(a, u) = NULL \/ Up(a, u).id \notin S
    <2> HIDE DEF S
    <2> QED
      BY <1>1 DEF IsArray, Up
  <1>3. u \in Anc(a, x) /\ x \in Anc(a, u) /\ u \in DOMAIN a.heap
    BY <1>1
  <1>4. Up(a, u) # NULL /\ x \in Anc(a, Up(a, u).id)
    <2>1. CASE u = x
      <3>1. Up(a, x) # NULL /\ y \in Anc(a, Up(a, x).id) /\ Up(a, x).id \in DOMAIN a.heap
        BY AncSplit
      <3>2. Anc(a, y) \subseteq Anc(a, Up(a, x).id)
        BY <3>1, AncTrans
      <3> QED
        BY <2>1, <3>1, <3>2
    <2>2. CASE u # x
      BY <1>3, <2>2, AncSplit
    <2> QED
      BY <2>1, <2>2
  <1>5. Up(a, u).id \in Anc(a, x)
    BY <1>3, <1>4, AncClimbs DEF Climbs
  <1> QED
    BY <1>2, <1>4, <1>5

LEMMA UpIsAbove ==
  ASSUME NEW a, IsArray(a), NEW x \in DOMAIN a.heap, Up(a, x) # NULL
  PROVE  Up(a, x).id \in Anc(a, x) /\ x \notin Anc(a, Up(a, x).id) /\ Up(a, x).id # x
  <1>1. Up(a, x).id \in DOMAIN a.heap /\ Anc(a, x) = {x} \cup Anc(a, Up(a, x).id)
    BY AncSplit
  <1>2. Up(a, x).id \in Anc(a, x)
    BY <1>1, AncClimbs
  <1>3. ASSUME x \in Anc(a, Up(a, x).id) PROVE FALSE
    <2>1. Up(a, x).id = x
      BY <1>2, <1>3, AncOnce
    <2> DEFINE S == {x}
    <2>2. S \in SUBSET DOMAIN a.heap /\ S # {}
      OBVIOUS
    <2>3. \E z \in S : Up(a, z) = NULL \/ Up(a, z).id \notin S
      <3> HIDE DEF S
      <3> QED
        BY <2>2 DEF IsArray, Up
    <2> QED
      BY <2>1, <2>3
  <1> QED
    BY <1>1, <1>2, <1>3, AncClimbs

\* What is above x is in line.
LEMMA AncChain ==
  ASSUME NEW a, IsArray(a), NEW x \in DOMAIN a.heap, NEW v \in Anc(a, x), NEW w \in Anc(a, x)
  PROVE  v \in Anc(a, w) \/ w \in Anc(a, v)
  <1> DEFINE S == {u \in Anc(a, x) : v \in Anc(a, u) \/ u \in Anc(a, v)}
  <1>1. x \in S /\ S \in SUBSET DOMAIN a.heap
    BY AncClimbs
  <1>2. ASSUME NEW u \in S, Up(a, u) # NULL PROVE Up(a, u).id \in S
    <2>1. u \in DOMAIN a.heap /\ v \in DOMAIN a.heap /\ Up(a, u).id \in Anc(a, x)
      BY <1>1, <1>2, AncClimbs DEF Climbs
    <2>2. CASE u \in Anc(a, v)
      BY <1>2, <2>1, <2>2, AncClimbs DEF Climbs
    <2>3. CASE v \in Anc(a, u) /\ u # v
      BY <1>2, <2>1, <2>3, AncSplit
    <2>4. CASE u = v
      BY <1>2, <2>1, <2>4, AncClimbs DEF Climbs
    <2> QED
      BY <2>2, <2>3, <2>4
  <1>3. Climbs(a, S)
    <2> HIDE DEF S
    <2> QED
      BY <1>2 DEF Climbs
  <1>4. Anc(a, x) \subseteq S
    <2> HIDE DEF S
    <2> QED
      BY <1>1, <1>3, AncInto
  <1> QED
    BY <1>4

\* Between an object and one above it there is a child of the latter.
LEMMA ChildBetween ==
  ASSUME NEW a, IsArray(a), NEW z \in DOMAIN a.heap, NEW x \in Anc(a, z), x # z
  PROVE  \E w \in Anc(a, z) : Up(a, w) # NULL /\ Up(a, w).id = x
  <1> DEFINE S == {u \in Anc(a, z) : x \in Anc(a, u) /\ u # x}
  <1>1. z \in S /\ S \in SUBSET DOMAIN a.heap
    BY AncClimbs
  <1>2. PICK u \in S : Up(a, u) = NULL \/ Up(a, u).id \notin S
    <2> HIDE DEF S
    <2> QED
      BY <1>1 DEF IsArray, Up
  <1>3. u \in DOMAIN a.heap /\ x \in Anc(a, u) /\ u # x /\ u \in Anc(a, z)
    BY <1>1
  <1>4. Up(a, u) # NULL /\ x \in Anc(a, Up(a, u).id)
    BY <1>3, AncSplit
  <1>5. Up(a, u).id \in Anc(a, z)
    BY <1>3, <1>4, AncClimbs DEF Climbs
  <1> QED
    BY <1>2, <1>3, <1>4, <1>5

-----------------------------------------------------------------------------
(* Pointers of the array.                                                  *)

\* The object that slot k of node x points to, and the node behind shortcut x.
LEMMA Down ==
  ASSUME NEW a, IsArray(a), NEW x \in DOMAIN a.heap, a.heap[x].t = "node",
         NEW k \in Slot, is_meta(a.heap[x].slots[k])
  PROVE  /\ a.heap[x].slots[k] \in Meta(a.heap)
         /\ a.heap[x].slots[k].id \in DOMAIN a.heap
         /\ a.heap[a.heap[x].slots[k].id].t = a.heap[x].slots[k].t
         /\ Up(a, a.heap[x].slots[k].id) = NodePtr(x)
         /\ a.heap[a.heap[x].slots[k].id].parent_slot = k
  <1> DEFINE p == a.heap[x].slots[k]
  <1>1. <<x, k>> \in {y \in DOMAIN a.heap : a.heap[y].t = "node"} \X Slot
    OBVIOUS
  <1>2. Leads(a.heap, p, NodePtr(x), k)
    BY <1>1 DEF IsArray
  <1>3. p \in Meta(a.heap) => p.id \in DOMAIN a.heap
    BY DEF Meta
  <1> QED
    BY <1>2, <1>3 DEF Leads, Up, NodePtr

LEMMA DownShortcut ==
  ASSUME NEW a, IsArray(a), NEW x \in DOMAIN a.heap, a.heap[x].t = "shortcut"
  PROVE  /\ a.heap[x].next_node = NodePtr(a.heap[x].next_node.id)
         /\ a.heap[x].next_node.t = "node"
         /\ a.heap[x].next_node.id \in DOMAIN a.heap
         /\ a.heap[a.heap[x].next_node.id].t = "node"
         /\ Up(a, a.heap[x].next_node.id) = ShortcutPtr(x)
  <1> DEFINE p == a.heap[x].next_node
  <1>1. Leads(a.heap, p, ShortcutPtr(x), 0)
    BY DEF IsArray
  <1>2. a.heap[x] \in Shortcuts(a.heap)
    BY ObjectShape
  <1>3. p \in [t : {"node"}, id : DOMAIN a.heap]
    BY <1>2 DEF Shortcuts
  <1>4. p = [t |-> "node", id |-> p.id] /\ p.t = "node" /\ p.id \in DOMAIN a.heap
    BY <1>3
  <1> QED
    BY <1>1, <1>4 DEF Leads, Up, NodePtr

LEMMA TopIsRoot ==
  ASSUME NEW a, IsArray(a), NEW x \in DOMAIN a.heap
  PROVE  /\ a.root.id \in DOMAIN a.heap /\ Up(a, a.root.id) = NULL
         /\ a.root \in Meta(a.heap) /\ a.heap[a.root.id].t = a.root.t
         /\ Up(a, x) = NULL <=> x = a.root.id
         /\ a.root.id \in Anc(a, x)
  <1>1. /\ a.root.id \in DOMAIN a.heap /\ Up(a, a.root.id) = NULL
        /\ a.root \in Meta(a.heap) /\ a.heap[a.root.id].t = a.root.t
    BY DEF IsArray, Leads, Meta, Up
  <1>2. ASSUME NEW y \in DOMAIN a.heap PROVE Up(a, y) = NULL <=> y = a.root.id
    BY <1>1 DEF IsArray, Up
  <1>3. PICK u \in Anc(a, x) : Up(a, u) = NULL \/ Up(a, u).id \notin Anc(a, x)
    <2>1. Anc(a, x) \in SUBSET DOMAIN a.heap /\ Anc(a, x) # {}
      BY AncClimbs
    <2> QED
      BY <2>1 DEF IsArray, Up
  <1>4. u \in DOMAIN a.heap /\ Up(a, u) = NULL
    BY <1>3, AncClimbs DEF Climbs
  <1> QED
    BY <1>1, <1>2, <1>4

\* The object that x's back pointer leads to points back.
LEMMA UpPoints ==
  ASSUME NEW a, IsArray(a), NEW x \in DOMAIN a.heap, Up(a, x) # NULL
  PROVE  /\ Up(a, x) \in Meta(a.heap) /\ Up(a, x).id \in DOMAIN a.heap
         /\ a.heap[Up(a, x).id].t = Up(a, x).t
         /\ Up(a, x) = [t |-> Up(a, x).t, id |-> Up(a, x).id]
         /\ Up(a, x).t \in {"node", "shortcut"}
         /\ Up(a, x).t = "shortcut" =>
              a.heap[Up(a, x).id].next_node = NodePtr(x) /\ a.heap[x].t = "node"
         /\ Up(a, x).t = "node" =>
              a.heap[Up(a, x).id].slots[a.heap[x].parent_slot] = [t |-> a.heap[x].t, id |-> x]
  <1> DEFINE b == Up(a, x)
  <1>1. b \in Meta(a.heap)
    BY ObjectShape
  <1>2. b = [t |-> b.t, id |-> b.id] /\ b.t \in {"node", "shortcut"} /\ b.id \in DOMAIN a.heap
    BY <1>1 DEF Meta
  <1>3. x \in DOMAIN a.heap \ {a.root.id}
    BY TopIsRoot
  <1>4. /\ a.heap[b.id].t = b.t
        /\ [t |-> a.heap[x].t, id |-> x] =
             IF is_shortcut(b) THEN a.heap[b.id].next_node
             ELSE a.heap[b.id].slots[a.heap[x].parent_slot]
    BY <1>3 DEF IsArray, Up
  <1>5. CASE b.t = "shortcut"
    <2>0. a.heap[b.id].t = "shortcut"
      BY <1>4, <1>5
    <2>1. a.heap[b.id].next_node.t = "node"
      BY <1>2, <2>0, DownShortcut
    <2>2. a.heap[b.id].next_node = [t |-> a.heap[x].t, id |-> x]
      BY <1>4, <1>5 DEF is_shortcut
    <2>3. a.heap[x].t = "node"
      BY <2>1, <2>2
    <2> QED
      BY <1>1, <1>2, <1>4, <1>5, <2>2, <2>3 DEF NodePtr
  <1>6. CASE b.t # "shortcut"
    BY <1>1, <1>2, <1>4, <1>6 DEF is_shortcut
  <1> QED
    BY <1>5, <1>6

\* What is still to be looked at on the way back up, one step up.
LEMMA AfterSplit ==
  ASSUME NEW a, IsArray(a), NEW x \in DOMAIN a.heap, NEW y, NEW k
  PROVE  /\ Up(a, x) = NULL => ~After(a, x, y, k)
         /\ Up(a, x).t = "shortcut" => (After(a, x, y, k) <=> After(a, Up(a, x).id, y, k))
         /\ Up(a, x).t = "node" =>
              (After(a, x, y, k) <=> \/ After(a, Up(a, x).id, y, k)
                                     \/ y = Up(a, x).id /\ a.heap[x].parent_slot < k)
  <1>1. NodePtr(y) # NULL /\ NodePtr(y).t = "node" /\ NodePtr(y).id = y
    BY DEF NodePtr, NULL
  <1>2. CASE Up(a, x) = NULL
    <2>1. Anc(a, x) = {x}
      BY <1>2, AncSplit
    <2> QED
      BY <1>1, <1>2, <2>1 DEF After, NULL
  <1>3. CASE Up(a, x).t = "shortcut"
    <2>1. Up(a, x) # NULL
      BY <1>3 DEF NULL
    <2>2. Anc(a, x) = {x} \cup Anc(a, Up(a, x).id)
      BY <2>1, AncSplit
    <2> QED
      BY <1>1, <1>3, <2>1, <2>2 DEF After
  <1>4. CASE Up(a, x).t = "node"
    <2>1. Up(a, x) # NULL
      BY <1>4 DEF NULL
    <2>2. Anc(a, x) = {x} \cup Anc(a, Up(a, x).id)
      BY <2>1, AncSplit
    <2>3. Up(a, x) = NodePtr(Up(a, x).id)
      <3>1. Up(a, x) = [t |-> Up(a, x).t, id |-> Up(a, x).id]
        BY <2>1, UpPoints
      <3> QED
        BY <1>4, <3>1 DEF NodePtr
    <2>4. Up(a, x) = NodePtr(y) <=> y = Up(a, x).id
      BY <1>1, <2>3
    <2> QED
      BY <1>4, <2>1, <2>2, <2>4 DEF After
  <1> QED
    BY <1>2, <1>3, <1>4 DEF NULL

\* Nothing on the way to x is behind a slot to its right.
LEMMA NotBehind ==
  ASSUME NEW a, IsArray(a), NEW x \in DOMAIN a.heap, NEW w \in Anc(a, x),
         NEW y, NEW k \in Slot, After(a, x, y, k)
  PROVE  w \notin Behind(a, y, k)
  <1> SUFFICES ASSUME w \in Behind(a, y, k) PROVE FALSE
    OBVIOUS
  <1>1. PICK v \in Anc(a, x) : Up(a, v) = NodePtr(y) /\ a.heap[v].parent_slot < k
    BY DEF After
  <1>2. v \in DOMAIN a.heap /\ w \in DOMAIN a.heap /\ Up(a, v) # NULL /\ Up(a, v).id = y
        /\ Up(a, v).t = "node"
    BY <1>1, AncClimbs DEF NodePtr, NULL
  <1>3. y \in DOMAIN a.heap /\ a.heap[y].t = "node"
    BY <1>2, UpPoints
  <1> DEFINE c == a.heap[y].slots[k].id
  <1>4. is_meta(a.heap[y].slots[k]) /\ c \in Anc(a, w)
    BY DEF Behind
  <1>5. c \in DOMAIN a.heap /\ Up(a, c) = NodePtr(y) /\ a.heap[c].parent_slot = k
    BY <1>3, <1>4, Down
  <1> HIDE DEF c
  <1>6. c \in Anc(a, x) /\ Up(a, c).id = y /\ Up(a, c) # NULL
    BY <1>2, <1>4, <1>5, AncTrans DEF NodePtr, NULL
  <1>7. a.heap[v].parent_slot \in Int /\ k \in Int
    BY <1>2, ObjectShape, GcAssumption DEF Slot
  <1>8. c # v
    BY <1>1, <1>5, <1>7
  <1>9. v \in Anc(a, c) \/ c \in Anc(a, v)
    BY <1>6, AncChain
  <1>10. CASE v \in Anc(a, c)
    <2>1. v \in Anc(a, y)
      BY <1>5, <1>6, <1>8, <1>10, AncSplit
    <2> QED
      BY <1>2, <2>1, UpIsAbove
  <1>11. CASE c \in Anc(a, v)
    <2>1. c \in Anc(a, y)
      BY <1>2, <1>8, <1>11, AncSplit
    <2> QED
      BY <1>5, <1>6, <2>1, UpIsAbove
  <1> QED
    BY <1>9, <1>10, <1>11

\* A slot to the right of the way to x is one of an ancestor.
LEMMA AfterAbove ==
  ASSUME NEW a, IsArray(a), NEW x \in DOMAIN a.heap, NEW y, NEW k, After(a, x, y, k)
  PROVE  y \in Anc(a, x) /\ y # x /\ IsNode(a, y)
  <1>1. PICK w \in Anc(a, x) : Up(a, w) = NodePtr(y) /\ a.heap[w].parent_slot < k
    BY DEF After
  <1>2. w \in DOMAIN a.heap /\ Up(a, w) # NULL /\ Up(a, w).id = y /\ Up(a, w).t = "node"
    BY <1>1, AncClimbs DEF NodePtr, NULL
  <1>3. y \in Anc(a, w) /\ w \notin Anc(a, y) /\ y \in Anc(a, x)
    BY <1>2, UpIsAbove, AncTrans
  <1>4. y # x
    BY <1>3
  <1>5. y \in DOMAIN a.heap /\ a.heap[y].t = "node"
    BY <1>2, UpPoints
  <1> QED
    BY <1>3, <1>4, <1>5 DEF IsNode

\* The slot that leads to x is not to the right of the way to x.
LEMMA NotAfterOwn ==
  ASSUME NEW a, IsArray(a), NEW x \in DOMAIN a.heap, Up(a, x).t = "node",
         NEW k, After(a, x, Up(a, x).id, k)
  PROVE  a.heap[x].parent_slot < k
  <1>1. Up(a, x) # NULL /\ Up(a, x).id \in DOMAIN a.heap
    BY ObjectShape DEF NULL
  <1>2. ~After(a, Up(a, x).id, Up(a, x).id, k)
    BY <1>1, AfterAbove
  <1> QED
    BY <1>2, AfterSplit

\* What is below a node is behind one of its slots.
LEMMA BelowNode ==
  ASSUME NEW a, IsArray(a), NEW x, IsNode(a, x), NEW z \in DOMAIN a.heap
  PROVE  /\ x \in Anc(a, z) <=> z = x \/ \E k \in Slot : z \in Behind(a, x, k)
         /\ \A k \in Slot : x \notin Behind(a, x, k)
  <1>1. x \in DOMAIN a.heap /\ a.heap[x].t = "node"
    BY DEF IsNode
  <1>2. ASSUME x \in Anc(a, z), z # x PROVE \E k \in Slot : z \in Behind(a, x, k)
    <2>1. PICK w \in Anc(a, z) : Up(a, w) # NULL /\ Up(a, w).id = x
      BY <1>2, ChildBetween
    <2>2. w \in DOMAIN a.heap
      BY AncClimbs
    <2>3. Up(a, w).t = "node"
      BY <1>1, <2>1, <2>2, UpPoints
    <2> DEFINE k == a.heap[w].parent_slot
    <2>4. a.heap[x].slots[k] = [t |-> a.heap[w].t, id |-> w]
      BY <2>1, <2>2, <2>3, UpPoints
    <2>5. k \in Slot /\ a.heap[w].t \in {"node", "shortcut"}
      BY <2>2, ObjectShape
    <2>6. z \in Behind(a, x, k)
      BY <2>4, <2>5 DEF Behind, is_meta
    <2> QED
      BY <2>5, <2>6
  <1>3. ASSUME NEW k \in Slot, NEW y \in Behind(a, x, k) PROVE x \in Anc(a, y) /\ y # x
    <2> DEFINE c == a.heap[x].slots[k].id
    <2>1. is_meta(a.heap[x].slots[k]) /\ c \in Anc(a, y) /\ y \in DOMAIN a.heap
      BY DEF Behind
    <2>2. c \in DOMAIN a.heap /\ Up(a, c) = NodePtr(x)
      BY <1>1, <2>1, Down
    <2> HIDE DEF c
    <2>3. Up(a, c) # NULL /\ Up(a, c).id = x
      BY <2>2 DEF NodePtr, NULL
    <2>4. x \in Anc(a, c) /\ c \notin Anc(a, x)
      BY <2>2, <2>3, UpIsAbove
    <2> QED
      BY <2>1, <2>2, <2>4, AncTrans
  <1> QED
    BY <1>1, <1>2, <1>3, AncClimbs

LEMMA BelowShortcut ==
  ASSUME NEW a, IsArray(a), NEW x \in DOMAIN a.heap, a.heap[x].t = "shortcut",
         NEW z \in DOMAIN a.heap
  PROVE  /\ x \in Anc(a, z) <=> z = x \/ a.heap[x].next_node.id \in Anc(a, z)
         /\ a.heap[x].next_node.id \notin Anc(a, x)
  <1> DEFINE c == a.heap[x].next_node.id
  <1>1. c \in DOMAIN a.heap /\ Up(a, c) = ShortcutPtr(x)
    BY DownShortcut
  <1>2. Up(a, c) # NULL /\ Up(a, c).id = x
    BY <1>1 DEF ShortcutPtr, NULL
  <1>3. x \in Anc(a, c) /\ c \notin Anc(a, x)
    BY <1>1, <1>2, UpIsAbove
  <1>4. ASSUME x \in Anc(a, z), z # x PROVE c \in Anc(a, z)
    <2>1. PICK w \in Anc(a, z) : Up(a, w) # NULL /\ Up(a, w).id = x
      BY <1>4, ChildBetween
    <2>2. w \in DOMAIN a.heap
      BY AncClimbs
    <2>3. Up(a, w).t = "shortcut"
      BY <2>1, <2>2, UpPoints
    <2>4. a.heap[x].next_node = NodePtr(w)
      BY <2>1, <2>2, <2>3, UpPoints
    <2> QED
      BY <2>4 DEF NodePtr
  <1> HIDE DEF c
  <1>5. c \in Anc(a, z) => x \in Anc(a, z)
    BY <1>3, AncTrans
  <1> QED
    BY <1>3, <1>4, <1>5, AncClimbs DEF c

-----------------------------------------------------------------------------
(* The walk.                                                               *)

Within == {"continue_node", "compress", "retry_compress", "fold"}
Walking == Within \cup {"descend", "ascend"}

\* A collection that began and has not failed.
Live == pc \notin {"start", "ENOMEM", "BUG"} /\ array.root # NULL

\* The walk is within the copies of x and of what is above x.
IsOpen(x) == pc \in Walking /\ new_parent # NULL /\ x \in Anc(array, new_parent.id)

\* Slot k of node y is one that the walk has not come to.
Waits(y, k) ==
  \/ pc = "descend" /\ After(array, cursor.id, y, k)
  \/ pc \in Within \cup {"ascend"} /\ After(array, node, y, k)
  \/ pc = "continue_node" /\ y = node /\ slot <= k

Unvisited(z) ==
  \/ pc = "descend" /\ cursor.id \in Anc(array, z)
  \/ \E y \in DOMAIN old, k \in Slot : Waits(y, k) /\ z \in Behind(array, y, k)

NewShortcuts(h) ==
  [t : {"shortcut"}, back_pointer : {NULL} \cup Meta(h), parent_slot : Slot,
   next_node : [t : {"node", "old"}, id : DOMAIN h]]

NewHeaps(h) == [DOMAIN h -> {Absent, Freed} \cup Nodes(h) \cup NewShortcuts(h)]

Types ==
  /\ pc \in Walking \cup {"start", "gc_complete", "done", "ENOMEM", "BUG"}
  /\ array \in Trees
  /\ array.root = NULL => pc \in {"start", "done"}
  /\ Live => new \in NewHeaps(old)

NewUp(x) == new[x].back_pointer

\* The slots of the node being filled that are empty.
Vacant == {k \in Slot : new[node].slots[k] = NULL}

\* The walk begins with nothing done.
Fresh ==
  /\ new_root = NULL /\ new_parent = NULL
  /\ dest = [t |-> "root"]
  /\ kept = {} /\ dropped = {}

\* The place where the next copy belongs.
Descending ==
  /\ cursor \in Meta(old) /\ old[cursor.id].t = cursor.t
  /\ Up(array, cursor.id) = new_parent
  /\ new_parent = NULL => dest = [t |-> "root"]
  /\ new_parent.t = "shortcut" => dest = [t |-> "shortcut", id |-> new_parent.id]
  /\ new_parent.t = "node" =>
       /\ dest = [t |-> "node", id |-> new_parent.id, slot |-> old[cursor.id].parent_slot]
       /\ new[new_parent.id].slots[old[cursor.id].parent_slot] = NULL

\* Both walks are at the same node.
InStep ==
  /\ IsNode(array, node) /\ new_n = node /\ new_parent = NodePtr(node)
  /\ slot \in 0 .. FAN_OUT

Compressing == nr_free = Cardinality(Vacant) /\ next_slot \in 0 .. FAN_OUT

\* The child is a node below the present one, which no longer points to it.
Folding ==
  /\ cursor = NodePtr(cursor.id) /\ cursor.id \in DOMAIN old /\ new[cursor.id].t = "node"
  /\ NewUp(cursor.id) = NodePtr(node)
  /\ node \in Anc(array, cursor.id) /\ node # cursor.id
  /\ \A k \in Slot : new[node].slots[k] # cursor
  /\ slot < FAN_OUT /\ ~is_meta(new[node].slots[slot])
  /\ i \in 0 .. FAN_OUT /\ \A k \in Slot : k < i => ~is_meta(new[cursor.id].slots[k])

\* The new tree is to be climbed as the old one.
Ascending ==
  /\ IsNode(array, node) /\ new_parent = Upper.cursor
  /\ Upper.cursor # NULL => new_n = Upper.cursor.id
  /\ Upper.cursor = NULL => Upper.shortcut

Place ==
  /\ pc = "start" => Fresh
  /\ Live /\ pc = "descend" => Descending
  /\ Live /\ pc \in Within => InStep
  /\ Live /\ pc \in {"compress", "fold"} => Compressing
  /\ Live /\ pc = "fold" => Folding
  /\ Live /\ pc = "ascend" => Ascending

\* Open objects stand where the old ones do, the slots that wait are empty, and
\* exactly what is behind them is not copied.
Opened ==
  /\ \A x \in DOMAIN old : IsOpen(x) =>
       /\ new[x].t = old[x].t
       /\ NewUp(x) = Up(array, x)
       /\ new[x].parent_slot = old[x].parent_slot
  /\ \A x \in DOMAIN old : new[x] = Absent <=> Unvisited(x)
  /\ \A y \in DOMAIN old, k \in Slot : Waits(y, k) => new[y].t = "node" /\ new[y].slots[k] = NULL

\* Pointer p of x leads to an object further below that knows its place.
Linked(a, h, x, p, back, pslot) ==
  x \in Anc(a, p.id) /\ x # p.id /\ Leads(h, p, back, pslot)

\* The pointers of the new tree; that of the last shortcut is not set yet.
Links ==
  /\ \A x \in DOMAIN old, k \in Slot : new[x].t = "node" /\ is_meta(new[x].slots[k]) =>
       Linked(array, new, x, new[x].slots[k], NodePtr(x), k)
  /\ \A x \in DOMAIN old : new[x].t = "shortcut" =>
       \/ /\ new[x].next_node = old[x].next_node
          /\ Linked(array, new, x, new[x].next_node, ShortcutPtr(x), 0)
       \/ /\ new[x].next_node.t = "old"
          /\ pc = "descend" /\ new_parent = ShortcutPtr(x)

WalkInv == Types /\ Place /\ (Live => Opened /\ Links)

-----------------------------------------------------------------------------
(* Objects of the new tree.                                                *)

Pointers(h) == {NULL} \cup [t : {"leaf"}, id : Nat] \cup Meta(h)

LEMMA Tree ==
  ASSUME Types, array.root # NULL
  PROVE  IsArray(array)
  BY GcAssumption DEF Types

LEMMA LiveTree ==
  ASSUME WalkInv, Live
  PROVE  IsArray(array) /\ new \in NewHeaps(old) /\ old = array.heap
  BY Tree DEF WalkInv, Live, Types, old

LEMMA NodeShape ==
  ASSUME NEW h, NEW r \in Nodes(h)
  PROVE  /\ r.t = "node" /\ r.back_pointer \in {NULL} \cup Meta(h) /\ r.parent_slot \in Slot
         /\ r.slots \in [Slot -> Pointers(h)] /\ r.nr \in Nat
         /\ \A k \in Slot : is_meta(r.slots[k]) => r.slots[k] \in Meta(h)
  <1>1. /\ r.t = "node" /\ r.back_pointer \in {NULL} \cup Meta(h) /\ r.parent_slot \in Slot
        /\ r.slots \in [Slot -> Pointers(h)] /\ r.nr \in Nat
    BY DEF Nodes, Pointers
  <1>2. \A p \in Pointers(h) : is_meta(p) => p \in Meta(h)
    BY DEF Pointers, is_meta, NULL
  <1>3. \A k \in Slot : r.slots[k] \in Pointers(h)
    BY <1>1
  <1> QED
    BY <1>1, <1>2, <1>3

LEMMA NewShape ==
  ASSUME NEW h, NEW n \in NewHeaps(h), NEW x \in DOMAIN h
  PROVE  /\ n[x].t \in {"absent", "freed", "node", "shortcut"}
         /\ n[x] = Absent <=> n[x].t = "absent"
         /\ n[x] = Freed <=> n[x].t = "freed"
         /\ n[x].t = "node" <=> n[x] \in Nodes(h)
         /\ n[x].t = "shortcut" <=> n[x] \in NewShortcuts(h)
  <1>1. n[x] \in {Absent, Freed} \cup Nodes(h) \cup NewShortcuts(h)
    BY DEF NewHeaps
  <1>2. Absent.t = "absent" /\ Freed.t = "freed"
    BY DEF Absent, Freed
  <1>3. \A r \in Nodes(h) : r.t = "node"
    BY NodeShape
  <1>4. \A r \in NewShortcuts(h) : r.t = "shortcut"
    BY DEF NewShortcuts
  <1> QED
    BY <1>1, <1>2, <1>3, <1>4

\* A node whose count is set.
LEMMA SetCount ==
  ASSUME NEW h, NEW r \in Nodes(h), NEW n \in Nat, NEW q, q = [r EXCEPT !.nr = n]
  PROVE  /\ q \in Nodes(h) /\ q.t = r.t /\ q.back_pointer = r.back_pointer
         /\ q.parent_slot = r.parent_slot /\ q.slots = r.slots /\ q.nr = n
  BY DEF Nodes

-----------------------------------------------------------------------------
(* Steps within a node: slot s becomes p, and maybe the count changes.     *)

Edited(s, p) ==
  /\ array' = array /\ new_parent' = new_parent /\ node' = node /\ new_n' = new_n
  /\ new' \in NewHeaps(old)
  /\ \A x \in DOMAIN old : x # node => new'[x] = new[x]
  /\ new'[node].t = "node"
  /\ new'[node].back_pointer = new[node].back_pointer
  /\ new'[node].parent_slot = new[node].parent_slot
  /\ s \in Slot
  /\ \A k \in Slot : new'[node].slots[k] = IF k = s THEN p ELSE new[node].slots[k]

\* The node being filled is open.
LEMMA FilledNode ==
  ASSUME WalkInv, Live, pc \in Within
  PROVE  /\ node \in DOMAIN old /\ new_n = node /\ old[node].t = "node" /\ IsOpen(node)
         /\ new[node] \in Nodes(old) /\ new[node].t = "node"
         /\ NewUp(node) = Up(array, node) /\ new[node].parent_slot = old[node].parent_slot
         /\ slot \in 0 .. FAN_OUT /\ new_parent = NodePtr(node)
  <1>1. IsArray(array) /\ new \in NewHeaps(old) /\ old = array.heap
    BY LiveTree
  <1>2. InStep
    BY DEF WalkInv, Place
  <1>3. node \in DOMAIN old /\ old[node].t = "node" /\ new_parent = NodePtr(node)
    BY <1>1, <1>2 DEF InStep, IsNode
  <1>4. IsOpen(node)
    BY <1>1, <1>3, AncClimbs DEF IsOpen, Walking, NodePtr, NULL
  <1>5. new[node].t = "node" /\ NewUp(node) = Up(array, node)
        /\ new[node].parent_slot = old[node].parent_slot
    BY <1>3, <1>4 DEF WalkInv, Opened
  <1> QED
    BY <1>1, <1>2, <1>3, <1>4, <1>5, NewShape DEF InStep

\* Edits of one slot and of the count.
LEMMA EditSlot ==
  ASSUME WalkInv, Live, pc \in Within, NEW s \in Slot, NEW p \in Pointers(old),
         UNCHANGED <<array, new_parent, node, new_n>>,
         new' = [new EXCEPT ![new_n].slots[s] = p]
  PROVE  Edited(s, p) /\ new'[node].nr = new[node].nr
  <1>1. node \in DOMAIN old /\ new_n = node /\ new[node] \in Nodes(old) /\ new \in NewHeaps(old)
    BY FilledNode, LiveTree
  <1>0. PICK q : q = [new[node] EXCEPT !.slots[s] = p]
    OBVIOUS
  <1>2. /\ q \in Nodes(old) /\ q.t = new[node].t /\ q.back_pointer = new[node].back_pointer
        /\ q.parent_slot = new[node].parent_slot /\ q.nr = new[node].nr
        /\ \A k \in Slot : q.slots[k] = IF k = s THEN p ELSE new[node].slots[k]
    <2>1. PICK r : r = new[node]
      OBVIOUS
    <2>2. r \in Nodes(old) /\ q = [r EXCEPT !.slots[s] = p]
      BY <1>0, <1>1, <2>1
    <2>3. /\ q \in Nodes(old) /\ q.t = r.t /\ q.back_pointer = r.back_pointer
          /\ q.parent_slot = r.parent_slot /\ q.nr = r.nr
          /\ \A k \in Slot : q.slots[k] = IF k = s THEN p ELSE r.slots[k]
      BY <2>2 DEF Nodes, Pointers
    <2> QED
      BY <2>1, <2>3
  <1>3. new' = [new EXCEPT ![node] = q]
    BY <1>0, <1>1
  <1>4. new' \in NewHeaps(old) /\ new'[node] = q
        /\ \A x \in DOMAIN old : x # node => new'[x] = new[x]
    BY <1>1, <1>2, <1>3 DEF NewHeaps
  <1> QED
    BY <1>1, <1>2, <1>4, FilledNode DEF Edited

LEMMA EditCount ==
  ASSUME WalkInv, Live, pc \in Within, NEW n \in Nat, NEW s \in Slot,
         UNCHANGED <<array, new_parent, node, new_n>>,
         new' = [new EXCEPT ![new_n].nr = n]
  PROVE  Edited(s, new[node].slots[s]) /\ new'[node].nr = n
  <1>1. node \in DOMAIN old /\ new_n = node /\ new[node] \in Nodes(old) /\ new \in NewHeaps(old)
    BY FilledNode, LiveTree
  <1>0. PICK q : q = [new[node] EXCEPT !.nr = n]
    OBVIOUS
  <1>2. /\ q \in Nodes(old) /\ q.t = new[node].t /\ q.back_pointer = new[node].back_pointer
        /\ q.parent_slot = new[node].parent_slot /\ q.slots = new[node].slots /\ q.nr = n
    BY <1>0, <1>1, SetCount
  <1>3. new' = [new EXCEPT ![node] = q]
    BY <1>0, <1>1
  <1>4. new' \in NewHeaps(old) /\ new'[node] = q
        /\ \A x \in DOMAIN old : x # node => new'[x] = new[x]
    BY <1>1, <1>2, <1>3 DEF NewHeaps
  <1> QED
    BY <1>1, <1>2, <1>4, FilledNode DEF Edited

LEMMA EditFrame ==
  ASSUME WalkInv, Live, pc \in Within, NEW s, NEW p, Edited(s, p)
  PROVE  /\ old' = old /\ new' \in NewHeaps(old')
         /\ \A x \in DOMAIN old :
              /\ new'[x].t = new[x].t
              /\ new'[x] = Absent <=> new[x] = Absent
              /\ new'[x] = Freed <=> new[x] = Freed
              /\ new[x].t \in {"node", "shortcut"} =>
                   new'[x].back_pointer = new[x].back_pointer /\ new'[x].parent_slot = new[x].parent_slot
              /\ new[x].t = "shortcut" => new'[x] = new[x]
  <1>1. node \in DOMAIN old /\ new[node].t = "node" /\ new \in NewHeaps(old)
    BY FilledNode, LiveTree
  <1>2. old' = old /\ new' \in NewHeaps(old)
    BY DEF Edited, old
  <1> SUFFICES ASSUME NEW x \in DOMAIN old
               PROVE  /\ new'[x].t = new[x].t
                      /\ new'[x] = Absent <=> new[x] = Absent
                      /\ new'[x] = Freed <=> new[x] = Freed
                      /\ new[x].t \in {"node", "shortcut"} =>
                           /\ new'[x].back_pointer = new[x].back_pointer
                           /\ new'[x].parent_slot = new[x].parent_slot
                      /\ new[x].t = "shortcut" => new'[x] = new[x]
    BY <1>2
  <1>3. x # node => new'[x] = new[x]
    BY DEF Edited
  <1>4. x = node => new'[x].t = "node" /\ new'[x].back_pointer = new[x].back_pointer
                    /\ new'[x].parent_slot = new[x].parent_slot
    BY DEF Edited
  <1>5. new'[x] = Absent <=> new'[x].t = "absent"
    BY <1>2, NewShape
  <1>6. new'[x] = Freed <=> new'[x].t = "freed"
    BY <1>2, NewShape
  <1>7. (new[x] = Absent <=> new[x].t = "absent") /\ (new[x] = Freed <=> new[x].t = "freed")
    BY <1>1, NewShape
  <1> QED
    BY <1>1, <1>3, <1>4, <1>5, <1>6, <1>7

\* An edit that makes no pointer to an object leaves the others as they are.
LEMMA EditLinks ==
  ASSUME WalkInv, Live, pc \in Within, NEW s, NEW p, Edited(s, p),
         ~is_meta(p) \/ p = new[node].slots[s]
  PROVE  Links'
  <1>1. old' = old /\ array' = array /\ DOMAIN new' = DOMAIN new
    BY EditFrame, LiveTree DEF Edited, NewHeaps
  <1>2. ASSUME NEW x, NEW q, NEW back, NEW k, Linked(array, new, x, q, back, k)
        PROVE  Linked(array, new', x, q, back, k)
    <2>1. x \in Anc(array, q.id) /\ x # q.id /\ q \in Meta(new)
          /\ new[q.id].t = q.t /\ new[q.id].back_pointer = back
          /\ (back.t = "node" => new[q.id].parent_slot = k)
      BY <1>2 DEF Linked, Leads
    <2>2. q.id \in DOMAIN old /\ q.t \in {"node", "shortcut"}
      BY <2>1, LiveTree DEF Meta, NewHeaps
    <2>3. new'[q.id].t = q.t /\ new'[q.id].back_pointer = back
          /\ (back.t = "node" => new'[q.id].parent_slot = k)
      BY <2>1, <2>2, EditFrame
    <2>4. q \in Meta(new')
      BY <1>1, <2>1 DEF Meta
    <2> QED
      BY <1>1, <2>1, <2>3, <2>4 DEF Linked, Leads
  <1>3. ASSUME NEW x \in DOMAIN old, NEW k \in Slot, new'[x].t = "node", is_meta(new'[x].slots[k])
        PROVE  Linked(array, new', x, new'[x].slots[k], NodePtr(x), k)
    <2>1. new[x].t = "node" /\ new'[x].slots[k] = new[x].slots[k]
      BY <1>3, EditFrame DEF Edited
    <2>2. Linked(array, new, x, new[x].slots[k], NodePtr(x), k)
      BY <1>3, <2>1 DEF WalkInv, Links
    <2> QED
      BY <1>2, <2>1, <2>2
  <1>4. ASSUME NEW x \in DOMAIN old, new'[x].t = "shortcut"
        PROVE  /\ new'[x].next_node = old[x].next_node
               /\ Linked(array, new', x, new'[x].next_node, ShortcutPtr(x), 0)
    <2>1. new[x].t = "shortcut" /\ new'[x] = new[x]
      BY <1>4, EditFrame
    <2>2. new[x].next_node = old[x].next_node /\ Linked(array, new, x, new[x].next_node, ShortcutPtr(x), 0)
      BY <2>1 DEF WalkInv, Links, Within
    <2> QED
      BY <1>2, <2>1, <2>2
  <1> QED
    BY <1>1, <1>3, <1>4 DEF Links

\* The slots that wait, before and after a step within a node.
LEMMA WaitsWithin ==
  ASSUME WalkInv, Live, pc \in Within, NEW y, NEW k
  PROVE  /\ Waits(y, k) <=> \/ After(array, node, y, k)
                            \/ pc = "continue_node" /\ y = node /\ slot <= k
         /\ ~After(array, node, node, k)
  <1>1. Waits(y, k) <=> \/ After(array, node, y, k)
                        \/ pc = "continue_node" /\ y = node /\ slot <= k
    BY DEF Waits, Within
  <1> QED
    BY <1>1, FilledNode, LiveTree, AfterAbove

LEMMA WaitsThen ==
  ASSUME pc' \in Within, UNCHANGED <<array, node>>, NEW y, NEW k
  PROVE  Waits(y, k)' <=> \/ After(array, node, y, k)
                          \/ pc' = "continue_node" /\ y = node /\ slot' <= k
  BY DEF Waits, Within

\* An edit that keeps the slots that wait as they are, but for an empty one or a leaf.
LEMMA EditOpened ==
  ASSUME WalkInv, Live, pc \in Within, pc' \in Within, NEW s, NEW p, Edited(s, p),
         ~is_meta(p) \/ p = new[node].slots[s],
         \A y, k : y = node /\ k \in Slot /\ Waits(y, k)' =>
           Waits(y, k) /\ (k = s => p = new[y].slots[s]),
         \A y, k : y = node /\ k \in Slot /\ Waits(y, k) /\ is_meta(old[y].slots[k]) => Waits(y, k)'
  PROVE  Types' /\ Opened' /\ Links' /\ Live'
  <1>1. /\ IsArray(array) /\ old = array.heap /\ node \in DOMAIN old
        /\ old' = old /\ array' = array /\ node' = node /\ new' \in NewHeaps(old')
        /\ DOMAIN new' = DOMAIN new
    BY LiveTree, FilledNode, EditFrame DEF Edited, NewHeaps
  <1>2. Types' /\ Live'
    <2>1. pc' \in Walking
      BY DEF Walking
    <2>2. array \in Trees
      BY DEF WalkInv, Types
    <2>3. Live'
      BY <1>1 DEF Live, Within
    <2> QED
      BY <1>1, <2>1, <2>2, <2>3 DEF Types, Live
  <1>3. ASSUME NEW x \in DOMAIN old, IsOpen(x)' 
        PROVE  /\ new'[x].t = old[x].t
               /\ new'[x].back_pointer = Up(array, x)
               /\ new'[x].parent_slot = old[x].parent_slot
    <2>1. IsOpen(x)
      BY <1>1, <1>3 DEF IsOpen, Edited, Walking
    <2>2. new[x].t = old[x].t /\ new[x].back_pointer = Up(array, x)
          /\ new[x].parent_slot = old[x].parent_slot
      BY <2>1 DEF WalkInv, Opened, NewUp
    <2>3. old[x].t \in {"node", "shortcut"}
      BY <1>1, ObjectShape
    <2> QED
      BY <2>2, <2>3, EditFrame
  <1>4. \A y, k : y # node => (Waits(y, k)' <=> Waits(y, k))
    BY <1>1, WaitsWithin, WaitsThen
  <1>5. ASSUME NEW x \in DOMAIN old PROVE new'[x] = Absent <=> Unvisited(x)'
    <2>1. Unvisited(x)' <=> \E y \in DOMAIN old, k \in Slot : Waits(y, k)' /\ x \in Behind(array, y, k)
      BY <1>1 DEF Unvisited, Within
    <2>2. Unvisited(x) <=> \E y \in DOMAIN old, k \in Slot : Waits(y, k) /\ x \in Behind(array, y, k)
      BY <1>1 DEF Unvisited, Within
    <2>3. ASSUME NEW y \in DOMAIN old, NEW k \in Slot, x \in Behind(array, y, k)
          PROVE  Waits(y, k)' <=> Waits(y, k)
      <3>1. is_meta(old[y].slots[k])
        BY <1>1, <2>3 DEF Behind
      <3> QED
        BY <1>4, <3>1
    <2>4. Unvisited(x)' <=> Unvisited(x)
      BY <2>1, <2>2, <2>3
    <2>5. new[x] = Absent <=> Unvisited(x)
      BY DEF WalkInv, Opened
    <2> QED
      BY <2>4, <2>5, EditFrame
  <1>6. ASSUME NEW y \in DOMAIN old, NEW k \in Slot, Waits(y, k)'
        PROVE  new'[y].t = "node" /\ new'[y].slots[k] = NULL
    <2>1. Waits(y, k)
      BY <1>4, <1>6
    <2>2. new[y].t = "node" /\ new[y].slots[k] = NULL
      BY <2>1 DEF WalkInv, Opened
    <2>3. CASE y = node
      BY <1>6, <2>2, <2>3, EditFrame DEF Edited
    <2>4. CASE y # node
      BY <2>2, <2>4 DEF Edited
    <2> QED
      BY <2>3, <2>4
  <1>7. Opened'
    BY <1>1, <1>3, <1>5, <1>6 DEF Opened, NewUp
  <1> QED
    BY <1>2, <1>7, EditLinks


\* What a slot of the present node leads to.
LEMMA ChildIsNode ==
  ASSUME WalkInv, Live, pc \in Within, NEW k \in Slot, is_meta(new[new_n].slots[k])
  PROVE  /\ new_n = node
         /\ new[node].slots[k].id \in DOMAIN old
         /\ node \in Anc(array, new[node].slots[k].id) /\ node # new[node].slots[k].id
         /\ new[node].slots[k] = [t |-> new[node].slots[k].t, id |-> new[node].slots[k].id]
         /\ new[new[node].slots[k].id].t = new[node].slots[k].t
         /\ NewUp(new[node].slots[k].id) = NodePtr(node)
         /\ new[new[node].slots[k].id].parent_slot = k
         /\ ChildAt(k) \in DOMAIN old /\ new[ChildAt(k)] \in Nodes(old)
         /\ new[ChildAt(k)].t = "node"
         /\ node \in Anc(array, ChildAt(k)) /\ node # ChildAt(k)
  <1> DEFINE p == new[node].slots[k]
  <1>1. IsArray(array) /\ new \in NewHeaps(old) /\ old = array.heap /\ DOMAIN new = DOMAIN old
    BY LiveTree DEF NewHeaps
  <1>2. new_n = node /\ new[node].t = "node" /\ node \in DOMAIN old
    BY FilledNode
  <1>3. Linked(array, new, node, p, NodePtr(node), k)
    BY <1>2 DEF WalkInv, Links
  <1>4. p.id \in DOMAIN old /\ p = [t |-> p.t, id |-> p.id] /\ p.t \in {"node", "shortcut"}
    BY <1>1, <1>3 DEF Linked, Leads, Meta
  <1>5. /\ node \in Anc(array, p.id) /\ node # p.id /\ new[p.id].t = p.t
        /\ NewUp(p.id) = NodePtr(node) /\ new[p.id].parent_slot = k
    BY <1>3 DEF Linked, Leads, NewUp, NodePtr
  <1>6. /\ ChildAt(k) \in DOMAIN old /\ new[ChildAt(k)].t = "node"
        /\ node \in Anc(array, ChildAt(k)) /\ node # ChildAt(k)
    <2>1. CASE p.t = "shortcut"
      <3> DEFINE q == new[p.id].next_node
      <3>1. Linked(array, new, p.id, q, ShortcutPtr(p.id), 0) /\ q = old[p.id].next_node
        BY <1>4, <1>5, <2>1 DEF WalkInv, Links, Within
      <3>2. q \in Meta(new) /\ new[q.id].t = q.t /\ p.id \in Anc(array, q.id) /\ p.id # q.id
        BY <3>1 DEF Linked, Leads
      <3>3. q.id \in DOMAIN old
        BY <1>1, <3>2 DEF Meta
      <3>4. new[p.id] \in NewShortcuts(old)
        BY <1>1, <1>4, <1>5, <2>1, NewShape
      <3>5. q.t = "node"
        <4>1. q \in [t : {"node", "old"}, id : DOMAIN old]
          BY <3>4 DEF NewShortcuts
        <4>2. q \in [t : {"node", "shortcut"}, id : DOMAIN new]
          BY <3>2 DEF Meta
        <4> QED
          BY <4>1, <4>2
      <3>6. node \in Anc(array, q.id)
        BY <1>1, <1>5, <3>2, <3>3, AncTrans
      <3>7. node # q.id
        BY <1>1, <1>2, <1>4, <1>5, <3>2, AncOnce
      <3>8. ChildAt(k) = q.id
        BY <1>2, <2>1 DEF ChildAt, is_shortcut
      <3> HIDE DEF q, p
      <3> QED
        BY <3>2, <3>3, <3>5, <3>6, <3>7, <3>8
    <2>2. CASE p.t # "shortcut"
      BY <1>2, <1>4, <1>5, <2>2 DEF ChildAt, is_shortcut
    <2> QED
      BY <2>1, <2>2
  <1>7. new[ChildAt(k)] \in Nodes(old)
    BY <1>1, <1>6, NewShape
  <1> QED
    BY <1>2, <1>4, <1>5, <1>6, <1>7


\* Nothing is written.
LEMMA EditNothing ==
  ASSUME WalkInv, Live, pc \in Within, UNCHANGED <<array, new, new_parent, node, new_n>>
  PROVE  0 \in Slot /\ Edited(0, new[node].slots[0])
  <1>1. 0 \in Slot
    BY GcAssumption DEF Slot
  <1> QED
    BY <1>1, FilledNode, LiveTree DEF Edited

LEMMA OldPointers ==
  ASSUME WalkInv, Live, pc \in Within, NEW k \in Slot
  PROVE  old[node].slots[k] \in Pointers(old)
  <1>1. IsArray(array) /\ old = array.heap /\ node \in DOMAIN old /\ old[node].t = "node"
    BY LiveTree, FilledNode
  <1>2. old[node] \in Nodes(old)
    BY <1>1, ObjectShape
  <1> QED
    BY <1>2, NodeShape

\* The next slot of the old node: empty, or a leaf.
LEMMA ContinueInv ==
  ASSUME WalkInv, Live, continue_node, pc' # "descend"
  PROVE  WalkInv'
  <1>1. pc = "continue_node" /\ slot < FAN_OUT /\ pc \in Within
        /\ UNCHANGED <<array, new_parent, node, new_n>>
    BY DEF continue_node, Within
  <1>2. node \in DOMAIN old /\ new_n = node /\ slot \in 0 .. FAN_OUT
    BY <1>1, FilledNode
  <1>3. slot \in Slot /\ FAN_OUT \in Nat
    BY <1>1, <1>2, GcAssumption DEF Slot
  <1>4. pc' = "continue_node" /\ slot' = slot + 1 /\ ~is_meta(old[node].slots[slot])
        /\ (new' = new \/ new' = [new EXCEPT ![new_n].slots[slot] = old[node].slots[slot]])
    BY <1>1 DEF continue_node, is_meta, NULL
  <1>5. \A y, k : y = node /\ k \in Slot /\ Waits(y, k)' => Waits(y, k) /\ k # slot
    BY <1>1, <1>3, <1>4, WaitsWithin, WaitsThen DEF Within, Slot
  <1>6. \A y, k : y = node /\ k \in Slot /\ Waits(y, k) /\ is_meta(old[y].slots[k]) => Waits(y, k)'
    BY <1>1, <1>3, <1>4, WaitsWithin, WaitsThen DEF Within, Slot
  <1>7. pc' \in Within
    BY <1>4 DEF Within
  <1>8. Types' /\ Opened' /\ Links' /\ Live'
    <2>1. CASE new' = new
      BY <1>1, <1>5, <1>6, <1>7, <2>1, EditNothing, EditOpened
    <2>2. CASE new' = [new EXCEPT ![new_n].slots[slot] = old[node].slots[slot]]
      <3>1. Edited(slot, old[node].slots[slot])
        BY <1>1, <1>3, <2>2, OldPointers, EditSlot
      <3> QED
        BY <1>1, <1>4, <1>5, <1>6, <1>7, <3>1, EditOpened
    <2> QED
      BY <1>4, <2>1, <2>2
  <1>9. InStep'
    <2>1. InStep
      BY <1>1 DEF WalkInv, Place
    <2> QED
      BY <1>1, <1>3, <1>4, <2>1 DEF InStep, IsNode, Slot
  <1>10. Place'
    BY <1>4, <1>9 DEF Place
  <1> QED
    BY <1>8, <1>10 DEF WalkInv

\* From the copying to the counting, and on.
LEMMA CompressEdits ==
  ASSUME WalkInv, Live, compress
  PROVE  /\ Edited(0, new[node].slots[0])
         /\ new'[node].nr = Cardinality({k \in Slot : new[node].slots[k].t = "leaf"})
  <1>1. pc \in Within /\ UNCHANGED <<array, new_parent, node, new_n>>
    BY DEF compress, walkVars, Within
  <1>2. new_n = node /\ FAN_OUT \in Nat \ {0} /\ 0 \in Slot
    BY <1>1, FilledNode, GcAssumption DEF Slot
  <1>3. PICK n : n = Cardinality({k \in Slot : new[new_n].slots[k].t = "leaf"})
    OBVIOUS
  <1>4. n \in Nat
    <2>1. IsFiniteSet(Slot)
      BY <1>2, FS_Interval DEF Slot
    <2>2. IsFiniteSet({k \in Slot : new[new_n].slots[k].t = "leaf"})
      BY <2>1, FS_Subset
    <2> QED
      BY <1>3, <2>2, FS_CardinalityType
  <1>5. new' = [new EXCEPT ![new_n].nr = n]
    BY <1>3 DEF compress
  <1> QED
    BY <1>1, <1>2, <1>3, <1>4, <1>5, EditCount

LEMMA CompressInv ==
  ASSUME WalkInv, Live, compress
  PROVE  WalkInv'
  <1>1. pc \in Within /\ UNCHANGED <<array, new_parent, node, new_n>> /\ pc' = "compress"
        /\ slot' = 0 /\ next_slot' = 0 /\ (pc = "continue_node" => slot = FAN_OUT)
        /\ nr_free' = Cardinality({k \in Slot : new[new_n].slots[k] = NULL})
    BY DEF compress, walkVars, Within
  <1>2. new_n = node /\ FAN_OUT \in Nat \ {0} /\ 0 \in Slot
    BY <1>1, FilledNode, GcAssumption DEF Slot
  <1>5. Edited(0, new[node].slots[0])
    BY CompressEdits
  <1>6. \A y, k : y = node /\ k \in Slot => ~Waits(y, k) /\ ~Waits(y, k)'
    BY <1>1, <1>2, WaitsWithin, WaitsThen DEF Within, Slot
  <1>7. pc' \in Within
    BY <1>1 DEF Within
  <1>8. Types' /\ Opened' /\ Links' /\ Live'
    BY <1>1, <1>5, <1>6, <1>7, EditOpened
  <1>9. InStep' /\ Compressing'
    <2>1. InStep
      BY <1>1 DEF WalkInv, Place, Live
    <2>2. InStep'
      BY <1>1, <1>2, <2>1 DEF InStep, IsNode
    <2>3. \A k \in Slot : new'[node].slots[k] = new[node].slots[k]
      BY <1>5 DEF Edited
    <2>4. Vacant' = {k \in Slot : new[new_n].slots[k] = NULL}
      BY <1>1, <1>2, <2>3 DEF Vacant
    <2> QED
      BY <1>1, <1>2, <2>2, <2>4 DEF Compressing
  <1>10. Place'
    BY <1>1, <1>9 DEF Place
  <1> QED
    BY <1>8, <1>10 DEF WalkInv

\* A slot passed over, or a child that does not fit.
LEMMA RetainEdits ==
  ASSUME WalkInv, Live, compress_retain
  PROVE  /\ Edited(0, new[node].slots[0])
         /\ new'[node].nr = new[node].nr + new[ChildAt(slot)].nr
         /\ slot \in Slot /\ new_n = node
  <1>1. pc \in Within /\ UNCHANGED <<array, new_parent, node, new_n>> /\ slot < FAN_OUT
        /\ is_meta(new[new_n].slots[slot])
    BY DEF compress_retain, walkVars, Within
  <1>2. new_n = node /\ FAN_OUT \in Nat \ {0} /\ slot \in 0 .. FAN_OUT /\ 0 \in Slot
    BY <1>1, FilledNode, GcAssumption DEF Slot
  <1>3. slot \in Slot
    BY <1>1, <1>2 DEF Slot
  <1>4. PICK n : n = new[new_n].nr + new[ChildAt(slot)].nr
    OBVIOUS
  <1>5. new' = [new EXCEPT ![new_n].nr = n]
    BY <1>4 DEF compress_retain
  <1>6. n \in Nat
    <2>1. new[ChildAt(slot)] \in Nodes(old)
      BY <1>1, <1>3, ChildIsNode
    <2>2. new[node] \in Nodes(old)
      BY <1>1, FilledNode
    <2>3. new[ChildAt(slot)].nr \in Nat /\ new[node].nr \in Nat
      BY <2>1, <2>2, NodeShape
    <2> QED
      BY <1>2, <1>4, <2>3
  <1> QED
    BY <1>1, <1>2, <1>3, <1>4, <1>5, <1>6, EditCount

LEMMA PassInv ==
  ASSUME WalkInv, Live, compress_skip \/ compress_retain
  PROVE  WalkInv'
  <1>1. pc = "compress" /\ pc' = "compress" /\ UNCHANGED <<array, new_parent, node, new_n>>
        /\ slot < FAN_OUT /\ slot' = slot + 1 /\ nr_free' = nr_free /\ next_slot' = next_slot
    BY DEF compress_skip, compress_retain, treeVars, walkVars
  <1>2. pc \in Within /\ pc' \in Within /\ new_n = node /\ FAN_OUT \in Nat \ {0}
        /\ slot \in 0 .. FAN_OUT /\ 0 \in Slot
    BY <1>1, FilledNode, GcAssumption DEF Within, Slot
  <1>3. Edited(0, new[node].slots[0])
    <2>1. CASE compress_skip
      BY <1>1, <1>2, <2>1, EditNothing DEF compress_skip, treeVars
    <2>2. CASE compress_retain
      BY <2>2, RetainEdits
    <2> QED
      BY <2>1, <2>2
  <1>4. \A y, k : y = node /\ k \in Slot => ~Waits(y, k) /\ ~Waits(y, k)'
    BY <1>1, <1>2, WaitsWithin, WaitsThen DEF Within, Slot
  <1>5. Types' /\ Opened' /\ Links' /\ Live'
    BY <1>1, <1>2, <1>3, <1>4, EditOpened
  <1>6. InStep' /\ Compressing'
    <2>1. InStep /\ Compressing
      BY <1>1, <1>2 DEF WalkInv, Place
    <2>2. InStep'
      BY <1>1, <1>2, <2>1 DEF InStep, IsNode
    <2>3. \A k \in Slot : new'[node].slots[k] = new[node].slots[k]
      BY <1>3 DEF Edited
    <2>4. Vacant' = Vacant
      BY <1>1, <1>2, <2>3 DEF Vacant
    <2> QED
      BY <1>1, <1>2, <2>1, <2>2, <2>4 DEF Compressing
  <1>7. Place'
    BY <1>1, <1>6 DEF Place
  <1> QED
    BY <1>5, <1>7 DEF WalkInv


\* Fold a child in: its slot is emptied and its leaves counted.
LEMMA EditFold ==
  ASSUME WalkInv, Live, pc \in Within, NEW s \in Slot, NEW n \in Nat,
         UNCHANGED <<array, new_parent, node, new_n>>,
         new' = [new EXCEPT ![new_n].nr = n, ![new_n].slots[s] = NULL]
  PROVE  Edited(s, NULL) /\ new'[node].nr = n
  <1>1. node \in DOMAIN old /\ new_n = node /\ new[node] \in Nodes(old) /\ new \in NewHeaps(old)
    BY FilledNode, LiveTree
  <1>0. PICK q : q = [new[node] EXCEPT !.nr = n, !.slots[s] = NULL]
    OBVIOUS
  <1>2. /\ q \in Nodes(old) /\ q.t = new[node].t /\ q.back_pointer = new[node].back_pointer
        /\ q.parent_slot = new[node].parent_slot /\ q.nr = n
        /\ \A k \in Slot : q.slots[k] = IF k = s THEN NULL ELSE new[node].slots[k]
    BY <1>0, <1>1 DEF Nodes
  <1>3. new' = [new EXCEPT ![node] = q]
    <2>1. DOMAIN new = DOMAIN old
      BY <1>1 DEF NewHeaps
    <2> QED
      BY <1>0, <1>1, <2>1
  <1>4. new' \in NewHeaps(old) /\ new'[node] = q
        /\ \A x \in DOMAIN old : x # node => new'[x] = new[x]
    <2>1. q \in Nodes(old)
      BY <1>2
    <2> QED
      BY <1>1, <1>3, <2>1 DEF NewHeaps
  <1> QED
    BY <1>1, <1>2, <1>4, FilledNode DEF Edited

LEMMA SlotsFinite ==
  /\ IsFiniteSet(Slot) /\ Cardinality(Slot) = FAN_OUT
  /\ \A T \in SUBSET Slot : IsFiniteSet(T) /\ Cardinality(T) \in Nat
  <1>1. FAN_OUT \in Nat \ {0}
    BY GcAssumption
  <1>2. IsFiniteSet(Slot) /\ Cardinality(Slot) = FAN_OUT
    BY <1>1, FS_Interval DEF Slot
  <1> QED
    BY <1>2, FS_Subset, FS_CardinalityType

LEMMA FoldBeginEdits ==
  ASSUME WalkInv, Live, compress_fold
  PROVE  LET c == ChildAt(slot)
         IN /\ slot \in Slot /\ new_n = node
            /\ c = new[node].slots[slot].id /\ c \in DOMAIN old
            /\ new[node].slots[slot] = NodePtr(c) /\ new[c].t = "node" /\ new[c] \in Nodes(old)
            /\ NewUp(c) = NodePtr(node) /\ new[c].parent_slot = slot
            /\ node \in Anc(array, c) /\ node # c
            /\ Edited(slot, NULL) /\ new'[node].nr = new[node].nr + new[c].nr
  <1> DEFINE c == ChildAt(slot)
  <1>1. /\ pc = "compress" /\ UNCHANGED <<array, new_parent, node, new_n>> /\ slot < FAN_OUT
        /\ is_meta(new[new_n].slots[slot]) /\ ~is_shortcut(new[new_n].slots[slot])
    BY DEF compress_fold
  <1>2. pc \in Within /\ new_n = node /\ FAN_OUT \in Nat \ {0}
        /\ slot \in 0 .. FAN_OUT /\ slot \in Slot /\ node \in DOMAIN old /\ new[node] \in Nodes(old)
    BY <1>1, FilledNode, GcAssumption DEF Within, Slot
  <1>3. /\ c = new[node].slots[slot].id /\ c \in DOMAIN old
        /\ new[node].slots[slot] = NodePtr(c) /\ new[c].t = "node" /\ new[c] \in Nodes(old)
        /\ NewUp(c) = NodePtr(node) /\ new[c].parent_slot = slot
        /\ node \in Anc(array, c) /\ node # c
    <2>1. c = new[node].slots[slot].id
      BY <1>1, <1>2 DEF ChildAt
    <2>2. new[node].slots[slot].t = "node"
      BY <1>1, <1>2 DEF is_meta, is_shortcut
    <2> HIDE DEF c
    <2> QED
      BY <1>1, <1>2, <2>1, <2>2, ChildIsNode DEF NodePtr, c
  <1>4. PICK n : n = new[new_n].nr + new[c].nr
    OBVIOUS
  <1>5. new' = [new EXCEPT ![new_n].nr = n, ![new_n].slots[slot] = NULL]
    BY <1>4 DEF compress_fold
  <1> HIDE DEF c
  <1>6. new[c].nr \in Nat /\ new[node].nr \in Nat
    BY <1>2, <1>3, NodeShape
  <1>7. n \in Nat
    BY <1>2, <1>4, <1>6
  <1>8. Edited(slot, NULL) /\ new'[node].nr = n
    BY <1>1, <1>2, <1>5, <1>7, EditFold
  <1> QED
    BY <1>2, <1>3, <1>4, <1>8 DEF c

LEMMA FoldBegins ==
  ASSUME WalkInv, Live, compress_fold
  PROVE  WalkInv'
  <1> DEFINE c == ChildAt(slot)
  <1>1. /\ pc = "compress" /\ pc' = "fold" /\ UNCHANGED <<array, new_parent, node, new_n>>
        /\ slot < FAN_OUT /\ slot' = slot /\ nr_free' = nr_free + 1 /\ i' = 0
        /\ next_slot' = IF slot < next_slot THEN slot ELSE next_slot
        /\ cursor' = NodePtr(c)
        /\ is_meta(new[new_n].slots[slot]) /\ ~is_shortcut(new[new_n].slots[slot])
    BY DEF compress_fold
  <1>2. pc \in Within /\ pc' \in Within /\ new_n = node /\ FAN_OUT \in Nat \ {0}
        /\ slot \in 0 .. FAN_OUT /\ slot \in Slot /\ node \in DOMAIN old /\ new[node] \in Nodes(old)
    BY <1>1, FilledNode, GcAssumption DEF Within, Slot
  <1>3. /\ c = new[node].slots[slot].id /\ c \in DOMAIN old
        /\ new[node].slots[slot] = NodePtr(c) /\ new[c].t = "node" /\ new[c] \in Nodes(old)
        /\ NewUp(c) = NodePtr(node) /\ new[c].parent_slot = slot
        /\ node \in Anc(array, c) /\ node # c
    BY FoldBeginEdits
  <1>4. Edited(slot, NULL)
    BY FoldBeginEdits
  <1> HIDE DEF c
  <1>5. \A y, k : y = node /\ k \in Slot => ~Waits(y, k) /\ ~Waits(y, k)'
    BY <1>1, <1>2, WaitsWithin, WaitsThen DEF Within, Slot
  <1>6. ~is_meta(NULL)
    BY DEF is_meta, NULL
  <1>7. Types' /\ Opened' /\ Links' /\ Live'
    BY <1>1, <1>2, <1>4, <1>5, <1>6, EditOpened
  <1>8. InStep' /\ Compressing'
    <2>1. InStep /\ Compressing
      BY <1>1, <1>2 DEF WalkInv, Place
    <2>2. InStep'
      BY <1>1, <1>2, <2>1 DEF InStep, IsNode
    <2>3. Vacant' = Vacant \cup {slot} /\ slot \notin Vacant
      <3>1. \A k \in Slot : new'[node].slots[k] = IF k = slot THEN NULL ELSE new[node].slots[k]
        BY <1>4 DEF Edited
      <3>2. new[node].slots[slot] # NULL
        BY <1>3 DEF NodePtr, NULL
      <3> QED
        BY <1>1, <1>2, <3>1, <3>2 DEF Vacant
    <2>4. Cardinality(Vacant') = Cardinality(Vacant) + 1
      <3>1. IsFiniteSet(Vacant)
        BY SlotsFinite DEF Vacant
      <3> QED
        BY <2>3, <3>1, FS_AddElement
    <2> QED
      BY <1>1, <1>2, <2>1, <2>2, <2>4 DEF Compressing
  <1>9. Folding'
    <2>1. new'[c] = new[c] /\ new'[node].slots[slot] = NULL
          /\ \A k \in Slot : k # slot => new'[node].slots[k] = new[node].slots[k]
      BY <1>2, <1>3, <1>4 DEF Edited
    <2>2. ASSUME NEW k \in Slot PROVE new'[node].slots[k] # NodePtr(c)
      <3>1. CASE k = slot
        BY <2>1, <3>1 DEF NULL, NodePtr
      <3>2. CASE k # slot
        <4> SUFFICES ASSUME new[node].slots[k] = NodePtr(c) PROVE FALSE
          BY <2>1, <3>2
        <4>1. is_meta(new[node].slots[k]) /\ new[node].slots[k].id = c
          BY DEF is_meta, NodePtr
        <4>2. new[c].parent_slot = k
          BY <1>2, <4>1, ChildIsNode
        <4> QED
          BY <1>3, <3>2, <4>2
      <3> QED
        BY <3>1, <3>2
    <2>3. old' = old
      BY <1>1 DEF old
    <2>4. NodePtr(c).id = c
      BY DEF NodePtr
    <2>5. i' \in 0 .. FAN_OUT /\ \A k \in Slot : ~(k < i')
      BY <1>1, <1>2 DEF Slot
    <2> QED
      BY <1>1, <1>2, <1>3, <1>6, <2>1, <2>2, <2>3, <2>4, <2>5 DEF Folding, NewUp
  <1>10. Place'
    BY <1>1, <1>8, <1>9 DEF Place
  <1> QED
    BY <1>7, <1>10 DEF WalkInv

\* The first free slot from s on.
LEMMA FirstFree ==
  ASSUME NEW s \in 0 .. FAN_OUT
  PROVE  /\ FreeFrom(s) \in s .. FAN_OUT
         /\ FreeFrom(s) < FAN_OUT => new[new_n].slots[FreeFrom(s)] = NULL
         /\ \A j \in s .. FreeFrom(s) - 1 : new[new_n].slots[j] # NULL
  <1> DEFINE Ok(k) == /\ k < FAN_OUT => new[new_n].slots[k] = NULL
                      /\ \A j \in s .. k - 1 : new[new_n].slots[j] # NULL
             T == {k \in s .. FAN_OUT : k < FAN_OUT => new[new_n].slots[k] = NULL}
  <1>1. FAN_OUT \in Nat /\ FAN_OUT \in T /\ T \subseteq Nat
    BY GcAssumption
  <1>2. PICK k \in T : \A j \in T : k <= j
    <2> HIDE DEF T
    <2> QED
      BY <1>1, LeastNumber
  <1>3. \E m \in s .. FAN_OUT : Ok(m)
    <2>1. k \in s .. FAN_OUT /\ k \in Int
      BY <1>1, <1>2
    <2>2. ASSUME NEW j \in s .. k - 1 PROVE new[new_n].slots[j] # NULL
      <3>1. j \in s .. FAN_OUT /\ ~(k <= j)
        BY <1>1, <2>1
      <3>2. j \notin T
        BY <1>2, <3>1
      <3> QED
        BY <3>1, <3>2
    <2> QED
      BY <1>2, <2>1, <2>2
  <1>4. FreeFrom(s) = CHOOSE m \in s .. FAN_OUT : Ok(m)
    BY DEF FreeFrom
  <1> HIDE DEF Ok
  <1>5. FreeFrom(s) \in s .. FAN_OUT /\ Ok(FreeFrom(s))
    BY <1>3, <1>4
  <1> QED
    BY <1>5 DEF Ok

\* A pointer of the child moves into a free slot, or there is none to move.
LEMMA FoldEdits ==
  ASSUME WalkInv, Live, fold
  PROVE  LET p == new[cursor.id].slots[i]
             f == FreeFrom(next_slot)
         IN /\ cursor.id \in DOMAIN old /\ cursor.id # node /\ i \in Slot /\ next_slot \in 0 .. FAN_OUT
            /\ new[cursor.id].t = "node" /\ new_n = node
            /\ \/ p = NULL /\ UNCHANGED <<new, next_slot, nr_free>>
               \/ /\ p.t = "leaf" /\ p \in Pointers(old) /\ f \in next_slot .. FAN_OUT
                  /\ f \in Slot /\ f + 1 \in 0 .. FAN_OUT /\ new[node].slots[f] = NULL
                  /\ next_slot' = f + 1 /\ nr_free' = nr_free - 1
                  /\ Edited(f, p) /\ new'[node].nr = new[node].nr
  <1> DEFINE p == new[cursor.id].slots[i]
             f == FreeFrom(next_slot)
  <1>1. /\ pc = "fold" /\ UNCHANGED <<array, new_parent, node, new_n>> /\ i < FAN_OUT
    BY DEF fold, walkVars
  <1>2. pc \in Within /\ new_n = node /\ FAN_OUT \in Nat \ {0}
    BY <1>1, FilledNode, GcAssumption DEF Within
  <1>3. Compressing /\ Folding
    BY <1>1, <1>2 DEF WalkInv, Place
  <1>4. cursor.id \in DOMAIN old /\ cursor.id # node /\ i \in Slot
        /\ new[cursor.id].t = "node" /\ next_slot \in 0 .. FAN_OUT
    BY <1>1, <1>2, <1>3 DEF Folding, Compressing, Slot
  <1>5. CASE /\ p.t = "leaf" /\ f < FAN_OUT /\ new' = [new EXCEPT ![new_n].slots[f] = p]
             /\ next_slot' = f + 1 /\ nr_free' = nr_free - 1
    <2>1. f \in next_slot .. FAN_OUT /\ new[new_n].slots[f] = NULL
      BY <1>4, <1>5, FirstFree
    <2> HIDE DEF f
    <2>2. f \in Slot /\ f + 1 \in 0 .. FAN_OUT
      BY <1>2, <1>4, <1>5, <2>1 DEF Slot
    <2>3. p \in Pointers(old)
      <3>1. new[cursor.id] \in Nodes(old)
        BY <1>4, LiveTree, NewShape
      <3> QED
        BY <1>4, <3>1, NodeShape
    <2>4. Edited(f, p) /\ new'[node].nr = new[node].nr
      BY <1>1, <1>2, <1>5, <2>2, <2>3, EditSlot
    <2> QED
      BY <1>2, <1>4, <1>5, <2>1, <2>2, <2>3, <2>4 DEF f
  <1>6. CASE p = NULL /\ UNCHANGED <<new, next_slot, nr_free>>
    BY <1>2, <1>4, <1>6
  <1> QED
    BY <1>5, <1>6 DEF fold

LEMMA FoldInv ==
  ASSUME WalkInv, Live, fold
  PROVE  WalkInv'
  <1> DEFINE p == new[cursor.id].slots[i]
             f == FreeFrom(next_slot)
  <1>1. /\ pc = "fold" /\ pc' = "fold" /\ UNCHANGED <<array, new_parent, node, new_n, cursor>>
        /\ slot' = slot /\ i < FAN_OUT /\ i' = i + 1
    BY DEF fold, walkVars
  <1>2. pc \in Within /\ new_n = node /\ FAN_OUT \in Nat \ {0}
        /\ node \in DOMAIN old /\ new[node] \in Nodes(old) /\ 0 \in Slot
    BY <1>1, FilledNode, GcAssumption DEF Within, Slot
  <1>3. InStep /\ Compressing /\ Folding
    BY <1>1, <1>2 DEF WalkInv, Place
  <1>4. cursor.id \in DOMAIN old /\ cursor.id # node /\ i \in 0 .. FAN_OUT /\ i \in Slot
        /\ new[cursor.id].t = "node" /\ next_slot \in 0 .. FAN_OUT
    BY <1>1, <1>2, <1>3 DEF Folding, Compressing, Slot
  <1>5. \A y, k : y = node /\ k \in Slot => ~Waits(y, k) /\ ~Waits(y, k)'
    BY <1>1, <1>2, WaitsWithin, WaitsThen DEF Within, Slot
  <1>6. InStep'
    BY <1>1, <1>2, <1>3 DEF InStep, IsNode
  <1>7. CASE p = NULL /\ UNCHANGED <<new, next_slot, nr_free>>
    <2>1. Edited(0, new[node].slots[0])
      BY <1>1, <1>2, <1>7, EditNothing
    <2>2. Types' /\ Opened' /\ Links' /\ Live'
      BY <1>1, <1>2, <1>5, <2>1, EditOpened
    <2>3. Vacant' = Vacant /\ old' = old
      BY <1>1, <1>7 DEF Vacant, old
    <2>4. Compressing'
      BY <1>2, <1>3, <1>7, <2>3 DEF Compressing
    <2>5. i' \in 0 .. FAN_OUT /\ \A k \in Slot : k < i' => ~is_meta(new[cursor.id].slots[k])
      <3>1. ~is_meta(p)
        BY <1>7 DEF is_meta, NULL
      <3>2. \A k \in Slot : k < i + 1 => k < i \/ k = i
        BY <1>4 DEF Slot
      <3> QED
        BY <1>1, <1>2, <1>3, <1>4, <3>1, <3>2 DEF Folding
    <2>6. Folding'
      BY <1>1, <1>3, <1>7, <2>3, <2>5 DEF Folding, NewUp
    <2> QED
      BY <1>1, <1>6, <2>2, <2>4, <2>6 DEF WalkInv, Place
  <1>8. CASE /\ p.t = "leaf" /\ p \in Pointers(old) /\ f \in next_slot .. FAN_OUT
             /\ f \in Slot /\ f + 1 \in 0 .. FAN_OUT /\ new[node].slots[f] = NULL
             /\ next_slot' = f + 1 /\ nr_free' = nr_free - 1 /\ Edited(f, p)
    <2> HIDE DEF f
    <2>3. ~is_meta(p)
      BY <1>8 DEF is_meta
    <2>5. Types' /\ Opened' /\ Links' /\ Live'
      BY <1>1, <1>2, <1>5, <1>8, <2>3, EditOpened
    <2>6. new'[cursor.id] = new[cursor.id] /\ old' = old
          /\ \A k \in Slot : new'[node].slots[k] = IF k = f THEN p ELSE new[node].slots[k]
      BY <1>1, <1>4, <1>8 DEF Edited, old
    <2>7. Compressing'
      <3>1. p # NULL
        BY <1>8 DEF NULL
      <3>2. Vacant' = Vacant \ {f} /\ f \in Vacant
        BY <1>1, <1>2, <1>8, <2>6, <3>1 DEF Vacant
      <3>3. Cardinality(Vacant') = Cardinality(Vacant) - 1
        <4>1. IsFiniteSet(Vacant)
          BY SlotsFinite DEF Vacant
        <4> QED
          BY <3>2, <4>1, FS_RemoveElement
      <3> QED
        BY <1>2, <1>3, <1>8, <3>3 DEF Compressing
    <2>8. i' \in 0 .. FAN_OUT /\ \A k \in Slot : k < i' => ~is_meta(new[cursor.id].slots[k])
      <3>1. \A k \in Slot : k < i + 1 => k < i \/ k = i
        BY <1>4 DEF Slot
      <3>2. ~is_meta(p)
        BY <2>3
      <3>3. \A k \in Slot : k < i + 1 => ~is_meta(new[cursor.id].slots[k])
        BY <1>3, <3>1, <3>2 DEF Folding
      <3> QED
        BY <1>1, <1>2, <1>4, <3>3
    <2>9. p # cursor
      BY <1>3, <1>8 DEF Folding, NodePtr
    <2>10. /\ cursor' = NodePtr(cursor'.id) /\ cursor'.id \in DOMAIN old' /\ new'[cursor'.id].t = "node"
           /\ new'[cursor'.id].back_pointer = NodePtr(node')
           /\ node' \in Anc(array', cursor'.id) /\ node' # cursor'.id
           /\ slot' < FAN_OUT
      BY <1>1, <1>3, <2>6 DEF Folding, NewUp
    <2>11. \A k \in Slot : new'[node'].slots[k] # cursor'
      BY <1>1, <1>3, <2>6, <2>9 DEF Folding
    <2>12. ~is_meta(new'[node'].slots[slot'])
      <3>1. slot \in Slot
        BY <1>2, <1>3 DEF Folding, InStep, Slot
      <3> QED
        BY <1>1, <1>3, <2>3, <2>6, <3>1 DEF Folding
    <2>13. \A k \in Slot : k < i' => ~is_meta(new'[cursor'.id].slots[k])
      BY <1>1, <2>6, <2>8
    <2>14. Folding'
      BY <2>8, <2>10, <2>11, <2>12, <2>13 DEF Folding, NewUp
    <2> QED
      BY <1>1, <1>6, <2>5, <2>7, <2>14 DEF WalkInv, Place
  <1> QED
    BY <1>7, <1>8, FoldEdits


\* The emptied child is freed.
LEMMA FoldEnds ==
  ASSUME WalkInv, Live, fold_end
  PROVE  WalkInv'
  <1> DEFINE c == cursor.id
  <1>1. /\ pc = "fold" /\ pc' = "compress" /\ UNCHANGED <<array, new_parent, node, new_n>>
        /\ slot' = slot + 1 /\ next_slot' = next_slot /\ nr_free' = nr_free
        /\ new' = [new EXCEPT ![c] = Freed] /\ old' = old
    BY DEF fold_end, walkVars, kfree, old
  <1>2. pc \in Within /\ pc' \in Within /\ new_n = node /\ FAN_OUT \in Nat \ {0}
        /\ node \in DOMAIN old /\ slot \in 0 .. FAN_OUT
    BY <1>1, FilledNode, GcAssumption DEF Within
  <1>3. InStep /\ Compressing /\ Folding
    BY <1>1, <1>2 DEF WalkInv, Place
  <1>4. /\ cursor = NodePtr(c) /\ c \in DOMAIN old /\ c # node /\ node \in Anc(array, c)
        /\ new[c].t = "node" /\ NewUp(c) = NodePtr(node) /\ slot < FAN_OUT
        /\ \A k \in Slot : new[node].slots[k] # NodePtr(c)
    BY <1>3 DEF Folding
  <1> HIDE DEF c
  <1>5. IsArray(array) /\ new \in NewHeaps(old) /\ old = array.heap /\ DOMAIN new = DOMAIN old
    BY LiveTree DEF NewHeaps
  <1>6. /\ new' \in NewHeaps(old) /\ DOMAIN new' = DOMAIN new /\ new'[c] = Freed
        /\ \A x \in DOMAIN old : x # c => new'[x] = new[x]
    BY <1>1, <1>4, <1>5 DEF NewHeaps
  <1>7. Freed.t = "freed" /\ Freed # Absent
    BY DEF Freed, Absent
  <1>8. c \notin Anc(array, node)
    BY <1>2, <1>4, <1>5, AncOnce
  <1>9. Types' /\ Live'
    BY <1>1, <1>2, <1>5, <1>6 DEF Types, WalkInv, Walking, Live
  <1>10. \A y, k : Waits(y, k)' <=> After(array, node, y, k)
    BY <1>1, <1>2, WaitsThen DEF Within
  <1>11. \A y, k : Waits(y, k) <=> After(array, node, y, k)
    BY <1>1, <1>2, WaitsWithin
  <1>12. Opened'
    <2>1. ASSUME NEW x \in DOMAIN old, IsOpen(x)'
          PROVE  /\ new'[x].t = old[x].t
                 /\ new'[x].back_pointer = Up(array, x)
                 /\ new'[x].parent_slot = old[x].parent_slot
      <3>1. IsOpen(x) /\ x \in Anc(array, new_parent.id)
        BY <1>1, <1>2, <2>1 DEF IsOpen, Walking
      <3>2. new_parent.id = node
        BY <1>3 DEF InStep, NodePtr
      <3>3. new'[x] = new[x]
        BY <1>6, <1>8, <3>1, <3>2
      <3> QED
        BY <3>1, <3>3 DEF WalkInv, Opened, NewUp
    <2>2. ASSUME NEW x \in DOMAIN old PROVE new'[x] = Absent <=> Unvisited(x)'
      <3>1. Unvisited(x)' <=> Unvisited(x)
        BY <1>1, <1>10, <1>11 DEF Unvisited
      <3>2. new[x] = Absent <=> Unvisited(x)
        BY DEF WalkInv, Opened
      <3>3. new[c] # Absent
        BY <1>4 DEF Absent
      <3> QED
        BY <1>6, <1>7, <3>1, <3>2, <3>3
    <2>3. ASSUME NEW y \in DOMAIN old, NEW k \in Slot, Waits(y, k)'
          PROVE  new'[y].t = "node" /\ new'[y].slots[k] = NULL
      <3>1. Waits(y, k) /\ After(array, node, y, k)
        BY <1>10, <1>11, <2>3
      <3>2. y \in Anc(array, node)
        BY <1>2, <1>5, <3>1, AfterAbove
      <3> QED
        BY <1>6, <1>8, <3>1, <3>2 DEF WalkInv, Opened
    <2> QED
      BY <1>1, <2>1, <2>2, <2>3 DEF Opened, NewUp
  <1>13. ASSUME NEW x \in DOMAIN old, NEW q, NEW back, NEW k,
                Linked(array, new, x, q, back, k), q.id # c
         PROVE  Linked(array, new', x, q, back, k)
    <2>1. q \in Meta(new) /\ q.id \in DOMAIN old
      BY <1>5, <1>13 DEF Linked, Leads, Meta
    <2>2. new'[q.id] = new[q.id] /\ q \in Meta(new')
      BY <1>6, <1>13, <2>1 DEF Meta
    <2> QED
      BY <1>13, <2>2 DEF Linked, Leads
  <1>14. Links'
    <2>1. ASSUME NEW x \in DOMAIN old, NEW k \in Slot, new'[x].t = "node", is_meta(new'[x].slots[k])
          PROVE  Linked(array, new', x, new'[x].slots[k], NodePtr(x), k)
      <3>1. x # c /\ new'[x] = new[x]
        BY <1>6, <1>7, <2>1
      <3>2. Linked(array, new, x, new[x].slots[k], NodePtr(x), k)
        BY <2>1, <3>1 DEF WalkInv, Links
      <3>3. new[x].slots[k].id # c
        <4> SUFFICES ASSUME new[x].slots[k].id = c PROVE FALSE
          OBVIOUS
        <4>1. NewUp(c) = NodePtr(x) /\ new[x].slots[k].t = "node" /\ new[x].slots[k] \in Meta(new)
          BY <1>4, <3>2 DEF Linked, Leads, NewUp
        <4>2. x = node
          BY <1>4, <4>1 DEF NodePtr
        <4>3. new[x].slots[k] = NodePtr(c)
          BY <4>1 DEF Meta, NodePtr
        <4> QED
          BY <1>4, <4>2, <4>3
      <3> QED
        BY <1>13, <3>1, <3>2, <3>3
    <2>2. ASSUME NEW x \in DOMAIN old, new'[x].t = "shortcut"
          PROVE  /\ new'[x].next_node = old[x].next_node
                 /\ Linked(array, new', x, new'[x].next_node, ShortcutPtr(x), 0)
      <3>1. x # c /\ new'[x] = new[x]
        BY <1>6, <1>7, <2>2
      <3>2. new[x].next_node = old[x].next_node /\ Linked(array, new, x, new[x].next_node, ShortcutPtr(x), 0)
        BY <1>1, <2>2, <3>1 DEF WalkInv, Links
      <3>3. new[x].next_node.id # c
        <4> SUFFICES ASSUME new[x].next_node.id = c PROVE FALSE
          OBVIOUS
        <4>1. NewUp(c) = ShortcutPtr(x)
          BY <3>2 DEF Linked, Leads, NewUp
        <4> QED
          BY <1>4, <4>1 DEF NodePtr, ShortcutPtr
      <3> QED
        BY <1>13, <3>1, <3>2, <3>3
    <2> QED
      BY <1>1, <2>1, <2>2 DEF Links
  <1>15. InStep' /\ Compressing'
    <2>1. InStep'
      BY <1>1, <1>2, <1>3, <1>4 DEF InStep, IsNode
    <2>2. Vacant' = Vacant
      BY <1>1, <1>2, <1>4, <1>6 DEF Vacant
    <2> QED
      BY <1>1, <1>3, <2>1, <2>2 DEF Compressing
  <1>16. Place'
    BY <1>1, <1>15 DEF Place
  <1> QED
    BY <1>9, <1>12, <1>14, <1>16 DEF WalkInv

\* Once more: nothing changes but the program counter.
LEMMA RetryInv ==
  ASSUME WalkInv, Live, retry
  PROVE  WalkInv'
  <1>1. /\ pc = "compress" /\ pc' = "retry_compress"
        /\ UNCHANGED <<treeVars, walkVars, foldVars>> /\ slot = FAN_OUT
    BY DEF retry
  <1>2. pc \in Within /\ pc' \in Within /\ UNCHANGED <<array, new, new_parent, node, new_n, slot>>
    BY <1>1 DEF treeVars, walkVars, foldVars, Within
  <1>3. \A y, k : y = node /\ k \in Slot => ~Waits(y, k) /\ ~Waits(y, k)'
    BY <1>1, <1>2, WaitsWithin, WaitsThen DEF Within, Slot
  <1>4. Types' /\ Opened' /\ Links' /\ Live'
    BY <1>1, <1>2, <1>3, EditNothing, EditOpened
  <1>5. InStep'
    <2>1. InStep
      BY <1>1, <1>2 DEF WalkInv, Place
    <2> QED
      BY <1>2, <2>1 DEF InStep, IsNode
  <1>6. Place'
    BY <1>1, <1>5 DEF Place
  <1> QED
    BY <1>4, <1>6 DEF WalkInv


\* The next slot of the old node leads to an object: go down.
LEMMA DescendBegins ==
  ASSUME WalkInv, Live, continue_node, pc' = "descend"
  PROVE  WalkInv'
  <1> DEFINE ptr == old[node].slots[slot]
             c == ptr.id
  <1>1. /\ pc = "continue_node" /\ slot < FAN_OUT /\ pc \in Within
        /\ UNCHANGED <<array, new, new_parent, node, new_n>> /\ old' = old
        /\ dest' = [t |-> "node", id |-> new_n, slot |-> slot] /\ cursor' = ptr /\ is_meta(ptr)
    BY DEF continue_node, Within, old
  <1>2. /\ IsArray(array) /\ old = array.heap /\ new \in NewHeaps(old)
        /\ node \in DOMAIN old /\ new_n = node /\ old[node].t = "node" /\ new_parent = NodePtr(node)
        /\ slot \in Slot
    BY <1>1, FilledNode, LiveTree, GcAssumption DEF Slot
  <1>3. /\ ptr \in Meta(old) /\ c \in DOMAIN old /\ old[c].t = ptr.t
        /\ Up(array, c) = NodePtr(node) /\ old[c].parent_slot = slot
    BY <1>1, <1>2, Down
  <1> HIDE DEF c, ptr
  <1>4. Types' /\ Live'
    BY <1>1, <1>2 DEF Types, WalkInv, Walking, Live
  <1>5. \A y, k : Waits(y, k) <=> \/ After(array, node, y, k)
                                  \/ y = node /\ slot <= k
    BY <1>1, WaitsWithin
  <1>6. Up(array, c).t = "node" /\ Up(array, c).id = node
    BY <1>3 DEF NodePtr
  <1>7. \A y, k : Waits(y, k)' <=> \/ After(array, node, y, k)
                                   \/ y = node /\ slot < k
    <2>1. \A y, k : Waits(y, k)' <=> After(array, c, y, k)
      BY <1>1 DEF Waits, Within, c
    <2> QED
      BY <1>2, <1>3, <1>6, <2>1, AfterSplit
  <1>8. \A y, k : k \in Slot => (Waits(y, k) <=> Waits(y, k)' \/ (y = node /\ k = slot))
    BY <1>2, <1>5, <1>7, GcAssumption DEF Slot
  <1>9. Descending'
    <2>1. new[node].slots[slot] = NULL
      <3>1. Waits(node, slot)
        BY <1>2, <1>5, GcAssumption DEF Slot
      <3> QED
        BY <1>2, <3>1 DEF WalkInv, Opened
    <2>2. NodePtr(node).t = "node" /\ NodePtr(node).id = node /\ NodePtr(node) # NULL
      BY DEF NodePtr, NULL
    <2> QED
      BY <1>1, <1>2, <1>3, <2>1, <2>2 DEF Descending, c
  <1>10. Opened'
    <2>1. ASSUME NEW x \in DOMAIN old PROVE IsOpen(x)' <=> IsOpen(x)
      BY <1>1 DEF IsOpen, Walking, Within
    <2>2. ASSUME NEW x \in DOMAIN old PROVE Unvisited(x)' <=> Unvisited(x)
      <3>1. Unvisited(x)' <=> \/ c \in Anc(array, x)
                              \/ \E y \in DOMAIN old, k \in Slot : Waits(y, k)' /\ x \in Behind(array, y, k)
        BY <1>1 DEF Unvisited, c
      <3>2. Unvisited(x) <=> \E y \in DOMAIN old, k \in Slot : Waits(y, k) /\ x \in Behind(array, y, k)
        BY <1>1 DEF Unvisited
      <3>3. x \in Behind(array, node, slot) <=> c \in Anc(array, x)
        BY <1>1, <1>2 DEF Behind, ptr, c
      <3> QED
        BY <1>2, <1>8, <3>1, <3>2, <3>3
    <2> QED
      BY <1>1, <1>8, <2>1, <2>2 DEF Opened, NewUp, WalkInv
  <1>11. Links'
    BY <1>1 DEF Links, WalkInv
  <1>12. Place'
    BY <1>1, <1>9 DEF Place, Within
  <1> QED
    BY <1>4, <1>10, <1>11, <1>12 DEF WalkInv

-----------------------------------------------------------------------------
(* Copying an object.                                                      *)

\* The present object is copied and the pointer to it set.
Copied ==
  /\ array' = array /\ new_parent' = cursor
  /\ new' \in NewHeaps(old)
  /\ \A x \in DOMAIN old : x # cursor.id /\ (new_parent = NULL \/ x # new_parent.id) => new'[x] = new[x]
  /\ new'[cursor.id].t = cursor.t
  /\ new'[cursor.id].back_pointer = new_parent
  /\ new'[cursor.id].parent_slot = old[cursor.id].parent_slot
  /\ new_parent # NULL =>
       /\ new'[new_parent.id].t = new[new_parent.id].t
       /\ new'[new_parent.id].back_pointer = new[new_parent.id].back_pointer
       /\ new'[new_parent.id].parent_slot = new[new_parent.id].parent_slot
  /\ new_parent.t = "node" =>
       \A k \in Slot : new'[new_parent.id].slots[k] =
         IF k = old[cursor.id].parent_slot THEN cursor ELSE new[new_parent.id].slots[k]
  /\ new_parent.t = "shortcut" => new'[new_parent.id].next_node = cursor
  /\ cursor.t = "node" => \A k \in Slot : new'[cursor.id].slots[k] = NULL
  /\ cursor.t = "shortcut" => new'[cursor.id].next_node.t = "old" /\ pc' = "descend"

\* The object to be copied, and the one above it.
LEMMA DescendPlace ==
  ASSUME WalkInv, Live, pc = "descend"
  PROVE  /\ IsArray(array) /\ old = array.heap /\ new \in NewHeaps(old) /\ DOMAIN new = DOMAIN old
         /\ cursor \in Meta(old) /\ cursor.id \in DOMAIN old /\ old[cursor.id].t = cursor.t
         /\ cursor = [t |-> cursor.t, id |-> cursor.id] /\ cursor.t \in {"node", "shortcut"}
         /\ new[cursor.id] = Absent
         /\ Up(array, cursor.id) = new_parent
         /\ new_parent \in {NULL} \cup Meta(old)
         /\ new_parent = NULL => new_parent.t = "null"
         /\ new_parent # NULL =>
              /\ new_parent.id \in DOMAIN old /\ new_parent.t \in {"node", "shortcut"}
              /\ new_parent = [t |-> new_parent.t, id |-> new_parent.id]
              /\ new[new_parent.id].t = new_parent.t
              /\ new_parent.id # cursor.id /\ new_parent.id \in Anc(array, cursor.id)
              /\ Anc(array, cursor.id) = {cursor.id} \cup Anc(array, new_parent.id)
         /\ new_parent = NULL => Anc(array, cursor.id) = {cursor.id}
  <1>1. IsArray(array) /\ old = array.heap /\ new \in NewHeaps(old) /\ DOMAIN new = DOMAIN old
    BY LiveTree DEF NewHeaps
  <1>2. Descending
    BY DEF WalkInv, Place
  <1>3. /\ cursor \in Meta(old) /\ cursor.id \in DOMAIN old /\ old[cursor.id].t = cursor.t
        /\ cursor = [t |-> cursor.t, id |-> cursor.id] /\ cursor.t \in {"node", "shortcut"}
        /\ Up(array, cursor.id) = new_parent
    BY <1>2 DEF Descending, Meta
  <1>4. new[cursor.id] = Absent
    <2>1. Unvisited(cursor.id)
      BY <1>1, <1>3, AncClimbs DEF Unvisited
    <2> QED
      BY <1>3, <2>1 DEF WalkInv, Opened
  <1>5. new_parent = NULL => new_parent.t = "null" /\ Anc(array, cursor.id) = {cursor.id}
    BY <1>1, <1>3, AncSplit DEF NULL
  <1>6. ASSUME new_parent # NULL
        PROVE  /\ new_parent \in Meta(old)
               /\ new_parent.id \in DOMAIN old /\ new_parent.t \in {"node", "shortcut"}
               /\ new_parent = [t |-> new_parent.t, id |-> new_parent.id]
               /\ new[new_parent.id].t = new_parent.t
               /\ new_parent.id # cursor.id /\ new_parent.id \in Anc(array, cursor.id)
               /\ Anc(array, cursor.id) = {cursor.id} \cup Anc(array, new_parent.id)
    <2>1. /\ new_parent.id \in DOMAIN old /\ new_parent \in Meta(old)
          /\ new_parent.id # cursor.id /\ new_parent.id \in Anc(array, cursor.id)
          /\ Anc(array, cursor.id) = {cursor.id} \cup Anc(array, new_parent.id)
          /\ old[new_parent.id].t = new_parent.t
      BY <1>1, <1>3, <1>6, AncSplit, UpIsAbove, UpPoints
    <2>2. IsOpen(new_parent.id)
      BY <1>1, <1>6, <2>1, AncClimbs DEF IsOpen, Walking
    <2>3. new[new_parent.id].t = old[new_parent.id].t
      BY <2>1, <2>2 DEF WalkInv, Opened
    <2> QED
      BY <2>1, <2>3 DEF Meta
  <1> QED
    BY <1>1, <1>3, <1>4, <1>5, <1>6

\* What the copying leaves as it is.
LEMMA CopyFrame ==
  ASSUME WalkInv, Live, pc = "descend", Copied, NEW x \in DOMAIN old, x # cursor.id
  PROVE  /\ new'[x].t = new[x].t
         /\ new'[x] = Absent <=> new[x] = Absent
         /\ new[x].t \in {"node", "shortcut"} =>
              new'[x].back_pointer = new[x].back_pointer /\ new'[x].parent_slot = new[x].parent_slot
  <1>1. CASE new_parent # NULL /\ x = new_parent.id
    <2>1. new'[x].t = new[x].t /\ new'[x].back_pointer = new[x].back_pointer
          /\ new'[x].parent_slot = new[x].parent_slot
      BY <1>1 DEF Copied
    <2>2. new'[x] = Absent <=> new'[x].t = "absent"
      BY NewShape DEF Copied
    <2>3. new[x] = Absent <=> new[x].t = "absent"
      BY NewShape, LiveTree
    <2> QED
      BY <2>1, <2>2, <2>3
  <1>2. CASE new_parent = NULL \/ x # new_parent.id
    BY <1>2 DEF Copied
  <1> QED
    BY <1>1, <1>2

LEMMA CopyLinks ==
  ASSUME WalkInv, Live, pc = "descend", Copied
  PROVE  Links'
  <1> DEFINE c == cursor.id
             u == new_parent.id
  <1>1. /\ IsArray(array) /\ old = array.heap /\ DOMAIN new = DOMAIN old
        /\ old' = old /\ array' = array /\ DOMAIN new' = DOMAIN old /\ new_parent' = cursor
    BY LiveTree DEF Copied, NewHeaps, old
  <1>2. /\ cursor \in Meta(old) /\ c \in DOMAIN old /\ old[c].t = cursor.t
        /\ cursor = [t |-> cursor.t, id |-> c] /\ cursor.t \in {"node", "shortcut"}
        /\ new[c] = Absent /\ Up(array, c) = new_parent
    BY DescendPlace
  <1>3. new_parent # NULL =>
          /\ u \in DOMAIN old /\ new_parent.t \in {"node", "shortcut"}
          /\ new_parent = [t |-> new_parent.t, id |-> u] /\ new[u].t = new_parent.t
          /\ u # c /\ u \in Anc(array, c)
    BY DescendPlace
  <1>4. ASSUME NEW x, NEW q, NEW back, NEW k, Linked(array, new, x, q, back, k)
        PROVE  Linked(array, new', x, q, back, k)
    <2>1. x \in Anc(array, q.id) /\ x # q.id /\ q \in Meta(new)
          /\ new[q.id].t = q.t /\ new[q.id].back_pointer = back
          /\ (back.t = "node" => new[q.id].parent_slot = k)
      BY <1>4 DEF Linked, Leads
    <2>2. q.id \in DOMAIN old /\ q.t \in {"node", "shortcut"}
      BY <1>1, <2>1 DEF Meta
    <2>3. q.id # c
      BY <1>2, <2>1, <2>2 DEF Absent
    <2>4. new'[q.id].t = q.t /\ new'[q.id].back_pointer = back
          /\ (back.t = "node" => new'[q.id].parent_slot = k)
      BY <2>1, <2>2, <2>3, CopyFrame
    <2>5. q \in Meta(new')
      BY <1>1, <2>1 DEF Meta
    <2> QED
      BY <2>1, <2>4, <2>5 DEF Linked, Leads
  <1>5. new_parent # NULL =>
          Linked(array, new', u, cursor, new_parent, old[c].parent_slot)
    <2>1. cursor \in Meta(new')
      BY <1>1, <1>2 DEF Meta
    <2> QED
      BY <1>2, <1>3, <2>1 DEF Linked, Leads, Copied
  <1>6. \A p, q, k : p.t = "shortcut" /\ Linked(array, new', u, q, p, k) => Linked(array, new', u, q, p, 0)
    BY DEF Linked, Leads
  <1>7. ASSUME NEW x \in DOMAIN old, NEW k \in Slot, new'[x].t = "node", is_meta(new'[x].slots[k])
        PROVE  Linked(array, new', x, new'[x].slots[k], NodePtr(x), k)
    <2>1. x # c
      <3> SUFFICES ASSUME x = c PROVE FALSE
        OBVIOUS
      <3>1. new'[x].slots[k] = NULL
        BY <1>7 DEF Copied
      <3> QED
        BY <1>7, <3>1 DEF is_meta, NULL
    <2>2. CASE new_parent # NULL /\ x = u
      <3>1. new[u].t = "node" /\ new_parent.t = "node"
        BY <1>3, <1>7, <2>1, <2>2, CopyFrame
      <3>2. new_parent = NodePtr(u)
        BY <1>3, <2>2, <3>1 DEF NodePtr
      <3>3. CASE k = old[c].parent_slot
        <4>1. new'[x].slots[k] = cursor
          BY <2>2, <3>1, <3>3 DEF Copied
        <4> QED
          BY <1>5, <2>2, <3>2, <3>3, <4>1
      <3>4. CASE k # old[c].parent_slot
        <4>1. new'[x].slots[k] = new[x].slots[k]
          BY <2>2, <3>1, <3>4 DEF Copied
        <4> QED
          BY <1>4, <1>7, <2>2, <3>1, <4>1 DEF WalkInv, Links
      <3> QED
        BY <3>3, <3>4
    <2>3. CASE new_parent = NULL \/ x # u
      <3>1. new'[x] = new[x]
        BY <2>1, <2>3 DEF Copied
      <3>2. Linked(array, new, x, new[x].slots[k], NodePtr(x), k)
        BY <1>7, <3>1 DEF WalkInv, Links
      <3> QED
        BY <1>4, <3>1, <3>2
    <2> QED
      BY <2>2, <2>3
  <1>8. ASSUME NEW x \in DOMAIN old, new'[x].t = "shortcut"
        PROVE  \/ /\ new'[x].next_node = old[x].next_node
                  /\ Linked(array, new', x, new'[x].next_node, ShortcutPtr(x), 0)
               \/ new'[x].next_node.t = "old" /\ pc' = "descend" /\ new_parent' = ShortcutPtr(x)
    <2>1. CASE x = c
      <3>1. cursor.t = "shortcut" /\ cursor = ShortcutPtr(c)
        BY <1>2, <1>8, <2>1 DEF Copied, ShortcutPtr
      <3> QED
        BY <1>1, <2>1, <3>1 DEF Copied
    <2>2. CASE x # c /\ new_parent # NULL /\ x = u
      <3>1. new[u].t = "shortcut" /\ new_parent.t = "shortcut"
        BY <1>3, <1>8, <2>2, CopyFrame
      <3>2. new_parent = ShortcutPtr(u) /\ new'[u].next_node = cursor
        BY <1>3, <2>2, <3>1 DEF ShortcutPtr, Copied
      <3>3. old[u].next_node = NodePtr(c) /\ old[c].t = "node"
        BY <1>1, <1>2, <2>2, <3>1, UpPoints
      <3>4. cursor = NodePtr(c)
        BY <1>2, <3>3 DEF NodePtr
      <3>5. Linked(array, new', u, cursor, new_parent, 0)
        BY <1>5, <1>6, <2>2, <3>1
      <3> QED
        BY <2>2, <3>2, <3>3, <3>4, <3>5
    <2>3. CASE x # c /\ (new_parent = NULL \/ x # u)
      <3>1. new'[x] = new[x]
        BY <2>3 DEF Copied
      <3>2. new_parent # ShortcutPtr(x)
        BY <2>3 DEF ShortcutPtr, NULL
      <3>3. new[x].next_node = old[x].next_node /\ Linked(array, new, x, new[x].next_node, ShortcutPtr(x), 0)
        BY <1>8, <3>1, <3>2 DEF WalkInv, Links
      <3> QED
        BY <1>4, <3>1, <3>3
    <2> QED
      BY <2>1, <2>2, <2>3
  <1> QED
    BY <1>1, <1>7, <1>8 DEF Links

\* The slots that wait are those to the right of the way to the copy, and its own.
LEMMA CopyOpened ==
  ASSUME WalkInv, Live, pc = "descend", Copied, pc' \in Walking,
         \A y, k : k \in Slot => (Waits(y, k)' <=> \/ After(array, cursor.id, y, k)
                                                   \/ y = cursor.id /\ cursor.t = "node"),
         \A z \in DOMAIN old : Unvisited(z)' <=> Unvisited(z) /\ z # cursor.id
  PROVE  Opened'
  <1> DEFINE c == cursor.id
             u == new_parent.id
  <1>1. /\ IsArray(array) /\ old = array.heap
        /\ old' = old /\ array' = array /\ new_parent' = cursor
    BY LiveTree DEF Copied, old
  <1>2. /\ cursor \in Meta(old) /\ c \in DOMAIN old /\ old[c].t = cursor.t
        /\ cursor.t \in {"node", "shortcut"} /\ Up(array, c) = new_parent
        /\ new_parent = NULL => Anc(array, c) = {c}
        /\ new_parent # NULL => /\ Anc(array, c) = {c} \cup Anc(array, u)
                                /\ new[u].t = new_parent.t
                                /\ new_parent = [t |-> new_parent.t, id |-> u]
    BY DescendPlace
  <1>3. ASSUME NEW x \in DOMAIN old, IsOpen(x)'
        PROVE  /\ new'[x].t = old[x].t
               /\ new'[x].back_pointer = Up(array, x)
               /\ new'[x].parent_slot = old[x].parent_slot
    <2>1. x \in Anc(array, c)
      BY <1>1, <1>3 DEF IsOpen
    <2>2. CASE x = c
      BY <1>2, <2>2 DEF Copied
    <2>3. CASE x # c
      <3>1. new_parent # NULL /\ x \in Anc(array, u)
        BY <1>2, <2>1, <2>3
      <3>2. IsOpen(x)
        BY <3>1 DEF IsOpen, Walking
      <3>3. new[x].t = old[x].t /\ new[x].back_pointer = Up(array, x)
            /\ new[x].parent_slot = old[x].parent_slot
        BY <3>2 DEF WalkInv, Opened, NewUp
      <3>4. old[x].t \in {"node", "shortcut"}
        BY <1>1, ObjectShape
      <3> QED
        BY <2>3, <3>3, <3>4, CopyFrame
    <2> QED
      BY <2>2, <2>3
  <1>4. ASSUME NEW x \in DOMAIN old PROVE new'[x] = Absent <=> Unvisited(x)'
    <2>1. CASE x = c
      <3>1. new'[x].t # "absent"
        BY <1>2, <2>1 DEF Copied
      <3> QED
        BY <2>1, <3>1 DEF Absent
    <2>2. CASE x # c
      BY <2>2, CopyFrame DEF WalkInv, Opened
    <2> QED
      BY <2>1, <2>2
  <1>5. ASSUME NEW y \in DOMAIN old, NEW k \in Slot, Waits(y, k)'
        PROVE  new'[y].t = "node" /\ new'[y].slots[k] = NULL
    <2>1. CASE y = c /\ cursor.t = "node"
      BY <2>1 DEF Copied
    <2>2. CASE After(array, c, y, k)
      <3>1. y # c
        BY <1>1, <1>2, <2>2, AfterAbove
      <3>2. Waits(y, k)
        BY <2>2 DEF Waits
      <3>3. new[y].t = "node" /\ new[y].slots[k] = NULL
        BY <3>2 DEF WalkInv, Opened
      <3>4. CASE new_parent # NULL /\ y = u
        <4>1. new_parent.t = "node"
          BY <1>2, <3>3, <3>4
        <4>2. k # old[c].parent_slot
          <5> SUFFICES ASSUME k = old[c].parent_slot PROVE FALSE
            OBVIOUS
          <5>1. old[c].parent_slot < k
            BY <1>1, <1>2, <2>2, <3>4, <4>1, NotAfterOwn
          <5>2. k \in Int
            BY GcAssumption DEF Slot
          <5> QED
            BY <5>1, <5>2
        <4> QED
          BY <3>1, <3>3, <3>4, <4>1, <4>2, CopyFrame DEF Copied
      <3>5. CASE new_parent = NULL \/ y # u
        BY <3>1, <3>3, <3>5 DEF Copied
      <3> QED
        BY <3>4, <3>5
    <2> QED
      BY <1>5, <2>1, <2>2
  <1> QED
    BY <1>1, <1>3, <1>4, <1>5 DEF Opened, NewUp

\* *new_ptr_pp = cursor: the heap it leaves.
LEMMA StoreSets ==
  ASSUME WalkInv, Live, pc = "descend", NEW h, h = Store(new, cursor)
  PROVE  /\ h \in NewHeaps(old)
         /\ \A x \in DOMAIN old : (new_parent = NULL \/ x # new_parent.id) => h[x] = new[x]
         /\ new_parent # NULL =>
              /\ h[new_parent.id].t = new[new_parent.id].t
              /\ h[new_parent.id].back_pointer = new[new_parent.id].back_pointer
              /\ h[new_parent.id].parent_slot = new[new_parent.id].parent_slot
         /\ new_parent.t = "node" =>
              \A k \in Slot : h[new_parent.id].slots[k] =
                IF k = old[cursor.id].parent_slot THEN cursor ELSE new[new_parent.id].slots[k]
         /\ new_parent.t = "shortcut" => h[new_parent.id].next_node = cursor
  <1> DEFINE u == new_parent.id
             s == old[cursor.id].parent_slot
  <1>1. /\ IsArray(array) /\ new \in NewHeaps(old) /\ DOMAIN new = DOMAIN old /\ old = array.heap
        /\ cursor \in Meta(old) /\ cursor.id \in DOMAIN old /\ Up(array, cursor.id) = new_parent
        /\ old[cursor.id].t = cursor.t /\ new_parent \in {NULL} \cup Meta(old)
        /\ new_parent = NULL => new_parent.t = "null"
        /\ new_parent # NULL => /\ u \in DOMAIN old /\ new_parent.t \in {"node", "shortcut"}
                                /\ new[u].t = new_parent.t
    BY DescendPlace
  <1>2. Descending
    BY DEF WalkInv, Place
  <1>3. s \in Slot
    BY <1>1, ObjectShape
  <1>4. CASE new_parent = NULL
    <2>1. h = new
      BY <1>2, <1>4 DEF Descending, Store
    <2> QED
      BY <1>1, <1>4, <2>1
  <1>5. CASE new_parent # NULL /\ new_parent.t = "shortcut"
    <2>1. h = [new EXCEPT ![u].next_node = cursor]
      <3>1. dest.t = "shortcut" /\ dest.id = u
        BY <1>2, <1>5 DEF Descending
      <3> QED
        BY <3>1 DEF Store
    <2>2. PICK r : r = new[u]
      OBVIOUS
    <2>3. PICK q : q = [r EXCEPT !.next_node = cursor]
      OBVIOUS
    <2>4. h = [new EXCEPT ![u] = q]
      BY <2>1, <2>2, <2>3
    <2>5. r \in NewShortcuts(old)
      BY <1>1, <1>5, <2>2, NewShape
    <2>6. cursor \in [t : {"node", "old"}, id : DOMAIN old]
      <3>1. Up(array, cursor.id) # NULL /\ Up(array, cursor.id).t = "shortcut"
        BY <1>1, <1>5
      <3>2. old[cursor.id].t = "node"
        <4>1. PICK x : x = cursor.id
          OBVIOUS
        <4>2. IsArray(array) /\ x \in DOMAIN array.heap /\ Up(array, x) # NULL /\ Up(array, x).t = "shortcut"
          BY <1>1, <3>1, <4>1
        <4>3. array.heap[x].t = "node"
          BY <4>2, UpPoints
        <4> QED
          BY <1>1, <4>1, <4>3
      <3> QED
        BY <1>1, <3>2 DEF Meta
    <2>7. q \in NewShortcuts(old) /\ q.t = r.t /\ q.back_pointer = r.back_pointer
          /\ q.parent_slot = r.parent_slot /\ q.next_node = cursor
      BY <2>3, <2>5, <2>6 DEF NewShortcuts
    <2>8. h \in NewHeaps(old) /\ h[u] = q /\ \A x \in DOMAIN old : x # u => h[x] = new[x]
      BY <1>1, <1>5, <2>4, <2>7 DEF NewHeaps
    <2> QED
      BY <1>5, <2>2, <2>7, <2>8
  <1>6. CASE new_parent # NULL /\ new_parent.t = "node"
    <2>1. h = [new EXCEPT ![u].slots[s] = cursor]
      <3>1. dest.t = "node" /\ dest.id = u /\ dest.slot = s
        BY <1>2, <1>6 DEF Descending
      <3> QED
        BY <3>1 DEF Store
    <2>2. PICK r : r = new[u]
      OBVIOUS
    <2>3. PICK q : q = [r EXCEPT !.slots[s] = cursor]
      OBVIOUS
    <2>4. h = [new EXCEPT ![u] = q]
      BY <2>1, <2>2, <2>3
    <2>5. r \in Nodes(old)
      BY <1>1, <1>6, <2>2, NewShape
    <2>6. cursor \in Pointers(old)
      BY <1>1 DEF Pointers
    <2>7. q \in Nodes(old) /\ q.t = r.t /\ q.back_pointer = r.back_pointer
          /\ q.parent_slot = r.parent_slot
          /\ \A k \in Slot : q.slots[k] = IF k = s THEN cursor ELSE r.slots[k]
      <3> HIDE DEF s
      <3> QED
        BY <1>3, <2>3, <2>5, <2>6 DEF Nodes, Pointers
    <2>8. h \in NewHeaps(old) /\ h[u] = q /\ \A x \in DOMAIN old : x # u => h[x] = new[x]
      BY <1>1, <1>6, <2>4, <2>7 DEF NewHeaps
    <2> QED
      BY <1>6, <2>2, <2>7, <2>8
  <1> QED
    BY <1>1, <1>4, <1>5, <1>6

\* The copy is put into that heap.
LEMMA CopySets ==
  ASSUME WalkInv, Live, pc = "descend", UNCHANGED array, new_parent' = cursor,
         NEW q, new' = [Store(new, cursor) EXCEPT ![cursor.id] = q],
         q \in Nodes(old) \cup NewShortcuts(old), q.t = cursor.t, q.back_pointer = new_parent,
         q.parent_slot = old[cursor.id].parent_slot,
         cursor.t = "node" => \A k \in Slot : q.slots[k] = NULL,
         cursor.t = "shortcut" => q.next_node.t = "old" /\ pc' = "descend"
  PROVE  Copied
  <1>1. PICK h : h = Store(new, cursor)
    OBVIOUS
  <1>2. cursor.id \in DOMAIN old /\ (new_parent # NULL => new_parent.id \in DOMAIN old /\ new_parent.id # cursor.id)
        /\ (new_parent = NULL => new_parent.t = "null")
    BY DescendPlace
  <1>3. h \in NewHeaps(old) /\ new' = [h EXCEPT ![cursor.id] = q]
    BY <1>1, StoreSets
  <1>4. new' \in NewHeaps(old) /\ new'[cursor.id] = q
        /\ \A x \in DOMAIN old : x # cursor.id => new'[x] = h[x]
    BY <1>2, <1>3 DEF NewHeaps
  <1>5. /\ \A x \in DOMAIN old : (new_parent = NULL \/ x # new_parent.id) => h[x] = new[x]
        /\ new_parent # NULL =>
              /\ h[new_parent.id].t = new[new_parent.id].t
              /\ h[new_parent.id].back_pointer = new[new_parent.id].back_pointer
              /\ h[new_parent.id].parent_slot = new[new_parent.id].parent_slot
        /\ new_parent.t = "node" =>
              \A k \in Slot : h[new_parent.id].slots[k] =
                IF k = old[cursor.id].parent_slot THEN cursor ELSE new[new_parent.id].slots[k]
        /\ new_parent.t = "shortcut" => h[new_parent.id].next_node = cursor
    BY <1>1, StoreSets
  <1>6. new_parent # NULL => new'[new_parent.id] = h[new_parent.id]
    BY <1>2, <1>4
  <1>7. (new_parent.t = "node" \/ new_parent.t = "shortcut") => new_parent # NULL
    BY <1>2
  <1> QED
    BY <1>2, <1>4, <1>5, <1>6, <1>7 DEF Copied

LEMMA DescendShortcutCopies ==
  ASSUME WalkInv, Live, descend_shortcut, pc' # "ENOMEM"
  PROVE  Copied
  <1> DEFINE c == cursor.id
  <1>1. /\ pc = "descend" /\ pc' = "descend" /\ cursor.t = "shortcut" /\ array' = array
        /\ new_parent' = cursor
        /\ new' = [Store(new, cursor) EXCEPT ![c] = [old[c] EXCEPT
                        !.back_pointer = new_parent, !.next_node = OldPtr(@.id)]]
    BY DEF descend_shortcut, enomem, is_shortcut
  <1>2. /\ IsArray(array) /\ old = array.heap /\ c \in DOMAIN old /\ old[c].t = "shortcut"
        /\ new_parent \in {NULL} \cup Meta(old)
    BY <1>1, DescendPlace
  <1>3. old[c].next_node.id \in DOMAIN old
    BY <1>2, DownShortcut
  <1>4. PICK r : r = old[c]
    OBVIOUS
  <1>5. PICK q : q = [r EXCEPT !.back_pointer = new_parent, !.next_node = OldPtr(@.id)]
    OBVIOUS
  <1>6. r \in Shortcuts(old)
    BY <1>2, <1>4, ObjectShape
  <1>7. /\ q \in NewShortcuts(old) /\ q.t = "shortcut" /\ q.back_pointer = new_parent
        /\ q.parent_slot = r.parent_slot /\ q.next_node.t = "old"
    <2>1. r.next_node.id \in DOMAIN old
      BY <1>3, <1>4
    <2> QED
      BY <1>2, <1>5, <1>6, <2>1 DEF Shortcuts, NewShortcuts, OldPtr
  <1>8. new' = [Store(new, cursor) EXCEPT ![c] = q]
    BY <1>1, <1>4, <1>5
  <1> QED
    BY <1>1, <1>4, <1>7, <1>8, CopySets

LEMMA DescendShortcutInv ==
  ASSUME WalkInv, Live, descend_shortcut, pc' # "ENOMEM"
  PROVE  WalkInv'
  <1> DEFINE c == cursor.id
             d == old[c].next_node
  <1>1. /\ pc = "descend" /\ pc' = "descend" /\ cursor.t = "shortcut" /\ array' = array
        /\ new_parent' = cursor /\ dest' = [t |-> "shortcut", id |-> c] /\ cursor' = d
        /\ old' = old
    BY DEF descend_shortcut, enomem, is_shortcut, old
  <1>2. /\ IsArray(array) /\ old = array.heap /\ c \in DOMAIN old /\ old[c].t = "shortcut"
        /\ new_parent \in {NULL} \cup Meta(old) /\ cursor = [t |-> "shortcut", id |-> c]
    BY <1>1, DescendPlace
  <1>3. /\ d = NodePtr(d.id) /\ d.t = "node" /\ d.id \in DOMAIN old /\ old[d.id].t = "node"
        /\ Up(array, d.id) = ShortcutPtr(c)
    BY <1>2, DownShortcut
  <1>4. Copied
    BY <1>1, DescendShortcutCopies
  <1> HIDE DEF c, d
  <1>5. Types' /\ Live'
    BY <1>1, <1>2, <1>4 DEF Types, WalkInv, Walking, Live, Copied
  <1>6. Up(array, d.id).t = "shortcut" /\ Up(array, d.id).id = c
    BY <1>3 DEF ShortcutPtr
  <1>7. \A y, k : Waits(y, k)' <=> After(array, c, y, k)
    <2>1. \A y, k : Waits(y, k)' <=> After(array, d.id, y, k)
      BY <1>1 DEF Waits, Within
    <2> QED
      BY <1>2, <1>3, <1>6, <2>1, AfterSplit
  <1>8. \A y, k : Waits(y, k) <=> After(array, c, y, k)
    BY <1>1 DEF Waits, Within, c
  <1>9. ASSUME NEW z \in DOMAIN old PROVE Unvisited(z)' <=> Unvisited(z) /\ z # c
    <2>1. Unvisited(z)' <=> \/ d.id \in Anc(array, z)
                            \/ \E y \in DOMAIN old, k \in Slot : After(array, c, y, k) /\ z \in Behind(array, y, k)
      BY <1>1, <1>7 DEF Unvisited
    <2>2. Unvisited(z) <=> \/ c \in Anc(array, z)
                           \/ \E y \in DOMAIN old, k \in Slot : After(array, c, y, k) /\ z \in Behind(array, y, k)
      BY <1>1, <1>8 DEF Unvisited, c
    <2>3. c \in Anc(array, z) <=> z = c \/ d.id \in Anc(array, z)
      BY <1>2, BelowShortcut DEF d
    <2>4. d.id \notin Anc(array, c)
      BY <1>2, BelowShortcut DEF d
    <2>5. ASSUME NEW y \in DOMAIN old, NEW k \in Slot, After(array, c, y, k) PROVE c \notin Behind(array, y, k)
      BY <1>2, <2>5, NotBehind, AncClimbs
    <2> QED
      BY <2>1, <2>2, <2>3, <2>4, <2>5
  <1>10. Opened'
    BY <1>1, <1>4, <1>7, <1>9, CopyOpened DEF c, Walking
  <1>11. Links'
    BY <1>1, <1>4, CopyLinks
  <1>12. Descending'
    <2>1. d \in Meta(old)
      BY <1>3 DEF Meta, NodePtr
    <2>2. cursor = ShortcutPtr(c) /\ cursor # NULL
      BY <1>2 DEF ShortcutPtr, NULL
    <2> QED
      BY <1>1, <1>2, <1>3, <2>1, <2>2 DEF Descending
  <1>13. Place'
    BY <1>1, <1>12 DEF Place, Within
  <1> QED
    BY <1>5, <1>10, <1>11, <1>13 DEF WalkInv

LEMMA DescendNodeCopies ==
  ASSUME WalkInv, Live, descend_node, pc' # "ENOMEM"
  PROVE  Copied
  <1> DEFINE c == cursor.id
  <1>1. /\ pc = "descend" /\ pc' = "continue_node" /\ cursor.t # "shortcut" /\ array' = array
        /\ new_parent' = cursor
        /\ new' = [Store(new, cursor) EXCEPT ![c] =
                     [t |-> "node", back_pointer |-> new_parent,
                      parent_slot |-> old[c].parent_slot,
                      slots |-> [k \in Slot |-> NULL], nr |-> 0]]
    BY DEF descend_node, enomem, is_shortcut
  <1>2. /\ IsArray(array) /\ old = array.heap /\ c \in DOMAIN old
        /\ new_parent \in {NULL} \cup Meta(old) /\ cursor.t = "node"
    BY <1>1, DescendPlace
  <1>3. old[c].parent_slot \in Slot
    BY <1>2, ObjectShape
  <1>4. PICK q : q = [t |-> "node", back_pointer |-> new_parent,
                      parent_slot |-> old[c].parent_slot,
                      slots |-> [k \in Slot |-> NULL], nr |-> 0]
    OBVIOUS
  <1>5. /\ q \in Nodes(old) /\ q.t = "node" /\ q.back_pointer = new_parent
        /\ q.parent_slot = old[c].parent_slot /\ \A k \in Slot : q.slots[k] = NULL
    BY <1>2, <1>3, <1>4 DEF Nodes
  <1>6. new' = [Store(new, cursor) EXCEPT ![c] = q]
    BY <1>1, <1>4
  <1> QED
    BY <1>1, <1>2, <1>5, <1>6, CopySets

LEMMA DescendNodeInv ==
  ASSUME WalkInv, Live, descend_node, pc' # "ENOMEM"
  PROVE  WalkInv'
  <1> DEFINE c == cursor.id
  <1>1. /\ pc = "descend" /\ pc' = "continue_node" /\ cursor.t # "shortcut" /\ array' = array
        /\ new_parent' = cursor /\ node' = c /\ new_n' = c /\ slot' = 0 /\ old' = old
    BY DEF descend_node, enomem, is_shortcut, old
  <1>2. /\ IsArray(array) /\ old = array.heap /\ c \in DOMAIN old /\ old[c].t = "node"
        /\ new_parent \in {NULL} \cup Meta(old) /\ cursor = [t |-> "node", id |-> c] /\ cursor.t = "node"
    BY <1>1, DescendPlace
  <1>3. old[c].parent_slot \in Slot
    BY <1>2, ObjectShape
  <1>4. Copied
    BY <1>1, DescendNodeCopies
  <1> HIDE DEF c
  <1>5. Types' /\ Live'
    BY <1>1, <1>2, <1>4 DEF Types, WalkInv, Walking, Within, Live, Copied
  <1>6. \A y, k : k \in Slot => (Waits(y, k)' <=> After(array, c, y, k) \/ y = c)
    <2>1. \A k \in Slot : 0 <= k
      BY GcAssumption DEF Slot
    <2> QED
      BY <1>1, <2>1 DEF Waits, Within
  <1>7. \A y, k : Waits(y, k) <=> After(array, c, y, k)
    BY <1>1 DEF Waits, Within, c
  <1>8. ASSUME NEW z \in DOMAIN old PROVE Unvisited(z)' <=> Unvisited(z) /\ z # c
    <2>1. Unvisited(z)' <=> \/ \E k \in Slot : z \in Behind(array, c, k)
                            \/ \E y \in DOMAIN old, k \in Slot : After(array, c, y, k) /\ z \in Behind(array, y, k)
      BY <1>1, <1>2, <1>6 DEF Unvisited
    <2>2. Unvisited(z) <=> \/ c \in Anc(array, z)
                           \/ \E y \in DOMAIN old, k \in Slot : After(array, c, y, k) /\ z \in Behind(array, y, k)
      BY <1>1, <1>7 DEF Unvisited, c
    <2>3. c \in Anc(array, z) <=> z = c \/ \E k \in Slot : z \in Behind(array, c, k)
      BY <1>2, BelowNode DEF IsNode
    <2>4. \A k \in Slot : c \notin Behind(array, c, k)
      BY <1>2, BelowNode DEF IsNode
    <2>5. ASSUME NEW y \in DOMAIN old, NEW k \in Slot, After(array, c, y, k) PROVE c \notin Behind(array, y, k)
      BY <1>2, <2>5, NotBehind, AncClimbs
    <2> QED
      BY <2>1, <2>2, <2>3, <2>4, <2>5
  <1>9. Opened'
    BY <1>1, <1>2, <1>4, <1>6, <1>8, CopyOpened DEF c, Walking, Within
  <1>10. Links'
    BY <1>1, <1>4, CopyLinks
  <1>11. InStep'
    BY <1>1, <1>2, GcAssumption DEF InStep, IsNode, NodePtr
  <1>12. Place'
    BY <1>1, <1>11 DEF Place, Within
  <1> QED
    BY <1>5, <1>9, <1>10, <1>12 DEF WalkInv

-----------------------------------------------------------------------------
(* Climbing.                                                               *)

\* Where climbing leads: to a node further up, or out of the tree.
LEMMA UpperShape ==
  ASSUME IsArray(array), IsNode(array, node)
  PROVE  /\ Upper.cursor # NULL =>
              /\ Upper.cursor = NodePtr(Upper.cursor.id) /\ Upper.cursor.id \in DOMAIN old
              /\ old[Upper.cursor.id].t = "node"
              /\ Upper.cursor.id \in Anc(array, node) /\ Upper.cursor.id # node
         /\ Upper.slot \in Slot
         /\ \A y, k : After(array, node, y, k) <=>
              /\ Upper.cursor # NULL
              /\ \/ After(array, Upper.cursor.id, y, k)
                 \/ y = Upper.cursor.id /\ Upper.slot < k
         /\ Upper.shortcut =>
              /\ Up(array, node).t = "shortcut" /\ Up(array, node).id \in DOMAIN old
              /\ Up(array, node) = ShortcutPtr(Up(array, node).id)
              /\ old[Up(array, node).id].t = "shortcut"
              /\ Up(array, Up(array, node).id) = Upper.cursor
              /\ old[Up(array, node).id].parent_slot = Upper.slot
              /\ Up(array, node).id \in Anc(array, node) /\ Up(array, node).id # node
              /\ Upper.cursor # NULL => /\ Upper.cursor.id \in Anc(array, Up(array, node).id)
                                        /\ Upper.cursor.id # Up(array, node).id
         /\ ~Upper.shortcut =>
              /\ Up(array, node).t # "shortcut"
              /\ Upper.cursor = Up(array, node) /\ Upper.slot = old[node].parent_slot
  <1> DEFINE u == Up(array, node)
             s == u.id
             P == Upper.cursor
             b == Upper.slot
  <1>1. old = array.heap /\ node \in DOMAIN old /\ old[node].t = "node" /\ IsArray(array)
    BY DEF IsNode, old
  <1>2. NULL.t = "null" /\ \A x : NodePtr(x) # NULL /\ NodePtr(x).id = x
    BY DEF NULL, NodePtr
  <1>3. u = old[node].back_pointer
    BY <1>1 DEF Up
  <1>4. CASE u.t = "shortcut"
    <2>1. u # NULL /\ s \in DOMAIN old /\ old[s].t = "shortcut" /\ u = ShortcutPtr(s)
      <3>1. u # NULL
        BY <1>2, <1>4
      <3>2. s \in DOMAIN old /\ old[s].t = u.t /\ u = [t |-> u.t, id |-> s]
        BY <1>1, <3>1, UpPoints
      <3> QED
        BY <1>4, <3>1, <3>2 DEF ShortcutPtr
    <2>2. s \in Anc(array, node) /\ s # node
      BY <1>1, <2>1, UpIsAbove
    <2>3. P = Up(array, s) /\ b = old[s].parent_slot /\ Upper.shortcut
      BY <1>1, <1>3, <1>4 DEF Upper, Up, is_shortcut
    <2> HIDE DEF u, s, P, b
    <2>4. b \in Slot
      BY <1>1, <2>1, <2>3, ObjectShape
    <2>5. CASE P = NULL
      <3>1. \A y, k : ~After(array, s, y, k)
        BY <1>1, <2>1, <2>3, <2>5, AfterSplit
      <3>2. \A y, k : After(array, node, y, k) <=> After(array, s, y, k)
        BY <1>1, <1>4, AfterSplit DEF u, s
      <3> QED
        BY <1>4, <2>1, <2>2, <2>3, <2>4, <2>5, <3>1, <3>2 DEF u, s, P, b
    <2>6. CASE P # NULL
      <3>1. P.t = "node" /\ P.id \in DOMAIN old /\ old[P.id].t = "node" /\ P = NodePtr(P.id)
        <4>1. Up(array, s) # NULL
          BY <2>3, <2>6
        <4>2. /\ P.id \in DOMAIN old /\ old[P.id].t = P.t /\ P = [t |-> P.t, id |-> P.id]
              /\ P.t \in {"node", "shortcut"} /\ (P.t = "shortcut" => old[s].t = "node")
          BY <1>1, <2>1, <2>3, <4>1, UpPoints
        <4> QED
          BY <2>1, <4>2 DEF NodePtr
      <3>2. P.id \in Anc(array, s) /\ P.id # s /\ s \notin Anc(array, P.id)
        BY <1>1, <2>1, <2>3, <2>6, UpIsAbove
      <3>3. P.id \in Anc(array, node)
        BY <1>1, <2>2, <3>2, AncTrans
      <3>4. P.id # node
        BY <1>1, <2>2, <3>1, <3>2, AncOnce
      <3>5. \A y, k : After(array, s, y, k) <=> After(array, P.id, y, k) \/ (y = P.id /\ b < k)
        BY <1>1, <2>1, <2>3, <3>1, AfterSplit
      <3>6. \A y, k : After(array, node, y, k) <=> After(array, s, y, k)
        BY <1>1, <1>4, AfterSplit DEF u, s
      <3> QED
        BY <1>4, <2>1, <2>2, <2>3, <2>4, <2>6, <3>1, <3>2, <3>3, <3>4, <3>5, <3>6 DEF u, s, P, b
    <2> QED
      BY <2>5, <2>6
  <1>5. CASE u.t # "shortcut"
    <2>1. P = u /\ b = old[node].parent_slot /\ ~Upper.shortcut
      BY <1>1, <1>3, <1>5 DEF Upper, Up, is_shortcut
    <2> HIDE DEF u, P, b
    <2>2. b \in Slot
      BY <1>1, <2>1, ObjectShape
    <2>3. CASE P = NULL
      <3>1. \A y, k : ~After(array, node, y, k)
        BY <1>1, <2>1, <2>3, AfterSplit DEF u
      <3> QED
        BY <1>5, <2>1, <2>2, <2>3, <3>1 DEF u, P, b
    <2>4. CASE P # NULL
      <3>1. P.t = "node" /\ P.id \in DOMAIN old /\ old[P.id].t = "node" /\ P = NodePtr(P.id)
        <4>1. Up(array, node) # NULL
          BY <2>1, <2>4 DEF u
        <4>2. /\ P.id \in DOMAIN old /\ old[P.id].t = P.t /\ P = [t |-> P.t, id |-> P.id]
              /\ P.t \in {"node", "shortcut"}
          BY <1>1, <2>1, <4>1, UpPoints DEF u
        <4> QED
          BY <1>5, <2>1, <4>2 DEF NodePtr
      <3>2. P.id \in Anc(array, node) /\ P.id # node
        BY <1>1, <2>1, <2>4, UpIsAbove DEF u
      <3>3. \A y, k : After(array, node, y, k) <=> After(array, P.id, y, k) \/ (y = P.id /\ b < k)
        BY <1>1, <2>1, <3>1, AfterSplit DEF u
      <3> QED
        BY <1>5, <2>1, <2>2, <2>4, <3>1, <3>2, <3>3 DEF u, P, b
    <2> QED
      BY <2>3, <2>4
  <1> QED
    BY <1>4, <1>5

\* The present node is done: up in the new tree, to where the old one leads.
Leaving ==
  /\ pc = "compress" /\ slot = FAN_OUT /\ UNCHANGED <<array, node>>
  /\ \/ /\ pc' = "ascend" /\ new_parent' = Upper.cursor
        /\ Upper.cursor # NULL => new_n' = Upper.cursor.id
        /\ Upper.cursor = NULL => Upper.shortcut
     \/ pc' = "gc_complete" /\ Upper.cursor = NULL

LEMMA LeavingKeeps ==
  ASSUME WalkInv, Live, Leaving, new' \in NewHeaps(old)
  PROVE  /\ Types' /\ Place' /\ Live' /\ old' = old /\ array' = array
         /\ \A y, k : k \in Slot => (Waits(y, k)' <=> Waits(y, k))
         /\ \A y, k : k \in Slot => (Waits(y, k) <=> After(array, node, y, k))
         /\ \A x : Unvisited(x)' <=> Unvisited(x)
         /\ \A x : IsOpen(x)' => /\ IsOpen(x) /\ Upper.cursor # NULL
                                 /\ x \in Anc(array, Upper.cursor.id)
  <1>1. /\ IsArray(array) /\ IsNode(array, node) /\ old' = old /\ array' = array /\ node' = node
        /\ pc \in Within /\ Upper' = Upper /\ new_parent = NodePtr(node) /\ node \in DOMAIN old
        /\ DOMAIN old = DOMAIN array.heap
    BY FilledNode, LiveTree DEF Leaving, Within, IsNode, old, Upper
  <1>2. Live' /\ Types'
    <2>1. Live'
      BY DEF Leaving, Live
    <2> QED
      BY <1>1, <2>1 DEF Leaving, Types, WalkInv, Walking, Live
  <1>3. Place'
    <2>1. pc' = "ascend" => Ascending'
      BY <1>1 DEF Leaving, Ascending
    <2> QED
      BY <2>1 DEF Place, Leaving, Within
  <1>4. \A y, k : k \in Slot => (Waits(y, k) <=> After(array, node, y, k))
    BY <1>1, WaitsWithin DEF Leaving
  <1>5. \A y, k : Waits(y, k)' <=> pc' = "ascend" /\ After(array, node, y, k)
    BY <1>1 DEF Waits, Leaving, Within
  <1>6. Upper.cursor = NULL => \A y, k : ~After(array, node, y, k)
    BY <1>1, UpperShape
  <1>7. \A y, k : k \in Slot => (Waits(y, k)' <=> Waits(y, k))
    BY <1>4, <1>5, <1>6 DEF Leaving
  <1>8. \A x : Unvisited(x)' <=> Unvisited(x)
    BY <1>1, <1>7 DEF Unvisited, Leaving
  <1>9. ASSUME NEW x, IsOpen(x)'
        PROVE  IsOpen(x) /\ Upper.cursor # NULL /\ x \in Anc(array, Upper.cursor.id)
    <2>1. Upper.cursor # NULL /\ x \in Anc(array, Upper.cursor.id)
      BY <1>9, <1>1 DEF IsOpen, Leaving, Walking, Within
    <2>2. Upper.cursor.id \in Anc(array, node)
      BY <1>1, <2>1, UpperShape
    <2>3. x \in Anc(array, node)
      BY <1>1, <2>1, <2>2, AncTrans
    <2> QED
      BY <1>1, <2>1, <2>3 DEF IsOpen, Leaving, Walking, Within, NodePtr, NULL
  <1> QED
    BY <1>1, <1>2, <1>3, <1>4, <1>7, <1>8, <1>9

LEMMA LeaveInv ==
  ASSUME WalkInv, Live, Leaving, UNCHANGED new
  PROVE  WalkInv'
  <1>1. new' \in NewHeaps(old)
    BY LiveTree
  <1>2. /\ Types' /\ Place' /\ Live' /\ old' = old /\ array' = array
        /\ \A y, k : k \in Slot => (Waits(y, k)' <=> Waits(y, k))
        /\ \A x : Unvisited(x)' <=> Unvisited(x)
        /\ \A x : IsOpen(x)' => IsOpen(x)
    BY <1>1, LeavingKeeps
  <1>3. Opened'
    BY <1>2 DEF Opened, WalkInv, NewUp
  <1>4. Links'
    BY <1>2 DEF Links, WalkInv, Leaving
  <1> QED
    BY <1>2, <1>3, <1>4 DEF WalkInv

\* The objects in G are dropped and r, the one left below them, moves up.
Excised(G, r) ==
  /\ new' \in NewHeaps(old)
  /\ G \subseteq DOMAIN old /\ r \in DOMAIN old /\ r \notin G
  /\ \A x \in G \cup {r} :
       /\ new[x].t \in {"node", "shortcut"}
       /\ Upper.cursor # NULL => Upper.cursor.id \in Anc(array, x) /\ Upper.cursor.id # x
       /\ \/ NewUp(x) # NULL /\ NewUp(x).id \in G
          \/ NewUp(x) = Upper.cursor /\ (Upper.cursor # NULL => new[x].parent_slot = Upper.slot)
  /\ \A x \in G : new'[x] = Freed
  /\ \A x \in DOMAIN old :
       x \notin G /\ x # r /\ (Upper.cursor = NULL \/ x # Upper.cursor.id) => new'[x] = new[x]
  /\ new'[r].t = new[r].t /\ new'[r].back_pointer = Upper.cursor
  /\ Upper.cursor # NULL => new'[r].parent_slot = Upper.slot
  /\ new[r].t = "node" =>
       new'[r].nr = new[r].nr /\ \A k \in Slot : new'[r].slots[k] = new[r].slots[k]
  /\ new[r].t = "shortcut" => new'[r].next_node = new[r].next_node
  /\ Upper.cursor # NULL =>
       /\ new'[Upper.cursor.id].t = new[Upper.cursor.id].t
       /\ new'[Upper.cursor.id].back_pointer = new[Upper.cursor.id].back_pointer
       /\ new'[Upper.cursor.id].parent_slot = new[Upper.cursor.id].parent_slot
       /\ \A k \in Slot : new'[Upper.cursor.id].slots[k] =
            IF k = Upper.slot THEN [t |-> new[r].t, id |-> r] ELSE new[Upper.cursor.id].slots[k]

\* The node above is not below itself, and stays open.
LEMMA ExcisedAbove ==
  ASSUME WalkInv, Live, Leaving, NEW G, NEW r, Excised(G, r), Upper.cursor # NULL
  PROVE  /\ Upper.cursor.id \in DOMAIN old /\ new[Upper.cursor.id].t = "node"
         /\ \A x \in Anc(array, Upper.cursor.id) : x \notin G /\ x # r
  <1>1. /\ IsArray(array) /\ IsNode(array, node) /\ old = array.heap /\ pc \in Within
        /\ new_parent = NodePtr(node)
    BY FilledNode, LiveTree DEF Leaving, Within, IsNode
  <1>2. Upper.cursor.id \in DOMAIN old /\ old[Upper.cursor.id].t = "node"
        /\ Upper.cursor.id \in Anc(array, node)
    BY <1>1, UpperShape
  <1>3. IsOpen(Upper.cursor.id)
    BY <1>1, <1>2 DEF IsOpen, Walking, NodePtr, NULL
  <1>4. new[Upper.cursor.id].t = "node"
    BY <1>2, <1>3 DEF WalkInv, Opened
  <1>5. ASSUME NEW x \in Anc(array, Upper.cursor.id), x \in G \cup {r} PROVE FALSE
    <2>1. x \in DOMAIN old /\ Upper.cursor.id \in Anc(array, x) /\ Upper.cursor.id # x
      BY <1>5 DEF Excised
    <2> QED
      BY <1>1, <1>2, <2>1, AncOnce
  <1> QED
    BY <1>2, <1>4, <1>5

\* What is left as it is.
LEMMA ExcisedFrame ==
  ASSUME WalkInv, Live, Leaving, NEW G, NEW r, Excised(G, r), NEW x \in DOMAIN old
  PROVE  /\ new'[x] = Absent <=> new[x] = Absent
         /\ x \notin G => new'[x].t = new[x].t
         /\ x \notin G /\ x # r /\ new[x].t \in {"node", "shortcut"} =>
              new'[x].back_pointer = new[x].back_pointer /\ new'[x].parent_slot = new[x].parent_slot
         /\ x \in G => new'[x].t = "freed"
         /\ x \notin G /\ (Upper.cursor = NULL \/ x # Upper.cursor.id) =>
              /\ new[x].t = "node" => \A k \in Slot : new'[x].slots[k] = new[x].slots[k]
              /\ new[x].t = "shortcut" => new'[x].next_node = new[x].next_node
  <1>1. new'[x] = Absent <=> new'[x].t = "absent"
    BY NewShape DEF Excised
  <1>2. new[x] = Absent <=> new[x].t = "absent"
    BY NewShape, LiveTree
  <1>3. Freed.t = "freed"
    BY DEF Freed
  <1>4. CASE x \in G
    BY <1>1, <1>2, <1>3, <1>4 DEF Excised
  <1>5. CASE x = r
    BY <1>1, <1>2, <1>5 DEF Excised
  <1>6. CASE x \notin G /\ x # r /\ Upper.cursor # NULL /\ x = Upper.cursor.id
    BY <1>1, <1>2, <1>6 DEF Excised
  <1>7. CASE x \notin G /\ x # r /\ (Upper.cursor = NULL \/ x # Upper.cursor.id)
    BY <1>7 DEF Excised
  <1> QED
    BY <1>4, <1>5, <1>6, <1>7

LEMMA ExcisedOpened ==
  ASSUME WalkInv, Live, Leaving, NEW G, NEW r, Excised(G, r)
  PROVE  Opened'
  <1>1. /\ IsArray(array) /\ IsNode(array, node) /\ old = array.heap /\ node \in DOMAIN old
    BY FilledNode, LiveTree DEF Leaving, Within, IsNode
  <1>2. new' \in NewHeaps(old)
    BY DEF Excised
  <1>3. /\ old' = old /\ array' = array
        /\ \A y, k : k \in Slot => (Waits(y, k)' <=> Waits(y, k))
        /\ \A y, k : k \in Slot => (Waits(y, k) <=> After(array, node, y, k))
        /\ \A x : Unvisited(x)' <=> Unvisited(x)
        /\ \A x : IsOpen(x)' => /\ IsOpen(x) /\ Upper.cursor # NULL
                                /\ x \in Anc(array, Upper.cursor.id)
    BY <1>2, LeavingKeeps
  <1>4. ASSUME NEW x \in DOMAIN old, IsOpen(x)'
        PROVE  /\ new'[x].t = old[x].t
               /\ new'[x].back_pointer = Up(array, x)
               /\ new'[x].parent_slot = old[x].parent_slot
    <2>1. IsOpen(x) /\ x \notin G /\ x # r
      BY <1>3, <1>4, ExcisedAbove
    <2>2. new[x].t = old[x].t /\ new[x].back_pointer = Up(array, x)
          /\ new[x].parent_slot = old[x].parent_slot
      BY <2>1 DEF WalkInv, Opened, NewUp
    <2>3. old[x].t \in {"node", "shortcut"}
      BY <1>1, ObjectShape
    <2> QED
      BY <2>1, <2>2, <2>3, ExcisedFrame
  <1>5. ASSUME NEW x \in DOMAIN old PROVE new'[x] = Absent <=> Unvisited(x)'
    BY <1>3, ExcisedFrame DEF WalkInv, Opened
  <1>6. ASSUME NEW y \in DOMAIN old, NEW k \in Slot, Waits(y, k)'
        PROVE  new'[y].t = "node" /\ new'[y].slots[k] = NULL
    <2>1. Waits(y, k) /\ After(array, node, y, k)
      BY <1>3, <1>6
    <2>2. new[y].t = "node" /\ new[y].slots[k] = NULL
      BY <2>1 DEF WalkInv, Opened
    <2>3. /\ Upper.cursor # NULL
          /\ After(array, Upper.cursor.id, y, k) \/ (y = Upper.cursor.id /\ Upper.slot < k)
      BY <1>1, <2>1, UpperShape
    <2>4. Upper.cursor.id \in DOMAIN old
      BY <1>1, <2>3, UpperShape
    <2>5. y \in Anc(array, Upper.cursor.id)
      BY <1>1, <2>3, <2>4, AfterAbove, AncClimbs
    <2>6. y \notin G /\ y # r
      BY <2>3, <2>5, ExcisedAbove
    <2>7. new'[y].t = "node"
      BY <2>2, <2>6, ExcisedFrame
    <2>8. CASE y = Upper.cursor.id
      <3>1. ~After(array, Upper.cursor.id, y, k)
        BY <1>1, <2>4, <2>8, AfterAbove
      <3>2. Upper.slot \in Slot
        BY <1>1, UpperShape
      <3>3. k # Upper.slot
        BY <2>3, <3>1, <3>2, GcAssumption DEF Slot
      <3> QED
        BY <2>2, <2>3, <2>7, <2>8, <3>3 DEF Excised
    <2>9. CASE y # Upper.cursor.id
      BY <2>2, <2>6, <2>7, <2>9, ExcisedFrame
    <2> QED
      BY <2>8, <2>9
  <1> QED
    BY <1>3, <1>4, <1>5, <1>6 DEF Opened, NewUp

LEMMA ExcisedLinks ==
  ASSUME WalkInv, Live, Leaving, NEW G, NEW r, Excised(G, r)
  PROVE  Links'
  <1> DEFINE P == Upper.cursor
  <1>1. /\ IsArray(array) /\ IsNode(array, node) /\ old = array.heap /\ DOMAIN new = DOMAIN old
    BY FilledNode, LiveTree DEF Leaving, Within, IsNode, NewHeaps
  <1>2. new' \in NewHeaps(old) /\ DOMAIN new' = DOMAIN old
    BY DEF Excised, NewHeaps
  <1>3. old' = old /\ array' = array
    BY <1>2, LeavingKeeps
  <1>4. P # NULL => P = NodePtr(P.id) /\ P.id \in DOMAIN old /\ new[P.id].t = "node"
    BY <1>1, UpperShape, ExcisedAbove
  <1>5. ASSUME NEW x, NEW q, NEW back, NEW k, Linked(array, new, x, q, back, k),
               x \notin G, back = NodePtr(x) \/ back = ShortcutPtr(x),
               ~(back = P /\ k = Upper.slot)
        PROVE  Linked(array, new', x, q, back, k)
    <2>1. x \in Anc(array, q.id) /\ x # q.id /\ q \in Meta(new)
          /\ new[q.id].t = q.t /\ NewUp(q.id) = back
          /\ (back.t = "node" => new[q.id].parent_slot = k)
      BY <1>5 DEF Linked, Leads, NewUp
    <2>2. q.id \in DOMAIN old /\ q.t \in {"node", "shortcut"} /\ q \in Meta(new')
      BY <1>1, <1>2, <2>1 DEF Meta
    <2>3. back.id = x /\ back # NULL
      BY <1>5 DEF NodePtr, ShortcutPtr, NULL
    <2>4. q.id \notin G \cup {r}
      <3> SUFFICES ASSUME q.id \in G \cup {r} PROVE FALSE
        OBVIOUS
      <3>1. back = P /\ (P # NULL => new[q.id].parent_slot = Upper.slot)
        BY <1>5, <2>1, <2>3 DEF Excised
      <3>2. P # NULL /\ back.t = "node"
        BY <1>4, <2>3, <3>1 DEF NodePtr
      <3> QED
        BY <1>5, <2>1, <3>1, <3>2
    <2>5. new'[q.id].t = q.t /\ new'[q.id].back_pointer = back
          /\ (back.t = "node" => new'[q.id].parent_slot = k)
      BY <2>1, <2>2, <2>4, ExcisedFrame DEF NewUp
    <2> QED
      BY <2>1, <2>2, <2>5 DEF Linked, Leads
  <1>6. P # NULL => Linked(array, new', P.id, [t |-> new[r].t, id |-> r], P, Upper.slot)
    BY <1>2 DEF Linked, Leads, Excised, Meta
  <1>7. ASSUME NEW x \in DOMAIN old, NEW k \in Slot, new'[x].t = "node", is_meta(new'[x].slots[k])
        PROVE  Linked(array, new', x, new'[x].slots[k], NodePtr(x), k)
    <2>1. x \notin G /\ new[x].t = "node"
      BY <1>7, ExcisedFrame
    <2>2. CASE P # NULL /\ x = P.id /\ k = Upper.slot
      <3>1. new'[x].slots[k] = [t |-> new[r].t, id |-> r]
        BY <2>2 DEF Excised
      <3> QED
        BY <1>4, <1>6, <2>2, <3>1
    <2>3. CASE ~(P # NULL /\ x = P.id /\ k = Upper.slot)
      <3>1. new'[x].slots[k] = new[x].slots[k]
        <4>1. CASE P # NULL /\ x = P.id
          BY <2>3, <4>1 DEF Excised
        <4>2. CASE P = NULL \/ x # P.id
          BY <2>1, <4>2, ExcisedFrame
        <4> QED
          BY <4>1, <4>2
      <3>2. Linked(array, new, x, new[x].slots[k], NodePtr(x), k)
        BY <1>7, <2>1, <3>1 DEF WalkInv, Links
      <3>3. ~(NodePtr(x) = P /\ k = Upper.slot)
        BY <2>3 DEF NodePtr, NULL
      <3> QED
        BY <1>5, <2>1, <3>1, <3>2, <3>3
    <2> QED
      BY <2>2, <2>3
  <1>8. ASSUME NEW x \in DOMAIN old, new'[x].t = "shortcut"
        PROVE  /\ new'[x].next_node = old[x].next_node
               /\ Linked(array, new', x, new'[x].next_node, ShortcutPtr(x), 0)
    <2>1. x \notin G /\ new[x].t = "shortcut"
      BY <1>8, ExcisedFrame
    <2>2. P = NULL \/ x # P.id
      BY <1>4, <2>1
    <2>3. new'[x].next_node = new[x].next_node
      BY <2>1, <2>2, ExcisedFrame
    <2>4. new[x].next_node = old[x].next_node /\ Linked(array, new, x, new[x].next_node, ShortcutPtr(x), 0)
      BY <2>1 DEF WalkInv, Links, Leaving
    <2>5. ShortcutPtr(x) # P
      BY <1>4 DEF NodePtr, ShortcutPtr, NULL
    <2> QED
      BY <1>5, <2>1, <2>3, <2>4, <2>5
  <1> QED
    BY <1>3, <1>7, <1>8 DEF Links

LEMMA ExciseInv ==
  ASSUME WalkInv, Live, Leaving, NEW G, NEW r, Excised(G, r)
  PROVE  WalkInv'
  <1>1. new' \in NewHeaps(old)
    BY DEF Excised
  <1>2. Types' /\ Place'
    BY <1>1, LeavingKeeps
  <1> QED
    BY <1>2, ExcisedOpened, ExcisedLinks DEF WalkInv

\* The open objects that climbing goes past.
LEMMA OpenAbove ==
  ASSUME WalkInv, Live, pc = "compress"
  PROVE  /\ new_n = node /\ node \in DOMAIN old /\ IsNode(array, node) /\ new[node].t = "node"
         /\ new[node].back_pointer = Up(array, node) /\ new[node].parent_slot = old[node].parent_slot
         /\ Upper.shortcut =>
              /\ new[Up(array, node).id].t = "shortcut"
              /\ new[Up(array, node).id].back_pointer = Upper.cursor
              /\ new[Up(array, node).id].parent_slot = Upper.slot
         /\ Upper.shortcut <=> is_shortcut(new[new_n].back_pointer)
  <1>1. /\ IsArray(array) /\ IsNode(array, node) /\ old = array.heap /\ node \in DOMAIN old
        /\ new_n = node /\ NewUp(node) = Up(array, node) /\ new[node].parent_slot = old[node].parent_slot
        /\ new_parent = NodePtr(node) /\ new[node].t = "node"
    BY FilledNode, LiveTree DEF Within, IsNode
  <1>2. ASSUME Upper.shortcut
        PROVE  /\ new[Up(array, node).id].t = "shortcut"
               /\ new[Up(array, node).id].back_pointer = Upper.cursor
               /\ new[Up(array, node).id].parent_slot = Upper.slot
    <2>1. PICK s : s = Up(array, node).id
      OBVIOUS
    <2>2. /\ s \in DOMAIN old /\ old[s].t = "shortcut" /\ Up(array, s) = Upper.cursor
          /\ old[s].parent_slot = Upper.slot /\ s \in Anc(array, node)
      BY <1>1, <1>2, <2>1, UpperShape
    <2>3. IsOpen(s)
      BY <1>1, <2>2 DEF IsOpen, Walking, Within, NodePtr, NULL
    <2> QED
      BY <2>1, <2>2, <2>3 DEF WalkInv, Opened, NewUp
  <1>3. Upper.shortcut <=> is_shortcut(Up(array, node))
    BY <1>1 DEF Upper, Up
  <1> QED
    BY <1>1, <1>2, <1>3 DEF NewUp

LEMMA LeaveNodeStep ==
  ASSUME WalkInv, Live, leave_node
  PROVE  Leaving /\ ~Upper.shortcut /\ UNCHANGED <<new, new_root>>
  <1>1. pc = "compress" /\ slot = FAN_OUT /\ UNCHANGED <<array, new, new_root, node>>
        /\ ~is_shortcut(new[new_n].back_pointer)
    BY DEF leave_node, Compressed, treeVars
  <1>2. new_n = node /\ IsArray(array) /\ IsNode(array, node) /\ ~Upper.shortcut
        /\ new[new_n].back_pointer = Up(array, node)
    BY <1>1, OpenAbove, LiveTree
  <1>3. Upper.cursor = new[new_n].back_pointer
    BY <1>2, UpperShape
  <1>4. Leaving
    <2>1. CASE Upper.cursor = NULL
      BY <1>1, <1>3, <2>1 DEF leave_node, Leaving
    <2>2. CASE Upper.cursor # NULL
      BY <1>1, <1>3, <2>2 DEF leave_node, Leaving, NodeAbove
    <2> QED
      BY <2>1, <2>2
  <1> QED
    BY <1>1, <1>2, <1>4

LEMMA LeaveNodeInv ==
  ASSUME WalkInv, Live, leave_node
  PROVE  WalkInv'
  BY LeaveNodeStep, LeaveInv

\* Heap h, with G freed and the back pointer of r set, before the pointer to r is.
Raised(h, G, r) ==
  /\ h \in NewHeaps(old)
  /\ G \subseteq DOMAIN old /\ r \in DOMAIN old /\ r \notin G
  /\ \A x \in G \cup {r} :
       /\ new[x].t \in {"node", "shortcut"}
       /\ Upper.cursor # NULL => Upper.cursor.id \in Anc(array, x) /\ Upper.cursor.id # x
       /\ \/ NewUp(x) # NULL /\ NewUp(x).id \in G
          \/ NewUp(x) = Upper.cursor /\ (Upper.cursor # NULL => new[x].parent_slot = Upper.slot)
  /\ \A x \in G : h[x] = Freed
  /\ \A x \in DOMAIN old : x \notin G /\ x # r => h[x] = new[x]
  /\ h[r].t = new[r].t /\ h[r].back_pointer = Upper.cursor
  /\ Upper.cursor # NULL => h[r].parent_slot = Upper.slot
  /\ new[r].t = "node" => h[r].nr = new[r].nr /\ h[r].slots = new[r].slots
  /\ new[r].t = "shortcut" => h[r].next_node = new[r].next_node

LEMMA RaisedExcises ==
  ASSUME WalkInv, Live, Leaving, NEW h, NEW G, NEW r, Raised(h, G, r),
         new' = IF Upper.cursor = NULL THEN h
                ELSE [h EXCEPT ![Upper.cursor.id].slots[Upper.slot] = [t |-> new[r].t, id |-> r]]
  PROVE  Excised(G, r)
  <1>1. CASE Upper.cursor = NULL
    BY <1>1 DEF Raised, Excised
  <1>2. CASE Upper.cursor # NULL
    <2>1. PICK P, k : P = Upper.cursor.id /\ k = Upper.slot
      OBVIOUS
    <2>2. /\ IsArray(array) /\ IsNode(array, node) /\ new_parent = NodePtr(node) /\ new \in NewHeaps(old)
      BY FilledNode, LiveTree DEF Leaving, Within, IsNode
    <2>3. P \in DOMAIN old /\ P \in Anc(array, node) /\ k \in Slot /\ old[P].t = "node"
      BY <1>2, <2>1, <2>2, UpperShape
    <2>4. IsOpen(P)
      BY <2>2, <2>3 DEF IsOpen, Leaving, Walking, Within, NodePtr, NULL
    <2>5. new[P].t = "node"
      BY <2>3, <2>4 DEF WalkInv, Opened
    <2>6. P \notin G /\ P # r
      BY <1>2, <2>1 DEF Raised
    <2>7. PICK n : n = new[P]
      OBVIOUS
    <2>8. n \in Nodes(old) /\ h[P] = n /\ h \in NewHeaps(old)
      BY <2>2, <2>3, <2>5, <2>6, <2>7, NewShape DEF Raised
    <2>9. PICK p : p = [t |-> new[r].t, id |-> r]
      OBVIOUS
    <2>10. PICK q : q = [n EXCEPT !.slots[k] = p]
      OBVIOUS
    <2>11. new' = [h EXCEPT ![P] = q]
      BY <1>2, <2>1, <2>8, <2>9, <2>10
    <2>12. p \in Pointers(old)
      BY <2>9 DEF Raised, Pointers, Meta
    <2>13. q \in Nodes(old) /\ q.t = n.t /\ q.back_pointer = n.back_pointer
           /\ q.parent_slot = n.parent_slot
           /\ \A j \in Slot : q.slots[j] = IF j = k THEN p ELSE n.slots[j]
      BY <2>3, <2>8, <2>10, <2>12 DEF Nodes, Pointers
    <2>14. new' \in NewHeaps(old) /\ new'[P] = q /\ \A x \in DOMAIN old : x # P => new'[x] = h[x]
      BY <2>3, <2>8, <2>11, <2>13 DEF NewHeaps
    <2> QED
      <3>1. \A x \in G : new'[x] = Freed
        BY <2>6, <2>14 DEF Raised
      <3>2. \A x \in DOMAIN old : x \notin G /\ x # r /\ x # P => new'[x] = new[x]
        BY <2>14 DEF Raised
      <3>3. new'[r] = h[r]
        BY <2>6, <2>14 DEF Raised
      <3>4. /\ G \subseteq DOMAIN old /\ r \in DOMAIN old /\ r \notin G
            /\ \A x \in G \cup {r} :
                 /\ new[x].t \in {"node", "shortcut"}
                 /\ Upper.cursor # NULL => Upper.cursor.id \in Anc(array, x) /\ Upper.cursor.id # x
                 /\ \/ NewUp(x) # NULL /\ NewUp(x).id \in G
                    \/ NewUp(x) = Upper.cursor /\ (Upper.cursor # NULL => new[x].parent_slot = Upper.slot)
        BY DEF Raised
      <3>5. /\ new'[r].t = new[r].t /\ new'[r].back_pointer = Upper.cursor
            /\ new'[r].parent_slot = Upper.slot
            /\ new[r].t = "node" =>
                 new'[r].nr = new[r].nr /\ \A j \in Slot : new'[r].slots[j] = new[r].slots[j]
            /\ new[r].t = "shortcut" => new'[r].next_node = new[r].next_node
        BY <1>2, <3>3 DEF Raised
      <3>6. /\ new'[P].t = new[P].t /\ new'[P].back_pointer = new[P].back_pointer
            /\ new'[P].parent_slot = new[P].parent_slot
            /\ \A j \in Slot : new'[P].slots[j] = IF j = k THEN p ELSE new[P].slots[j]
        BY <2>7, <2>13, <2>14
      <3>7. /\ new'[Upper.cursor.id].t = new[Upper.cursor.id].t
            /\ new'[Upper.cursor.id].back_pointer = new[Upper.cursor.id].back_pointer
            /\ new'[Upper.cursor.id].parent_slot = new[Upper.cursor.id].parent_slot
            /\ \A j \in Slot : new'[Upper.cursor.id].slots[j] =
                 IF j = Upper.slot THEN [t |-> new[r].t, id |-> r] ELSE new[Upper.cursor.id].slots[j]
        BY <2>1, <2>9, <3>6
      <3>8. \A x \in DOMAIN old :
              x \notin G /\ x # r /\ (Upper.cursor = NULL \/ x # Upper.cursor.id) => new'[x] = new[x]
        BY <1>2, <2>1, <3>2
      <3>9. new' \in NewHeaps(old)
        BY <2>14
      <3> QED
        BY <3>1, <3>4, <3>5, <3>7, <3>8, <3>9, Zenon DEF Excised
  <1> QED
    BY <1>1, <1>2

\* A shortcut is dropped, or kept.
LEMMA ExciseShortcutStep ==
  ASSUME WalkInv, Live, excise_shortcut
  PROVE  /\ Leaving /\ Upper.shortcut
         /\ \/ new[node].nr > FAN_OUT /\ UNCHANGED <<new, new_root>>
            \/ /\ new[node].nr <= FAN_OUT /\ Excised({Up(array, node).id}, node)
               /\ new_root' = IF Upper.cursor = NULL THEN NodePtr(node) ELSE new_root
  <1> DEFINE s == new[new_n].back_pointer.id
             drop == new[new_n].nr <= FAN_OUT
             P == Upper.cursor
  <1>1. pc = "compress" /\ slot = FAN_OUT /\ UNCHANGED <<array, node>>
        /\ is_shortcut(new[new_n].back_pointer)
    BY DEF excise_shortcut, Compressed
  <1>2. /\ new_n = node /\ node \in DOMAIN old /\ IsArray(array) /\ IsNode(array, node)
        /\ Upper.shortcut /\ new[node].t = "node"
        /\ new[node].back_pointer = Up(array, node) /\ s = Up(array, node).id
        /\ new[s].t = "shortcut" /\ new[s].back_pointer = P /\ new[s].parent_slot = Upper.slot
    BY <1>1, OpenAbove, LiveTree
  <1>3. Leaving
    <2>1. new_parent' = P /\ new_n' = P.id
          /\ pc' = IF drop /\ P = NULL THEN "gc_complete" ELSE "ascend"
      BY <1>2 DEF excise_shortcut, NodeAbove
    <2> QED
      BY <1>1, <1>2, <2>1 DEF Leaving
  <1>4. CASE ~drop
    <2>1. new' = new /\ new_root' = new_root
      BY <1>4 DEF excise_shortcut
    <2>2. new[node].nr \in Nat /\ FAN_OUT \in Nat
      BY <1>1, FilledNode, NodeShape, GcAssumption DEF Within
    <2> QED
      BY <1>2, <1>3, <1>4, <2>1, <2>2
  <1>5. CASE drop
    <2>0. new_root' = IF P = NULL THEN NodePtr(node) ELSE new_root
      BY <1>2, <1>5 DEF excise_shortcut
    <2>1. PICK h : h = Reparented(s)
      OBVIOUS
    <2>2. new' = IF P = NULL THEN h ELSE [h EXCEPT ![P.id].slots[Upper.slot] = NodePtr(new_n)]
      <3>1. new' = IF drop /\ P # NULL
                   THEN [h EXCEPT ![P.id].slots[Upper.slot] = NodePtr(new_n)] ELSE h
        BY <1>2, <1>5, <2>1 DEF excise_shortcut
      <3> QED
        BY <1>5, <3>1
    <2> HIDE DEF s, drop, P
    <2>3. /\ s \in DOMAIN old /\ s # node /\ new \in NewHeaps(old) /\ new[node] \in Nodes(old)
          /\ P \in {NULL} \cup Meta(old) /\ Upper.slot \in Slot
          /\ (P # NULL => P.id \in Anc(array, node) /\ P.id # node /\ P.id \in Anc(array, s) /\ P.id # s)
      <3>1. /\ s \in DOMAIN old /\ s # node
            /\ Upper.slot \in Slot
            /\ (P # NULL => P.id \in Anc(array, node) /\ P.id # node /\ P.id \in Anc(array, s) /\ P.id # s)
        BY <1>2, UpperShape DEF P
      <3>2. new \in NewHeaps(old) /\ new[node] \in Nodes(old)
        BY <1>1, LiveTree, FilledNode DEF Within
      <3>3. new[s] \in NewShortcuts(old)
        BY <1>2, <3>1, <3>2, NewShape
      <3> QED
        BY <1>2, <3>1, <3>2, <3>3 DEF NewShortcuts
    <2>4. PICK n : n = new[node]
      OBVIOUS
    <2>5. PICK q : q = [n EXCEPT !.back_pointer = P, !.parent_slot = Upper.slot]
      OBVIOUS
    <2>6. q \in Nodes(old) /\ q.slots = n.slots /\ q.t = n.t /\ q.nr = n.nr /\ q.back_pointer = P
          /\ q.parent_slot = Upper.slot
      BY <2>3, <2>4, <2>5 DEF Nodes
    <2>7. h = [[new EXCEPT ![s] = Freed] EXCEPT ![node] = q]
      BY <1>2, <2>1, <2>3, <2>4, <2>5 DEF Reparented, kfree, NewHeaps
    <2>8. h \in NewHeaps(old) /\ h[s] = Freed /\ h[node] = q
          /\ \A x \in DOMAIN old : x # s /\ x # node => h[x] = new[x]
      BY <1>2, <2>3, <2>6, <2>7 DEF NewHeaps
    <2>9. Raised(h, {s}, node)
      <3>1. NewUp(s) = P /\ new[s].parent_slot = Upper.slot
        BY <1>2 DEF NewUp
      <3>2. NewUp(node) # NULL /\ NewUp(node).id = s
        BY <1>1, <1>2 DEF NewUp, is_shortcut, NULL
      <3> QED
        BY <1>2, <2>3, <2>4, <2>6, <2>8, <3>1, <3>2 DEF Raised, P
    <2>10. NodePtr(new_n) = [t |-> new[node].t, id |-> node]
      BY <1>2 DEF NodePtr
    <2>11. Excised({s}, node)
      BY <1>3, <2>2, <2>9, <2>10, RaisedExcises DEF P
    <2> QED
      BY <1>2, <1>3, <1>5, <2>0, <2>11 DEF P, drop
  <1> QED
    BY <1>4, <1>5

LEMMA ExciseShortcutInv ==
  ASSUME WalkInv, Live, excise_shortcut
  PROVE  WalkInv'
  BY ExciseShortcutStep, LeaveInv, ExciseInv

\* The one pointer left in a node.
LEMMA OnlySlot ==
  ASSUME WalkInv, Live, pc = "compress", SingleShortcut
  PROVE  /\ Only.id \in DOMAIN old /\ Only = ShortcutPtr(Only.id)
         /\ new[Only.id].t = "shortcut" /\ NewUp(Only.id) = NodePtr(node)
         /\ node \in Anc(array, Only.id) /\ node # Only.id
  <1>1. InStep /\ Compressing /\ pc \in Within
    BY DEF WalkInv, Place, Within
  <1>2. nr_free = FAN_OUT - 1 /\ nr_free = Cardinality(Vacant) /\ new_n = node
    BY <1>1 DEF SingleShortcut, Compressing, InStep
  <1>3. Vacant # Slot
    BY <1>2, SlotsFinite, GcAssumption
  <1>4. \E p \in {new[new_n].slots[k] : k \in Slot} : p # NULL
    BY <1>2, <1>3 DEF Vacant
  <1>5. PICK k \in Slot : Only = new[new_n].slots[k]
    BY <1>4 DEF Only
  <1>6. is_meta(new[new_n].slots[k]) /\ new[new_n].slots[k].t = "shortcut"
    BY <1>5 DEF SingleShortcut, is_shortcut, is_meta
  <1>7. /\ new[node].slots[k].id \in DOMAIN old
        /\ node \in Anc(array, new[node].slots[k].id) /\ node # new[node].slots[k].id
        /\ new[node].slots[k] = [t |-> new[node].slots[k].t, id |-> new[node].slots[k].id]
        /\ new[new[node].slots[k].id].t = new[node].slots[k].t
        /\ NewUp(new[node].slots[k].id) = NodePtr(node)
    BY <1>1, <1>6, ChildIsNode
  <1> QED
    BY <1>2, <1>5, <1>6, <1>7 DEF ShortcutPtr

\* The heap with a node, and maybe the shortcut before it, freed and r moved up.
LEMMA Lifted ==
  ASSUME WalkInv, Live, pc = "compress", SingleShortcut, NEW r, r = Only.id,
         NEW G, G = {node} \cup (IF Upper.shortcut THEN {Up(array, node).id} ELSE {}),
         NEW h \in NewHeaps(old), h[r].t = new[r].t, h[r].back_pointer = Upper.cursor,
         Upper.cursor # NULL => h[r].parent_slot = Upper.slot,
         h[r].next_node = new[r].next_node, \A x \in G : h[x] = Freed,
         \A x \in DOMAIN old : x \notin G /\ x # r => h[x] = new[x]
  PROVE  Raised(h, G, r)
  <1> DEFINE P == Upper.cursor
             s == Up(array, node).id
  <1>1. /\ r \in DOMAIN old /\ new[r].t = "shortcut" /\ NewUp(r) = NodePtr(node)
        /\ node \in Anc(array, r) /\ node # r
    BY OnlySlot
  <1>2. /\ IsArray(array) /\ IsNode(array, node) /\ node \in DOMAIN old /\ new[node].t = "node"
        /\ NewUp(node) = Up(array, node) /\ new[node].parent_slot = old[node].parent_slot
        /\ old = array.heap /\ new \in NewHeaps(old)
        /\ Upper.shortcut => new[s].t = "shortcut" /\ NewUp(s) = P /\ new[s].parent_slot = Upper.slot
    BY OpenAbove, LiveTree DEF NewUp
  <1>3. /\ P # NULL => P \in Meta(old) /\ P.id \in DOMAIN old /\ P.id \in Anc(array, node) /\ P.id # node
        /\ Upper.shortcut => /\ s \in DOMAIN old /\ s \in Anc(array, node) /\ s # node
                             /\ Up(array, node) # NULL
                             /\ P # NULL => P.id \in Anc(array, s) /\ P.id # s
        /\ ~Upper.shortcut => P = Up(array, node) /\ Upper.slot = old[node].parent_slot
    <2>1. P # NULL => P.id \in DOMAIN old /\ P.id \in Anc(array, node) /\ P.id # node /\ P = NodePtr(P.id)
      BY <1>2, UpperShape
    <2>2. P # NULL => P \in Meta(old)
      BY <2>1 DEF Meta, NodePtr
    <2>3. /\ Upper.shortcut => /\ s \in DOMAIN old /\ s \in Anc(array, node) /\ s # node
                               /\ Up(array, node).t = "shortcut"
                               /\ P # NULL => P.id \in Anc(array, s) /\ P.id # s
          /\ ~Upper.shortcut => P = Up(array, node) /\ Upper.slot = old[node].parent_slot
      BY <1>2, UpperShape
    <2> QED
      BY <2>1, <2>2, <2>3 DEF NULL
  <1> HIDE DEF P, s
  <1>4. \A y \in Anc(array, node) : y # r
    <2> SUFFICES ASSUME r \in Anc(array, node) PROVE FALSE
      OBVIOUS
    <2> QED
      BY <1>1, <1>2, AncOnce
  <1>5. P # NULL => P.id \in Anc(array, r) /\ P.id # r
    BY <1>1, <1>2, <1>3, <1>4, AncTrans
  <1>6. G \subseteq DOMAIN old /\ r \notin G /\ (Upper.shortcut <=> s \in G /\ Upper.shortcut) /\ node \in G
    BY <1>1, <1>2, <1>3, <1>4 DEF s
  <1>7. ASSUME NEW x \in G \cup {r}
        PROVE  /\ new[x].t \in {"node", "shortcut"}
               /\ P # NULL => P.id \in Anc(array, x) /\ P.id # x
               /\ \/ NewUp(x) # NULL /\ NewUp(x).id \in G
                  \/ NewUp(x) = P /\ (P # NULL => new[x].parent_slot = Upper.slot)
    <2>1. CASE x = r
      <3>1. NodePtr(node) # NULL /\ NodePtr(node).id = node
        BY DEF NodePtr, NULL
      <3> QED
        BY <1>1, <1>5, <1>6, <2>1, <3>1
    <2>2. CASE x = node
      <3>1. CASE Upper.shortcut
        <4>1. Up(array, node).id \in G
          BY <1>6, <3>1 DEF s
        <4> QED
          BY <1>2, <1>3, <2>2, <3>1, <4>1
      <3>2. CASE ~Upper.shortcut
        BY <1>2, <1>3, <2>2, <3>2
      <3> QED
        BY <3>1, <3>2
    <2>3. CASE Upper.shortcut /\ x = s
      BY <1>2, <1>3, <2>3
    <2> QED
      BY <2>1, <2>2, <2>3 DEF s
  <1> QED
    BY <1>1, <1>6, <1>7 DEF Raised, P

\* A node that holds one shortcut only is dropped.
LEMMA ExciseNodeStep ==
  ASSUME WalkInv, Live, excise_node
  PROVE  /\ Leaving /\ SingleShortcut
         /\ Excised({node} \cup (IF Upper.shortcut THEN {Up(array, node).id} ELSE {}), Only.id)
         /\ new_root' = IF Upper.cursor = NULL THEN Only ELSE new_root
  <1> DEFINE P == Upper.cursor
             s == Up(array, node).id
             pre == Upper.shortcut
             k == IF P = NULL THEN 0 ELSE Upper.slot
  <1>1. pc = "compress" /\ slot = FAN_OUT /\ UNCHANGED <<array, node>> /\ SingleShortcut
    BY DEF excise_node, Compressed
  <1>2. /\ new_n = node /\ node \in DOMAIN old /\ IsArray(array) /\ IsNode(array, node)
        /\ new[node].back_pointer = Up(array, node) /\ new[node].parent_slot = old[node].parent_slot
        /\ pre => /\ new[s].back_pointer = P /\ new[s].parent_slot = Upper.slot
        /\ pre <=> is_shortcut(new[new_n].back_pointer)
    BY <1>1, OpenAbove, LiveTree
  <1>3. ~pre => P = Up(array, node) /\ Upper.slot = old[node].parent_slot
    BY <1>2, UpperShape
  <1>4. PICK r : r = Only.id
    OBVIOUS
  <1>5. /\ r \in DOMAIN old /\ Only = ShortcutPtr(r) /\ new[r].t = "shortcut" /\ node # r
        /\ node \in Anc(array, r)
    BY <1>1, <1>4, OnlySlot
  <1>6. PICK h1 : h1 = [[new EXCEPT ![node] = Freed] EXCEPT ![r].back_pointer = P, ![r].parent_slot = k]
    OBVIOUS
  <1>7. PICK h : h = IF pre THEN [h1 EXCEPT ![s] = Freed] ELSE h1
    OBVIOUS
  <1>8. /\ new_parent' = P /\ new_root' = IF P = NULL THEN Only ELSE new_root
        /\ P = NULL => new' = h /\ pc' = "gc_complete"
        /\ P # NULL => /\ new' = [h EXCEPT ![P.id].slots[Upper.slot] = Only]
                       /\ new_n' = P.id /\ pc' = "ascend"
    <2> DEFINE up == new[new_n].back_pointer
               parent == IF is_shortcut(up) THEN new[up.id].back_pointer ELSE up
               pslot == IF is_shortcut(up) THEN new[up.id].parent_slot ELSE new[new_n].parent_slot
               g == [kfree(new, new_n) EXCEPT
                      ![Only.id].back_pointer = parent,
                      ![Only.id].parent_slot = IF parent = NULL THEN 0 ELSE pslot]
               g2 == IF is_shortcut(up) THEN kfree(g, up.id) ELSE g
    <2>1. /\ new_parent' = parent
          /\ IF parent = NULL
             THEN new' = g2 /\ new_root' = Only /\ pc' = "gc_complete"
             ELSE /\ new' = [g2 EXCEPT ![parent.id].slots[pslot] = Only]
                  /\ new_n' = parent.id /\ pc' = "ascend" /\ UNCHANGED new_root
      BY Zenon DEF excise_node
    <2> HIDE DEF parent, pslot, g, g2
    <2>2. /\ new_parent' = parent
          /\ parent = NULL => new' = g2 /\ new_root' = Only /\ pc' = "gc_complete"
          /\ parent # NULL => /\ new' = [g2 EXCEPT ![parent.id].slots[pslot] = Only]
                              /\ new_n' = parent.id /\ pc' = "ascend" /\ new_root' = new_root
      BY <2>1
    <2>3. /\ is_shortcut(up) <=> pre
          /\ parent = P /\ pslot = Upper.slot /\ up.id = s
      BY <1>2, <1>3 DEF parent, pslot
    <2>4. g = h1
      BY <1>2, <1>4, <1>6, <2>3 DEF kfree, g
    <2>5. g2 = h
      BY <1>7, <2>3, <2>4 DEF kfree, g2
    <2> QED
      BY <2>2, <2>3, <2>5
  <1>9. Leaving
    BY <1>1, <1>8 DEF Leaving
  <1> HIDE DEF P, s, pre, k
  <1>10. /\ P \in {NULL} \cup Meta(old) /\ k \in Slot
         /\ pre => s \in DOMAIN old /\ s # node /\ s # r
    <2>1. P # NULL => P.id \in DOMAIN old /\ P = NodePtr(P.id)
      BY <1>2, UpperShape DEF P
    <2>2. P # NULL => P \in Meta(old)
      BY <2>1 DEF Meta, NodePtr
    <2>3. k \in Slot
      BY <1>2, UpperShape, GcAssumption DEF Slot, k
    <2>4. pre => s \in DOMAIN old /\ s \in Anc(array, node) /\ s # node
      BY <1>2, UpperShape DEF s, pre
    <2>5. pre => s # r
      BY <1>2, <1>5, <2>4, AncOnce DEF IsNode
    <2> QED
      BY <2>2, <2>3, <2>4, <2>5
  <1>11. PICK q : q = [new[r] EXCEPT !.back_pointer = P, !.parent_slot = k]
    OBVIOUS
  <1>12. new \in NewHeaps(old) /\ new[r] \in NewShortcuts(old)
    BY <1>5, LiveTree, NewShape
  <1>13. /\ q \in NewShortcuts(old) /\ q.t = "shortcut" /\ q.back_pointer = P /\ q.parent_slot = k
         /\ q.next_node = new[r].next_node
    BY <1>10, <1>11, <1>12 DEF NewShortcuts
  <1>14. h1 = [[new EXCEPT ![node] = Freed] EXCEPT ![r] = q]
    BY <1>2, <1>5, <1>6, <1>11, <1>12 DEF NewHeaps
  <1>15. /\ h1 \in NewHeaps(old) /\ h1[node] = Freed /\ h1[r] = q
         /\ \A x \in DOMAIN old : x # node /\ x # r => h1[x] = new[x]
    BY <1>2, <1>5, <1>12, <1>13, <1>14 DEF NewHeaps
  <1>16. /\ h \in NewHeaps(old) /\ h[node] = Freed /\ h[r] = q /\ (pre => h[s] = Freed)
         /\ \A x \in DOMAIN old : x # node /\ x # r /\ ~(pre /\ x = s) => h[x] = new[x]
    <2>1. CASE pre
      <3>1. h = [h1 EXCEPT ![s] = Freed]
        BY <1>7, <2>1
      <3> QED
        BY <1>2, <1>5, <1>10, <1>15, <2>1, <3>1 DEF NewHeaps
    <2>2. CASE ~pre
      BY <1>7, <1>15, <2>2
    <2> QED
      BY <2>1, <2>2
  <1>17. PICK G : G = {node} \cup (IF Upper.shortcut THEN {Up(array, node).id} ELSE {})
    OBVIOUS
  <1>18. \A x : x \in G <=> x = node \/ (pre /\ x = s)
    BY <1>17 DEF pre, s
  <1>19. Raised(h, G, r)
    <2>1. \A x \in G : h[x] = Freed
      BY <1>16, <1>18
    <2>2. \A x \in DOMAIN old : x \notin G /\ x # r => h[x] = new[x]
      BY <1>16, <1>18
    <2>3. /\ h[r].t = new[r].t /\ h[r].back_pointer = Upper.cursor
          /\ Upper.cursor # NULL => h[r].parent_slot = Upper.slot
          /\ h[r].next_node = new[r].next_node
      BY <1>5, <1>13, <1>16 DEF P, k
    <2> QED
      BY <1>1, <1>4, <1>16, <1>17, <2>1, <2>2, <2>3, Lifted
  <1>20. new' = IF Upper.cursor = NULL THEN h
                ELSE [h EXCEPT ![Upper.cursor.id].slots[Upper.slot] = [t |-> new[r].t, id |-> r]]
    BY <1>5, <1>8 DEF P, ShortcutPtr
  <1>21. Excised(G, r)
    BY <1>9, <1>19, <1>20, RaisedExcises
  <1> QED
    BY <1>1, <1>4, <1>8, <1>9, <1>17, <1>21 DEF P

LEMMA ExciseNodeInv ==
  ASSUME WalkInv, Live, excise_node
  PROVE  WalkInv'
  BY ExciseNodeStep, ExciseInv

\* The old tree is climbed after the new one.
LEMMA AscendInv ==
  ASSUME WalkInv, Live, ascend_old_tree
  PROVE  WalkInv'
  <1>1. /\ pc = "ascend" /\ UNCHANGED <<array, new, new_parent, new_n>> /\ old' = old
        /\ \/ /\ Upper.cursor # NULL /\ node' = Upper.cursor.id /\ slot' = Upper.slot + 1
              /\ pc' = "continue_node"
           \/ Upper.cursor = NULL /\ pc' = "gc_complete"
    BY DEF ascend_old_tree, treeVars, SlotAfter, old
  <1>2. /\ IsArray(array) /\ IsNode(array, node) /\ new_parent = Upper.cursor
        /\ Upper.cursor # NULL => new_n = Upper.cursor.id
        /\ old = array.heap
    BY <1>1, LiveTree DEF WalkInv, Place, Ascending
  <1>3. /\ Upper.cursor # NULL => /\ Upper.cursor = NodePtr(Upper.cursor.id)
                                  /\ IsNode(array, Upper.cursor.id)
        /\ Upper.slot \in Slot
    BY <1>2, UpperShape DEF IsNode
  <1>4. Types' /\ Live'
    BY <1>1 DEF Types, WalkInv, Walking, Within, Live
  <1>5. Place'
    <2>1. pc' = "continue_node" => InStep'
      BY <1>1, <1>2, <1>3, GcAssumption DEF InStep, IsNode, Slot
    <2> QED
      BY <1>1, <2>1 DEF Place, Within
  <1>6. \A y, k : Waits(y, k) <=> After(array, node, y, k)
    BY <1>1 DEF Waits, Within
  <1>7. \A y, k : k \in Slot => (Waits(y, k)' <=> Waits(y, k))
    <2>1. CASE Upper.cursor # NULL /\ pc' = "continue_node" /\ node' = Upper.cursor.id /\ slot' = Upper.slot + 1
      <3>1. \A y, k : Waits(y, k)' <=>
              After(array, Upper.cursor.id, y, k) \/ (y = Upper.cursor.id /\ Upper.slot + 1 <= k)
        BY <1>1, <2>1 DEF Waits, Within
      <3>2. \A k \in Slot : Upper.slot + 1 <= k <=> Upper.slot < k
        BY <1>3, GcAssumption DEF Slot
      <3>3. \A y, k : After(array, node, y, k) <=>
              After(array, Upper.cursor.id, y, k) \/ (y = Upper.cursor.id /\ Upper.slot < k)
        BY <1>2, <2>1, UpperShape
      <3> QED
        BY <1>6, <3>1, <3>2, <3>3
    <2>2. CASE Upper.cursor = NULL /\ pc' = "gc_complete"
      <3>1. \A y, k : ~After(array, node, y, k)
        BY <1>2, <2>2, UpperShape
      <3>2. \A y, k : ~Waits(y, k)'
        BY <2>2 DEF Waits, Within
      <3> QED
        BY <1>6, <3>1, <3>2
    <2> QED
      BY <1>1, <2>1, <2>2
  <1>8. \A x : IsOpen(x)' => IsOpen(x)
    BY <1>1, <1>2 DEF IsOpen, Walking, Within
  <1>9. \A x : Unvisited(x)' <=> Unvisited(x)
    BY <1>1, <1>7 DEF Unvisited
  <1>10. Opened'
    BY <1>1, <1>7, <1>8, <1>9 DEF Opened, WalkInv, NewUp
  <1>11. Links'
    BY <1>1 DEF Links, WalkInv
  <1> QED
    BY <1>4, <1>5, <1>10, <1>11 DEF WalkInv

LEMMA CompleteInv ==
  ASSUME WalkInv, Live, gc_complete
  PROVE  WalkInv'
  <1>1. pc = "gc_complete" /\ pc' = "done" /\ UNCHANGED <<array, new>> /\ old' = old
    BY DEF gc_complete, treeVars, old
  <1>2. Types' /\ Place'
    BY <1>1 DEF Types, WalkInv, Live, Place, Within, Walking
  <1>3. /\ \A y, k : Waits(y, k)' <=> Waits(y, k)
        /\ \A x : ~IsOpen(x)'
    BY <1>1 DEF Waits, Within, IsOpen, Walking
  <1>4. \A x : Unvisited(x)' <=> Unvisited(x)
    BY <1>1, <1>3 DEF Unvisited
  <1>5. Opened' /\ Links'
    BY <1>1, <1>3, <1>4 DEF Opened, Links, WalkInv, NewUp
  <1> QED
    BY <1>2, <1>5 DEF WalkInv

\* The collection begins at the root.
LEMMA StartInv ==
  ASSUME WalkInv, assoc_array_gc
  PROVE  WalkInv'
  <1>1. /\ pc = "start" /\ UNCHANGED <<array, new_parent, dest, new_root, kept, dropped>>
        /\ pc' \in IF array.root = NULL THEN {"done"} ELSE {"descend", "ENOMEM"}
        /\ new' = [x \in DOMAIN old |-> Absent] /\ cursor' = array.root /\ old' = old
    BY DEF assoc_array_gc, old
  <1>2. array \in Trees /\ Fresh
    BY <1>1 DEF WalkInv, Types, Place
  <1>3. CASE pc' # "descend"
    <2>1. ~Live' /\ pc' \in {"done", "ENOMEM"} /\ (array.root = NULL => pc' = "done")
      BY <1>1, <1>3 DEF Live
    <2> QED
      BY <1>1, <1>2, <2>1 DEF WalkInv, Types, Place
  <1>4. CASE pc' = "descend"
    <2>1. array.root # NULL /\ IsArray(array) /\ old = array.heap
      BY <1>1, <1>2, <1>4, GcAssumption DEF old
    <2>2. /\ array.root.id \in DOMAIN old /\ Up(array, array.root.id) = NULL
          /\ array.root \in Meta(old) /\ old[array.root.id].t = array.root.t
          /\ \A x \in DOMAIN old : array.root.id \in Anc(array, x)
      <3>1. array.root.id \in DOMAIN old
        BY <2>1 DEF IsArray, Leads, Meta
      <3> QED
        BY <2>1, <3>1, TopIsRoot
    <2>3. Types' /\ Live'
      BY <1>1, <1>2, <1>4, <2>1 DEF Types, Live, Walking, NewHeaps
    <2>4. Place'
      <3>1. new_parent = NULL /\ NULL.t = "null" /\ dest = [t |-> "root"]
        BY <1>2 DEF Fresh, NULL
      <3>2. Descending'
        BY <1>1, <2>2, <3>1 DEF Descending
      <3> QED
        BY <1>4, <3>2 DEF Place, Within
    <2>5. \A x \in DOMAIN old : new'[x] = Absent /\ new'[x].t = "absent"
      BY <1>1 DEF Absent
    <2>6. \A y, k : ~Waits(y, k)'
      <3>1. \A y, k : Waits(y, k)' <=> After(array, array.root.id, y, k)
        BY <1>1, <1>4 DEF Waits, Within
      <3> QED
        BY <2>1, <2>2, <3>1, AfterSplit
    <2>7. \A x : ~IsOpen(x)'
      BY <1>1, <1>2 DEF IsOpen, Fresh
    <2>8. \A x \in DOMAIN old : Unvisited(x)'
      BY <1>1, <1>4, <2>2 DEF Unvisited
    <2>9. Opened' /\ Links'
      BY <1>1, <2>5, <2>6, <2>7, <2>8 DEF Opened, Links
    <2> QED
      BY <2>3, <2>4, <2>9 DEF WalkInv
  <1> QED
    BY <1>3, <1>4

\* An error ends it.
LEMMA ErrorInv ==
  ASSUME WalkInv, Live, enomem \/ BUG_ON
  PROVE  WalkInv'
  <1>1. UNCHANGED array /\ pc' \in {"ENOMEM", "BUG"}
    BY DEF enomem, BUG_ON, treeVars
  <1>2. ~Live' /\ array.root # NULL
    BY <1>1 DEF Live
  <1> QED
    BY <1>1, <1>2 DEF WalkInv, Types, Place

-----------------------------------------------------------------------------
(* The walk, put together.                                                 *)

LEMMA WalkInit ==
  Init => WalkInv
  BY DEF Init, InitLocals, WalkInv, Types, Place, Fresh, Live

\* A step of a collection that has not ended.
LEMMA LiveSteps ==
  ASSUME WalkInv, Next, ~assoc_array_gc
  PROVE  Live
  <1>1. pc \notin {"start", "ENOMEM", "BUG", "done"}
    BY DEF Next, assoc_array_gc, descend_shortcut, descend_node, continue_node, compress,
           compress_skip, compress_retain, compress_fold, fold, fold_end, retry,
           excise_node, excise_shortcut, leave_node, ascend_old_tree, gc_complete, BUG_ON,
           Compressed, BugShortcut, BugMeta, BugFull, BugCursor, enomem
  <1> QED
    BY <1>1 DEF WalkInv, Types, Live

LEMMA WalkNext ==
  ASSUME WalkInv, [Next]_vars
  PROVE  WalkInv'
  <1>1. CASE assoc_array_gc
    BY <1>1, StartInv
  <1>2. CASE Next /\ ~assoc_array_gc
    <2>1. Live
      BY <1>2, LiveSteps
    <2>2. CASE descend_shortcut
      <3>1. pc' = "ENOMEM" => enomem
        BY <2>2 DEF descend_shortcut
      <3> QED
        BY <2>1, <2>2, <3>1, DescendShortcutInv, ErrorInv
    <2>3. CASE descend_node
      <3>1. pc' = "ENOMEM" => enomem
        BY <2>3 DEF descend_node
      <3> QED
        BY <2>1, <2>3, <3>1, DescendNodeInv, ErrorInv
    <2>4. CASE continue_node
      BY <2>1, <2>4, ContinueInv, DescendBegins
    <2>5. CASE compress
      BY <2>1, <2>5, CompressInv
    <2>6. CASE compress_skip \/ compress_retain
      BY <2>1, <2>6, PassInv
    <2>7. CASE compress_fold
      BY <2>1, <2>7, FoldBegins
    <2>8. CASE fold
      BY <2>1, <2>8, FoldInv
    <2>9. CASE fold_end
      BY <2>1, <2>9, FoldEnds
    <2>10. CASE retry
      BY <2>1, <2>10, RetryInv
    <2>11. CASE excise_node
      BY <2>1, <2>11, ExciseNodeInv
    <2>12. CASE excise_shortcut
      BY <2>1, <2>12, ExciseShortcutInv
    <2>13. CASE leave_node
      BY <2>1, <2>13, LeaveNodeInv
    <2>14. CASE ascend_old_tree
      BY <2>1, <2>14, AscendInv
    <2>15. CASE gc_complete
      BY <2>1, <2>15, CompleteInv
    <2>16. CASE BUG_ON
      BY <2>1, <2>16, ErrorInv
    <2>17. \/ descend_shortcut \/ descend_node \/ continue_node \/ compress
           \/ compress_skip \/ compress_retain \/ compress_fold \/ fold \/ fold_end \/ retry
           \/ excise_node \/ excise_shortcut \/ leave_node \/ ascend_old_tree \/ gc_complete
           \/ BUG_ON
      BY <1>2, Zenon DEF Next
    <2> QED
      BY <2>2, <2>3, <2>4, <2>5, <2>6, <2>7, <2>8, <2>9, <2>10, <2>11, <2>12, <2>13, <2>14,
         <2>15, <2>16, <2>17, Zenon
  <1>3. CASE UNCHANGED vars
    <2>0. array' = array /\ new' = new /\ pc' = pc
      BY <1>3 DEF vars, treeVars
    <2>1. Types' /\ (Live' <=> Live)
      BY <2>0, Zenon DEF WalkInv, Types, Live, old
    <2>2. Place'
      BY <1>3, <2>1, Zenon DEF vars, treeVars, walkVars, foldVars, WalkInv, Place, Fresh,
         Descending, InStep, Compressing, Folding, Ascending, NewUp, Vacant, Upper, old
    <2>3. UNCHANGED <<array, new, pc, new_parent, cursor, node, slot>>
      BY <1>3 DEF vars, treeVars, walkVars, foldVars
    <2>4. \A y, k : Waits(y, k)' <=> Waits(y, k)
      BY <2>3, Zenon DEF Waits
    <2>5. Opened => Opened'
      BY <2>3, <2>4, Zenon DEF Opened, IsOpen, Unvisited, NewUp, old
    <2>6. Links => Links'
      BY <2>3, Zenon DEF Links, old
    <2> QED
      BY <2>1, <2>2, <2>5, <2>6, Zenon DEF WalkInv
  <1> QED
    BY <1>1, <1>2, <1>3

\* Each step of the walk down and up keeps both trees, and the way between them, in order.
THEOREM WalkInvariance ==
  Spec => []WalkInv
  <1>1. WalkInv /\ [Next]_vars => WalkInv'
    BY WalkNext
  <1> QED
    BY <1>1, WalkInit, PTL DEF Spec

\* When the next slot is looked at, the node being filled is the copy of the node being
\* read, and is not freed.
THEOREM WalksKeepStep ==
  Spec => []WalksInStep
  <1>1. WalkInv => WalksInStep
    <2> SUFFICES ASSUME WalkInv, pc = "continue_node" PROVE new_n = node /\ new[new_n].t = "node"
      BY DEF WalksInStep
    <2>1. Live /\ pc \in Within
      BY DEF WalkInv, Types, Live, Within
    <2> QED
      BY <2>1, FilledNode
  <1> QED
    BY <1>1, WalkInvariance, PTL

\* BUG_ON(!cursor): the walk does not climb past a root that has no shortcut.
THEOREM CursorNeverLost ==
  Spec => []~BugCursor
  <1>1. WalkInv => ~BugCursor
    <2> SUFFICES ASSUME WalkInv, pc = "ascend" PROVE Upper.cursor = NULL => Upper.shortcut
      BY DEF BugCursor
    <2>1. Live
      BY DEF WalkInv, Types, Live
    <2> QED
      BY <2>1 DEF WalkInv, Place, Ascending
  <1> QED
    BY <1>1, WalkInvariance, PTL

-----------------------------------------------------------------------------
(* The shape of the new tree.                                              *)

\* The child being folded in: allocated still, but no longer pointed to.
Detached(x) == pc = "fold" /\ x = cursor.id

\* The object above x is the nearest one that is left.
Nearest(a, h, x) ==
  LET up == h[x].back_pointer
  IN /\ up = NULL => \A y \in Anc(a, x) : y = x \/ h[y] = Freed
     /\ up # NULL =>
          /\ up \in Meta(h) /\ h[up.id].t = up.t
          /\ up.id \in Anc(a, x) /\ up.id # x
          /\ \A y \in Anc(a, x) : y = x \/ y \in Anc(a, up.id) \/ h[y] = Freed

\* The pointer to x is where x expects it.
PointedTo(h, root, x) ==
  LET up == h[x].back_pointer
  IN [t |-> h[x].t, id |-> x] =
       IF up = NULL THEN root
       ELSE IF is_shortcut(up) THEN h[up.id].next_node
       ELSE h[up.id].slots[h[x].parent_slot]

ShapeInv ==
  /\ \A x \in DOMAIN old : Allocated(x) =>
       Nearest(array, new, x) /\ (Detached(x) \/ PointedTo(new, new_root, x))
  /\ ~(pc = "descend" /\ new_parent = NULL) => Leads(new, new_root, NULL, 0)

-----------------------------------------------------------------------------
(* The leaves.                                                             *)

\* Slot k of the new node y holds a leaf; of the child being folded in only those
\* slots count that are not moved yet.
NewLeaf(y, k) ==
  /\ new[y].t = "node" /\ new[y].slots[k].t = "leaf"
  /\ ~(Detached(y) /\ k < i)

\* A leaf at home in x is in the nearest node that is left, y.
Settled(y, x) ==
  /\ y \in Anc(array, x)
  /\ \A z \in Anc(array, x) :
       z \in Anc(array, y) \/ new[z] = Freed \/ (Detached(z) /\ y = node)

\* Slot k of node x was looked at.
Passed(x, k) == new[x] # Absent /\ ~Waits(x, k)

\* The iterator was asked about exactly the leaves the walk has passed.
Asked ==
  /\ \A x, k, l : HoldsLeaf(array, x, k, l) => (l \in kept \cup dropped <=> Passed(x, k))
  /\ kept \cap dropped = {}
  /\ \A l \in kept \cup dropped : \E x, k : HoldsLeaf(array, x, k, l)

\* Each leaf kept is in one place.
Housed ==
  /\ \A y \in DOMAIN old, k \in Slot : NewLeaf(y, k) =>
       /\ new[y].slots[k] \in kept
       /\ \E x, m : HoldsLeaf(array, x, m, new[y].slots[k]) /\ Settled(y, x)
  /\ \A l \in kept : \E y \in DOMAIN old, k \in Slot : NewLeaf(y, k) /\ new[y].slots[k] = l
  /\ \A y, z \in DOMAIN old, k, m \in Slot :
       NewLeaf(y, k) /\ NewLeaf(z, m) /\ new[y].slots[k] = new[z].slots[m] => y = z /\ k = m

-----------------------------------------------------------------------------
(* The counts.                                                             *)

\* The leaves kept of those at home below x.
KeptUnder(x) ==
  {l \in kept : \E y, k : x \in Anc(array, y) /\ HoldsLeaf(array, y, k, l)}

\* What is finished.
Closed(x) == x \in DOMAIN old /\ Allocated(x) /\ ~IsOpen(x)

\* The leaves counted so far in the node being compressed.
Counted ==
  {l \in kept : \/ \E k \in Slot : new[node].slots[k] = l
                \/ \E k \in Slot : /\ k < slot /\ is_meta(new[node].slots[k])
                                   /\ l \in KeptUnder(new[node].slots[k].id)
                \/ pc = "fold" /\ l \in KeptUnder(cursor.id)}

\* What is left to be moved of the child.
Movable == {k \in Slot : i <= k /\ new[cursor.id].slots[k].t = "leaf"}

\* The count of a finished node is right, and in the patched program one with room holds
\* only leaves; a shortcut leads to a node that could not be one of leaves only.
FinishedAt(x) ==
  /\ new[x].t = "node" =>
       /\ new[x].nr = Cardinality(KeptUnder(x))
       /\ prog = "repro_fixed.c" /\ new[x].nr < FAN_OUT => \A k \in Slot : ~is_meta(new[x].slots[k])
  /\ new[x].t = "shortcut" =>
       new[x].next_node.t = "node" /\ new[new[x].next_node.id].nr > FAN_OUT

Finished == \A x \in DOMAIN old : Closed(x) => FinishedAt(x)

\* A copy is of the type it was copied from.
Kinds == \A x \in DOMAIN old : Allocated(x) => new[x].t = old[x].t

\* Object x holds what it did.
SameBody(x) ==
  /\ new'[x].t = new[x].t
  /\ new[x].t = "node" => new'[x].nr = new[x].nr /\ \A k \in Slot : new'[x].slots[k] = new[x].slots[k]
  /\ new[x].t = "shortcut" => new'[x].next_node = new[x].next_node

Counting ==
  /\ pc \in {"compress", "fold"} =>
       /\ new[node].nr = Cardinality(Counted)
       /\ \A k \in Slot : k < next_slot => k \notin Vacant
       /\ ~retained => \A k \in Slot : k < slot => ~is_meta(new[node].slots[k])
  /\ pc = "fold" => Cardinality(Movable) <= nr_free
  /\ pc = "ascend" => nr_leaves_on_tree = Cardinality(KeptUnder(node))
  /\ pc = "gc_complete" => nr_leaves_on_tree = Cardinality(kept)
  /\ pc = "done" => result = [root |-> new_root, nr |-> Cardinality(kept)]

Inv == WalkInv /\ (Live => ShapeInv /\ Kinds /\ Asked /\ Housed /\ Finished /\ Counting)

-----------------------------------------------------------------------------
(* Each step keeps the shape.                                              *)

LEMMA NearestKept ==
  ASSUME NEW a, NEW D, NEW h, NEW g, DOMAIN h = D, DOMAIN g = D, NEW x,
         Nearest(a, h, x), g[x].back_pointer = h[x].back_pointer,
         h[x].back_pointer # NULL => g[h[x].back_pointer.id].t = h[h[x].back_pointer.id].t,
         \A y \in Anc(a, x) : h[y] = Freed => g[y] = Freed
  PROVE  Nearest(a, g, x)
  BY DEF Nearest, Meta

LEMMA LeadsKept ==
  ASSUME NEW h, NEW g, DOMAIN g = DOMAIN h, NEW p, NEW q, Leads(h, p, NULL, q),
         g[p.id].t = h[p.id].t, g[p.id].back_pointer = h[p.id].back_pointer
  PROVE  Leads(g, p, NULL, q)
  <1>1. NULL.t # "node"
    BY DEF NULL
  <1> QED
    BY <1>1 DEF Leads, Meta

\* What an allocated object of the new tree lies below.
LEMMA ShapeOf ==
  ASSUME WalkInv, Live, ShapeInv, NEW x \in DOMAIN old, Allocated(x)
  PROVE  /\ IsArray(array) /\ old = array.heap /\ new \in NewHeaps(old) /\ DOMAIN new = DOMAIN old
         /\ Nearest(array, new, x) /\ (Detached(x) \/ PointedTo(new, new_root, x))
         /\ NewUp(x) # NULL =>
              /\ NewUp(x) = [t |-> NewUp(x).t, id |-> NewUp(x).id]
              /\ NewUp(x).t \in {"node", "shortcut"}
              /\ NewUp(x).id \in DOMAIN old /\ new[NewUp(x).id].t = NewUp(x).t
              /\ Allocated(NewUp(x).id)
              /\ NewUp(x).id \in Anc(array, x) /\ NewUp(x).id # x
         /\ new[x] # Freed /\ new[x] # Absent
         /\ new[x].t = "node" => new[x].parent_slot \in Slot
         /\ new[x].t = "shortcut" => new[x].parent_slot \in Slot
  <1>1. IsArray(array) /\ old = array.heap /\ new \in NewHeaps(old) /\ DOMAIN new = DOMAIN old
    BY LiveTree DEF NewHeaps
  <1>2. Nearest(array, new, x) /\ (Detached(x) \/ PointedTo(new, new_root, x))
    BY DEF ShapeInv
  <1>3. NewUp(x) # NULL =>
          /\ NewUp(x) = [t |-> NewUp(x).t, id |-> NewUp(x).id]
          /\ NewUp(x).t \in {"node", "shortcut"}
          /\ NewUp(x).id \in DOMAIN old /\ new[NewUp(x).id].t = NewUp(x).t
          /\ NewUp(x).id \in Anc(array, x) /\ NewUp(x).id # x
    BY <1>1, <1>2 DEF Nearest, NewUp, Meta
  <1>4. new[x] # Freed /\ new[x] # Absent
    BY DEF Freed, Absent, Allocated
  <1>5. new[x].t \in {"node", "shortcut"} => new[x].parent_slot \in Slot
    BY <1>1, NewShape DEF Nodes, NewShortcuts
  <1> QED
    BY <1>1, <1>2, <1>3, <1>4, <1>5 DEF Allocated

LEMMA ShapeEdited ==
  ASSUME WalkInv, Live, ShapeInv, pc \in Within, pc' \in Within, NEW s, NEW p, Edited(s, p),
         new_root' = new_root, \A x : Detached(x) => Detached(x)',
         \A x : is_meta(new[node].slots[s]) /\ x = new[node].slots[s].id =>
           p = new[node].slots[s] \/ Detached(x)'
  PROVE  ShapeInv'
  <1>1. /\ old' = old /\ new' \in NewHeaps(old') /\ DOMAIN new' = DOMAIN old /\ DOMAIN new = DOMAIN old
        /\ array' = array
        /\ \A x \in DOMAIN old :
             /\ new'[x].t = new[x].t
             /\ new'[x] = Freed <=> new[x] = Freed
             /\ new[x].t \in {"node", "shortcut"} =>
                  new'[x].back_pointer = new[x].back_pointer /\ new'[x].parent_slot = new[x].parent_slot
             /\ new[x].t = "shortcut" => new'[x] = new[x]
    BY EditFrame, LiveTree DEF NewHeaps, Edited
  <1>2. ASSUME NEW x \in DOMAIN old, Allocated(x)'
        PROVE  Nearest(array, new', x) /\ (Detached(x)' \/ PointedTo(new', new_root, x))
    <2>1. Allocated(x) /\ new'[x].back_pointer = new[x].back_pointer
          /\ new'[x].parent_slot = new[x].parent_slot /\ new'[x].t = new[x].t
      BY <1>1, <1>2 DEF Allocated
    <2>2. PICK up : up = new[x].back_pointer
      OBVIOUS
    <2>3. /\ IsArray(array) /\ old = array.heap /\ Nearest(array, new, x)
          /\ (Detached(x) \/ PointedTo(new, new_root, x))
          /\ up # NULL => up.t \in {"node", "shortcut"} /\ up.id \in DOMAIN old /\ new[up.id].t = up.t
          /\ new[x].parent_slot \in Slot
      BY <2>1, <2>2, ShapeOf DEF NewUp, Allocated
    <2>4. Anc(array, x) \subseteq DOMAIN old
      BY <2>3, AncClimbs
    <2>5. Nearest(array, new', x)
      BY <1>1, <2>1, <2>2, <2>3, <2>4, NearestKept
    <2>6. ASSUME ~Detached(x)' PROVE PointedTo(new', new_root, x)
      <3>1. PointedTo(new, new_root, x)
        BY <2>3, <2>6
      <3>2. CASE up = NULL
        BY <2>1, <2>2, <3>1, <3>2 DEF PointedTo
      <3>3. CASE up # NULL /\ is_shortcut(up)
        BY <1>1, <2>1, <2>2, <2>3, <3>1, <3>3 DEF PointedTo, is_shortcut
      <3>4. CASE up # NULL /\ ~is_shortcut(up)
        <4>1. PICK k : k = new[x].parent_slot
          OBVIOUS
        <4>2. [t |-> new[x].t, id |-> x] = new[up.id].slots[k]
          BY <2>2, <3>1, <3>4, <4>1 DEF PointedTo
        <4>3. new'[up.id].slots[k] = new[up.id].slots[k]
          <5>1. CASE up.id = node /\ k = s
            <6>1. is_meta(new[node].slots[s]) /\ new[node].slots[s].id = x
              BY <2>1, <4>2, <5>1 DEF is_meta, Allocated
            <6>2. p = new[node].slots[s]
              BY <2>6, <6>1
            <6> QED
              BY <2>3, <4>1, <5>1, <6>2 DEF Edited
          <5>2. CASE up.id = node /\ k # s
            BY <2>3, <4>1, <5>2 DEF Edited
          <5>3. CASE up.id # node
            BY <2>3, <3>4, <5>3 DEF Edited
          <5> QED
            BY <5>1, <5>2, <5>3
        <4> QED
          BY <2>1, <2>2, <3>4, <4>1, <4>2, <4>3 DEF PointedTo
      <3> QED
        BY <3>2, <3>3, <3>4
    <2> QED
      BY <2>5, <2>6
  <1>3. Leads(new', new_root, NULL, 0)
    <2>1. pc # "descend"
      BY DEF Within
    <2>2. Leads(new, new_root, NULL, 0)
      BY <2>1 DEF ShapeInv
    <2>3. new_root.id \in DOMAIN old /\ new[new_root.id].t \in {"node", "shortcut"}
      BY <1>1, <2>2 DEF Leads, Meta
    <2> QED
      BY <1>1, <2>2, <2>3, LeadsKept
  <1> QED
    BY <1>1, <1>2, <1>3 DEF ShapeInv

\* Nothing is written.
LEMMA ShapeSame ==
  ASSUME WalkInv, Live, ShapeInv, pc # "descend", UNCHANGED <<array, new, new_root>>,
         \A x : Detached(x) => Detached(x)'
  PROVE  ShapeInv'
  BY DEF ShapeInv, Allocated, old

\* An object is copied, and its pointer set.
LEMMA ShapeCopied ==
  ASSUME WalkInv, Live, ShapeInv, pc = "descend", Copied,
         new_root' = IF new_parent = NULL THEN cursor ELSE new_root
  PROVE  ShapeInv'
  <1> DEFINE c == cursor.id
  <1>1. /\ IsArray(array) /\ old = array.heap /\ new \in NewHeaps(old) /\ DOMAIN new = DOMAIN old
        /\ c \in DOMAIN old
        /\ cursor = [t |-> cursor.t, id |-> c] /\ cursor.t \in {"node", "shortcut"}
        /\ new[c] = Absent
        /\ Up(array, c) = new_parent
        /\ new_parent # NULL =>
             /\ new_parent.id \in DOMAIN old /\ new_parent.t \in {"node", "shortcut"}
             /\ new_parent = [t |-> new_parent.t, id |-> new_parent.id]
             /\ new[new_parent.id].t = new_parent.t
             /\ new_parent.id # c /\ new_parent.id \in Anc(array, c)
             /\ Anc(array, c) = {c} \cup Anc(array, new_parent.id)
        /\ new_parent = NULL => Anc(array, c) = {c}
    BY DescendPlace
  <1>2. /\ array' = array /\ old' = old /\ DOMAIN new' = DOMAIN old
        /\ new'[c].t = cursor.t /\ new'[c].back_pointer = new_parent
        /\ new'[c].parent_slot = old[c].parent_slot
        /\ new_parent' = cursor
    BY DEF Copied, NewHeaps, old
  <1>3. \A x \in DOMAIN old : x # c =>
          /\ new'[x].t = new[x].t
          /\ new[x].t \in {"node", "shortcut"} =>
               new'[x].back_pointer = new[x].back_pointer /\ new'[x].parent_slot = new[x].parent_slot
    BY CopyFrame
  <1>4. \A x \in DOMAIN old : new[x] = Freed => new'[x] = Freed
    <2>1. Freed # Absent /\ Freed.t = "freed"
      BY DEF Freed, Absent
    <2>2. \A x \in DOMAIN old : new[x] = Freed => x # c
      BY <1>1, <2>1
    <2>3. \A x \in DOMAIN old : new[x] = Freed => new'[x].t = "freed"
      BY <1>3, <2>1, <2>2
    <2> QED
      BY <1>1, <2>3, NewShape DEF Copied
  <1>5. new_parent = NULL => \A x \in DOMAIN old : ~Allocated(x)
    <2> SUFFICES ASSUME new_parent = NULL, NEW x \in DOMAIN old PROVE ~Allocated(x)
      OBVIOUS
    <2>1. c \in Anc(array, x)
      BY <1>1, TopIsRoot
    <2>2. new[x] = Absent
      BY <2>1 DEF WalkInv, Opened, Unvisited
    <2> QED
      BY <2>2 DEF Allocated, Absent
  <1>6. Nearest(array, new', c)
    <2>1. CASE new_parent = NULL
      BY <1>1, <1>2, <2>1 DEF Nearest
    <2>2. CASE new_parent # NULL
      <3>1. new_parent \in Meta(new') /\ new'[new_parent.id].t = new_parent.t
        BY <1>1, <1>2, <1>3, <2>2 DEF Meta
      <3> QED
        BY <1>1, <1>2, <2>2, <3>1 DEF Nearest
    <2> QED
      BY <2>1, <2>2
  <1>7. PointedTo(new', new_root', c)
    <2>1. CASE new_parent = NULL
      BY <1>1, <1>2, <2>1 DEF PointedTo
    <2>2. CASE new_parent # NULL /\ new_parent.t = "shortcut"
      BY <1>1, <1>2, <2>2 DEF PointedTo, Copied, is_shortcut
    <2>3. CASE new_parent # NULL /\ new_parent.t = "node"
      <3>1. old[c].parent_slot \in Slot
        BY <1>1, ObjectShape
      <3>2. new'[new_parent.id].slots[old[c].parent_slot] = cursor
        BY <2>3, <3>1 DEF Copied
      <3> QED
        BY <1>1, <1>2, <2>3, <3>2 DEF PointedTo, is_shortcut
    <2> QED
      BY <1>1, <2>1, <2>2, <2>3
  <1>8. ASSUME NEW x \in DOMAIN old, x # c, Allocated(x)'
        PROVE  Nearest(array, new', x) /\ PointedTo(new', new_root', x)
    <2>1. /\ Allocated(x) /\ new'[x].back_pointer = new[x].back_pointer
          /\ new'[x].parent_slot = new[x].parent_slot /\ new'[x].t = new[x].t
          /\ new_parent # NULL
      BY <1>3, <1>5, <1>8 DEF Allocated
    <2>2. PICK up : up = new[x].back_pointer
      OBVIOUS
    <2>3. /\ Nearest(array, new, x) /\ PointedTo(new, new_root, x)
          /\ up # NULL => /\ up.t \in {"node", "shortcut"} /\ up.id \in DOMAIN old /\ new[up.id].t = up.t
                          /\ up = [t |-> up.t, id |-> up.id]
          /\ new[x].parent_slot \in Slot
      BY <2>1, <2>2, ShapeOf DEF NewUp, Allocated, Detached
    <2>4. up # NULL => up.id # c
      BY <1>1, <2>3 DEF Absent
    <2>5. Anc(array, x) \subseteq DOMAIN old
      BY <1>1, AncClimbs
    <2>6. Nearest(array, new', x)
      BY <1>1, <1>2, <1>3, <1>4, <2>1, <2>2, <2>3, <2>4, <2>5, NearestKept
    <2>7. PointedTo(new', new_root', x)
      <3>1. CASE up = NULL
        BY <2>1, <2>2, <2>3, <3>1 DEF PointedTo
      <3>2. CASE up # NULL /\ up.id # new_parent.id
        <4>1. new'[up.id] = new[up.id]
          BY <2>3, <2>4, <3>2 DEF Copied
        <4> QED
          BY <2>1, <2>2, <2>3, <3>2, <4>1 DEF PointedTo
      <3>3. CASE up # NULL /\ up.id = new_parent.id /\ up.t = "shortcut"
        <4>1. new[up.id].t = "shortcut" /\ new[up.id].next_node = [t |-> new[x].t, id |-> x]
          BY <2>1, <2>2, <2>3, <3>3 DEF PointedTo, is_shortcut
        <4>2. new[up.id].next_node.t # "old"
          BY <2>1, <4>1 DEF Allocated
        <4>3. new[up.id].next_node = old[up.id].next_node
          BY <2>3, <3>3, <4>1, <4>2 DEF WalkInv, Links
        <4>4. new_parent.t = "shortcut"
          BY <1>1, <2>1, <2>3, <3>3
        <4>5. old[up.id].next_node = NodePtr(c)
          <5>1. Up(array, c) # NULL /\ Up(array, c).t = "shortcut" /\ Up(array, c).id = up.id
            BY <1>1, <2>1, <3>3, <4>4
          <5>2. array.heap[Up(array, c).id].next_node = NodePtr(c)
            BY <1>1, <5>1, UpPoints
          <5> QED
            BY <1>1, <5>1, <5>2
        <4> QED
          BY <1>8, <4>1, <4>3, <4>5 DEF NodePtr
      <3>4. CASE up # NULL /\ up.id = new_parent.id /\ up.t = "node"
        <4>1. PICK k \in Slot : k = new[x].parent_slot
          BY <2>3
        <4>2. new[up.id].slots[k] = [t |-> new[x].t, id |-> x]
          BY <2>1, <2>2, <2>3, <3>4, <4>1 DEF PointedTo, is_shortcut
        <4>3. new_parent.t = "node"
          BY <1>1, <2>1, <2>3, <3>4
        <4>4. new[new_parent.id].slots[old[c].parent_slot] = NULL
          BY <4>3 DEF WalkInv, Place, Descending
        <4>5. k # old[c].parent_slot
          BY <2>1, <3>4, <4>2, <4>4 DEF NULL, Allocated
        <4>6. new'[up.id].slots[k] = new[up.id].slots[k]
          BY <3>4, <4>3, <4>5 DEF Copied
        <4> QED
          BY <2>1, <2>2, <2>3, <3>4, <4>1, <4>2, <4>6 DEF PointedTo, is_shortcut
      <3> QED
        BY <2>3, <3>1, <3>2, <3>3, <3>4
    <2> QED
      BY <2>6, <2>7
  <1>9. Leads(new', new_root', NULL, 0)
    <2>1. CASE new_parent = NULL
      <3>1. NULL.t # "node"
        BY DEF NULL
      <3> QED
        BY <1>1, <1>2, <2>1, <3>1 DEF Leads, Meta
    <2>2. CASE new_parent # NULL
      <3>1. Leads(new, new_root, NULL, 0)
        BY <2>2 DEF ShapeInv
      <3>2. new_root.id \in DOMAIN old /\ new[new_root.id].t \in {"node", "shortcut"}
        BY <1>1, <3>1 DEF Leads, Meta
      <3>3. new_root.id # c
        BY <1>1, <3>2 DEF Absent
      <3> QED
        BY <1>1, <1>2, <1>3, <2>2, <3>1, <3>2, <3>3, LeadsKept
    <2> QED
      BY <2>1, <2>2
  <1> QED
    BY <1>2, <1>6, <1>7, <1>8, <1>9 DEF ShapeInv

\* The emptied child is freed.
LEMMA ShapeFreed ==
  ASSUME WalkInv, Live, ShapeInv, fold_end
  PROVE  ShapeInv'
  <1> DEFINE c == cursor.id
  <1>1. /\ pc = "fold" /\ pc' = "compress" /\ UNCHANGED <<array, new_root>> /\ i = FAN_OUT
        /\ new' = [new EXCEPT ![c] = Freed] /\ old' = old
    BY DEF fold_end, walkVars, kfree, old
  <1>2. Folding
    BY <1>1 DEF WalkInv, Place
  <1>3. /\ IsArray(array) /\ old = array.heap /\ DOMAIN new = DOMAIN old /\ c \in DOMAIN old
        /\ new[c].t = "node" /\ NewUp(c) = NodePtr(node)
        /\ \A k \in Slot : ~is_meta(new[c].slots[k])
    BY <1>1, <1>2, LiveTree DEF NewHeaps, Folding, Slot
  <1> HIDE DEF c
  <1>4. /\ DOMAIN new' = DOMAIN new /\ new'[c] = Freed /\ Freed.t = "freed"
        /\ \A x \in DOMAIN old : x # c => new'[x] = new[x]
    BY <1>1, <1>3 DEF Freed
  <1>5. ASSUME NEW x \in DOMAIN old, Allocated(x)'
        PROVE  Nearest(array, new', x) /\ PointedTo(new', new_root, x)
    <2>1. x # c /\ Allocated(x) /\ new'[x] = new[x]
      BY <1>4, <1>5 DEF Allocated
    <2>2. PICK up : up = new[x].back_pointer
      OBVIOUS
    <2>3. /\ Nearest(array, new, x) /\ PointedTo(new, new_root, x)
          /\ up # NULL => up.t \in {"node", "shortcut"} /\ up.id \in DOMAIN old /\ new[up.id].t = up.t
          /\ new[x].parent_slot \in Slot
      BY <2>1, <2>2, ShapeOf DEF NewUp, Allocated, Detached, c
    <2>4. ASSUME up # NULL, up.id = c PROVE FALSE
      <3>1. new[c].slots[new[x].parent_slot] = [t |-> new[x].t, id |-> x]
        BY <1>3, <2>2, <2>3, <2>4 DEF PointedTo, is_shortcut
      <3> QED
        BY <1>3, <2>1, <2>3, <3>1 DEF is_meta, Allocated
    <2>5. Anc(array, x) \subseteq DOMAIN old
      BY <1>3, AncClimbs
    <2>6. Nearest(array, new', x)
      BY <1>3, <1>4, <2>1, <2>2, <2>3, <2>4, <2>5, NearestKept
    <2>7. up # NULL => new'[up.id] = new[up.id]
      BY <1>4, <2>3, <2>4
    <2>8. PointedTo(new', new_root, x)
      BY <2>1, <2>2, <2>3, <2>7 DEF PointedTo
    <2> QED
      BY <2>6, <2>8
  <1>6. Leads(new', new_root, NULL, 0)
    <2>1. Leads(new, new_root, NULL, 0)
      BY <1>1 DEF ShapeInv
    <2>2. new_root.id \in DOMAIN old /\ new_root.id # c
      BY <1>3, <2>1 DEF Leads, Meta, NewUp, NodePtr, NULL
    <2> QED
      BY <1>3, <1>4, <2>1, <2>2, LeadsKept
  <1> QED
    BY <1>1, <1>5, <1>6 DEF ShapeInv

\* What is dropped points to nothing but what else is dropped, and r, and holds no leaf.
Emptied(G, r) ==
  \A x \in G :
    /\ new[x].t = "node" => \A k \in Slot :
         /\ new[x].slots[k].t # "leaf"
         /\ is_meta(new[x].slots[k]) => new[x].slots[k].id \in G \cup {r}
    /\ new[x].t = "shortcut" => new[x].next_node.id \in G \cup {r}

\* The topmost of what is dropped or moved up is where the climb leads to.
LEMMA ExcisedTop ==
  ASSUME WalkInv, Live, ShapeInv, Leaving, NEW G, NEW r, Excised(G, r)
  PROVE  \E u \in G \cup {r} :
           /\ NewUp(u) = Upper.cursor /\ (Upper.cursor # NULL => new[u].parent_slot = Upper.slot)
           /\ PointedTo(new, new_root, u)
  <1>1. IsArray(array) /\ G \cup {r} \in SUBSET DOMAIN array.heap /\ G \cup {r} # {} /\ old = array.heap
    BY LiveTree DEF Excised
  <1>2. PICK u \in G \cup {r} : \A w \in G \cup {r} : w \in Anc(array, u) => w = u
    BY <1>1, Highest
  <1>3. u \in DOMAIN old /\ Allocated(u)
    BY <1>1 DEF Excised, Allocated
  <1>4. PointedTo(new, new_root, u) /\ (NewUp(u) # NULL => NewUp(u).id \in Anc(array, u) /\ NewUp(u).id # u)
    BY <1>3, ShapeOf DEF Leaving, Detached
  <1>5. ~(NewUp(u) # NULL /\ NewUp(u).id \in G)
    BY <1>2, <1>4
  <1> QED
    BY <1>4, <1>5 DEF Excised

\* Nothing that is left is below what is dropped, but for r.
LEMMA NotBelowExcised ==
  ASSUME WalkInv, Live, ShapeInv, Leaving, NEW G, NEW r, Excised(G, r), Emptied(G, r),
         NEW x \in DOMAIN old, Allocated(x), x \notin G, x # r, NewUp(x) # NULL
  PROVE  NewUp(x).id \notin G
  <1> SUFFICES ASSUME NewUp(x).id \in G PROVE FALSE
    OBVIOUS
  <1> DEFINE up == NewUp(x)
  <1>1. /\ PointedTo(new, new_root, x) /\ up.t \in {"node", "shortcut"} /\ new[up.id].t = up.t
        /\ new[x].parent_slot \in Slot
    BY ShapeOf DEF Leaving, Detached, Allocated
  <1>2. CASE up.t = "shortcut"
    <2>1. new[up.id].next_node.id = x
      BY <1>1, <1>2 DEF PointedTo, NewUp, is_shortcut
    <2> QED
      BY <1>1, <1>2, <2>1 DEF Emptied
  <1>3. CASE up.t = "node"
    <2>1. new[up.id].slots[new[x].parent_slot] = [t |-> new[x].t, id |-> x]
      BY <1>1, <1>3 DEF PointedTo, NewUp, is_shortcut
    <2>2. is_meta(new[up.id].slots[new[x].parent_slot]) /\ new[up.id].slots[new[x].parent_slot].id = x
      BY <2>1 DEF Allocated, is_meta
    <2> QED
      BY <1>1, <1>3, <2>2 DEF Emptied
  <1> QED
    BY <1>1, <1>2, <1>3

LEMMA ShapeExcised ==
  ASSUME WalkInv, Live, ShapeInv, Leaving, NEW G, NEW r, Excised(G, r), Emptied(G, r),
         new_root' = IF Upper.cursor = NULL THEN [t |-> new[r].t, id |-> r] ELSE new_root
  PROVE  ShapeInv'
  <1> DEFINE P == Upper.cursor
  <1>1. /\ IsArray(array) /\ IsNode(array, node) /\ old = array.heap /\ DOMAIN new = DOMAIN old
        /\ new' \in NewHeaps(old) /\ DOMAIN new' = DOMAIN old /\ array' = array /\ old' = old
        /\ r \in DOMAIN old /\ r \notin G /\ G \subseteq DOMAIN old
        /\ pc = "compress" /\ (pc' = "ascend" \/ pc' = "gc_complete")
    BY FilledNode, LiveTree DEF Leaving, Within, IsNode, NewHeaps, Excised, old
  <1>2. P # NULL => P = NodePtr(P.id) /\ P.id \in DOMAIN old /\ new[P.id].t = "node" /\ P.t = "node"
                    /\ P.id \notin G /\ P.id # r /\ Upper.slot \in Slot
    <2>1. P # NULL => P = NodePtr(P.id) /\ P.id \in DOMAIN old /\ new[P.id].t = "node"
                      /\ Upper.slot \in Slot
      BY <1>1, UpperShape, ExcisedAbove
    <2>2. P # NULL => P.id \in Anc(array, P.id)
      BY <1>1, <2>1, AncClimbs
    <2> QED
      BY <2>1, <2>2, ExcisedAbove DEF NodePtr
  <1>3. \A x \in DOMAIN old :
          /\ x \notin G => new'[x].t = new[x].t
          /\ x \notin G /\ x # r /\ new[x].t \in {"node", "shortcut"} =>
               new'[x].back_pointer = new[x].back_pointer /\ new'[x].parent_slot = new[x].parent_slot
          /\ x \in G => new'[x].t = "freed"
          /\ x \notin G /\ (P = NULL \/ x # P.id) =>
               /\ new[x].t = "node" => \A k \in Slot : new'[x].slots[k] = new[x].slots[k]
               /\ new[x].t = "shortcut" => new'[x].next_node = new[x].next_node
    BY ExcisedFrame
  <1>4. \A x \in DOMAIN old : new[x] = Freed => new'[x] = Freed
    <2>1. Freed.t = "freed"
      BY DEF Freed
    <2> QED
      BY <1>1, <1>3, <2>1, NewShape DEF Excised
  <1>5. PICK u \in G \cup {r} :
          /\ NewUp(u) = P /\ (P # NULL => new[u].parent_slot = Upper.slot)
          /\ PointedTo(new, new_root, u)
    BY ExcisedTop
  <1>6. \A x \in G \cup {r} : Allocated(x)
    BY DEF Excised, Allocated
  <1>7. new'[r].t = new[r].t /\ new'[r].back_pointer = P
        /\ (P # NULL => new'[r].parent_slot = Upper.slot)
        /\ (P # NULL => new'[P.id].slots[Upper.slot] = [t |-> new[r].t, id |-> r])
    BY <1>2 DEF Excised
  <1>8. Nearest(array, new', r)
    <2>1. ASSUME NEW z \in Anc(array, r), z # r, new'[z] # Freed, P # NULL => z \notin Anc(array, P.id)
          PROVE  FALSE
      <3> DEFINE S == {x \in G \cup {r} : z \in Anc(array, x)}
      <3>1. S \in SUBSET DOMAIN array.heap /\ r \in S /\ z \in DOMAIN old
        BY <1>1, AncClimbs
      <3>2. PICK x \in S : \A w \in S : w \in Anc(array, x) => w = x
        <4> HIDE DEF S
        <4> QED
          BY <1>1, <3>1, Highest
      <3>3. x \in G \cup {r} /\ z \in Anc(array, x) /\ x \in DOMAIN old /\ Allocated(x)
        BY <1>1, <1>6
      <3>4. z # x
        BY <2>1, <3>3 DEF Excised
      <3>5. new[z] # Freed
        BY <1>4, <2>1, <3>1
      <3>6. Nearest(array, new, x) /\ (NewUp(x) # NULL => NewUp(x).id \in Anc(array, x) /\ NewUp(x).id # x)
        BY <3>3, ShapeOf
      <3>7. NewUp(x) # NULL /\ z \in Anc(array, NewUp(x).id)
        BY <3>3, <3>4, <3>5, <3>6 DEF Nearest, NewUp
      <3>8. NewUp(x).id \notin G
        <4> SUFFICES ASSUME NewUp(x).id \in G PROVE FALSE
          OBVIOUS
        <4>1. NewUp(x).id \in S
          BY <3>7
        <4> QED
          BY <3>2, <3>6, <3>7, <4>1
      <3>9. NewUp(x) = P
        BY <3>3, <3>8 DEF Excised
      <3> QED
        BY <2>1, <3>7, <3>9
    <2>2. P # NULL => /\ P \in Meta(new') /\ new'[P.id].t = P.t
                      /\ P.id \in Anc(array, r)
      <3>1. P # NULL => P \in Meta(new') /\ new'[P.id].t = P.t
        BY <1>1, <1>2, <1>3 DEF Meta, NodePtr
      <3> QED
        BY <3>1 DEF Excised
    <2> QED
      BY <1>2, <1>7, <2>1, <2>2 DEF Nearest
  <1>9. PointedTo(new', new_root', r)
    BY <1>2, <1>7 DEF PointedTo, is_shortcut
  <1>10. ASSUME NEW x \in DOMAIN old, x # r, Allocated(x)'
         PROVE  Nearest(array, new', x) /\ PointedTo(new', new_root', x)
    <2>1. /\ x \notin G /\ Allocated(x) /\ new'[x].back_pointer = new[x].back_pointer
          /\ new'[x].parent_slot = new[x].parent_slot /\ new'[x].t = new[x].t
      BY <1>3, <1>10 DEF Allocated
    <2>2. PICK up : up = new[x].back_pointer
      OBVIOUS
    <2>3. /\ Nearest(array, new, x) /\ PointedTo(new, new_root, x)
          /\ up # NULL => /\ up.t \in {"node", "shortcut"} /\ up.id \in DOMAIN old /\ new[up.id].t = up.t
                          /\ up = [t |-> up.t, id |-> up.id]
          /\ new[x].parent_slot \in Slot
      BY <1>1, <2>1, <2>2, ShapeOf DEF NewUp, Allocated, Detached
    <2>4. up # NULL => up.id \notin G
      BY <1>10, <2>1, <2>2, NotBelowExcised DEF NewUp
    <2>5. Anc(array, x) \subseteq DOMAIN old
      BY <1>1, AncClimbs
    <2>6. Nearest(array, new', x)
      BY <1>1, <1>3, <1>4, <2>1, <2>2, <2>3, <2>4, <2>5, NearestKept
    <2>7. PointedTo(new', new_root', x)
      <3>1. CASE up = NULL
        <4>1. P # NULL
          BY <1>5, <1>10, <2>1, <2>2, <2>3, <3>1 DEF PointedTo, NewUp
        <4> QED
          BY <2>1, <2>2, <2>3, <3>1, <4>1 DEF PointedTo
      <3>2. CASE up # NULL /\ up.t = "shortcut"
        <4>1. new'[up.id].next_node = new[up.id].next_node
          BY <1>2, <1>3, <2>3, <2>4, <3>2
        <4> QED
          BY <2>1, <2>2, <2>3, <3>2, <4>1 DEF PointedTo, is_shortcut
      <3>3. CASE up # NULL /\ up.t = "node"
        <4>1. PICK k \in Slot : k = new[x].parent_slot
          BY <2>3
        <4>2. new[up.id].slots[k] = [t |-> new[x].t, id |-> x]
          BY <2>1, <2>2, <2>3, <3>3, <4>1 DEF PointedTo, is_shortcut
        <4>3. ~(P # NULL /\ up.id = P.id /\ k = Upper.slot)
          <5> SUFFICES ASSUME P # NULL, up.id = P.id, k = Upper.slot PROVE FALSE
            OBVIOUS
          <5>1. new[P.id].slots[Upper.slot] = [t |-> new[u].t, id |-> u]
            BY <1>2, <1>5 DEF PointedTo, is_shortcut, NewUp
          <5>2. x = u
            BY <4>2, <5>1
          <5> QED
            BY <1>10, <2>1, <5>2
        <4>4. new'[up.id].slots[k] = new[up.id].slots[k]
          <5>1. CASE P # NULL /\ up.id = P.id
            BY <4>3, <5>1 DEF Excised
          <5>2. CASE P = NULL \/ up.id # P.id
            BY <1>3, <2>3, <2>4, <3>3, <5>2
          <5> QED
            BY <5>1, <5>2
        <4> QED
          BY <2>1, <2>2, <2>3, <3>3, <4>1, <4>2, <4>4 DEF PointedTo, is_shortcut
      <3> QED
        BY <2>3, <3>1, <3>2, <3>3
    <2> QED
      BY <2>6, <2>7
  <1>11. Leads(new', new_root', NULL, 0)
    <2>1. NULL.t # "node" /\ Leads(new, new_root, NULL, 0)
      BY <1>1 DEF NULL, ShapeInv
    <2>2. CASE P = NULL
      <3>1. new[r].t \in {"node", "shortcut"}
        BY <1>6 DEF Allocated
      <3> QED
        BY <1>1, <1>7, <2>1, <2>2, <3>1 DEF Leads, Meta
    <2>3. CASE P # NULL
      <3>1. new_root.id \in DOMAIN old /\ new[new_root.id].t \in {"node", "shortcut"}
            /\ NewUp(new_root.id) = NULL
        BY <1>1, <2>1 DEF Leads, Meta, NewUp
      <3>2. new_root.id \notin G \cup {r}
        <4> SUFFICES ASSUME new_root.id \in G \cup {r} PROVE FALSE
          OBVIOUS
        <4> QED
          BY <2>3, <3>1 DEF Excised
      <3>3. new_root' = new_root
        BY <2>3
      <3> QED
        BY <1>1, <1>3, <2>1, <3>1, <3>2, <3>3, LeadsKept
    <2> QED
      BY <2>2, <2>3
  <1> QED
    BY <1>1, <1>8, <1>9, <1>10, <1>11 DEF ShapeInv

\* The slot with the one pointer that is left, and the shortcut that leads to the node.
LEMMA OnlyOne ==
  ASSUME WalkInv, Live, pc = "compress", SingleShortcut
  PROVE  \E k \in Slot : /\ new[node].slots[k] = Only
                         /\ \A j \in Slot : j # k => new[node].slots[j] = NULL
  <1>1. InStep /\ Compressing
    BY DEF WalkInv, Place, Within
  <1>2. FAN_OUT \in Nat \ {0} /\ Cardinality(Vacant) = FAN_OUT - 1 /\ new_n = node
    BY <1>1, GcAssumption DEF SingleShortcut, Compressing, InStep
  <1>3. Vacant \in SUBSET Slot
    BY DEF Vacant
  <1>4. Vacant # Slot
    BY <1>2, SlotsFinite
  <1>5. PICK k \in Slot : new[node].slots[k] # NULL
    BY <1>3, <1>4 DEF Vacant
  <1>6. ASSUME NEW j \in Slot, j # k, new[node].slots[j] # NULL PROVE FALSE
    <2>1. IsFiniteSet(Slot \ {k}) /\ Cardinality(Slot \ {k}) = FAN_OUT - 1
      BY SlotsFinite, FS_RemoveElement
    <2>2. Vacant \in SUBSET (Slot \ {k}) /\ Vacant # Slot \ {k}
      BY <1>5, <1>6 DEF Vacant
    <2> QED
      BY <1>2, <2>1, <2>2, FS_Subset
  <1>7. Only = new[node].slots[k]
    <2>1. \E p \in {new[new_n].slots[j] : j \in Slot} : p # NULL
      BY <1>2, <1>5
    <2>2. Only \in {new[new_n].slots[j] : j \in Slot} /\ Only # NULL
      BY <2>1 DEF Only
    <2> QED
      BY <1>2, <1>6, <2>2
  <1> QED
    BY <1>6, <1>7

\* The shortcut before the present node leads to it.
LEMMA ShortcutBefore ==
  ASSUME WalkInv, Live, ShapeInv, pc = "compress", Upper.shortcut
  PROVE  /\ Up(array, node).id \in DOMAIN old /\ new[Up(array, node).id].t = "shortcut"
         /\ new[Up(array, node).id].next_node = NodePtr(node)
  <1>1. /\ node \in DOMAIN old /\ new[node].t = "node" /\ new[node].back_pointer = Up(array, node)
        /\ new[Up(array, node).id].t = "shortcut" /\ is_shortcut(Up(array, node))
    BY OpenAbove
  <1>2. PointedTo(new, new_root, node) /\ Up(array, node).id \in DOMAIN old
    <2>1. Up(array, node) # NULL
      BY <1>1 DEF is_shortcut, NULL
    <2> QED
      BY <1>1, <2>1, ShapeOf DEF Allocated, Detached, NewUp
  <1> QED
    BY <1>1, <1>2 DEF PointedTo, NodePtr, is_shortcut, NULL

LEMMA ExciseNodeEmpties ==
  ASSUME WalkInv, Live, ShapeInv, excise_node
  PROVE  Emptied({node} \cup (IF Upper.shortcut THEN {Up(array, node).id} ELSE {}), Only.id)
  <1>1. pc = "compress" /\ SingleShortcut
    BY DEF excise_node, Compressed
  <1>2. new[node].t = "node"
    BY <1>1, OpenAbove
  <1>3. \A k \in Slot : /\ new[node].slots[k].t # "leaf"
                        /\ is_meta(new[node].slots[k]) => new[node].slots[k] = Only
    <2>1. PICK k \in Slot : /\ new[node].slots[k] = Only
                            /\ \A j \in Slot : j # k => new[node].slots[j] = NULL
      BY <1>1, OnlyOne
    <2>2. Only.t = "shortcut"
      BY <1>1 DEF SingleShortcut, is_shortcut
    <2> QED
      BY <2>1, <2>2 DEF NULL, is_meta
  <1>4. Upper.shortcut => /\ new[Up(array, node).id].t = "shortcut"
                          /\ new[Up(array, node).id].next_node.id = node
    BY <1>1, ShortcutBefore DEF NodePtr
  <1> QED
    BY <1>2, <1>3, <1>4 DEF Emptied

LEMMA ExciseShortcutEmpties ==
  ASSUME WalkInv, Live, ShapeInv, excise_shortcut
  PROVE  Emptied({Up(array, node).id}, node)
  <1>1. pc = "compress" /\ Upper.shortcut
    BY ExciseShortcutStep DEF excise_shortcut, Compressed
  <1> QED
    BY <1>1, ShortcutBefore DEF Emptied, NodePtr

-----------------------------------------------------------------------------
(* The shape, put together.                                                *)

LEMMA ShapeStart ==
  ASSUME WalkInv, assoc_array_gc, Live'
  PROVE  ShapeInv'
  <1>1. pc = "start" /\ new' = [x \in DOMAIN old |-> Absent] /\ new_parent' = new_parent /\ old' = old
        /\ pc' \in (IF array.root = NULL THEN {"done"} ELSE {"descend", "ENOMEM"}) /\ array' = array
    BY DEF assoc_array_gc, old
  <1>2. pc' # "ENOMEM" /\ array.root # NULL
    BY <1>1 DEF Live
  <1>3. pc' = "descend"
    BY <1>1, <1>2
  <1>4. new_parent = NULL
    BY <1>1 DEF WalkInv, Place, Fresh
  <1>5. \A x \in DOMAIN old : ~Allocated(x)'
    BY <1>1 DEF Allocated, Absent
  <1> QED
    BY <1>1, <1>3, <1>4, <1>5 DEF ShapeInv

LEMMA ShapeNext ==
  ASSUME WalkInv, Live, ShapeInv, Next, Live'
  PROVE  ShapeInv'
  <1>0. array' = array
    BY DEF Next, assoc_array_gc, descend_shortcut, descend_node, continue_node, compress,
           compress_skip, compress_retain, compress_fold, fold, fold_end, retry,
           excise_node, excise_shortcut, leave_node, ascend_old_tree, gc_complete, BUG_ON,
           enomem, treeVars
  <1>1. CASE descend_shortcut \/ descend_node
    <2>1. pc' # "ENOMEM"
      BY DEF Live
    <2>2. Copied
      BY <1>1, <2>1, DescendShortcutCopies, DescendNodeCopies
    <2>3. pc = "descend" /\ StoreRoot(cursor)
      BY <1>1, <2>1 DEF descend_shortcut, descend_node, enomem
    <2>4. new_parent = NULL <=> dest.t = "root"
      <3>1. Descending
        BY <2>3 DEF WalkInv, Place
      <3>2. new_parent # NULL => new_parent.t \in {"node", "shortcut"}
        BY <2>3, DescendPlace
      <3> QED
        BY <3>1, <3>2 DEF Descending
    <2>5. new_root' = IF new_parent = NULL THEN cursor ELSE new_root
      BY <2>3, <2>4 DEF StoreRoot
    <2> QED
      BY <2>2, <2>3, <2>5, ShapeCopied
  <1>2. CASE continue_node
    <2>1. /\ pc = "continue_node" /\ slot < FAN_OUT /\ new_root' = new_root
          /\ UNCHANGED <<array, new_parent, node, new_n>>
          /\ \/ new' = new
             \/ /\ new' = [new EXCEPT ![new_n].slots[slot] = old[node].slots[slot]]
                /\ ~is_meta(old[node].slots[slot]) /\ pc' = pc
      BY <1>2 DEF continue_node
    <2>2. \A x : ~Detached(x)
      BY <2>1 DEF Detached
    <2>3. CASE new' = new
      BY <2>1, <2>2, <2>3, ShapeSame
    <2>4. CASE /\ new' = [new EXCEPT ![new_n].slots[slot] = old[node].slots[slot]]
               /\ ~is_meta(old[node].slots[slot]) /\ pc' = pc
      <3>1. pc \in Within /\ pc' \in Within
        BY <2>1, <2>4 DEF Within
      <3>2. slot \in Slot
        BY <2>1, <3>1, FilledNode, GcAssumption DEF Slot
      <3>3. Edited(slot, old[node].slots[slot])
        BY <2>1, <2>4, <3>1, <3>2, OldPointers, EditSlot
      <3>4. new[node].slots[slot] = NULL
        <4>1. Waits(node, slot) /\ node \in DOMAIN old
          BY <2>1, <3>1, <3>2, FilledNode, GcAssumption DEF Waits, Slot
        <4> QED
          BY <3>2, <4>1 DEF WalkInv, Opened
      <3>5. ~is_meta(new[node].slots[slot])
        BY <3>4 DEF is_meta, NULL
      <3> QED
        BY <2>1, <2>2, <3>1, <3>3, <3>5, ShapeEdited
    <2> QED
      BY <2>1, <2>3, <2>4
  <1>3. CASE compress \/ compress_retain
    <2>1. Edited(0, new[node].slots[0])
      BY <1>3, CompressEdits, RetainEdits
    <2>2. pc \in Within /\ pc' \in Within /\ new_root' = new_root /\ \A x : ~Detached(x)
      BY <1>3 DEF compress, compress_retain, Within, Detached
    <2> QED
      BY <2>1, <2>2, ShapeEdited
  <1>4. CASE compress_skip \/ retry \/ leave_node \/ ascend_old_tree \/ gc_complete
    <2>1. new' = new /\ new_root' = new_root /\ pc # "descend" /\ pc # "fold"
      BY <1>4 DEF compress_skip, retry, leave_node, ascend_old_tree, gc_complete, Compressed, treeVars
    <2> QED
      BY <1>0, <2>1, ShapeSame DEF Detached
  <1>5. CASE compress_fold
    <2>1. /\ pc = "compress" /\ pc' = "fold" /\ cursor' = NodePtr(ChildAt(slot)) /\ new_root' = new_root
      BY <1>5 DEF compress_fold
    <2>2. Edited(slot, NULL) /\ new[node].slots[slot].id = ChildAt(slot)
      BY <1>5, FoldBeginEdits
    <2>3. \A x : x = new[node].slots[slot].id => Detached(x)'
      BY <2>1, <2>2 DEF Detached, NodePtr
    <2>4. pc \in Within /\ pc' \in Within /\ \A x : ~Detached(x)
      BY <2>1 DEF Within, Detached
    <2> QED
      BY <2>1, <2>2, <2>3, <2>4, ShapeEdited
  <1>6. CASE fold
    <2>1. /\ pc = "fold" /\ pc' = "fold" /\ cursor' = cursor /\ new_root' = new_root
          /\ UNCHANGED <<array, new_parent, node, new_n>>
      BY <1>6 DEF fold, walkVars
    <2>2. pc \in Within /\ pc' \in Within /\ \A x : Detached(x) => Detached(x)'
      BY <2>1 DEF Within, Detached
    <2>3. CASE new' = new
      BY <2>1, <2>2, <2>3, ShapeSame
    <2>4. CASE new' # new
      <3>1. PICK f, p : Edited(f, p) /\ new[node].slots[f] = NULL
        BY <1>6, <2>4, FoldEdits
      <3>2. ~is_meta(new[node].slots[f])
        BY <3>1 DEF is_meta, NULL
      <3> QED
        BY <2>1, <2>2, <3>1, <3>2, ShapeEdited
    <2> QED
      BY <2>3, <2>4
  <1>7. CASE fold_end
    BY <1>7, ShapeFreed
  <1>8. CASE excise_node
    <2>1. /\ Leaving /\ SingleShortcut
          /\ Excised({node} \cup (IF Upper.shortcut THEN {Up(array, node).id} ELSE {}), Only.id)
          /\ new_root' = IF Upper.cursor = NULL THEN Only ELSE new_root
      BY <1>8, ExciseNodeStep
    <2>2. Only = [t |-> new[Only.id].t, id |-> Only.id]
      BY <2>1, OnlySlot DEF Leaving, ShortcutPtr
    <2> QED
      BY <1>8, <2>1, <2>2, ExciseNodeEmpties, ShapeExcised
  <1>9. CASE excise_shortcut
    <2>1. /\ Leaving
          /\ \/ UNCHANGED <<new, new_root>>
             \/ /\ Excised({Up(array, node).id}, node)
                /\ new_root' = IF Upper.cursor = NULL THEN NodePtr(node) ELSE new_root
      BY <1>9, ExciseShortcutStep
    <2>2. NodePtr(node) = [t |-> new[node].t, id |-> node]
      BY <2>1, OpenAbove DEF Leaving, NodePtr
    <2>3. CASE UNCHANGED <<new, new_root>>
      BY <1>0, <2>1, <2>3, ShapeSame DEF Leaving, Detached
    <2>4. CASE /\ Excised({Up(array, node).id}, node)
               /\ new_root' = IF Upper.cursor = NULL THEN NodePtr(node) ELSE new_root
      BY <1>9, <2>1, <2>2, <2>4, ExciseShortcutEmpties, ShapeExcised
    <2> QED
      BY <2>1, <2>3, <2>4
  <1>10. ~assoc_array_gc /\ ~BUG_ON
    BY DEF assoc_array_gc, BUG_ON, Live
  <1> QED
    BY <1>1, <1>2, <1>3, <1>4, <1>5, <1>6, <1>7, <1>8, <1>9, <1>10, Zenon DEF Next

-----------------------------------------------------------------------------
(* What is reachable.                                                      *)

\* Objects that have, with an allocated one, also what is one pointer away from it.
Reaches(S) == \A y \in S : Allocated(y) => Below(y) \subseteq S

\* One round of From.
Wider(S) == S \cup UNION {Below(y) : y \in {z \in S : new[z].t \in {"node", "shortcut"}}}

LEMMA WiderIs ==
  ASSUME NEW S
  PROVE  /\ S \subseteq Wider(S) /\ (Wider(S) = S <=> Reaches(S))
         /\ \A T : S \subseteq T /\ Reaches(T) => Wider(S) \subseteq T
  <1>1. \A z : z \in Wider(S) <=> z \in S \/ \E y \in S : Allocated(y) /\ z \in Below(y)
    BY DEF Wider, Allocated
  <1> QED
    BY <1>1 DEF Reaches

\* The rounds of From.
Rounds(f, n, x) == f = [k \in 0 .. n |-> IF k = 0 THEN {x} ELSE Wider(f[k - 1])]

LEMMA RoundsExist ==
  ASSUME IsFiniteSet(DOMAIN new), NEW x \in DOMAIN new, Reaches(DOMAIN new)
  PROVE  \E f : /\ Rounds(f, Cardinality(DOMAIN new), x)
                /\ From(x) = f[Cardinality(DOMAIN new)]
                /\ \A k \in 0 .. Cardinality(DOMAIN new) : f[k] \in SUBSET DOMAIN new
  <1> DEFINE n == Cardinality(DOMAIN new)
             T == SUBSET DOMAIN new
             step == [k \in 1 .. n |-> [S \in T |-> Wider(S)]]
             reach[m \in 0 .. Cardinality(DOMAIN new)] ==
               IF m = 0 THEN {x}
               ELSE reach[m - 1] \cup UNION {Below(y) : y \in {z \in reach[m - 1] :
                                               new[z].t \in {"node", "shortcut"}}}
  <1>1. n \in Nat
    BY FS_CardinalityType
  <1>2. \A S \in T : Wider(S) \in T
    BY WiderIs
  <1>3. \A k \in 1 .. n : \A S \in T : step[k][S] = Wider(S) /\ step[k][S] \in T
    <2> HIDE DEF T, n
    <2> QED
      BY <1>2
  <1>4. PICK f : /\ f = [k \in 0 .. n |-> IF k = 0 THEN {x} ELSE step[k][f[k - 1]]]
                 /\ \A k \in 0 .. n : f[k] \in T
    <2>1. {x} \in T
      OBVIOUS
    <2> HIDE DEF T, n, step
    <2>2. \E f : Recursion(f, n, T, {x}, step)
      BY <1>1, <1>3, <2>1, RecursionExists
    <2> QED
      BY <2>2 DEF Recursion
  <1>5. ASSUME NEW m \in 0 .. n
        PROVE  f[m] = IF m = 0 THEN {x} ELSE Wider(f[m - 1])
    <2> HIDE DEF T, n, step
    <2>1. m # 0 => m \in 1 .. n /\ m - 1 \in 0 .. n
      BY <1>1
    <2> QED
      BY <1>3, <1>4, <2>1
  <1>6. f = [m \in 0 .. n |-> f[m]]
    <2> HIDE DEF T, n, step
    <2> QED
      BY <1>4
  <1>7. Rounds(f, n, x)
    BY <1>5, <1>6 DEF Rounds
  <1>8. reach = [m \in 0 .. Cardinality(DOMAIN new) |->
                   IF m = 0 THEN {x}
                   ELSE reach[m - 1] \cup UNION {Below(y) : y \in {z \in reach[m - 1] :
                                               new[z].t \in {"node", "shortcut"}}}]
    BY <1>7 DEF Rounds, Wider
  <1>9. From(x) = reach[n]
    BY DEF From
  <1>10. Rounds(reach, n, x)
    <2> HIDE DEF reach
    <2> QED
      BY <1>8 DEF Rounds, Wider
  <1> HIDE DEF reach, step
  <1> DEFINE A == {m \in Nat : m > n \/ reach[m] = f[m]}
  <1>11. 0 \in A
    BY <1>1, <1>7, <1>10 DEF Rounds
  <1>12. \A m \in Nat : m \in A => m + 1 \in A
    <2> SUFFICES ASSUME NEW m \in Nat, m \in A, m + 1 <= n PROVE reach[m + 1] = f[m + 1]
      BY <1>1
    <2>1. reach[m] = f[m] /\ m + 1 \in 0 .. n /\ m + 1 # 0 /\ (m + 1) - 1 = m
      BY <1>1
    <2> HIDE DEF n, A
    <2>2. f[m + 1] = Wider(f[m])
      BY <1>7, <2>1 DEF Rounds
    <2>3. reach[m + 1] = Wider(reach[m])
      BY <1>10, <2>1 DEF Rounds
    <2> QED
      BY <2>1, <2>2, <2>3
  <1>13. n \in A
    <2> HIDE DEF A
    <2> QED
      BY <1>1, <1>11, <1>12, SetInduction
  <1>14. From(x) = f[n]
    BY <1>1, <1>9, <1>13
  <1> QED
    BY <1>4, <1>7, <1>14

\* From(x) is the least set with x that has, with an object, also what it points to.
LEMMA FromIs ==
  ASSUME IsFiniteSet(DOMAIN new), NEW x \in DOMAIN new, Reaches(DOMAIN new)
  PROVE  /\ x \in From(x) /\ From(x) \subseteq DOMAIN new /\ Reaches(From(x))
         /\ \A T : x \in T /\ Reaches(T) => From(x) \subseteq T
  <1> DEFINE n == Cardinality(DOMAIN new)
  <1>1. PICK f : /\ Rounds(f, n, x) /\ From(x) = f[n]
                 /\ \A k \in 0 .. n : f[k] \in SUBSET DOMAIN new
    BY RoundsExist
  <1>2. n \in Nat
    BY FS_CardinalityType
  <1>3. f[0] = {x}
    BY <1>1, <1>2 DEF Rounds
  <1>4. ASSUME NEW m \in Nat, m + 1 <= n PROVE f[m + 1] = Wider(f[m])
    <2>1. m + 1 \in 0 .. n /\ m + 1 # 0 /\ (m + 1) - 1 = m
      BY <1>2, <1>4
    <2> HIDE DEF n
    <2> QED
      BY <1>1, <2>1 DEF Rounds
  <1> HIDE DEF n
  <1>5. ASSUME NEW T, x \in T, Reaches(T) PROVE From(x) \subseteq T
    <2> DEFINE S == {m \in Nat : m <= n => f[m] \subseteq T}
    <2>1. 0 \in S
      BY <1>3, <1>5
    <2>2. \A m \in Nat : m \in S => m + 1 \in S
      <3> SUFFICES ASSUME NEW m \in Nat, m \in S, m + 1 <= n PROVE f[m + 1] \subseteq T
        OBVIOUS
      <3>1. f[m] \subseteq T
        BY <1>2
      <3> QED
        BY <1>4, <1>5, <3>1, WiderIs
    <2>3. n \in S
      <3> HIDE DEF S
      <3> QED
        BY <1>2, <2>1, <2>2, SetInduction
    <2> QED
      BY <1>1, <1>2, <2>3
  <1>6. x \in From(x) /\ Reaches(From(x))
    <2> DEFINE S == {m \in Nat : m <= n => /\ x \in f[m]
                                           /\ Reaches(f[m]) \/ Cardinality(f[m]) >= m + 1}
    <2>1. 0 \in S
      <3>1. Cardinality(f[0]) = 1 /\ x \in f[0]
        BY <1>3, FS_Singleton
      <3> QED
        BY <3>1
    <2>2. \A m \in Nat : m \in S => m + 1 \in S
      <3> SUFFICES ASSUME NEW m \in Nat, m \in S, m + 1 <= n
                   PROVE  x \in f[m + 1] /\ (Reaches(f[m + 1]) \/ Cardinality(f[m + 1]) >= (m + 1) + 1)
        OBVIOUS
      <3>1. x \in f[m] /\ (Reaches(f[m]) \/ Cardinality(f[m]) >= m + 1)
        BY <1>2
      <3>2. f[m + 1] = Wider(f[m]) /\ f[m] \subseteq f[m + 1]
        BY <1>4, WiderIs
      <3>3. CASE Reaches(f[m])
        BY <3>1, <3>2, <3>3, WiderIs
      <3>4. CASE ~Reaches(f[m])
        <4>1. f[m] # f[m + 1]
          BY <3>2, <3>4, WiderIs
        <4>2. f[m + 1] \in SUBSET DOMAIN new
          BY <1>1, <1>2
        <4>3. IsFiniteSet(f[m + 1]) /\ IsFiniteSet(f[m])
          BY <3>2, <4>2, FS_Subset
        <4>4. Cardinality(f[m]) <= Cardinality(f[m + 1]) /\ Cardinality(f[m]) # Cardinality(f[m + 1])
          BY <3>2, <4>1, <4>3, FS_Subset
        <4>5. Cardinality(f[m]) \in Nat /\ Cardinality(f[m + 1]) \in Nat
          BY <4>3, FS_CardinalityType
        <4> QED
          BY <3>1, <3>2, <3>4, <4>4, <4>5
      <3> QED
        BY <3>3, <3>4
    <2>3. n \in S
      <3> HIDE DEF S
      <3> QED
        BY <1>2, <2>1, <2>2, SetInduction
    <2>4. x \in f[n] /\ (Reaches(f[n]) \/ Cardinality(f[n]) >= n + 1)
      BY <1>2, <2>3
    <2>5. f[n] \in SUBSET DOMAIN new
      BY <1>1, <1>2
    <2>6. Cardinality(f[n]) <= n /\ Cardinality(f[n]) \in Nat
      BY <2>5, FS_Subset, FS_CardinalityType DEF n
    <2> QED
      BY <1>1, <1>2, <2>4, <2>6
  <1>7. From(x) \subseteq DOMAIN new
    BY <1>1, <1>2
  <1> QED
    BY <1>5, <1>6, <1>7

\* What object x of the new tree points to is allocated, and x is above it.
LEMMA BelowIs ==
  ASSUME WalkInv, Live, pc # "descend", NEW x \in DOMAIN old, Allocated(x), NEW y \in Below(x)
  PROVE  y \in DOMAIN old /\ Allocated(y) /\ x \in Anc(array, y) /\ x # y
  <1>1. IsArray(array) /\ old = array.heap /\ DOMAIN new = DOMAIN old
    BY LiveTree DEF NewHeaps
  <1>2. ASSUME NEW p, NEW back, NEW pslot, Linked(array, new, x, p, back, pslot), y = p.id
        PROVE  y \in DOMAIN old /\ Allocated(y) /\ x \in Anc(array, y) /\ x # y
    BY <1>1, <1>2 DEF Linked, Leads, Meta, Allocated
  <1>3. CASE new[x].t = "shortcut"
    <2>1. y = new[x].next_node.id
      BY <1>3 DEF Below
    <2>2. Linked(array, new, x, new[x].next_node, ShortcutPtr(x), 0)
      BY <1>3 DEF WalkInv, Links
    <2> QED
      BY <1>2, <2>1, <2>2
  <1>4. CASE new[x].t = "node"
    <2>1. PICK k \in Slot : is_meta(new[x].slots[k]) /\ y = new[x].slots[k].id
      BY <1>4 DEF Below
    <2>2. Linked(array, new, x, new[x].slots[k], NodePtr(x), k)
      BY <1>4, <2>1 DEF WalkInv, Links
    <2> QED
      BY <1>2, <2>1, <2>2
  <1> QED
    BY <1>3, <1>4 DEF Allocated

\* An object is one pointer away from the one above it.
LEMMA BelowUp ==
  ASSUME WalkInv, Live, ShapeInv, NEW x \in DOMAIN old, Allocated(x), ~Detached(x), NewUp(x) # NULL
  PROVE  x \in Below(NewUp(x).id)
  <1>1. /\ PointedTo(new, new_root, x) /\ new[x].parent_slot \in Slot
        /\ NewUp(x).t \in {"node", "shortcut"} /\ new[NewUp(x).id].t = NewUp(x).t
    BY ShapeOf DEF Allocated
  <1>2. PICK p : p = [t |-> new[x].t, id |-> x]
    OBVIOUS
  <1>3. is_meta(p) /\ p.id = x
    BY <1>2 DEF is_meta, Allocated
  <1>4. CASE NewUp(x).t = "shortcut"
    BY <1>1, <1>2, <1>3, <1>4 DEF PointedTo, NewUp, is_shortcut, Below
  <1>5. CASE NewUp(x).t = "node"
    <2>1. new[NewUp(x).id].slots[new[x].parent_slot] = p
      BY <1>1, <1>2, <1>5 DEF PointedTo, NewUp, is_shortcut
    <2> QED
      BY <1>1, <1>3, <1>5, <2>1 DEF Below
  <1> QED
    BY <1>1, <1>4, <1>5

\* What is reachable from x is what is left of the old tree below x.
LEMMA FromBelow ==
  ASSUME WalkInv, Live, ShapeInv, pc \notin {"descend", "fold"}, NEW x \in DOMAIN old, Allocated(x)
  PROVE  From(x) = {y \in DOMAIN old : Allocated(y) /\ x \in Anc(array, y)}
  <1> DEFINE T == {y \in DOMAIN old : Allocated(y) /\ x \in Anc(array, y)}
  <1>1. IsArray(array) /\ old = array.heap /\ DOMAIN new = DOMAIN old /\ IsFiniteSet(DOMAIN new)
    BY LiveTree DEF NewHeaps, IsArray
  <1>2. \A y \in DOMAIN old : Allocated(y) => \A z \in Below(y) : z \in DOMAIN old
                                                /\ Allocated(z) /\ y \in Anc(array, z)
    BY BelowIs
  <1>3. Reaches(DOMAIN new)
    BY <1>1, <1>2 DEF Reaches
  <1>4. x \in T /\ Reaches(T)
    <2>1. x \in T
      BY <1>1, AncClimbs
    <2>2. ASSUME NEW y \in T, NEW z \in Below(y) PROVE z \in T
      <3>1. z \in DOMAIN old /\ Allocated(z) /\ y \in Anc(array, z)
        BY <1>2
      <3> QED
        BY <1>1, <3>1, AncTrans
    <2> HIDE DEF T
    <2> QED
      BY <2>1, <2>2 DEF Reaches
  <1>5. /\ x \in From(x) /\ From(x) \subseteq DOMAIN new /\ Reaches(From(x))
        /\ From(x) \subseteq T
    <2> HIDE DEF T
    <2> QED
      BY <1>1, <1>3, <1>4, FromIs
  <1>6. T \subseteq From(x)
    <2> SUFFICES ASSUME T \ From(x) # {} PROVE FALSE
      OBVIOUS
    <2>1. PICK u \in T \ From(x) : \A w \in T \ From(x) : w \in Anc(array, u) => w = u
      <3>1. T \ From(x) \in SUBSET DOMAIN array.heap
        BY <1>1
      <3> HIDE DEF T
      <3> QED
        BY <1>1, <3>1, Highest
    <2>2. u \in DOMAIN old /\ Allocated(u) /\ x \in Anc(array, u) /\ x # u /\ ~Detached(u)
      BY <1>5, <2>1 DEF Detached
    <2>3. /\ Nearest(array, new, u) /\ new[x] # Freed
          /\ NewUp(u) # NULL => /\ NewUp(u).id \in DOMAIN old /\ Allocated(NewUp(u).id)
                                /\ NewUp(u).id \in Anc(array, u) /\ NewUp(u).id # u
      BY <2>2, ShapeOf
    <2>4. NewUp(u) # NULL /\ x \in Anc(array, NewUp(u).id)
      BY <2>2, <2>3 DEF Nearest, NewUp
    <2>5. NewUp(u).id \in From(x)
      BY <2>1, <2>3, <2>4
    <2>6. u \in Below(NewUp(u).id)
      BY <2>2, <2>4, BelowUp
    <2>7. u \in From(x)
      BY <1>5, <2>3, <2>4, <2>5, <2>6 DEF Reaches
    <2> QED
      BY <2>1, <2>7
  <1> QED
    BY <1>5, <1>6

\* All that is left is below the new root.
LEMMA RootAbove ==
  ASSUME WalkInv, Live, ShapeInv, pc \notin {"descend", "fold"}
  PROVE  /\ new_root.id \in DOMAIN old /\ Allocated(new_root.id)
         /\ \A y \in DOMAIN old : Allocated(y) => new_root.id \in Anc(array, y)
  <1>1. IsArray(array) /\ old = array.heap /\ DOMAIN new = DOMAIN old
    BY LiveTree DEF NewHeaps
  <1>2. new_root.id \in DOMAIN old /\ Allocated(new_root.id)
    BY <1>1 DEF ShapeInv, Leads, Meta, Allocated
  <1>3. ASSUME NEW y \in DOMAIN old, Allocated(y) PROVE new_root.id \in Anc(array, y)
    <2> DEFINE S == {z \in Anc(array, y) : Allocated(z)}
    <2>1. S \in SUBSET DOMAIN array.heap /\ y \in S
      BY <1>1, <1>3, AncClimbs
    <2>2. PICK u \in S : \A w \in S : w \in Anc(array, u) => w = u
      <3> HIDE DEF S
      <3> QED
        BY <1>1, <2>1, Highest
    <2>3. u \in DOMAIN old /\ Allocated(u) /\ ~Detached(u) /\ u \in Anc(array, y)
      BY <1>1, <2>1, <2>2 DEF Detached
    <2>4. NewUp(u) = NULL
      <3> SUFFICES ASSUME NewUp(u) # NULL PROVE FALSE
        OBVIOUS
      <3>1. Allocated(NewUp(u).id) /\ NewUp(u).id \in Anc(array, u) /\ NewUp(u).id # u
        BY <2>3, ShapeOf
      <3>2. NewUp(u).id \in S
        BY <1>1, <1>3, <2>3, <3>1, AncTrans
      <3> QED
        BY <2>2, <3>1, <3>2
    <2>5. new_root = [t |-> new[u].t, id |-> u]
      BY <2>3, <2>4, ShapeOf DEF PointedTo, NewUp
    <2> QED
      BY <2>3, <2>5
  <1> QED
    BY <1>2, <1>3

-----------------------------------------------------------------------------
(* Nothing lost, nothing dangling.                                         *)

\* What the collection ends with.
Ended == Live /\ pc = "done" => result.root = new_root

TreeInv == WalkInv /\ (Live => ShapeInv) /\ Ended

LEMMA EndedNext ==
  ASSUME WalkInv, Next
  PROVE  Ended'
  <1>1. CASE gc_complete
    BY <1>1 DEF gc_complete, treeVars, Ended
  <1>2. CASE assoc_array_gc
    <2>1. pc' = "done" => array.root = NULL
      BY <1>2 DEF assoc_array_gc
    <2>2. array' = array
      BY <1>2 DEF assoc_array_gc
    <2> QED
      BY <2>1, <2>2 DEF Ended, Live
  <1>3. CASE descend_shortcut \/ descend_node \/ continue_node \/ compress
    BY <1>3 DEF Ended, descend_shortcut, descend_node, continue_node, compress, enomem
  <1>4. CASE compress_skip \/ compress_retain \/ compress_fold \/ fold \/ fold_end \/ retry
    BY <1>4 DEF Ended, compress_skip, compress_retain, compress_fold, fold, fold_end, retry
  <1>5. CASE excise_node \/ excise_shortcut \/ leave_node \/ ascend_old_tree \/ BUG_ON
    BY <1>5 DEF Ended, excise_node, excise_shortcut, leave_node, ascend_old_tree, BUG_ON
  <1> QED
    BY <1>1, <1>2, <1>3, <1>4, <1>5, Zenon DEF Next

LEMMA TreeNext ==
  ASSUME TreeInv, [Next]_vars
  PROVE  TreeInv'
  <1>1. WalkInv'
    BY WalkNext DEF TreeInv
  <1>2. CASE Next
    <2>1. Live' => ShapeInv'
      <3>1. CASE assoc_array_gc
        BY <3>1, ShapeStart DEF TreeInv
      <3>2. CASE ~assoc_array_gc
        BY <1>2, <3>2, LiveSteps, ShapeNext DEF TreeInv
      <3> QED
        BY <3>1, <3>2
    <2> QED
      BY <1>1, <1>2, <2>1, EndedNext DEF TreeInv
  <1>3. CASE UNCHANGED vars
    <2>1. UNCHANGED <<array, new, new_root, pc, cursor, new_parent, result>>
      BY <1>3 DEF vars, treeVars, walkVars
    <2>2. (Live' <=> Live) /\ (Ended => Ended')
      BY <2>1 DEF Live, Ended
    <2>3. ShapeInv => ShapeInv'
      BY <2>1, Zenon DEF ShapeInv, Allocated, Detached, old
    <2> QED
      BY <1>1, <2>2, <2>3 DEF TreeInv
  <1> QED
    BY <1>2, <1>3

\* Whatever is excised and folded, each object left hangs from the nearest one left
\* above it, which points to it.
THEOREM TreeInvariance ==
  Spec => []TreeInv
  <1>1. Init => TreeInv
    BY WalkInit DEF Init, TreeInv, Live, Ended
  <1>2. TreeInv /\ [Next]_vars => TreeInv'
    BY TreeNext
  <1> QED
    BY <1>1, <1>2, PTL DEF Spec

\* In the finished array exactly what is allocated is reachable from the root.
THEOREM NothingLostOrDangling ==
  Spec => []NothingLostNothingDangling
  <1>1. TreeInv => NothingLostNothingDangling
    <2> SUFFICES ASSUME TreeInv, Collected
                 PROVE  From(result.root.id) = {x \in DOMAIN new : Allocated(x)}
      BY DEF NothingLostNothingDangling
    <2>1. WalkInv /\ Live /\ ShapeInv /\ pc \notin {"descend", "fold"} /\ result.root = new_root
      BY DEF TreeInv, Collected, Live, Ended
    <2>2. DOMAIN new = DOMAIN old
      BY <2>1, LiveTree DEF NewHeaps
    <2>3. /\ new_root.id \in DOMAIN old /\ Allocated(new_root.id)
          /\ \A y \in DOMAIN old : Allocated(y) => new_root.id \in Anc(array, y)
      BY <2>1, RootAbove
    <2>4. From(new_root.id) = {y \in DOMAIN old : Allocated(y) /\ new_root.id \in Anc(array, y)}
      BY <2>1, <2>3, FromBelow
    <2> QED
      BY <2>1, <2>2, <2>3, <2>4
  <1> QED
    BY <1>1, TreeInvariance, PTL

-----------------------------------------------------------------------------
(* The leaves: where they come from.                                       *)

LEMMA SameSize ==
  ASSUME NEW S, NEW T, IsFiniteSet(T), NEW f \in [S -> T],
         \A x, y \in S : f[x] = f[y] => x = y
  PROVE  /\ IsFiniteSet(S) /\ Cardinality(S) <= Cardinality(T)
         /\ (\A z \in T : \E x \in S : f[x] = z) => Cardinality(S) = Cardinality(T)
  <1>1. f \in Injection(S, T)
    BY DEF Injection, IsInjective
  <1>2. (\A z \in T : \E x \in S : f[x] = z) => f \in Surjection(S, T)
    BY DEF Surjection
  <1> QED
    BY <1>1, <1>2, FS_Injection

\* A leaf of the old tree is in one place.
LEMMA OneHome ==
  ASSUME WalkInv, Live, NEW x, NEW k, NEW y, NEW m, NEW l,
         HoldsLeaf(array, x, k, l), HoldsLeaf(array, y, m, l)
  PROVE  x = y /\ k = m
  <1> DEFINE Places == {z \in DOMAIN array.heap : array.heap[z].t = "node"} \X Slot
  <1>1. <<x, k>> \in Places /\ <<y, m>> \in Places
    BY DEF HoldsLeaf, IsNode
  <1>2. \A q, r \in Places :
          array.heap[q[1]].slots[q[2]] = array.heap[r[1]].slots[r[2]]
            /\ array.heap[q[1]].slots[q[2]].t = "leaf" => q = r
    BY LiveTree DEF IsArray
  <1>3. <<x, k>> = <<y, m>>
    <2> HIDE DEF Places
    <2> QED
      BY <1>1, <1>2 DEF HoldsLeaf
  <1> QED
    BY <1>3

\* The object that an allocated one, y, hangs from directly below z.
LEMMA ChildOnWay ==
  ASSUME WalkInv, Live, ShapeInv, NEW y \in DOMAIN old, Allocated(y),
         NEW z \in Anc(array, y), z # y, new[z] # Freed
  PROVE  \E w \in Anc(array, y) : Allocated(w) /\ NewUp(w) # NULL /\ NewUp(w).id = z /\ w # z
  <1> DEFINE S == {w \in Anc(array, y) : Allocated(w) /\ z \in Anc(array, w) /\ w # z}
  <1>1. IsArray(array) /\ old = array.heap /\ Anc(array, y) \subseteq DOMAIN old
    BY LiveTree, AncClimbs
  <1>2. S \in SUBSET DOMAIN array.heap /\ y \in S
    BY <1>1, AncClimbs
  <1>3. PICK w \in S : \A v \in S : v \in Anc(array, w) => v = w
    <2> HIDE DEF S
    <2> QED
      BY <1>1, <1>2, Highest
  <1>4. w \in Anc(array, y) /\ w \in DOMAIN old /\ Allocated(w) /\ z \in Anc(array, w) /\ w # z
    BY <1>1, <1>3
  <1>5. /\ Nearest(array, new, w)
        /\ NewUp(w) # NULL => /\ NewUp(w).id \in DOMAIN old /\ Allocated(NewUp(w).id)
                              /\ NewUp(w).id \in Anc(array, w) /\ NewUp(w).id # w
    BY <1>4, ShapeOf
  <1>6. NewUp(w) # NULL /\ z \in Anc(array, NewUp(w).id)
    BY <1>4, <1>5 DEF Nearest, NewUp
  <1>7. NewUp(w).id = z
    <2> SUFFICES ASSUME NewUp(w).id # z PROVE FALSE
      OBVIOUS
    <2>1. NewUp(w).id \in S
      BY <1>1, <1>4, <1>5, <1>6, AncTrans
    <2> QED
      BY <1>3, <1>5, <1>6, <2>1
  <1> QED
    BY <1>4, <1>6, <1>7

-----------------------------------------------------------------------------
(* The iterator is asked once about each leaf.                             *)

\* An object comes into being where a copy is made, and does not come back once freed.
LEMMA HeapNext ==
  ASSUME WalkInv, Live, Next, Live', NEW x \in DOMAIN old
  PROVE  /\ new'[x] = Absent <=> new[x] = Absent /\ ~(pc = "descend" /\ x = cursor.id)
         /\ new[x] = Freed => new'[x] = Freed
         /\ Allocated(x)' => new'[x].t = IF pc = "descend" /\ x = cursor.id THEN old[x].t ELSE new[x].t
  <1>1. CASE descend_shortcut \/ descend_node
    <2>1. pc = "descend" /\ pc' # "ENOMEM"
      BY <1>1 DEF descend_shortcut, descend_node, Live
    <2>2. Copied
      BY <1>1, <2>1, DescendShortcutCopies, DescendNodeCopies
    <2>3. CASE x # cursor.id
      <3>1. new[x] = Freed => new'[x].t = "freed"
        BY <2>1, <2>2, <2>3, CopyFrame DEF Freed
      <3>2. new[x] = Freed => new'[x] = Freed
        BY <2>2, <3>1, NewShape DEF Copied
      <3> QED
        BY <2>1, <2>2, <2>3, <3>2, CopyFrame
    <2>4. CASE x = cursor.id
      <3>1. new'[x].t \in {"node", "shortcut"} /\ new'[x].t = old[x].t
        BY <2>1, <2>2, <2>4, DescendPlace DEF Copied, WalkInv, Place, Descending
      <3>2. new[x] = Absent
        BY <2>1, <2>4, DescendPlace
      <3> QED
        BY <2>1, <2>4, <3>1, <3>2 DEF Absent, Freed
    <2> QED
      BY <2>3, <2>4
  <1>2. CASE continue_node
    <2>1. pc = "continue_node"
      BY <1>2 DEF continue_node
    <2>2. CASE new' = new
      BY <2>1, <2>2
    <2>3. CASE new' # new
      <3>1. /\ new' = [new EXCEPT ![new_n].slots[slot] = old[node].slots[slot]]
            /\ slot \in Slot /\ UNCHANGED <<array, new_parent, node, new_n>>
        <4>1. slot < FAN_OUT /\ slot \in 0 .. FAN_OUT
          BY <1>2, <2>1, FilledNode DEF continue_node, Within
        <4> QED
          BY <1>2, <2>3, <4>1, GcAssumption DEF continue_node, Slot
      <3>2. Edited(slot, old[node].slots[slot])
        BY <2>1, <3>1, OldPointers, EditSlot DEF Within
      <3> QED
        BY <2>1, <3>2, EditFrame DEF Within
    <2> QED
      BY <2>2, <2>3
  <1>3. CASE compress \/ compress_retain \/ compress_fold
    <2>1. pc \in Within /\ pc # "descend"
      BY <1>3 DEF compress, compress_retain, compress_fold, Within
    <2>2. PICK s, p : Edited(s, p)
      BY <1>3, CompressEdits, RetainEdits, FoldBeginEdits
    <2> QED
      BY <2>1, <2>2, EditFrame
  <1>4. CASE fold
    <2>1. pc \in Within /\ pc # "descend"
      BY <1>4 DEF fold, Within
    <2>2. new' = new \/ \E s, p : Edited(s, p)
      BY <1>4, FoldEdits
    <2> QED
      BY <2>1, <2>2, EditFrame
  <1>5. CASE fold_end
    <2>1. pc = "fold" /\ new' = [new EXCEPT ![cursor.id] = Freed]
      BY <1>5 DEF fold_end, kfree
    <2>2. new[cursor.id].t = "node" /\ DOMAIN new = DOMAIN old
      BY <2>1, LiveTree DEF WalkInv, Place, Folding, NewHeaps
    <2> QED
      BY <2>1, <2>2 DEF Absent, Freed, Allocated
  <1>6. CASE compress_skip \/ retry \/ leave_node \/ ascend_old_tree \/ gc_complete
    BY <1>6 DEF compress_skip, retry, leave_node, ascend_old_tree, gc_complete, Compressed, treeVars
  <1>7. CASE Leaving /\ \E G, r : Excised(G, r)
    <2>1. PICK G, r : Excised(G, r)
      BY <1>7
    <2>2. new[x] = Freed => x \notin G /\ new[x].t = "freed"
      BY <2>1 DEF Excised, Freed
    <2>3. new[x] = Freed => new'[x] = Freed
      BY <1>7, <2>1, <2>2, ExcisedFrame, NewShape DEF Excised
    <2>4. x \in G => ~Allocated(x)'
      BY <1>7, <2>1, ExcisedFrame DEF Allocated
    <2> QED
      BY <1>7, <2>1, <2>3, <2>4, ExcisedFrame DEF Leaving
  <1>8. CASE excise_node \/ excise_shortcut
    <2>1. CASE new' = new
      BY <1>8, <2>1 DEF excise_node, excise_shortcut, Compressed
    <2> QED
      BY <1>7, <1>8, <2>1, ExciseNodeStep, ExciseShortcutStep
  <1>9. ~assoc_array_gc /\ ~BUG_ON
    BY DEF assoc_array_gc, BUG_ON, Live
  <1> QED
    BY <1>1, <1>2, <1>3, <1>4, <1>5, <1>6, <1>8, <1>9, Zenon DEF Next

\* The walk comes past one slot at a time.
LEMMA PassedNext ==
  ASSUME WalkInv, Live, Next, Live', NEW x, NEW k, NEW l, HoldsLeaf(array, x, k, l)
  PROVE  Passed(x, k)' <=> \/ Passed(x, k)
                           \/ pc = "continue_node" /\ pc' = "continue_node" /\ x = node /\ k = slot
  <1>1. /\ IsArray(array) /\ old = array.heap /\ x \in DOMAIN old /\ old[x].t = "node" /\ k \in Slot
        /\ old[x].slots[k] = l /\ l.t = "leaf"
    BY LiveTree DEF HoldsLeaf, IsNode
  <1>2. new'[x] = Absent <=> new[x] = Absent /\ ~(pc = "descend" /\ x = cursor.id)
    BY <1>1, HeapNext
  <1>3. CASE descend_shortcut
    <2> DEFINE c == cursor.id
               d == old[c].next_node
    <2>1. pc = "descend" /\ pc' = "descend" /\ cursor.t = "shortcut" /\ array' = array /\ cursor' = d
      BY <1>3 DEF descend_shortcut, enomem, is_shortcut, Live
    <2>2. c \in DOMAIN old /\ old[c].t = "shortcut"
      BY <2>1, DescendPlace
    <2>3. d.id \in DOMAIN old /\ Up(array, d.id) = ShortcutPtr(c)
      BY <1>1, <2>2, DownShortcut
    <2> HIDE DEF c, d
    <2>4. After(array, d.id, x, k) <=> After(array, c, x, k)
      BY <1>1, <2>3, AfterSplit DEF ShortcutPtr
    <2>5. Waits(x, k) <=> After(array, c, x, k)
      BY <2>1 DEF Waits, Within, c
    <2>6. Waits(x, k)' <=> After(array, d.id, x, k)
      BY <2>1 DEF Waits, Within
    <2> QED
      BY <1>1, <1>2, <2>1, <2>2, <2>4, <2>5, <2>6 DEF Passed, c
  <1>4. CASE descend_node
    <2> DEFINE c == cursor.id
    <2>1. pc = "descend" /\ pc' = "continue_node" /\ array' = array /\ node' = c /\ slot' = 0
      BY <1>4 DEF descend_node, enomem, Live
    <2>2. 0 <= k
      BY <1>1 DEF Slot
    <2> HIDE DEF c
    <2>3. Waits(x, k) <=> After(array, c, x, k)
      BY <2>1 DEF Waits, Within, c
    <2>4. Waits(x, k)' <=> After(array, c, x, k) \/ x = c
      BY <2>1, <2>2 DEF Waits, Within
    <2>5. x = c => new[x] = Absent
      BY <2>1, DescendPlace DEF c
    <2> QED
      BY <1>2, <2>1, <2>3, <2>4, <2>5 DEF Passed, c
  <1>5. CASE continue_node /\ pc' = "descend"
    <2> DEFINE ptr == old[node].slots[slot]
               c == ptr.id
    <2>1. /\ pc = "continue_node" /\ slot < FAN_OUT /\ pc \in Within /\ array' = array
          /\ cursor' = ptr /\ is_meta(ptr)
      BY <1>5 DEF continue_node, Within
    <2>2. node \in DOMAIN old /\ old[node].t = "node" /\ slot \in Slot
      BY <2>1, FilledNode, GcAssumption DEF Slot
    <2>3. c \in DOMAIN old /\ Up(array, c) = NodePtr(node) /\ old[c].parent_slot = slot
      BY <1>1, <2>1, <2>2, Down
    <2>4. ~(x = node /\ k = slot)
      BY <1>1, <2>1 DEF is_meta
    <2> HIDE DEF c, ptr
    <2>5. After(array, c, x, k) <=> After(array, node, x, k) \/ (x = node /\ slot < k)
      <3>1. Up(array, c).t = "node" /\ Up(array, c).id = node
        BY <2>3 DEF NodePtr
      <3> QED
        BY <1>1, <2>3, <3>1, AfterSplit
    <2>6. Waits(x, k) <=> After(array, node, x, k) \/ (x = node /\ slot <= k)
      BY <2>1, WaitsWithin
    <2>7. Waits(x, k)' <=> After(array, c, x, k)
      BY <1>5, <2>1 DEF Waits, Within, c
    <2>8. slot \in Int /\ k \in Int
      BY <1>1, <2>2, GcAssumption DEF Slot
    <2>9. Waits(x, k)' <=> Waits(x, k)
      BY <2>4, <2>5, <2>6, <2>7, <2>8
    <2> QED
      BY <1>2, <1>5, <2>1, <2>9 DEF Passed
  <1>6. CASE continue_node /\ pc' # "descend"
    <2>1. /\ pc = "continue_node" /\ pc' = "continue_node" /\ slot < FAN_OUT /\ slot' = slot + 1
          /\ UNCHANGED <<array, node>> /\ pc \in Within /\ pc' \in Within
      BY <1>6 DEF continue_node, Within
    <2>2. slot \in Int /\ k \in Int /\ new[node] # Absent
      BY <1>1, <2>1, FilledNode, GcAssumption DEF Slot, Absent
    <2>3. Waits(x, k) <=> After(array, node, x, k) \/ (x = node /\ slot <= k)
      BY <2>1, WaitsWithin
    <2>4. Waits(x, k)' <=> After(array, node, x, k) \/ (x = node /\ slot + 1 <= k)
      BY <2>1, WaitsThen
    <2>5. ~After(array, node, node, k)
      BY <2>1, WaitsWithin
    <2> QED
      BY <1>2, <2>1, <2>2, <2>3, <2>4, <2>5 DEF Passed
  <1>7. CASE compress \/ compress_skip \/ compress_retain \/ compress_fold \/ fold \/ fold_end \/ retry
    <2>1. /\ UNCHANGED <<array, node>> /\ pc \in Within /\ pc' \in Within /\ pc' # "continue_node"
          /\ pc = "continue_node" => slot = FAN_OUT
      BY <1>7 DEF compress, compress_skip, compress_retain, compress_fold, fold, fold_end, retry,
                  treeVars, walkVars, Within
    <2>2. pc = "continue_node" => ~(slot <= k)
      BY <1>1, <2>1, GcAssumption DEF Slot
    <2>3. Waits(x, k) <=> After(array, node, x, k)
      BY <2>1, <2>2, WaitsWithin
    <2>4. Waits(x, k)' <=> After(array, node, x, k)
      BY <2>1, WaitsThen
    <2>5. pc # "descend"
      BY <2>1 DEF Within
    <2> QED
      BY <1>2, <2>1, <2>3, <2>4, <2>5 DEF Passed
  <1>8. CASE excise_node \/ excise_shortcut \/ leave_node
    <2>1. Leaving /\ new' \in NewHeaps(old)
      <3>1. excise_node => Leaving /\ new' \in NewHeaps(old)
        BY ExciseNodeStep DEF Excised
      <3>2. excise_shortcut => Leaving /\ new' \in NewHeaps(old)
        BY ExciseShortcutStep, LiveTree DEF Excised
      <3>3. leave_node => Leaving /\ new' \in NewHeaps(old)
        BY LeaveNodeStep, LiveTree
      <3> QED
        BY <1>8, <3>1, <3>2, <3>3
    <2>2. Waits(x, k)' <=> Waits(x, k)
      BY <1>1, <2>1, LeavingKeeps
    <2> QED
      BY <1>2, <2>1, <2>2 DEF Passed, Leaving
  <1>9. CASE ascend_old_tree
    <2>1. /\ pc = "ascend" /\ array' = array
          /\ \/ /\ Upper.cursor # NULL /\ node' = Upper.cursor.id /\ slot' = Upper.slot + 1
                /\ pc' = "continue_node"
             \/ Upper.cursor = NULL /\ pc' = "gc_complete"
      BY <1>9 DEF ascend_old_tree, treeVars, SlotAfter
    <2>2. IsNode(array, node)
      BY <2>1 DEF WalkInv, Place, Ascending
    <2>3. /\ Upper.slot \in Slot
          /\ After(array, node, x, k) <=> /\ Upper.cursor # NULL
                                          /\ \/ After(array, Upper.cursor.id, x, k)
                                             \/ x = Upper.cursor.id /\ Upper.slot < k
      BY <1>1, <2>2, UpperShape
    <2>4. Waits(x, k) <=> After(array, node, x, k)
      BY <2>1 DEF Waits, Within
    <2>5. Waits(x, k)' <=> /\ Upper.cursor # NULL
                           /\ \/ After(array, Upper.cursor.id, x, k)
                              \/ x = Upper.cursor.id /\ Upper.slot + 1 <= k
      BY <2>1 DEF Waits, Within
    <2>6. Upper.slot + 1 <= k <=> Upper.slot < k
      BY <1>1, <2>3, GcAssumption DEF Slot
    <2> QED
      BY <1>2, <2>1, <2>3, <2>4, <2>5, <2>6 DEF Passed
  <1>10. CASE gc_complete
    <2>1. pc = "gc_complete" /\ pc' = "done"
      BY <1>10 DEF gc_complete
    <2> QED
      BY <1>2, <2>1 DEF Passed, Waits, Within
  <1>11. ~assoc_array_gc /\ ~BUG_ON
    BY DEF assoc_array_gc, BUG_ON, Live
  <1> QED
    BY <1>3, <1>4, <1>5, <1>6, <1>7, <1>8, <1>9, <1>10, <1>11, Zenon DEF Next

\* The answers are taken in one step.
LEMMA AnswersNext ==
  ASSUME WalkInv, Live, Next
  PROVE  /\ array' = array /\ old' = old
         /\ ~continue_node => UNCHANGED <<kept, dropped>>
         /\ continue_node =>
              LET l == old[node].slots[slot]
              IN /\ pc = "continue_node" /\ node' = node /\ slot \in Slot /\ IsNode(array, node)
                 /\ \/ /\ pc' = "continue_node" /\ HoldsLeaf(array, node, slot, l)
                       /\ \/ /\ kept' = kept \cup {l} /\ dropped' = dropped
                             /\ new' = [new EXCEPT ![node].slots[slot] = l]
                          \/ kept' = kept /\ dropped' = dropped \cup {l} /\ new' = new
                    \/ l.t # "leaf" /\ UNCHANGED <<kept, dropped, new>>
  <1>1. array' = array /\ old' = old /\ (~continue_node => UNCHANGED <<kept, dropped>>)
    BY DEF old, Next, assoc_array_gc, descend_shortcut, descend_node, compress,
           compress_skip, compress_retain, compress_fold, fold, fold_end, retry,
           excise_node, excise_shortcut, leave_node, ascend_old_tree, gc_complete, BUG_ON,
           enomem, treeVars, continue_node
  <1>2. ASSUME continue_node
        PROVE  LET l == old[node].slots[slot]
               IN /\ pc = "continue_node" /\ node' = node /\ slot \in Slot /\ IsNode(array, node)
                  /\ \/ /\ pc' = "continue_node" /\ HoldsLeaf(array, node, slot, l)
                        /\ \/ /\ kept' = kept \cup {l} /\ dropped' = dropped
                              /\ new' = [new EXCEPT ![node].slots[slot] = l]
                           \/ kept' = kept /\ dropped' = dropped \cup {l} /\ new' = new
                     \/ l.t # "leaf" /\ UNCHANGED <<kept, dropped, new>>
    <2>1. pc = "continue_node" /\ slot < FAN_OUT /\ node' = node
      BY <1>2 DEF continue_node
    <2>2. slot \in Slot /\ new_n = node /\ IsNode(array, node) /\ old = array.heap
      BY <2>1, FilledNode, LiveTree, GcAssumption DEF Within, Slot, IsNode
    <2>3. PICK l : l = old[node].slots[slot]
      OBVIOUS
    <2>4. l = NULL \/ l.t = "leaf" \/ is_meta(l)
      <3>1. l \in Pointers(old)
        BY <2>1, <2>2, <2>3, OldPointers DEF Within
      <3> QED
        BY <3>1 DEF Pointers, Meta, is_meta
    <2>5. NULL.t # "leaf" /\ (is_meta(l) => l.t # "leaf")
      BY DEF NULL, is_meta
    <2>6. CASE l.t = "leaf"
      <3>1. HoldsLeaf(array, node, slot, l)
        BY <2>2, <2>3, <2>6 DEF HoldsLeaf
      <3>2. l # NULL /\ ~is_meta(l)
        BY <2>5, <2>6
      <3> QED
        BY <1>2, <2>1, <2>2, <2>3, <3>1, <3>2 DEF continue_node
    <2>7. CASE l = NULL \/ is_meta(l)
      <3>1. UNCHANGED <<kept, dropped, new>>
        BY <1>2, <2>3, <2>7, <2>5 DEF continue_node, is_meta, NULL
      <3> QED
        BY <2>1, <2>2, <2>3, <2>5, <2>7, <3>1
    <2> QED
      BY <2>4, <2>6, <2>7
  <1> QED
    BY <1>1, <1>2

LEMMA AskedNext ==
  ASSUME WalkInv, Live, Asked, Next, Live'
  PROVE  Asked'
  <1>1. array' = array /\ \A x, k, l : HoldsLeaf(array, x, k, l)' <=> HoldsLeaf(array, x, k, l)
    BY AnswersNext DEF HoldsLeaf, IsNode
  <1>2. \A x, k, l : HoldsLeaf(array, x, k, l) =>
          (Passed(x, k)' <=> \/ Passed(x, k)
                             \/ pc = "continue_node" /\ pc' = "continue_node" /\ x = node /\ k = slot)
    BY PassedNext
  <1>3. CASE UNCHANGED <<kept, dropped>> /\ ~\E l : /\ HoldsLeaf(array, node, slot, l)
                                                    /\ pc = "continue_node" /\ pc' = "continue_node"
    BY <1>1, <1>2, <1>3 DEF Asked
  <1>4. CASE /\ continue_node /\ pc' = "continue_node"
             /\ HoldsLeaf(array, node, slot, old[node].slots[slot])
    <2>1. PICK l : l = old[node].slots[slot]
      OBVIOUS
    <2>2. /\ pc = "continue_node" /\ HoldsLeaf(array, node, slot, l)
          /\ \/ kept' = kept \cup {l} /\ dropped' = dropped
             \/ kept' = kept /\ dropped' = dropped \cup {l}
      BY <1>4, <2>1, AnswersNext DEF HoldsLeaf
    <2>3. l \notin kept \cup dropped
      <3>1. Waits(node, slot)
        <4>1. slot <= slot
          BY <2>2, GcAssumption DEF HoldsLeaf, Slot
        <4> QED
          BY <2>2, <4>1 DEF Waits
      <3> QED
        BY <2>2, <3>1 DEF Asked, Passed
    <2>4. \A x, k, m : HoldsLeaf(array, x, k, m) => (m = l <=> x = node /\ k = slot)
      BY <2>2, OneHome DEF HoldsLeaf
    <2>5. \A x, k, m : HoldsLeaf(array, x, k, m) => (m \in kept' \cup dropped' <=> Passed(x, k)')
      BY <1>2, <1>4, <2>2, <2>4 DEF Asked
    <2>6. kept' \cap dropped' = {} /\ \A m \in kept' \cup dropped' : \E x, k : HoldsLeaf(array, x, k, m)
      BY <2>2, <2>3 DEF Asked
    <2> QED
      BY <1>1, <2>5, <2>6 DEF Asked
  <1>5. CASE continue_node
    <2>1. PICK l : l = old[node].slots[slot]
      OBVIOUS
    <2>2. \A m : HoldsLeaf(array, node, slot, m) => m = l
      BY <2>1, LiveTree DEF HoldsLeaf
    <2>3. HoldsLeaf(array, node, slot, l) => l.t = "leaf"
      BY DEF HoldsLeaf
    <2> QED
      BY <1>3, <1>4, <1>5, <2>1, <2>2, <2>3, AnswersNext
  <1>6. CASE ~continue_node
    <2>1. UNCHANGED <<kept, dropped>>
      BY <1>6, AnswersNext
    <2>2. ~(pc = "continue_node" /\ pc' = "continue_node")
      BY <1>6 DEF Next, assoc_array_gc, descend_shortcut, descend_node, compress,
           compress_skip, compress_retain, compress_fold, fold, fold_end, retry, Compressed,
           excise_node, excise_shortcut, leave_node, ascend_old_tree, gc_complete, BUG_ON,
           enomem
    <2> QED
      BY <1>3, <2>1, <2>2
  <1> QED
    BY <1>5, <1>6

LEMMA KeptFinite ==
  ASSUME WalkInv, Live, Asked
  PROVE  IsFiniteSet(kept) /\ \A x : IsFiniteSet(KeptUnder(x)) /\ KeptUnder(x) \subseteq kept
  <1> DEFINE T == (DOMAIN old) \X Slot
             f == [l \in kept |-> CHOOSE q \in T : HoldsLeaf(array, q[1], q[2], l)]
  <1>1. IsFiniteSet(T)
    <2>1. IsFiniteSet(DOMAIN old)
      BY LiveTree DEF IsArray
    <2> QED
      BY <2>1, SlotsFinite, FS_Product
  <1>2. ASSUME NEW l \in kept PROVE f[l] \in T /\ HoldsLeaf(array, f[l][1], f[l][2], l)
    <2>1. PICK x, k : HoldsLeaf(array, x, k, l)
      BY DEF Asked
    <2>2. <<x, k>> \in T
      BY <2>1 DEF HoldsLeaf, IsNode, old
    <2> HIDE DEF T
    <2>3. \E q \in T : HoldsLeaf(array, q[1], q[2], l)
      BY <2>1, <2>2
    <2> QED
      BY <2>3
  <1>3. f = [l \in kept |-> f[l]]
    OBVIOUS
  <1>4. \A l, m \in kept : f[l] = f[m] => l = m
    <2> HIDE DEF f, T
    <2> QED
      BY <1>2 DEF HoldsLeaf
  <1>5. IsFiniteSet(kept)
    <2> HIDE DEF f, T
    <2>1. f \in [kept -> T]
      BY <1>2, <1>3
    <2> QED
      BY <1>1, <1>4, <2>1, SameSize
  <1>6. \A x : KeptUnder(x) \in SUBSET kept
    BY DEF KeptUnder
  <1> QED
    BY <1>5, <1>6, FS_Subset

-----------------------------------------------------------------------------
(* Where the leaves are.                                                   *)

\* A detached child stays so, or is freed.
LEMMA DetachedNext ==
  ASSUME WalkInv, Live, Next, Live', NEW x, Detached(x)
  PROVE  (pc' = "fold" /\ x = cursor'.id /\ node' = node) \/ new'[x] = Freed
  <1>1. pc = "fold" /\ x = cursor.id
    BY DEF Detached
  <1>2. CASE fold
    BY <1>1, <1>2 DEF fold, walkVars
  <1>3. CASE fold_end
    <2>1. cursor.id \in DOMAIN new
      BY <1>1, LiveTree DEF WalkInv, Place, Folding, NewHeaps
    <2> QED
      BY <1>1, <1>3, <2>1 DEF fold_end, kfree
  <1> QED
    BY <1>1, <1>2, <1>3 DEF Next, assoc_array_gc, descend_shortcut, descend_node, compress,
           compress_skip, compress_retain, compress_fold, retry, continue_node, Compressed,
           excise_node, excise_shortcut, leave_node, ascend_old_tree, gc_complete, BUG_ON, Live

\* A leaf that has not moved stays in the nearest node.
LEMMA SettledNext ==
  ASSUME WalkInv, Live, Next, Live', NEW x \in DOMAIN old, NEW y, Settled(y, x)
  PROVE  Settled(y, x)'
  <1>1. array' = array /\ IsArray(array) /\ old = array.heap
    BY AnswersNext, LiveTree
  <1>2. Anc(array, x) \subseteq DOMAIN old
    BY <1>1, AncClimbs
  <1>3. \A z : Detached(z)' <=> pc' = "fold" /\ z = cursor'.id
    BY DEF Detached
  <1>4. \A z : Detached(z) => (Detached(z)' /\ node' = node) \/ new'[z] = Freed
    BY <1>3, DetachedNext
  <1>5. \A z \in Anc(array, x) : new[z] = Freed => new'[z] = Freed
    BY <1>2, HeapNext
  <1> QED
    BY <1>1, <1>4, <1>5 DEF Settled

\* Only the asking and the moving change what the slots hold.
LEMMA LeavesNext ==
  ASSUME WalkInv, Live, ShapeInv, Next, Live', ~continue_node, ~fold, NEW y \in DOMAIN old, NEW k \in Slot
  PROVE  /\ NewLeaf(y, k)' <=> NewLeaf(y, k)
         /\ NewLeaf(y, k) => new'[y].slots[k] = new[y].slots[k]
  <1>1. CASE descend_shortcut \/ descend_node
    <2>1. pc = "descend" /\ pc' # "ENOMEM" /\ pc' # "fold"
      BY <1>1 DEF descend_shortcut, descend_node, Live, enomem
    <2>2. Copied
      BY <1>1, <2>1, DescendShortcutCopies, DescendNodeCopies
    <2>3. ~Detached(y) /\ ~Detached(y)'
      BY <2>1 DEF Detached
    <2>4. CASE y = cursor.id
      <3>1. new[y].t # "node"
        BY <2>1, <2>4, DescendPlace DEF Absent
      <3>2. new'[y].t = "node" => new'[y].slots[k].t # "leaf"
        BY <2>2, <2>4 DEF Copied, NULL
      <3> QED
        BY <2>3, <3>1, <3>2 DEF NewLeaf
    <2>5. CASE y # cursor.id /\ new_parent # NULL /\ y = new_parent.id
      <3>1. CASE new_parent.t = "shortcut"
        <4>1. new[y].t = "shortcut" /\ new'[y].t = "shortcut"
          BY <2>1, <2>2, <2>5, <3>1, DescendPlace DEF Copied
        <4> QED
          BY <4>1 DEF NewLeaf
      <3>2. CASE new_parent.t = "node"
        <4>1. /\ new'[y].t = new[y].t
              /\ new'[y].slots[k] = IF k = old[cursor.id].parent_slot THEN cursor ELSE new[y].slots[k]
          BY <2>2, <2>5, <3>2 DEF Copied
        <4>2. new[y].slots[old[cursor.id].parent_slot] = NULL
          BY <2>1, <2>5, <3>2 DEF WalkInv, Place, Descending
        <4>3. cursor.t # "leaf" /\ NULL.t # "leaf"
          BY <2>1, DescendPlace DEF NULL
        <4> QED
          BY <2>3, <4>1, <4>2, <4>3 DEF NewLeaf
      <3> QED
        BY <2>1, <2>5, <3>1, <3>2, DescendPlace
    <2>6. CASE y # cursor.id /\ (new_parent = NULL \/ y # new_parent.id)
      <3>1. new'[y] = new[y]
        BY <2>2, <2>6 DEF Copied
      <3> QED
        BY <2>3, <3>1 DEF NewLeaf
    <2> QED
      BY <2>4, <2>5, <2>6
  <1>2. CASE compress \/ compress_retain
    <2>1. Edited(0, new[node].slots[0]) /\ pc \in Within
      BY <1>2, CompressEdits, RetainEdits DEF compress, compress_retain, Within
    <2>2. ~Detached(y) /\ ~Detached(y)'
      BY <1>2 DEF compress, compress_retain, Detached
    <2>3. new'[y].t = new[y].t
      BY <2>1, EditFrame
    <2>4. new[y].t = "node" => new'[y].slots[k] = new[y].slots[k]
      BY <2>1 DEF Edited
    <2> QED
      BY <2>2, <2>3, <2>4 DEF NewLeaf
  <1>3. CASE compress_fold
    <2>1. /\ Edited(slot, NULL) /\ slot \in Slot /\ new[node].slots[slot] = NodePtr(ChildAt(slot))
          /\ ChildAt(slot) \in DOMAIN old
      BY <1>3, FoldBeginEdits
    <2>2. pc = "compress" /\ pc' = "fold" /\ cursor' = NodePtr(ChildAt(slot)) /\ i' = 0 /\ pc \in Within
      BY <1>3 DEF compress_fold, Within
    <2>3. ~Detached(y) /\ ~(Detached(y)' /\ k < i')
      <3>1. ~(k < 0)
        BY GcAssumption DEF Slot
      <3> QED
        BY <2>2, <3>1 DEF Detached
    <2>4. new'[y].t = new[y].t
      BY <2>1, <2>2, EditFrame
    <2>5. CASE y = node /\ k = slot
      <3>1. new[y].slots[k].t # "leaf" /\ new'[y].slots[k].t # "leaf"
        BY <2>1, <2>5 DEF Edited, NodePtr, NULL
      <3> QED
        BY <3>1 DEF NewLeaf
    <2>6. CASE ~(y = node /\ k = slot)
      <3>1. new[y].t = "node" => new'[y].slots[k] = new[y].slots[k]
        BY <2>1, <2>6 DEF Edited
      <3> QED
        BY <2>3, <2>4, <3>1 DEF NewLeaf
    <2> QED
      BY <2>5, <2>6
  <1>4. CASE fold_end
    <2>1. /\ pc = "fold" /\ pc' = "compress" /\ i = FAN_OUT /\ new' = [new EXCEPT ![cursor.id] = Freed]
          /\ DOMAIN new = DOMAIN old
      BY <1>4, LiveTree DEF fold_end, kfree, NewHeaps
    <2>2. k < i /\ ~Detached(y)'
      BY <2>1, GcAssumption DEF Slot, Detached
    <2>3. y # cursor.id => new'[y] = new[y] /\ ~Detached(y)
      BY <2>1 DEF Detached
    <2>4. y = cursor.id => Detached(y) /\ new'[y].t # "node"
      BY <2>1 DEF Detached, Freed
    <2> QED
      BY <2>2, <2>3, <2>4 DEF NewLeaf
  <1>5. CASE compress_skip \/ retry \/ leave_node \/ ascend_old_tree \/ gc_complete
    <2>1. new' = new /\ ~Detached(y) /\ ~Detached(y)'
      BY <1>5 DEF compress_skip, retry, leave_node, ascend_old_tree, gc_complete, Compressed, treeVars,
                  Detached
    <2> QED
      BY <2>1 DEF NewLeaf
  <1>6. ASSUME Leaving, NEW G, NEW r, Excised(G, r), Emptied(G, r)
        PROVE  /\ NewLeaf(y, k)' <=> NewLeaf(y, k)
               /\ NewLeaf(y, k) => new'[y].slots[k] = new[y].slots[k]
    <2>1. ~Detached(y) /\ ~Detached(y)'
      BY <1>6 DEF Leaving, Detached
    <2>2. CASE y \in G
      <3>1. new[y].t = "node" => new[y].slots[k].t # "leaf"
        BY <1>6, <2>2 DEF Emptied
      <3>2. new'[y].t # "node"
        BY <1>6, <2>2 DEF Excised, Freed
      <3> QED
        BY <3>1, <3>2 DEF NewLeaf
    <2>3. CASE y \notin G /\ Upper.cursor # NULL /\ y = Upper.cursor.id
      <3>1. PICK u \in G \cup {r} :
              /\ NewUp(u) = Upper.cursor /\ new[u].parent_slot = Upper.slot
              /\ PointedTo(new, new_root, u)
        BY <1>6, <2>3, ExcisedTop
      <3>2. new[y].t = "node" /\ new'[y].t = "node"
        BY <1>6, <2>3, ExcisedAbove DEF Excised
      <3>3. ~is_shortcut(Upper.cursor)
        <4>1. IsArray(array) /\ IsNode(array, node)
          BY <1>6, FilledNode, LiveTree DEF Leaving, Within, IsNode
        <4>2. Upper.cursor = NodePtr(Upper.cursor.id)
          BY <2>3, <4>1, UpperShape
        <4> QED
          BY <4>2 DEF is_shortcut, NodePtr
      <3>4. new[y].slots[Upper.slot] = [t |-> new[u].t, id |-> u]
        BY <2>3, <3>1, <3>3 DEF PointedTo, NewUp
      <3>5. new[u].t # "leaf" /\ new[r].t # "leaf"
        BY <1>6, <3>1 DEF Excised
      <3>6. new'[y].slots[k] = IF k = Upper.slot THEN [t |-> new[r].t, id |-> r] ELSE new[y].slots[k]
        BY <1>6, <2>3 DEF Excised
      <3> QED
        BY <2>1, <3>2, <3>4, <3>5, <3>6 DEF NewLeaf
    <2>4. CASE y \notin G /\ ~(Upper.cursor # NULL /\ y = Upper.cursor.id)
      <3>1. new'[y].t = new[y].t /\ (new[y].t = "node" => new'[y].slots[k] = new[y].slots[k])
        BY <1>6, <2>4, ExcisedFrame
      <3> QED
        BY <2>1, <3>1 DEF NewLeaf
    <2> QED
      BY <2>2, <2>3, <2>4
  <1>7. CASE excise_node
    BY <1>6, <1>7, ExciseNodeStep, ExciseNodeEmpties
  <1>8. CASE excise_shortcut
    <2>1. CASE new' = new
      <3>1. ~Detached(y) /\ ~Detached(y)'
        BY <1>8, ExciseShortcutStep DEF Leaving, Detached
      <3> QED
        BY <2>1, <3>1 DEF NewLeaf
    <2>2. CASE Excised({Up(array, node).id}, node)
      BY <1>6, <1>8, <2>2, ExciseShortcutStep, ExciseShortcutEmpties
    <2> QED
      BY <1>8, <2>1, <2>2, ExciseShortcutStep
  <1>9. ~assoc_array_gc /\ ~BUG_ON
    BY DEF assoc_array_gc, BUG_ON, Live
  <1> QED
    BY <1>1, <1>2, <1>3, <1>4, <1>5, <1>7, <1>8, <1>9, Zenon DEF Next

\* The slots p of new'[y] hold what they did, but for those in In and Out.
LEMMA HousedMoved ==
  ASSUME WalkInv, Live, Next, Live', Housed, kept \subseteq kept',
         NEW a \in DOMAIN old, NEW j \in Slot, NEW l, NEW x,
         NewLeaf(a, j)', ~NewLeaf(a, j), new'[a].slots[j] = l,
         NEW m, HoldsLeaf(array, x, m, l), Settled(a, x)', kept' = kept \cup {l},
         \A y \in DOMAIN old, k \in Slot : ~(y = a /\ k = j) =>
           (NewLeaf(y, k)' <=> NewLeaf(y, k) /\ new[y].slots[k] # l)
           /\ (NewLeaf(y, k) => new'[y].slots[k] = new[y].slots[k])
  PROVE  Housed'
  <1>1. old' = old /\ \A y, k, n : HoldsLeaf(array, y, k, n)' <=> HoldsLeaf(array, y, k, n)
    BY AnswersNext DEF HoldsLeaf, IsNode
  <1>2. ASSUME NEW y \in DOMAIN old, NEW k \in Slot, NewLeaf(y, k)'
        PROVE  /\ new'[y].slots[k] \in kept'
               /\ \E z, n : HoldsLeaf(array, z, n, new'[y].slots[k]) /\ Settled(y, z)'
    <2>1. CASE y = a /\ k = j
      BY <2>1
    <2>2. CASE ~(y = a /\ k = j)
      <3>1. NewLeaf(y, k) /\ new'[y].slots[k] = new[y].slots[k]
        BY <1>2, <2>2
      <3>2. PICK z, n : HoldsLeaf(array, z, n, new[y].slots[k]) /\ Settled(y, z)
        BY <3>1 DEF Housed
      <3>3. z \in DOMAIN old
        BY <3>2 DEF HoldsLeaf, IsNode, old
      <3>4. Settled(y, z)'
        BY <3>2, <3>3, SettledNext
      <3> QED
        BY <3>1, <3>2, <3>4 DEF Housed
    <2> QED
      BY <2>1, <2>2
  <1>3. ASSUME NEW n \in kept' PROVE \E y \in DOMAIN old, k \in Slot : NewLeaf(y, k)' /\ new'[y].slots[k] = n
    <2>1. CASE n = l
      BY <2>1
    <2>2. CASE n # l
      <3>1. PICK y \in DOMAIN old, k \in Slot : NewLeaf(y, k) /\ new[y].slots[k] = n
        BY <1>3, <2>2 DEF Housed
      <3> QED
        BY <2>2, <3>1
    <2> QED
      BY <2>1, <2>2
  <1>4. ASSUME NEW y \in DOMAIN old, NEW z \in DOMAIN old, NEW k \in Slot, NEW n \in Slot,
               NewLeaf(y, k)', NewLeaf(z, n)', new'[y].slots[k] = new'[z].slots[n]
        PROVE  y = z /\ k = n
    <2>1. CASE ~(y = a /\ k = j) /\ ~(z = a /\ n = j)
      BY <1>4, <2>1 DEF Housed
    <2>2. CASE y = a /\ k = j
      BY <1>4, <2>2
    <2>3. CASE z = a /\ n = j
      BY <1>4, <2>3
    <2> QED
      BY <2>1, <2>2, <2>3
  <1>5. \A n \in kept' : n \in kept'
    OBVIOUS
  <1> QED
    BY <1>1, <1>2, <1>3, <1>4 DEF Housed

\* All is as it was.
LEMMA HousedSame ==
  ASSUME WalkInv, Live, Next, Live', Housed, kept' = kept,
         \A y \in DOMAIN old, k \in Slot :
           (NewLeaf(y, k)' <=> NewLeaf(y, k)) /\ (NewLeaf(y, k) => new'[y].slots[k] = new[y].slots[k])
  PROVE  Housed'
  <1>1. old' = old /\ \A y, k, n : HoldsLeaf(array, y, k, n)' <=> HoldsLeaf(array, y, k, n)
    BY AnswersNext DEF HoldsLeaf, IsNode
  <1>2. ASSUME NEW y \in DOMAIN old, NEW k \in Slot, NewLeaf(y, k)'
        PROVE  /\ new'[y].slots[k] \in kept'
               /\ \E z, n : HoldsLeaf(array, z, n, new'[y].slots[k]) /\ Settled(y, z)'
    <2>1. NewLeaf(y, k) /\ new'[y].slots[k] = new[y].slots[k]
      BY <1>2
    <2>2. PICK z, n : HoldsLeaf(array, z, n, new[y].slots[k]) /\ Settled(y, z)
      BY <2>1 DEF Housed
    <2>3. z \in DOMAIN old
      BY <2>2 DEF HoldsLeaf, IsNode, old
    <2>4. Settled(y, z)'
      BY <2>2, <2>3, SettledNext
    <2> QED
      BY <2>1, <2>2, <2>4 DEF Housed
  <1>3. ASSUME NEW n \in kept' PROVE \E y \in DOMAIN old, k \in Slot : NewLeaf(y, k)' /\ new'[y].slots[k] = n
    <2>1. PICK y \in DOMAIN old, k \in Slot : NewLeaf(y, k) /\ new[y].slots[k] = n
      BY <1>3 DEF Housed
    <2> QED
      BY <2>1
  <1>4. \A y, z \in DOMAIN old, k, n \in Slot :
          NewLeaf(y, k)' /\ NewLeaf(z, n)' /\ new'[y].slots[k] = new'[z].slots[n] => y = z /\ k = n
    BY DEF Housed
  <1> QED
    BY <1>1, <1>2, <1>3, <1>4 DEF Housed

\* The child being folded in has its leaves in slots from i on, and at most one place each.
LEMMA HousedFold ==
  ASSUME WalkInv, Live, ShapeInv, Housed, fold, Live'
  PROVE  Housed'
  <1> DEFINE c == cursor.id
  <1>1. Next /\ UNCHANGED <<array, node, cursor, kept>> /\ pc = "fold" /\ pc' = "fold" /\ i' = i + 1
    BY DEF fold, Next, walkVars
  <1>2. PICK p, f : p = new[c].slots[i] /\ f = FreeFrom(next_slot)
    OBVIOUS
  <1>3. /\ c \in DOMAIN old /\ c # node /\ i \in Slot /\ new[c].t = "node"
        /\ \/ p = NULL /\ UNCHANGED new
           \/ p.t = "leaf" /\ f \in Slot /\ new[node].slots[f] = NULL /\ Edited(f, p)
    BY <1>2, FoldEdits
  <1>4. /\ \A x : Detached(x) <=> x = c
        /\ \A x : Detached(x)' <=> x = c
    BY <1>1 DEF Detached
  <1> HIDE DEF c
  <1>5. \A k \in Slot : k < i' <=> k < i \/ k = i
    BY <1>1, <1>3, GcAssumption DEF Slot
  <1>6. CASE p = NULL /\ UNCHANGED new
    <2>1. \A y \in DOMAIN old, k \in Slot : NewLeaf(y, k)' <=> NewLeaf(y, k)
      <3>1. p.t # "leaf"
        BY <1>6 DEF NULL
      <3> QED
        BY <1>2, <1>4, <1>5, <1>6, <3>1 DEF NewLeaf, c
    <2> QED
      BY <1>1, <1>6, <2>1, HousedSame
  <1>7. CASE p.t = "leaf" /\ f \in Slot /\ new[node].slots[f] = NULL /\ Edited(f, p)
    <2>1. NewLeaf(c, i) /\ ~(i < i)
      BY <1>2, <1>3, <1>7, GcAssumption DEF NewLeaf, Slot, c
    <2>2. p \in kept /\ \E x, m : HoldsLeaf(array, x, m, p) /\ Settled(c, x)
      BY <1>2, <1>3, <2>1 DEF Housed, c
    <2>3. PICK x, m : HoldsLeaf(array, x, m, p) /\ Settled(c, x)
      BY <2>2
    <2>4. node \in DOMAIN old /\ new[node].t = "node" /\ new'[node].t = "node" /\ pc \in Within
      BY <1>1, <1>7, FilledNode DEF Edited, Within
    <2>5. NewLeaf(node, f)' /\ ~NewLeaf(node, f) /\ new'[node].slots[f] = p
      <3>1. ~Detached(node)' /\ new'[node].slots[f] = p
        BY <1>1, <1>3, <1>4, <1>7 DEF Edited
      <3>2. new[node].slots[f].t # "leaf"
        BY <1>7 DEF NULL
      <3> QED
        BY <1>1, <1>7, <2>4, <3>1, <3>2 DEF NewLeaf
    <2>6. Settled(node, x)'
      <3>1. IsArray(array) /\ old = array.heap /\ x \in DOMAIN old
        BY <2>3, LiveTree DEF HoldsLeaf, IsNode
      <3>2. Allocated(c) /\ NewUp(c) = NodePtr(node) /\ NodePtr(node) # NULL /\ node \in Anc(array, c)
        BY <1>1, <1>3 DEF WalkInv, Place, Folding, Allocated, c, NodePtr, NULL
      <3>3. Nearest(array, new, c)
        BY <1>3, <3>2, ShapeOf
      <3>4. \A z \in Anc(array, c) : z = c \/ z \in Anc(array, node) \/ new[z] = Freed
        BY <3>2, <3>3 DEF Nearest, NewUp, NodePtr
      <3>5. c \in Anc(array, x) /\ Anc(array, c) \subseteq Anc(array, x) /\ Anc(array, x) \subseteq DOMAIN old
        BY <2>3, <3>1, AncTrans, AncClimbs DEF Settled
      <3>6. \A z \in Anc(array, x) : z \in Anc(array, c) \/ new[z] = Freed
        BY <1>3, <2>3 DEF Settled
      <3>7. \A z \in Anc(array, x) : new[z] = Freed => new'[z] = Freed
        BY <1>1, <3>5, HeapNext
      <3> QED
        BY <1>1, <1>4, <3>2, <3>4, <3>5, <3>6, <3>7 DEF Settled
    <2>7. ASSUME NEW y \in DOMAIN old, NEW k \in Slot, ~(y = node /\ k = f)
          PROVE  /\ NewLeaf(y, k)' <=> NewLeaf(y, k) /\ new[y].slots[k] # p
                 /\ NewLeaf(y, k) => new'[y].slots[k] = new[y].slots[k]
      <3>1. NewLeaf(y, k) => (new[y].slots[k] = p <=> y = c /\ k = i)
        BY <1>2, <1>3, <2>1 DEF Housed, c
      <3>2. new'[y].t = new[y].t /\ (new[y].t = "node" => new'[y].slots[k] = new[y].slots[k])
        BY <1>7, <2>4, <2>7 DEF Edited
      <3>3. NewLeaf(y, k)' <=> NewLeaf(y, k) /\ ~(y = c /\ k = i)
        BY <1>4, <1>5, <3>2 DEF NewLeaf
      <3> QED
        BY <3>1, <3>2, <3>3 DEF NewLeaf
    <2>8. kept' = kept \cup {p} /\ kept \subseteq kept'
      BY <1>1, <2>2
    <2> QED
      BY <1>1, <1>7, <2>3, <2>4, <2>5, <2>6, <2>7, <2>8, HousedMoved
  <1> QED
    BY <1>3, <1>6, <1>7

\* A leaf that is kept goes where it was.
LEMMA HousedContinue ==
  ASSUME WalkInv, Live, Asked, Housed, continue_node, Live'
  PROVE  Housed'
  <1>1. PICK l : l = old[node].slots[slot]
    OBVIOUS
  <1>2. /\ Next /\ pc = "continue_node" /\ pc' # "fold" /\ node' = node /\ slot \in Slot
        /\ IsNode(array, node) /\ UNCHANGED <<array, new_parent, new_n>>
        /\ \/ /\ pc' = "continue_node" /\ HoldsLeaf(array, node, slot, l)
              /\ \/ /\ kept' = kept \cup {l} /\ dropped' = dropped
                    /\ new' = [new EXCEPT ![node].slots[slot] = l]
                 \/ kept' = kept /\ dropped' = dropped \cup {l} /\ new' = new
           \/ l.t # "leaf" /\ UNCHANGED <<kept, dropped, new>>
    <2>1. Next /\ pc' # "fold" /\ UNCHANGED <<array, new_parent, new_n>>
      BY DEF Next, continue_node
    <2> QED
      BY <1>1, <2>1, AnswersNext
  <1>3. \A x : ~Detached(x) /\ ~Detached(x)'
    BY <1>2 DEF Detached
  <1>4. CASE new' = new /\ kept' = kept
    <2>1. \A y \in DOMAIN old, k \in Slot : NewLeaf(y, k)' <=> NewLeaf(y, k)
      BY <1>3, <1>4 DEF NewLeaf
    <2> QED
      BY <1>2, <1>4, <2>1, HousedSame
  <1>5. CASE /\ HoldsLeaf(array, node, slot, l) /\ kept' = kept \cup {l}
             /\ new' = [new EXCEPT ![node].slots[slot] = l]
    <2>1. new_n = node /\ node \in DOMAIN old /\ new[node].t = "node" /\ IsArray(array)
          /\ l \in Pointers(old) /\ l.t = "leaf" /\ pc \in Within
      BY <1>1, <1>2, <1>5, FilledNode, OldPointers, LiveTree DEF Within, HoldsLeaf
    <2>2. Edited(slot, l)
      BY <1>2, <1>5, <2>1, EditSlot
    <2>3. Waits(node, slot) /\ new[node].slots[slot] = NULL
      <3>1. slot <= slot
        BY <1>2, GcAssumption DEF Slot
      <3>2. Waits(node, slot)
        BY <1>2, <3>1 DEF Waits
      <3> QED
        BY <1>2, <2>1, <3>2 DEF WalkInv, Opened
    <2>4. l \notin kept
      BY <1>5, <2>3 DEF Asked, Passed
    <2>5. PICK s : s = slot
      OBVIOUS
    <2>6. NewLeaf(node, s)' /\ ~NewLeaf(node, s) /\ new'[node].slots[s] = l
      <3>1. new'[node].t = "node" /\ new'[node].slots[s] = l
        BY <1>2, <2>2, <2>5 DEF Edited
      <3>2. new[node].slots[s].t # "leaf"
        BY <2>3, <2>5 DEF NULL
      <3> QED
        BY <1>2, <1>3, <2>1, <3>1, <3>2 DEF NewLeaf
    <2>7. Settled(node, node)'
      <3>1. node \in Anc(array, node)
        BY <2>1, AncClimbs, LiveTree
      <3> QED
        BY <1>2, <3>1 DEF Settled
    <2>8. ASSUME NEW y \in DOMAIN old, NEW k \in Slot, ~(y = node /\ k = s)
          PROVE  /\ NewLeaf(y, k)' <=> NewLeaf(y, k) /\ new[y].slots[k] # l
                 /\ NewLeaf(y, k) => new'[y].slots[k] = new[y].slots[k]
      <3>1. NewLeaf(y, k) => new[y].slots[k] # l
        BY <2>4 DEF Housed
      <3>2. new'[y].t = new[y].t /\ (new[y].t = "node" => new'[y].slots[k] = new[y].slots[k])
        BY <2>1, <2>2, <2>5, <2>8 DEF Edited
      <3> QED
        BY <1>3, <3>1, <3>2 DEF NewLeaf
    <2>9. kept \subseteq kept'
      BY <1>5
    <2> QED
      BY <1>2, <1>5, <2>1, <2>5, <2>6, <2>7, <2>8, <2>9, HousedMoved DEF HoldsLeaf
  <1> QED
    BY <1>2, <1>4, <1>5

LEMMA HousedNext ==
  ASSUME WalkInv, Live, ShapeInv, Asked, Housed, Next, Live'
  PROVE  Housed'
  <1>1. CASE continue_node
    BY <1>1, HousedContinue
  <1>2. CASE fold
    BY <1>2, HousedFold
  <1>3. CASE ~continue_node /\ ~fold
    BY <1>3, LeavesNext, AnswersNext, HousedSame
  <1> QED
    BY <1>1, <1>2, <1>3

-----------------------------------------------------------------------------
(* What is finished stays so.                                              *)

LEMMA KindsNext ==
  ASSUME WalkInv, Live, Kinds, Next, Live'
  PROVE  Kinds'
  <1>1. old' = old
    BY AnswersNext
  <1>2. ASSUME NEW x \in DOMAIN old, Allocated(x)' PROVE new'[x].t = old[x].t
    <2>1. CASE pc = "descend" /\ x = cursor.id
      BY <1>2, <2>1, HeapNext
    <2>2. CASE ~(pc = "descend" /\ x = cursor.id)
      <3>1. new'[x].t = new[x].t
        BY <1>2, <2>2, HeapNext
      <3> QED
        BY <1>2, <3>1 DEF Kinds, Allocated
    <2> QED
      BY <2>1, <2>2
  <1> QED
    BY <1>1, <1>2 DEF Kinds

\* What is below a closed object is closed.
LEMMA ClosedBelow ==
  ASSUME WalkInv, Live, NEW x, Closed(x), NEW y \in DOMAIN old, Allocated(y), x \in Anc(array, y)
  PROVE  Closed(y)
  <1> SUFFICES ASSUME IsOpen(y) PROVE IsOpen(x)
    BY DEF Closed
  <1>1. IsArray(array) /\ old = array.heap
    BY LiveTree
  <1>2. new_parent # NULL /\ y \in Anc(array, new_parent.id) /\ pc \in Walking
    BY DEF IsOpen
  <1>3. new_parent.id \in DOMAIN old
    <2>1. pc \in Within => new_parent.id \in DOMAIN old
      BY <1>1, FilledNode DEF NodePtr
    <2>2. pc = "descend" => new_parent.id \in DOMAIN old
      BY <1>2, DescendPlace
    <2>3. pc = "ascend" => new_parent.id \in DOMAIN old
      BY <1>1, <1>2, UpperShape DEF WalkInv, Place, Ascending
    <2> QED
      BY <1>2, <2>1, <2>2, <2>3 DEF Walking
  <1>4. x \in Anc(array, new_parent.id)
    BY <1>1, <1>2, <1>3, AncTrans
  <1> QED
    BY <1>2, <1>4 DEF IsOpen

\* A finished shortcut leads to a finished node.
LEMMA ClosedShortcut ==
  ASSUME WalkInv, Live, Kinds, NEW x, Closed(x), new[x].t = "shortcut"
  PROVE  /\ new[x].next_node = NodePtr(new[x].next_node.id) /\ new[x].next_node = old[x].next_node
         /\ Closed(new[x].next_node.id) /\ new[new[x].next_node.id].t = "node"
         /\ x \in DOMAIN old /\ old[x].t = "shortcut" /\ x \in Anc(array, new[x].next_node.id)
         /\ x # new[x].next_node.id
  <1>1. IsArray(array) /\ old = array.heap /\ DOMAIN new = DOMAIN old /\ x \in DOMAIN old /\ ~IsOpen(x)
    BY LiveTree DEF NewHeaps, Closed
  <1>2. ~(pc = "descend" /\ new_parent = ShortcutPtr(x))
    <2> SUFFICES ASSUME pc = "descend", new_parent = ShortcutPtr(x) PROVE IsOpen(x)
      BY <1>1
    <2>1. x \in Anc(array, x) /\ new_parent # NULL /\ new_parent.id = x
      BY <1>1, AncClimbs DEF ShortcutPtr, NULL
    <2> QED
      BY <2>1 DEF IsOpen, Walking
  <1>3. new[x].next_node = old[x].next_node /\ Linked(array, new, x, new[x].next_node, ShortcutPtr(x), 0)
    BY <1>1, <1>2 DEF WalkInv, Links
  <1> DEFINE c == new[x].next_node.id
  <1>4. c \in DOMAIN old /\ new[c].t = new[x].next_node.t /\ new[x].next_node.t \in {"node", "shortcut"}
        /\ x \in Anc(array, c) /\ x # c /\ new[x].next_node = [t |-> new[x].next_node.t, id |-> c]
    BY <1>1, <1>3 DEF Linked, Leads, Meta
  <1>5. new[x].next_node.t # "shortcut" /\ old[x].t = "shortcut"
    <2>1. old[x].t = "shortcut"
      BY <1>1 DEF Kinds, Closed
    <2> QED
      BY <1>1, <1>3, <2>1, DownShortcut
  <1>6. Closed(c)
    BY <1>4, ClosedBelow DEF Allocated
  <1> QED
    BY <1>1, <1>3, <1>4, <1>5, <1>6 DEF NodePtr

-----------------------------------------------------------------------------
(* What is finished stays so.                                              *)

\* The home of a leaf kept under x is below x.
LEMMA HomeUnder ==
  ASSUME WalkInv, Live, NEW x, NEW l \in KeptUnder(x), NEW y, NEW k, HoldsLeaf(array, y, k, l)
  PROVE  x \in Anc(array, y) /\ l \in kept /\ l.t = "leaf"
  <1>1. PICK z, m : x \in Anc(array, z) /\ HoldsLeaf(array, z, m, l)
    BY DEF KeptUnder
  <1>2. y = z
    BY <1>1, OneHome
  <1> QED
    BY <1>1, <1>2 DEF KeptUnder, HoldsLeaf

\* A leaf that is kept now is at home in the node the walk is at.
LEMMA KeptUnderNext ==
  ASSUME WalkInv, Live, Next, NEW x, pc = "continue_node" => x \notin Anc(array, node)
  PROVE  KeptUnder(x)' = KeptUnder(x)
  <1>1. array' = array /\ \A y, k, l : HoldsLeaf(array, y, k, l)' <=> HoldsLeaf(array, y, k, l)
    BY AnswersNext DEF HoldsLeaf, IsNode
  <1>2. \A l : l \in KeptUnder(x)' <=>
          l \in kept' /\ \E y, k : x \in Anc(array, y) /\ HoldsLeaf(array, y, k, l)
    BY <1>1 DEF KeptUnder
  <1>3. CASE kept' = kept
    BY <1>2, <1>3 DEF KeptUnder
  <1>4. CASE kept' # kept
    <2>1. PICK l : l = old[node].slots[slot]
      OBVIOUS
    <2>2. kept' = kept \cup {l} /\ HoldsLeaf(array, node, slot, l) /\ pc = "continue_node"
      BY <1>4, <2>1, AnswersNext DEF HoldsLeaf
    <2>3. ~\E y, k : x \in Anc(array, y) /\ HoldsLeaf(array, y, k, l)
      BY <2>2, OneHome
    <2> QED
      BY <1>2, <2>2, <2>3 DEF KeptUnder
  <1> QED
    BY <1>3, <1>4

\* In the climb, only what is open is dropped, and only that is written but for the back
\* pointer of what moves up.
LEMMA ClosedLeaving ==
  ASSUME WalkInv, Live, NEW x, Closed(x), excise_node \/ excise_shortcut \/ leave_node
  PROVE  Leaving /\ new' \in NewHeaps(old) /\ SameBody(x)
  <1>1. CASE leave_node
    BY <1>1, LeaveNodeStep, LiveTree DEF SameBody
  <1>2. ASSUME Leaving, NEW G, NEW r, Excised(G, r),
               \A y \in G : y = node \/ (Upper.shortcut /\ y = Up(array, node).id)
        PROVE  new' \in NewHeaps(old) /\ SameBody(x)
    <2>1. /\ IsArray(array) /\ IsNode(array, node) /\ old = array.heap /\ node \in DOMAIN old
          /\ pc \in Within /\ new_parent = NodePtr(node) /\ x \in DOMAIN old
      BY <1>2, FilledNode, LiveTree DEF Leaving, Within, IsNode, Closed
    <2>2. x \notin Anc(array, node)
      BY <2>1 DEF Closed, IsOpen, Walking, NodePtr, NULL
    <2>3. \A y \in G : y \in Anc(array, node)
      BY <1>2, <2>1, AncClimbs, UpperShape
    <2>4. x \notin G /\ (Upper.cursor # NULL => x # Upper.cursor.id)
      BY <2>1, <2>2, <2>3, UpperShape
    <2>5. CASE x = r
      BY <1>2, <2>5 DEF Excised, SameBody
    <2>6. CASE x # r
      <3>1. new'[x] = new[x]
        BY <1>2, <2>1, <2>4, <2>6 DEF Excised
      <3> QED
        BY <1>2, <3>1 DEF Excised, SameBody
    <2> QED
      BY <1>2, <2>5, <2>6 DEF Excised
  <1>3. CASE excise_node
    <2>1. PICK G : G = {node} \cup (IF Upper.shortcut THEN {Up(array, node).id} ELSE {})
      OBVIOUS
    <2>2. Leaving /\ Excised(G, Only.id)
      BY <1>3, <2>1, ExciseNodeStep
    <2>3. \A y \in G : y = node \/ (Upper.shortcut /\ y = Up(array, node).id)
      BY <2>1
    <2> QED
      BY <1>2, <2>2, <2>3
  <1>4. CASE excise_shortcut
    <2>1. CASE UNCHANGED <<new, new_root>>
      BY <1>4, <2>1, ExciseShortcutStep, LiveTree DEF SameBody
    <2>2. CASE Excised({Up(array, node).id}, node)
      <3>1. \A y \in {Up(array, node).id} : y = node \/ (Upper.shortcut /\ y = Up(array, node).id)
        BY <1>4, ExciseShortcutStep
      <3> QED
        BY <1>2, <1>4, <2>2, <3>1, ExciseShortcutStep
    <2> QED
      BY <1>4, <2>1, <2>2, ExciseShortcutStep
  <1> QED
    BY <1>1, <1>3, <1>4

\* Steps that change the node being filled, a child, or nothing.
LEMMA WithinKeeps ==
  ASSUME WalkInv, Live,
         continue_node \/ compress \/ compress_skip \/ compress_retain \/ compress_fold
           \/ fold \/ fold_end \/ retry
  PROVE  /\ pc \in Within /\ pc' \in Within \cup {"descend"} /\ new_parent' = new_parent
         /\ pc' = "descend" => UNCHANGED new
         /\ \A x \in DOMAIN old : x # node /\ ~(fold_end /\ x = cursor.id) => new'[x] = new[x]
         /\ fold_end => /\ pc = "fold" /\ cursor.id \in DOMAIN old /\ cursor.id # node
                        /\ new'[cursor.id] = Freed
  <1>1. /\ pc \in Within /\ pc' \in Within \cup {"descend"} /\ new_parent' = new_parent
        /\ pc' = "descend" => UNCHANGED new
    BY DEF continue_node, compress, compress_skip, compress_retain, compress_fold, fold, fold_end,
           retry, treeVars, walkVars, Within
  <1>2. new_n = node /\ DOMAIN new = DOMAIN old
    BY <1>1, FilledNode, LiveTree DEF NewHeaps
  <1>3. fold_end => /\ pc = "fold" /\ cursor.id \in DOMAIN old /\ cursor.id # node
                    /\ new' = [new EXCEPT ![cursor.id] = Freed]
    BY DEF fold_end, kfree, WalkInv, Place, Folding
  <1>4. ASSUME NEW x \in DOMAIN old, x # node, ~(fold_end /\ x = cursor.id) PROVE new'[x] = new[x]
    <2>1. CASE fold_end
      BY <1>2, <1>3, <1>4, <2>1
    <2>2. CASE continue_node
      BY <1>2, <1>4, <2>2 DEF continue_node
    <2>3. CASE compress \/ compress_retain
      BY <1>2, <1>4, <2>3 DEF compress, compress_retain
    <2>4. CASE compress_fold
      BY <1>2, <1>4, <2>4, FoldBeginEdits DEF Edited
    <2>5. CASE fold
      BY <1>2, <1>4, <2>5 DEF fold
    <2>6. CASE compress_skip \/ retry
      BY <2>6 DEF compress_skip, retry, treeVars
    <2> QED
      BY <2>1, <2>2, <2>3, <2>4, <2>5, <2>6
  <1> QED
    BY <1>1, <1>2, <1>3, <1>4

\* What is open in the next state is so now, or is the copy made in this step.
LEMMA OpenNext ==
  ASSUME WalkInv, Live, Next, Live', NEW x \in DOMAIN old
  PROVE  /\ IsOpen(x)' => IsOpen(x) \/ (pc = "descend" /\ x = cursor.id)
         /\ IsOpen(x) => \/ IsOpen(x)'
                         \/ /\ excise_node \/ excise_shortcut \/ leave_node
                            /\ x \in Anc(array, node)
                            /\ Upper.cursor # NULL => x \notin Anc(array, Upper.cursor.id)
  <1>1. array' = array /\ IsArray(array) /\ old = array.heap
    BY AnswersNext, LiveTree
  <1>2. IsOpen(x)' <=> pc' \in Walking /\ new_parent' # NULL /\ x \in Anc(array, new_parent'.id)
    BY <1>1 DEF IsOpen
  <1>3. CASE descend_shortcut \/ descend_node
    <2>1. pc = "descend" /\ pc' \in Walking /\ pc' # "ENOMEM"
      BY <1>3 DEF descend_shortcut, descend_node, Live, enomem, Walking, Within
    <2>2. new_parent' = cursor /\ cursor # NULL
      BY <1>3, <2>1, DescendPlace DEF descend_shortcut, descend_node, enomem, NULL
    <2>3. /\ new_parent # NULL => Anc(array, cursor.id) = {cursor.id} \cup Anc(array, new_parent.id)
          /\ new_parent = NULL => Anc(array, cursor.id) = {cursor.id}
      BY <2>1, DescendPlace
    <2> QED
      BY <1>2, <2>1, <2>2, <2>3 DEF IsOpen, Walking
  <1>4. CASE continue_node \/ compress \/ compress_skip \/ compress_retain \/ compress_fold
             \/ fold \/ fold_end \/ retry
    BY <1>2, <1>4, WithinKeeps DEF IsOpen, Walking
  <1>5. CASE excise_node \/ excise_shortcut \/ leave_node
    <2>1. Leaving /\ new' \in NewHeaps(old)
      <3>1. excise_node => Leaving /\ new' \in NewHeaps(old)
        BY ExciseNodeStep DEF Excised
      <3>2. excise_shortcut => Leaving /\ new' \in NewHeaps(old)
        BY ExciseShortcutStep, LiveTree DEF Excised
      <3>3. leave_node => Leaving /\ new' \in NewHeaps(old)
        BY LeaveNodeStep, LiveTree
      <3> QED
        BY <1>5, <3>1, <3>2, <3>3
    <2>2. pc \in Within /\ new_parent = NodePtr(node)
      BY <2>1, FilledNode DEF Leaving, Within
    <2>3. IsOpen(x) <=> x \in Anc(array, node)
      BY <2>2 DEF IsOpen, Walking, NodePtr, NULL
    <2>4. IsOpen(x)' => IsOpen(x)
      BY <2>1, LeavingKeeps
    <2>5. IsOpen(x)' <=> Upper.cursor # NULL /\ x \in Anc(array, Upper.cursor.id)
      BY <1>2, <2>1 DEF Leaving, Walking, Within
    <2> QED
      BY <1>5, <2>3, <2>4, <2>5
  <1>6. CASE ascend_old_tree
    <2>1. pc = "ascend" /\ new_parent' = new_parent /\ pc' \in {"continue_node", "gc_complete"}
          /\ (pc' = "gc_complete" => Upper.cursor = NULL)
      BY <1>6 DEF ascend_old_tree
    <2>2. new_parent = Upper.cursor
      BY <2>1 DEF WalkInv, Place, Ascending
    <2> QED
      BY <1>2, <2>1, <2>2 DEF IsOpen, Walking, Within
  <1>7. CASE gc_complete
    BY <1>2, <1>7 DEF gc_complete, IsOpen, Walking, Within
  <1>8. ~assoc_array_gc /\ ~BUG_ON
    BY DEF assoc_array_gc, BUG_ON, Live
  <1> QED
    BY <1>3, <1>4, <1>5, <1>6, <1>7, <1>8, Zenon DEF Next

\* What is closed is not written to, until it is freed.
LEMMA ClosedStays ==
  ASSUME WalkInv, Live, Next, Live', NEW x, Closed(x)
  PROVE  (fold_end /\ x = cursor.id) \/ (Closed(x)' /\ SameBody(x))
  <1>1. x \in DOMAIN old /\ old' = old /\ Allocated(x) /\ ~IsOpen(x)
    BY AnswersNext DEF Closed
  <1>2. ~(pc = "descend" /\ x = cursor.id)
    BY <1>1, DescendPlace DEF Allocated, Absent
  <1>3. ~IsOpen(x)'
    BY <1>1, <1>2, OpenNext
  <1>4. SameBody(x) => Closed(x)' /\ SameBody(x)
    BY <1>1, <1>3 DEF Closed, SameBody, Allocated
  <1>5. new'[x] = new[x] => SameBody(x)
    BY DEF SameBody
  <1>6. CASE descend_shortcut \/ descend_node
    <2>1. pc = "descend" /\ pc' # "ENOMEM"
      BY <1>6 DEF descend_shortcut, descend_node, Live
    <2>2. Copied
      BY <1>6, <2>1, DescendShortcutCopies, DescendNodeCopies
    <2>3. new_parent # NULL => x # new_parent.id
      <3>1. new_parent # NULL => new_parent.id \in DOMAIN old
        BY <2>1, DescendPlace
      <3> QED
        BY <1>1, <2>1, <3>1, AncClimbs, LiveTree DEF IsOpen, Walking
    <2>4. new'[x] = new[x]
      BY <1>1, <1>2, <2>1, <2>2, <2>3 DEF Copied
    <2> QED
      BY <1>4, <1>5, <2>4
  <1>7. CASE continue_node \/ compress \/ compress_skip \/ compress_retain \/ compress_fold
             \/ fold \/ fold_end \/ retry
    <2>1. x # node
      BY <1>1, <1>7, WithinKeeps, FilledNode
    <2> QED
      BY <1>1, <1>4, <1>5, <1>7, <2>1, WithinKeeps
  <1>8. CASE excise_node \/ excise_shortcut \/ leave_node
    BY <1>4, <1>8, ClosedLeaving
  <1>9. CASE ascend_old_tree \/ gc_complete
    BY <1>4, <1>5, <1>9 DEF ascend_old_tree, gc_complete, treeVars
  <1>10. ~assoc_array_gc /\ ~BUG_ON
    BY DEF assoc_array_gc, BUG_ON, Live
  <1> QED
    BY <1>6, <1>7, <1>8, <1>9, <1>10, Zenon DEF Next

\* Climbing closes the present node, and the shortcut before it.
LEMMA ClosedNext ==
  ASSUME WalkInv, Live, Next, Live', NEW x, Closed(x)'
  PROVE  \/ Closed(x)
         \/ /\ excise_node \/ excise_shortcut \/ leave_node
            /\ x \in DOMAIN old /\ Allocated(x)
            /\ x = node \/ (Upper.shortcut /\ x = Up(array, node).id)
  <1>1. x \in DOMAIN old /\ old' = old /\ Allocated(x)' /\ ~IsOpen(x)' /\ IsArray(array) /\ old = array.heap
    BY AnswersNext, LiveTree DEF Closed
  <1>2. ~(pc = "descend" /\ x = cursor.id)
    <2> SUFFICES ASSUME pc = "descend", x = cursor.id PROVE FALSE
      OBVIOUS
    <2>1. descend_shortcut \/ descend_node
      BY DEF Next, assoc_array_gc, continue_node, compress,
           compress_skip, compress_retain, compress_fold, fold, fold_end, retry, Compressed,
           excise_node, excise_shortcut, leave_node, ascend_old_tree, gc_complete, BUG_ON,
           BugShortcut, BugMeta, BugFull, BugCursor
    <2>2. array' = array /\ new_parent' = cursor /\ cursor # NULL /\ pc' \in Walking
      BY <2>1, DescendPlace DEF descend_shortcut, descend_node, enomem, Live, NULL, Walking, Within
    <2>3. x \in Anc(array, x)
      BY <1>1, AncClimbs
    <2> QED
      BY <1>1, <2>2, <2>3 DEF IsOpen
  <1>3. Allocated(x)
    BY <1>1, <1>2, HeapNext DEF Allocated
  <1>4. CASE ~IsOpen(x)
    BY <1>1, <1>3, <1>4 DEF Closed
  <1>5. CASE IsOpen(x)
    <2>1. /\ excise_node \/ excise_shortcut \/ leave_node
          /\ x \in Anc(array, node)
          /\ Upper.cursor # NULL => x \notin Anc(array, Upper.cursor.id)
      BY <1>1, <1>5, OpenNext
    <2>2. pc = "compress"
      BY <2>1 DEF excise_node, excise_shortcut, leave_node, Compressed
    <2>3. IsNode(array, node) /\ node \in DOMAIN old
      BY <2>2, OpenAbove
    <2>4. CASE Upper.shortcut
      <3> DEFINE s == Up(array, node).id
      <3>1. /\ s \in DOMAIN old /\ Up(array, s) = Upper.cursor
            /\ Up(array, node).t = "shortcut"
        BY <1>1, <2>3, <2>4, UpperShape
      <3> HIDE DEF s
      <3>2. Anc(array, node) = {node} \cup Anc(array, s)
        BY <1>1, <2>3, <3>1, AncSplit DEF NULL, s
      <3>3. Anc(array, s) = {s} \cup (IF Upper.cursor = NULL THEN {} ELSE Anc(array, Upper.cursor.id))
        BY <1>1, <3>1, AncSplit
      <3> QED
        BY <1>1, <1>3, <2>1, <2>4, <3>2, <3>3 DEF s
    <2>5. CASE ~Upper.shortcut
      <3>1. Upper.cursor = Up(array, node)
        BY <1>1, <2>3, <2>5, UpperShape
      <3>2. Anc(array, node) = {node} \cup (IF Upper.cursor = NULL THEN {} ELSE Anc(array, Upper.cursor.id))
        BY <1>1, <2>3, <3>1, AncSplit
      <3> QED
        BY <1>1, <1>3, <2>1, <3>2
    <2> QED
      BY <2>4, <2>5
  <1> QED
    BY <1>4, <1>5

-----------------------------------------------------------------------------
(* Counting: what is counted.                                              *)

\* A leaf in a slot of the new tree is kept, and at home below that slot's node.
LEMMA LeafUnder ==
  ASSUME WalkInv, Live, ShapeInv, Housed, NEW y \in DOMAIN old, NEW k \in Slot, NewLeaf(y, k)
  PROVE  new[y].slots[k] \in KeptUnder(y)
  <1>1. PICK x, m : HoldsLeaf(array, x, m, new[y].slots[k]) /\ Settled(y, x)
    BY DEF Housed
  <1>2. new[y].slots[k] \in kept /\ y \in Anc(array, x)
    BY <1>1 DEF Housed, Settled
  <1> QED
    BY <1>1, <1>2 DEF KeptUnder

\* A leaf kept under z is in z or under an object that z points to.
LEMMA WhereKept ==
  ASSUME WalkInv, Live, ShapeInv, Housed, NEW z \in DOMAIN old, new[z].t = "node",
         NEW l \in KeptUnder(z)
  PROVE  \/ \E k \in Slot : NewLeaf(z, k) /\ new[z].slots[k] = l
         \/ \E k \in Slot : is_meta(new[z].slots[k]) /\ l \in KeptUnder(new[z].slots[k].id)
         \/ Detached(z) /\ \E k \in Slot : NewLeaf(node, k) /\ new[node].slots[k] = l
         \/ pc = "fold" /\ l \in KeptUnder(cursor.id)
  <1>1. IsArray(array) /\ old = array.heap
    BY LiveTree
  <1>2. PICK y \in DOMAIN old, k \in Slot : NewLeaf(y, k) /\ new[y].slots[k] = l
    BY DEF Housed, KeptUnder
  <1>3. PICK x, m : HoldsLeaf(array, x, m, l) /\ Settled(y, x)
    BY <1>2 DEF Housed
  <1>4. z \in Anc(array, x) /\ l \in kept /\ y \in Anc(array, x) /\ x \in DOMAIN old
    BY <1>1, <1>3, HomeUnder DEF Settled, HoldsLeaf, IsNode
  <1>5. new[z] # Freed
    BY DEF Freed
  <1>6. CASE z \in Anc(array, y) /\ z # y
    <2>1. Allocated(y)
      BY <1>2 DEF NewLeaf, Allocated
    <2>2. PICK w \in Anc(array, y) : Allocated(w) /\ NewUp(w) # NULL /\ NewUp(w).id = z /\ w # z
      BY <1>5, <1>6, <2>1, ChildOnWay
    <2>3. w \in DOMAIN old /\ w \in Anc(array, x)
      BY <1>1, <1>4, <2>2, AncTrans, AncClimbs
    <2>4. l \in KeptUnder(w)
      BY <1>3, <1>4, <2>3 DEF KeptUnder
    <2>5. /\ Detached(w) \/ PointedTo(new, new_root, w)
          /\ new[z].t = NewUp(w).t /\ new[w].parent_slot \in Slot
      BY <2>2, <2>3, ShapeOf DEF Allocated
    <2>6. CASE Detached(w)
      BY <2>4, <2>6 DEF Detached
    <2>7. CASE PointedTo(new, new_root, w)
      <3>1. new[z].slots[new[w].parent_slot] = [t |-> new[w].t, id |-> w]
        BY <2>2, <2>5, <2>7 DEF PointedTo, NewUp, is_shortcut
      <3> QED
        BY <2>2, <2>4, <2>5, <3>1 DEF is_meta, Allocated
    <2> QED
      BY <2>5, <2>6, <2>7
  <1>7. CASE z = y
    BY <1>2, <1>7
  <1>8. CASE z \notin Anc(array, y)
    <2>1. Detached(z) /\ y = node
      BY <1>3, <1>4, <1>5, <1>8 DEF Settled
    <2> QED
      BY <1>2, <2>1
  <1> QED
    BY <1>6, <1>7, <1>8

\* At the end of the compression all leaves kept under the node are counted.
LEMMA AllCounted ==
  ASSUME WalkInv, Live, ShapeInv, Housed, pc = "compress", slot = FAN_OUT
  PROVE  Counted = KeptUnder(node)
  <1>1. /\ IsArray(array) /\ old = array.heap /\ node \in DOMAIN old /\ new[node].t = "node"
        /\ new_n = node /\ pc \in Within
    BY LiveTree, FilledNode DEF Within
  <1>2. \A k \in Slot : k < slot
    BY GcAssumption DEF Slot
  <1>3. \A x : ~Detached(x)
    BY DEF Detached
  <1>4. ASSUME NEW l \in Counted PROVE l \in KeptUnder(node)
    <2>1. CASE \E k \in Slot : new[node].slots[k] = l
      <3>1. PICK k \in Slot : new[node].slots[k] = l
        BY <2>1
      <3>2. l \in kept
        BY DEF Counted
      <3>3. PICK y \in DOMAIN old, m \in Slot : NewLeaf(y, m) /\ new[y].slots[m] = l
        BY <3>2 DEF Housed
      <3>4. NewLeaf(node, k)
        BY <1>1, <1>3, <3>1, <3>3 DEF NewLeaf
      <3> QED
        BY <1>1, <3>1, <3>4, LeafUnder
    <2>2. CASE \E k \in Slot : is_meta(new[node].slots[k]) /\ l \in KeptUnder(new[node].slots[k].id)
      <3>1. PICK k \in Slot : is_meta(new[node].slots[k]) /\ l \in KeptUnder(new[node].slots[k].id)
        BY <2>2
      <3>2. PICK c : c = new[node].slots[k].id
        OBVIOUS
      <3>3. c \in DOMAIN old /\ node \in Anc(array, c)
        BY <1>1, <3>1, <3>2, ChildIsNode
      <3>4. PICK y, m : c \in Anc(array, y) /\ HoldsLeaf(array, y, m, l)
        BY <3>1, <3>2 DEF KeptUnder
      <3>5. node \in Anc(array, y)
        BY <1>1, <3>3, <3>4, AncTrans DEF HoldsLeaf, IsNode
      <3> QED
        BY <3>1, <3>4, <3>5 DEF KeptUnder
    <2> QED
      BY <2>1, <2>2 DEF Counted
  <1>5. ASSUME NEW l \in KeptUnder(node) PROVE l \in Counted
    <2>1. \/ \E k \in Slot : NewLeaf(node, k) /\ new[node].slots[k] = l
          \/ \E k \in Slot : is_meta(new[node].slots[k]) /\ l \in KeptUnder(new[node].slots[k].id)
      BY <1>1, <1>3, WhereKept
    <2> QED
      BY <1>2, <2>1 DEF Counted, KeptUnder
  <1> QED
    BY <1>4, <1>5

\* The count of the child behind slot k, which no leaf counted before is under.
LEMMA ChildCount ==
  ASSUME WalkInv, Live, Kinds, Finished, pc \in Within, NEW k \in Slot, is_meta(new[new_n].slots[k])
  PROVE  LET c == new[node].slots[k].id
         IN /\ new[ChildAt(k)].nr = Cardinality(KeptUnder(c))
            /\ is_shortcut(new[new_n].slots[k]) => new[ChildAt(k)].nr > FAN_OUT
  <1> DEFINE c == new[node].slots[k].id
  <1>1. /\ IsArray(array) /\ old = array.heap /\ new_n = node /\ new_parent = NodePtr(node)
        /\ node \in DOMAIN old
    BY LiveTree, FilledNode
  <1>2. /\ c \in DOMAIN old /\ node \in Anc(array, c) /\ node # c
        /\ new[c].t = new[node].slots[k].t
    BY ChildIsNode
  <1> HIDE DEF c
  <1>3. Closed(c)
    <2>1. c \notin Anc(array, node)
      BY <1>1, <1>2, AncOnce
    <2> QED
      BY <1>1, <1>2, <2>1 DEF Closed, IsOpen, NodePtr, Allocated, is_meta, c
  <1>4. CASE new[c].t = "node"
    <2>1. ChildAt(k) = c /\ ~is_shortcut(new[new_n].slots[k])
      BY <1>1, <1>2, <1>4 DEF ChildAt, is_shortcut, c
    <2>2. new[c].nr = Cardinality(KeptUnder(c))
      BY <1>2, <1>3, <1>4 DEF Finished, FinishedAt
    <2> QED
      BY <2>1, <2>2 DEF c
  <1>5. CASE new[c].t = "shortcut"
    <2>1. PICK d : d = new[c].next_node.id
      OBVIOUS
    <2>2. ChildAt(k) = d
      BY <1>1, <1>2, <1>5, <2>1 DEF ChildAt, is_shortcut, c
    <2>3. /\ new[c].next_node = old[c].next_node /\ Closed(d) /\ new[d].t = "node"
          /\ old[c].t = "shortcut"
      BY <1>3, <1>5, <2>1, ClosedShortcut
    <2>4. new[d].nr = Cardinality(KeptUnder(d)) /\ new[d].nr > FAN_OUT
      BY <1>2, <1>3, <1>5, <2>1, <2>3 DEF Finished, FinishedAt, Closed
    <2>5. KeptUnder(c) = KeptUnder(d)
      <3>1. \A y, m, l : HoldsLeaf(array, y, m, l) => (c \in Anc(array, y) <=> d \in Anc(array, y))
        BY <1>1, <1>2, <2>1, <2>3, BelowShortcut DEF HoldsLeaf, IsNode
      <3> QED
        BY <3>1 DEF KeptUnder
    <2> QED
      BY <2>2, <2>4, <2>5 DEF c
  <1>6. new[c].t \in {"node", "shortcut"}
    BY <1>1, <1>2 DEF is_meta, c
  <1> QED
    BY <1>4, <1>5, <1>6

-----------------------------------------------------------------------------
(* What is finished stays right, and what is left is finished.             *)

LEMMA FinishedStays ==
  ASSUME WalkInv, Live, Kinds, Finished, Next, Live', NEW x, Closed(x), Closed(x)'
  PROVE  FinishedAt(x)'
  <1>1. x \in DOMAIN old /\ old' = old /\ ~IsOpen(x) /\ Allocated(x)' /\ prog' = prog /\ IsArray(array)
        /\ old = array.heap /\ FinishedAt(x)
    <2>1. prog' = prog
      BY DEF Next, assoc_array_gc, descend_shortcut, descend_node, continue_node, compress,
           compress_skip, compress_retain, compress_fold, fold, fold_end, retry,
           excise_node, excise_shortcut, leave_node, ascend_old_tree, gc_complete, BUG_ON,
           enomem, treeVars
    <2> QED
      BY <2>1, AnswersNext, LiveTree DEF Closed, Finished
  <1>2. SameBody(x)
    <2>1. ~(fold_end /\ x = cursor.id)
      <3>1. fold_end /\ x = cursor.id => new'[x] = Freed
        BY WithinKeeps
      <3> QED
        BY <1>1, <3>1 DEF Allocated, Freed
    <2> QED
      BY <2>1, ClosedStays
  <1>3. CASE new[x].t = "node"
    <2>1. pc = "continue_node" => x \notin Anc(array, node)
      BY <1>1, FilledNode DEF IsOpen, Within, Walking, NodePtr, NULL
    <2>2. KeptUnder(x)' = KeptUnder(x)
      BY <2>1, KeptUnderNext
    <2> QED
      BY <1>1, <1>2, <1>3, <2>2 DEF FinishedAt, SameBody
  <1>4. CASE new[x].t = "shortcut"
    <2>1. PICK c : c = new[x].next_node.id
      OBVIOUS
    <2>2. new[x].next_node = NodePtr(c) /\ Closed(c) /\ new[c].t = "node"
      BY <1>4, <2>1, ClosedShortcut
    <2>3. ~(fold_end /\ c = cursor.id)
      <3> SUFFICES ASSUME fold_end, c = cursor.id PROVE FALSE
        OBVIOUS
      <3>1. pc # "descend" /\ pc = "fold"
        BY DEF fold_end
      <3>2. NewUp(c) = NodePtr(node)
        BY <3>1 DEF WalkInv, Place, Folding
      <3>3. Linked(array, new, x, new[x].next_node, ShortcutPtr(x), 0)
        BY <1>1, <1>4, <3>1 DEF WalkInv, Links
      <3> QED
        BY <2>1, <3>2, <3>3 DEF Linked, Leads, NewUp, NodePtr, ShortcutPtr
    <2>4. SameBody(c)
      BY <2>2, <2>3, ClosedStays
    <2>5. new'[x].t = "shortcut" /\ new'[x].next_node = new[x].next_node /\ new'[c].nr = new[c].nr
      BY <1>2, <1>4, <2>2, <2>4 DEF SameBody
    <2> QED
      BY <1>1, <1>4, <2>1, <2>5 DEF FinishedAt
  <1> QED
    BY <1>1, <1>3, <1>4 DEF Closed, Allocated

\* The node that the climb leaves is finished, and a shortcut is left before it only when
\* it has too many leaves.
LEMMA FinishedAdded ==
  ASSUME WalkInv, Live, ShapeInv, Housed, Finished, Counting, Next, Live',
         excise_node \/ excise_shortcut \/ leave_node, NEW x \in DOMAIN old, Allocated(x),
         x = node \/ (Upper.shortcut /\ x = Up(array, node).id), Allocated(x)'
  PROVE  FinishedAt(x)'
  <1>1. /\ pc = "compress" /\ slot = FAN_OUT /\ ~(retained /\ RoomForAll) /\ new_n = node
        /\ IsNode(array, node) /\ new[node].t = "node" /\ prog' = prog
    BY OpenAbove DEF excise_node, excise_shortcut, leave_node, Compressed, treeVars
  <1>2. /\ new[node].nr = Cardinality(KeptUnder(node))
        /\ \A y : KeptUnder(y)' = KeptUnder(y)
    <2>1. pc # "continue_node"
      BY <1>1
    <2> QED
      BY <1>1, <2>1, AllCounted, KeptUnderNext DEF Counting
  <1>3. ASSUME prog = "repro_fixed.c", new[node].nr < FAN_OUT
        PROVE  \A k \in Slot : ~is_meta(new[node].slots[k])
    <2>1. ~retained
      BY <1>1, <1>3 DEF RoomForAll
    <2>2. \A k \in Slot : k < slot
      BY <1>1, GcAssumption DEF Slot
    <2> QED
      BY <1>1, <2>1, <2>2 DEF Counting
  <1>4. ~excise_node
    <2> SUFFICES ASSUME excise_node PROVE FALSE
      OBVIOUS
    <2>1. new'[x] = Freed
      BY ExciseNodeStep DEF Excised
    <2> QED
      BY <2>1 DEF Allocated, Freed
  <1>5. CASE x = node
    <2>1. /\ new'[node].t = "node" /\ new'[node].nr = new[node].nr
          /\ \A k \in Slot : new'[node].slots[k] = new[node].slots[k]
      <3>1. CASE new' = new
        BY <1>1, <3>1
      <3>2. CASE Excised({Up(array, node).id}, node)
        BY <1>1, <3>2 DEF Excised
      <3> QED
        BY <1>4, <3>1, <3>2, LeaveNodeStep, ExciseShortcutStep
    <2>2. node' = node
      BY DEF excise_node, excise_shortcut, leave_node
    <2>3. \A y : y = node => FinishedAt(y)'
      BY <1>1, <1>2, <1>3, <2>1, <2>2 DEF FinishedAt
    <2> QED
      BY <1>5, <2>3
  <1>6. CASE Upper.shortcut /\ x = Up(array, node).id
    <2>1. new' = new /\ new[node].nr > FAN_OUT
      <3>1. ~leave_node
        BY <1>6, LeaveNodeStep
      <3>2. ~Excised({Up(array, node).id}, node)
        BY <1>6 DEF Excised, Allocated, Freed
      <3> QED
        BY <1>4, <3>1, <3>2, ExciseShortcutStep
    <2>2. new[x].t = "shortcut" /\ new[x].next_node = NodePtr(node)
      BY <1>1, <1>6, ShortcutBefore
    <2> QED
      BY <2>1, <2>2 DEF FinishedAt, NodePtr
  <1> QED
    BY <1>5, <1>6

LEMMA FinishedNext ==
  ASSUME WalkInv, Live, ShapeInv, Kinds, Housed, Finished, Counting, Next, Live'
  PROVE  Finished'
  <1>1. old' = old
    BY AnswersNext
  <1>2. ASSUME NEW x \in DOMAIN old, Closed(x)' PROVE FinishedAt(x)'
    <2>1. CASE Closed(x)
      BY <1>2, <2>1, FinishedStays
    <2>2. CASE ~Closed(x)
      BY <1>2, <2>2, ClosedNext, FinishedAdded DEF Closed
    <2> QED
      BY <2>1, <2>2
  <1> QED
    BY <1>1, <1>2 DEF Finished

-----------------------------------------------------------------------------
(* Counting: each step of the compression.                                 *)

\* The leaves in the node's own slots.
OwnLeaves == {l \in kept : \E k \in Slot : new[node].slots[k] = l}

\* What is kept is a leaf, and in the slots of a node that is not detached a leaf is kept.
LEMMA KeptIsLeaf ==
  ASSUME WalkInv, Live, Asked, NEW l \in kept
  PROVE  l.t = "leaf" /\ ~is_meta(l) /\ l # NULL
  <1>1. PICK x, k : HoldsLeaf(array, x, k, l)
    BY DEF Asked
  <1> QED
    BY <1>1 DEF HoldsLeaf, is_meta, NULL

\* One slot of the node each for its own leaves.
LEMMA OwnCount ==
  ASSUME WalkInv, Live, Asked, Housed, pc \in Within, ~Detached(node)
  PROVE  Cardinality({k \in Slot : new[node].slots[k].t = "leaf"}) = Cardinality(OwnLeaves)
  <1> DEFINE S == {k \in Slot : new[node].slots[k].t = "leaf"}
             f == [k \in S |-> new[node].slots[k]]
  <1>1. node \in DOMAIN old /\ new[node].t = "node"
    BY FilledNode
  <1>2. \A k \in S : k \in Slot /\ NewLeaf(node, k)
    BY <1>1 DEF NewLeaf
  <1>3. \A k \in S : f[k] = new[node].slots[k] /\ f[k] \in OwnLeaves
    BY <1>1, <1>2 DEF Housed, OwnLeaves
  <1>4. \A k, m \in S : f[k] = f[m] => k = m
    BY <1>1, <1>2, <1>3 DEF Housed
  <1>5. \A l \in OwnLeaves : \E k \in S : f[k] = l
    <2> SUFFICES ASSUME NEW l \in OwnLeaves PROVE \E k \in S : f[k] = l
      OBVIOUS
    <2>1. PICK k \in Slot : new[node].slots[k] = l
      BY DEF OwnLeaves
    <2>2. l.t = "leaf"
      BY KeptIsLeaf DEF OwnLeaves
    <2> QED
      BY <2>1, <2>2
  <1>6. IsFiniteSet(OwnLeaves)
    <2>1. OwnLeaves \in SUBSET kept
      BY DEF OwnLeaves
    <2> QED
      BY <2>1, KeptFinite, FS_Subset
  <1>7. f \in [S -> OwnLeaves]
    BY <1>3
  <1> HIDE DEF S, f
  <1> QED
    BY <1>4, <1>5, <1>6, <1>7, SameSize DEF S

LEMMA CountBegins ==
  ASSUME WalkInv, Live, Asked, Housed, compress
  PROVE  Counting'
  <1>1. /\ pc \in Within /\ pc # "fold" /\ pc' = "compress" /\ slot' = 0 /\ next_slot' = 0 /\ retained' = FALSE
        /\ UNCHANGED <<array, node, kept>>
    BY DEF compress, walkVars, Within
  <1>2. /\ Edited(0, new[node].slots[0])
        /\ new'[node].nr = Cardinality({k \in Slot : new[node].slots[k].t = "leaf"})
    BY CompressEdits
  <1>3. \A k \in Slot : new'[node].slots[k] = new[node].slots[k]
    BY <1>2 DEF Edited
  <1>4. \A k \in Slot : ~(k < 0)
    BY GcAssumption DEF Slot
  <1>5. Counted' = OwnLeaves
    <2>1. \A k \in Slot : new'[node'].slots[k] = new[node].slots[k]
      BY <1>1, <1>3
    <2>2. \A l : l \in Counted' <=> l \in kept /\ \E k \in Slot : new[node].slots[k] = l
      BY <1>1, <1>4, <2>1 DEF Counted
    <2> QED
      BY <2>2 DEF OwnLeaves
  <1>6. new'[node].nr = Cardinality(OwnLeaves)
    BY <1>1, <1>2, OwnCount DEF Detached
  <1> QED
    BY <1>1, <1>4, <1>5, <1>6 DEF Counting

\* The two sets of leaves are counted apart.
LEMMA CountedApart ==
  ASSUME WalkInv, Live, ShapeInv, Asked, Housed, pc = "compress", slot \in Slot,
         is_meta(new[node].slots[slot])
  PROVE  Counted \cap KeptUnder(new[node].slots[slot].id) = {}
  <1> DEFINE c == new[node].slots[slot].id
  <1>1. /\ IsArray(array) /\ old = array.heap /\ new_n = node /\ pc \in Within
        /\ node \in DOMAIN old /\ new[node].t = "node"
    BY LiveTree, FilledNode DEF Within
  <1>2. \A k \in Slot : is_meta(new[node].slots[k]) =>
          /\ new[node].slots[k].id \in DOMAIN old /\ Allocated(new[node].slots[k].id)
          /\ node \in Anc(array, new[node].slots[k].id) /\ node # new[node].slots[k].id
          /\ NewUp(new[node].slots[k].id) = NodePtr(node)
          /\ new[new[node].slots[k].id].parent_slot = k
    BY <1>1, ChildIsNode DEF Allocated, is_meta
  <1>3. ASSUME NEW d \in DOMAIN old, NEW e \in DOMAIN old, d # e, d \in Anc(array, e),
               Allocated(d), Allocated(e), NewUp(e) = NodePtr(node),
               node \in Anc(array, d), node # d
        PROVE  FALSE
    <2>1. Nearest(array, new, e) /\ new[d] # Freed
      BY <1>3, ShapeOf
    <2>2. d \in Anc(array, node)
      BY <1>3, <2>1 DEF Nearest, NewUp, NodePtr, NULL
    <2> QED
      BY <1>1, <1>3, <2>2, AncOnce
  <1> SUFFICES ASSUME NEW l \in Counted, l \in KeptUnder(c) PROVE FALSE
    OBVIOUS
  <1> HIDE DEF c
  <1>4. l \in kept /\ c \in DOMAIN old /\ Allocated(c) /\ node \in Anc(array, c) /\ node # c
        /\ NewUp(c) = NodePtr(node) /\ new[c].parent_slot = slot
    BY <1>2 DEF KeptUnder, c
  <1>5. PICK x, m : c \in Anc(array, x) /\ HoldsLeaf(array, x, m, l)
    BY DEF KeptUnder
  <1>6. x \in DOMAIN old
    BY <1>1, <1>5 DEF HoldsLeaf, IsNode
  <1>7. CASE \E k \in Slot : new[node].slots[k] = l
    <2>1. PICK k \in Slot : new[node].slots[k] = l
      BY <1>7
    <2>2. NewLeaf(node, k)
      BY <1>1, <1>4, <2>1, KeptIsLeaf DEF NewLeaf, Detached
    <2>3. PICK z, n : HoldsLeaf(array, z, n, l) /\ Settled(node, z)
      BY <1>1, <2>1, <2>2 DEF Housed
    <2>4. z = x
      BY <1>5, <2>3, OneHome
    <2>5. c \in Anc(array, node)
      <3>1. new[c] # Freed /\ ~Detached(c)
        BY <1>4 DEF Allocated, Freed, Detached
      <3> QED
        BY <1>5, <2>3, <2>4, <3>1 DEF Settled
    <2> QED
      BY <1>1, <1>4, <2>5, AncOnce
  <1>8. CASE \E k \in Slot : /\ k < slot /\ is_meta(new[node].slots[k])
                             /\ l \in KeptUnder(new[node].slots[k].id)
    <2>1. PICK k \in Slot : k < slot /\ is_meta(new[node].slots[k]) /\ l \in KeptUnder(new[node].slots[k].id)
      BY <1>8
    <2>2. PICK d : d = new[node].slots[k].id
      OBVIOUS
    <2>3. /\ d \in DOMAIN old /\ Allocated(d) /\ node \in Anc(array, d) /\ node # d
          /\ NewUp(d) = NodePtr(node) /\ new[d].parent_slot = k
      BY <1>2, <2>1, <2>2
    <2>4. d # c
      <3>1. k # slot
        BY <2>1, GcAssumption DEF Slot
      <3> QED
        BY <1>4, <2>3, <3>1
    <2>5. d \in Anc(array, x)
      BY <1>5, <2>1, <2>2, HomeUnder
    <2>6. c \in Anc(array, d) \/ d \in Anc(array, c)
      BY <1>1, <1>5, <1>6, <2>5, AncChain
    <2> QED
      BY <1>3, <1>4, <2>3, <2>4, <2>6
  <1> QED
    BY <1>7, <1>8 DEF Counted

LEMMA CountSkips ==
  ASSUME WalkInv, Live, Asked, Counting, compress_skip
  PROVE  Counting'
  <1>1. /\ pc = "compress" /\ pc' = "compress" /\ slot' = slot + 1 /\ slot < FAN_OUT
        /\ UNCHANGED <<array, new, node, next_slot, retained, kept>>
        /\ ~is_meta(new[new_n].slots[slot])
    BY DEF compress_skip, treeVars, walkVars
  <1>2. new_n = node /\ slot \in Slot
    BY <1>1, FilledNode, GcAssumption DEF Within, Slot
  <1>3. \A k \in Slot : k < slot' <=> k < slot \/ k = slot
    BY <1>1, <1>2, GcAssumption DEF Slot
  <1>4. Counted' = Counted
    <2>1. \A x : KeptUnder(x)' = KeptUnder(x)
      BY <1>1 DEF KeptUnder, HoldsLeaf, IsNode
    <2>2. \A l : l \in Counted' <=>
            l \in kept /\ \/ \E k \in Slot : new[node].slots[k] = l
                          \/ \E k \in Slot : /\ k < slot' /\ is_meta(new[node].slots[k])
                                             /\ l \in KeptUnder(new[node].slots[k].id)'
      BY <1>1 DEF Counted
    <2>3. \A l : \A k \in Slot : l \in KeptUnder(new[node].slots[k].id)' <=> l \in KeptUnder(new[node].slots[k].id)
      BY <1>1, <2>1
    <2> QED
      BY <1>1, <1>2, <1>3, <2>2, <2>3 DEF Counted
  <1>5. Vacant' = Vacant
    BY <1>1 DEF Vacant
  <1> QED
    BY <1>1, <1>2, <1>3, <1>4, <1>5 DEF Counting

\* The counts of two sets of leaves that have none in common.
LEMMA CountBoth ==
  ASSUME WalkInv, Live, Asked, NEW x, NEW S \in SUBSET kept, S \cap KeptUnder(x) = {}
  PROVE  Cardinality(S \cup KeptUnder(x)) = Cardinality(S) + Cardinality(KeptUnder(x))
  <1>1. IsFiniteSet(S) /\ IsFiniteSet(KeptUnder(x))
    BY KeptFinite, FS_Subset
  <1>2. Cardinality(S) \in Nat /\ Cardinality(KeptUnder(x)) \in Nat
    BY <1>1, FS_CardinalityType
  <1>3. Cardinality(S \cup KeptUnder(x)) = Cardinality(S) + Cardinality(KeptUnder(x)) - Cardinality(S \cap KeptUnder(x))
    BY <1>1, FS_Union
  <1>4. Cardinality(S \cap KeptUnder(x)) = 0
    BY FS_EmptySet
  <1> QED
    BY <1>2, <1>3, <1>4

LEMMA CountRetains ==
  ASSUME WalkInv, Live, ShapeInv, Kinds, Asked, Housed, Finished, Counting, compress_retain
  PROVE  Counting'
  <1>1. /\ pc = "compress" /\ pc' = "compress" /\ slot' = slot + 1 /\ retained' = TRUE
        /\ UNCHANGED <<array, node, next_slot, kept>> /\ pc \in Within
        /\ is_meta(new[new_n].slots[slot])
    BY DEF compress_retain, walkVars, Within
  <1>2. /\ Edited(0, new[node].slots[0]) /\ new'[node].nr = new[node].nr + new[ChildAt(slot)].nr
        /\ slot \in Slot /\ new_n = node
    BY RetainEdits
  <1>3. \A k \in Slot : new'[node].slots[k] = new[node].slots[k]
    BY <1>2 DEF Edited
  <1>4. \A k \in Slot : k < slot' <=> k < slot \/ k = slot
    BY <1>1, <1>2, GcAssumption DEF Slot
  <1>5. PICK c : c = new[node].slots[slot].id
    OBVIOUS
  <1>6. Counted' = Counted \cup KeptUnder(c)
    <2>1. \A x : KeptUnder(x)' = KeptUnder(x)
      BY <1>1 DEF KeptUnder, HoldsLeaf, IsNode
    <2>2. \A k \in Slot : new'[node'].slots[k] = new[node].slots[k]
      BY <1>1, <1>3
    <2>3. \A l : l \in Counted' <=>
            l \in kept /\ \/ \E k \in Slot : new[node].slots[k] = l
                          \/ \E k \in Slot : /\ k < slot' /\ is_meta(new[node].slots[k])
                                             /\ l \in KeptUnder(new[node].slots[k].id)
      <3>1. \A x, k : x = new[node].slots[k].id => KeptUnder(x)' = KeptUnder(new[node].slots[k].id)
        BY <2>1
      <3>2. \A k \in Slot : KeptUnder(new[node].slots[k].id)' = KeptUnder(new[node].slots[k].id)
        BY <2>2, <3>1
      <3> QED
        BY <1>1, <2>2, <3>2 DEF Counted
    <2>4. KeptUnder(c) \subseteq kept
      BY DEF KeptUnder
    <2> QED
      BY <1>1, <1>2, <1>4, <1>5, <2>3, <2>4 DEF Counted
  <1>7. Cardinality(Counted \cup KeptUnder(c)) = Cardinality(Counted) + Cardinality(KeptUnder(c))
    <2>1. Counted \cap KeptUnder(c) = {}
      BY <1>1, <1>2, <1>5, CountedApart
    <2>2. Counted \in SUBSET kept
      BY DEF Counted
    <2> QED
      BY <2>1, <2>2, CountBoth
  <1>8. new[ChildAt(slot)].nr = Cardinality(KeptUnder(c))
    BY <1>1, <1>2, <1>5, ChildCount
  <1>9. new'[node].nr = Cardinality(Counted')
    BY <1>1, <1>2, <1>6, <1>7, <1>8 DEF Counting
  <1>10. Vacant' = Vacant
    BY <1>1, <1>3 DEF Vacant
  <1> QED
    BY <1>1, <1>9, <1>10 DEF Counting

\* What is to be moved of a child are leaves kept under it, and there is room.
LEMMA MovableFew ==
  ASSUME WalkInv, Live, ShapeInv, Asked, Housed, NEW c \in DOMAIN old, ~Detached(c), new[c].t = "node"
  PROVE  LET S == {k \in Slot : new[c].slots[k].t = "leaf"}
         IN Cardinality(S) <= Cardinality(KeptUnder(c))
  <1> DEFINE S == {k \in Slot : new[c].slots[k].t = "leaf"}
             f == [k \in S |-> new[c].slots[k]]
  <1>1. \A k \in S : k \in Slot /\ NewLeaf(c, k)
    BY DEF NewLeaf
  <1>2. \A k \in S : f[k] = new[c].slots[k] /\ f[k] \in KeptUnder(c)
    BY <1>1, LeafUnder
  <1>3. \A k, m \in S : f[k] = f[m] => k = m
    BY <1>1, <1>2 DEF Housed
  <1>4. f \in [S -> KeptUnder(c)] /\ IsFiniteSet(KeptUnder(c))
    BY <1>2, KeptFinite
  <1> HIDE DEF S, f
  <1>5. Cardinality(S) <= Cardinality(KeptUnder(c))
    BY <1>3, <1>4, SameSize
  <1> QED
    BY <1>5 DEF S

LEMMA CountFolds ==
  ASSUME WalkInv, Live, ShapeInv, Kinds, Asked, Housed, Finished, Counting, compress_fold
  PROVE  Counting'
  <1>1. /\ pc = "compress" /\ pc' = "fold" /\ slot' = slot /\ retained' = retained /\ i' = 0
        /\ UNCHANGED <<array, node, kept>> /\ pc \in Within /\ Fits(ChildAt(slot))
        /\ is_meta(new[new_n].slots[slot]) /\ cursor' = NodePtr(ChildAt(slot))
        /\ nr_free' = nr_free + 1
        /\ next_slot' = IF slot < next_slot THEN slot ELSE next_slot
    BY DEF compress_fold, Within
  <1>2. PICK c : c = ChildAt(slot)
    OBVIOUS
  <1>3. /\ slot \in Slot /\ new_n = node /\ c = new[node].slots[slot].id /\ c \in DOMAIN old
        /\ new[node].slots[slot] = NodePtr(c) /\ new[c].t = "node" /\ node # c
        /\ Edited(slot, NULL) /\ new'[node].nr = new[node].nr + new[c].nr
    BY <1>2, FoldBeginEdits
  <1>4. \A k \in Slot : new'[node].slots[k] = IF k = slot THEN NULL ELSE new[node].slots[k]
    BY <1>3 DEF Edited
  <1>5. \A x : ~Detached(x)
    BY <1>1 DEF Detached
  <1>6. cursor'.id = c
    BY <1>1, <1>2 DEF NodePtr
  <1>7. \A k \in Slot : k < slot => k # slot
    BY <1>3, GcAssumption DEF Slot
  <1>8. Counted' = Counted \cup KeptUnder(c)
    <2>1. \A x : KeptUnder(x)' = KeptUnder(x)
      BY <1>1 DEF KeptUnder, HoldsLeaf, IsNode
    <2>2. \A k \in Slot : new'[node'].slots[k] = IF k = slot THEN NULL ELSE new[node].slots[k]
      BY <1>1, <1>4
    <2>3. \A k \in Slot : k # slot => KeptUnder(new[node].slots[k].id)' = KeptUnder(new[node].slots[k].id)
      <3>1. \A x, k : x = new[node].slots[k].id => KeptUnder(x)' = KeptUnder(new[node].slots[k].id)
        BY <2>1
      <3> QED
        BY <2>2, <3>1
    <2>4. KeptUnder(cursor.id)' = KeptUnder(c)
      <3>1. \A x : x = cursor'.id => KeptUnder(x)' = KeptUnder(c)
        BY <1>6, <2>1
      <3> QED
        BY <3>1
    <2>5. \A l \in kept : ((\E k \in Slot : new[node].slots[k] = l)' <=> \E k \in Slot : new[node].slots[k] = l)
      <3>1. \A l \in kept : l # NULL /\ l # NodePtr(c)
        BY KeptIsLeaf DEF is_meta, NodePtr
      <3> QED
        BY <1>3, <2>2, <3>1
    <2>6. \A l : (\E k \in Slot : /\ k < slot /\ is_meta(new[node].slots[k])
                                  /\ l \in KeptUnder(new[node].slots[k].id))'
                 <=> \E k \in Slot : /\ k < slot /\ is_meta(new[node].slots[k])
                                     /\ l \in KeptUnder(new[node].slots[k].id)
      BY <1>1, <1>7, <2>2, <2>3
    <2>7. KeptUnder(c) \subseteq kept
      BY DEF KeptUnder
    <2>8. \A l : l \in Counted' <=>
            l \in kept /\ \/ (\E k \in Slot : new[node].slots[k] = l)'
                          \/ (\E k \in Slot : /\ k < slot /\ is_meta(new[node].slots[k])
                                             /\ l \in KeptUnder(new[node].slots[k].id))'
                          \/ l \in KeptUnder(c)
      BY <1>1, <2>4 DEF Counted
    <2>9. \A l : l \in Counted <=>
            l \in kept /\ \/ \E k \in Slot : new[node].slots[k] = l
                          \/ \E k \in Slot : /\ k < slot /\ is_meta(new[node].slots[k])
                                             /\ l \in KeptUnder(new[node].slots[k].id)
      BY <1>1 DEF Counted
    <2> QED
      BY <2>5, <2>6, <2>7, <2>8, <2>9
  <1>9. Cardinality(Counted \cup KeptUnder(c)) = Cardinality(Counted) + Cardinality(KeptUnder(c))
    <2>1. Counted \cap KeptUnder(c) = {}
      BY <1>1, <1>3, CountedApart
    <2>2. Counted \in SUBSET kept
      BY DEF Counted
    <2> QED
      BY <2>1, <2>2, CountBoth
  <1>10. new[c].nr = Cardinality(KeptUnder(c))
    BY <1>1, <1>2, <1>3, ChildCount
  <1>11. new'[node].nr = Cardinality(Counted')
    BY <1>1, <1>3, <1>8, <1>9, <1>10 DEF Counting
  <1>12. ASSUME NEW k \in Slot, k < next_slot' PROVE k \notin Vacant'
    <2>1. k < next_slot /\ k # slot
      <3>1. next_slot \in 0 .. FAN_OUT
        BY <1>1 DEF WalkInv, Place, Compressing
      <3> QED
        BY <1>1, <1>3, <1>12, <3>1, GcAssumption DEF Slot
    <2>2. k \notin Vacant
      BY <1>1, <2>1 DEF Counting
    <2> QED
      BY <1>1, <1>4, <2>1, <2>2 DEF Vacant
  <1>13. ~retained' => \A k \in Slot : k < slot' => ~is_meta(new'[node'].slots[k])
    BY <1>1, <1>4, <1>7 DEF Counting
  <1>14. Cardinality(Movable)' <= nr_free'
    <2>1. \A k \in Slot : 0 <= k
      BY GcAssumption DEF Slot
    <2>2. new'[c] = new[c]
      BY <1>3 DEF Edited
    <2>3. Movable' = {k \in Slot : new[c].slots[k].t = "leaf"}
      BY <1>1, <1>6, <2>1, <2>2 DEF Movable
    <2>4. Cardinality(Movable') <= Cardinality(KeptUnder(c))
      BY <1>3, <1>5, <2>3, MovableFew
    <2>5. Cardinality(Movable') \in Nat /\ Cardinality(KeptUnder(c)) \in Nat /\ nr_free \in Nat
      <3>1. nr_free = Cardinality(Vacant) /\ Vacant \in SUBSET Slot
        BY <1>1 DEF WalkInv, Place, Compressing, Vacant
      <3> QED
        BY <2>3, <3>1, SlotsFinite, KeptFinite, FS_CardinalityType
    <2> QED
      BY <1>1, <1>2, <1>10, <2>4, <2>5 DEF Fits
  <1> QED
    BY <1>1, <1>11, <1>12, <1>13, <1>14 DEF Counting

LEMMA CountMoves ==
  ASSUME WalkInv, Live, ShapeInv, Asked, Housed, Counting, fold
  PROVE  Counting'
  <1>1. /\ pc = "fold" /\ pc' = "fold" /\ slot' = slot /\ retained' = retained /\ i' = i + 1
        /\ UNCHANGED <<array, node, kept, cursor>> /\ pc \in Within
    BY DEF fold, walkVars, Within
  <1>2. PICK c, p, f : c = cursor.id /\ p = new[c].slots[i] /\ f = FreeFrom(next_slot)
    OBVIOUS
  <1>3. /\ c \in DOMAIN old /\ c # node /\ i \in Slot /\ next_slot \in 0 .. FAN_OUT
        /\ new[c].t = "node" /\ new_n = node
        /\ \/ p = NULL /\ UNCHANGED <<new, next_slot, nr_free>>
           \/ /\ p.t = "leaf" /\ f \in Slot /\ new[node].slots[f] = NULL
              /\ next_slot' = f + 1 /\ nr_free' = nr_free - 1
              /\ Edited(f, p) /\ new'[node].nr = new[node].nr
    BY <1>2, FoldEdits
  <1>4. \A k \in Slot : i' <= k <=> i <= k /\ k # i
    BY <1>1, <1>3, GcAssumption DEF Slot
  <1>5. Cardinality(Movable) <= nr_free
    BY <1>1 DEF Counting
  <1>6. CASE p = NULL /\ UNCHANGED <<new, next_slot, nr_free>>
    <2>1. Counted' = Counted
      <3>1. \A x : KeptUnder(x)' = KeptUnder(x)
        BY <1>1 DEF KeptUnder, HoldsLeaf, IsNode
      <3>2. \A x, k : x = new[node].slots[k].id => KeptUnder(x)' = KeptUnder(new[node].slots[k].id)
        BY <3>1
      <3>3. \A k : KeptUnder(new[node].slots[k].id)' = KeptUnder(new[node].slots[k].id)
        BY <1>1, <1>6, <3>2
      <3>4. KeptUnder(cursor.id)' = KeptUnder(cursor.id)
        BY <1>1, <3>1
      <3> QED
        BY <1>1, <1>6, <3>3, <3>4 DEF Counted
    <2>2. Vacant' = Vacant
      BY <1>1, <1>6 DEF Vacant
    <2>3. Movable' = Movable
      <3>1. new[cursor.id].slots[i].t # "leaf"
        BY <1>2, <1>6 DEF NULL
      <3> QED
        BY <1>1, <1>4, <1>6, <3>1 DEF Movable
    <2> QED
      BY <1>1, <1>6, <2>1, <2>2, <2>3 DEF Counting
  <1>7. CASE /\ p.t = "leaf" /\ f \in Slot /\ new[node].slots[f] = NULL
             /\ next_slot' = f + 1 /\ nr_free' = nr_free - 1
             /\ Edited(f, p) /\ new'[node].nr = new[node].nr
    <2>1. \A k \in Slot : new'[node'].slots[k] = IF k = f THEN p ELSE new[node].slots[k]
      BY <1>1, <1>7 DEF Edited
    <2>2. new'[c] = new[c]
      BY <1>3, <1>7 DEF Edited
    <2>3. ~is_meta(p) /\ ~is_meta(new[node].slots[f])
      BY <1>7 DEF is_meta, NULL
    <2>4. p \in KeptUnder(c)
      <3>1. NewLeaf(c, i)
        <4>1. ~(i < i)
          BY <1>3, GcAssumption DEF Slot
        <4> QED
          BY <1>2, <1>3, <1>7, <4>1 DEF NewLeaf
      <3> QED
        BY <1>2, <1>3, <3>1, LeafUnder
    <2>5. Counted' = Counted
      <3>1. \A x : KeptUnder(x)' = KeptUnder(x)
        BY <1>1 DEF KeptUnder, HoldsLeaf, IsNode
      <3>2. \A x, k : x = new[node].slots[k].id => KeptUnder(x)' = KeptUnder(new[node].slots[k].id)
        BY <3>1
      <3>3. \A k \in Slot : k # f => KeptUnder(new[node].slots[k].id)' = KeptUnder(new[node].slots[k].id)
        BY <2>1, <3>2
      <3>4. KeptUnder(cursor.id)' = KeptUnder(c)
        BY <1>1, <1>2, <3>1
      <3>5. \A l : (\E k \in Slot : /\ k < slot /\ is_meta(new[node].slots[k])
                                    /\ l \in KeptUnder(new[node].slots[k].id))'
                   <=> \E k \in Slot : /\ k < slot /\ is_meta(new[node].slots[k])
                                       /\ l \in KeptUnder(new[node].slots[k].id)
        BY <1>1, <2>1, <2>3, <3>3
      <3>6. \A l \in kept : (\E k \in Slot : new[node].slots[k] = l)'
                            <=> l = p \/ \E k \in Slot : new[node].slots[k] = l
        <4>1. \A l \in kept : l # NULL
          BY KeptIsLeaf
        <4> QED
          BY <1>7, <2>1, <4>1
      <3>7. \A l : l \in Counted' <=>
              l \in kept /\ \/ (\E k \in Slot : new[node].slots[k] = l)'
                            \/ (\E k \in Slot : /\ k < slot /\ is_meta(new[node].slots[k])
                                               /\ l \in KeptUnder(new[node].slots[k].id))'
                            \/ l \in KeptUnder(c)
        BY <1>1, <3>4 DEF Counted
      <3>8. \A l : l \in Counted <=>
              l \in kept /\ \/ \E k \in Slot : new[node].slots[k] = l
                            \/ \E k \in Slot : /\ k < slot /\ is_meta(new[node].slots[k])
                                               /\ l \in KeptUnder(new[node].slots[k].id)
                            \/ l \in KeptUnder(c)
        BY <1>1, <1>2 DEF Counted
      <3>9. p \in kept
        BY <2>4 DEF KeptUnder
      <3> QED
        BY <2>4, <3>5, <3>6, <3>7, <3>8, <3>9
    <2>6. ASSUME NEW k \in Slot, k < next_slot' PROVE k \notin Vacant'
      <3>1. k = f \/ k < next_slot \/ k \in next_slot .. f - 1
        BY <1>3, <1>7, <2>6, GcAssumption DEF Slot
      <3>2. CASE k = f
        BY <1>7, <2>1, <3>2 DEF Vacant, NULL
      <3>3. CASE k # f
        <4>1. k < next_slot => k \notin Vacant
          BY <1>1 DEF Counting
        <4>2. k \in next_slot .. f - 1 => k \notin Vacant
          BY <1>2, <1>3, FirstFree DEF Vacant
        <4> QED
          BY <2>1, <3>1, <3>3, <4>1, <4>2 DEF Vacant
      <3> QED
        BY <3>2, <3>3
    <2>7. ~retained' => \A k \in Slot : k < slot' => ~is_meta(new'[node'].slots[k])
      BY <1>1, <2>1, <2>3 DEF Counting
    <2>8. Cardinality(Movable)' <= nr_free'
      <3>1. Movable' = Movable \ {i}
        BY <1>1, <1>2, <1>4, <2>2 DEF Movable
      <3>2. i \in Movable
        BY <1>2, <1>3, <1>7, GcAssumption DEF Movable, Slot
      <3>3. Movable \in SUBSET Slot
        BY DEF Movable
      <3>4. IsFiniteSet(Movable) /\ Cardinality(Movable) \in Nat
        BY <3>3, SlotsFinite
      <3>5. Cardinality(Movable') = Cardinality(Movable) - 1
        BY <3>1, <3>2, <3>4, FS_RemoveElement
      <3>6. nr_free \in Nat
        <4>1. nr_free = Cardinality(Vacant) /\ Vacant \in SUBSET Slot
          BY <1>1 DEF WalkInv, Place, Compressing, Vacant
        <4> QED
          BY <4>1, SlotsFinite
      <3> QED
        BY <1>5, <1>7, <3>4, <3>5, <3>6
    <2> QED
      BY <1>1, <1>7, <2>5, <2>6, <2>7, <2>8 DEF Counting
  <1> QED
    BY <1>3, <1>6, <1>7

\* All that was counted for the child is in the node's own slots.
LEMMA CountFolded ==
  ASSUME WalkInv, Live, ShapeInv, Asked, Housed, Counting, fold_end
  PROVE  Counting'
  <1>1. /\ pc = "fold" /\ pc' = "compress" /\ i = FAN_OUT /\ slot' = slot + 1 /\ pc \in Within
        /\ UNCHANGED <<array, node, kept, next_slot, retained>>
    BY DEF fold_end, walkVars, Within
  <1>2. PICK c : c = cursor.id
    OBVIOUS
  <1>3. /\ c \in DOMAIN old /\ c # node /\ slot \in Slot /\ new[c].t = "node"
        /\ ~is_meta(new[node].slots[slot]) /\ \A k \in Slot : ~is_meta(new[c].slots[k])
        /\ new'[node] = new[node] /\ node \in DOMAIN old
    <2>1. Folding /\ node \in DOMAIN old /\ slot \in 0 .. FAN_OUT
      BY <1>1, FilledNode DEF WalkInv, Place
    <2>2. \A k \in Slot : k < i
      BY <1>1, GcAssumption DEF Slot
    <2>3. slot \in Slot
      BY <2>1, GcAssumption DEF Folding, Slot
    <2>4. new'[node] = new[node]
      <3>1. new' = [new EXCEPT ![c] = Freed] /\ DOMAIN new = DOMAIN old
        BY <1>2, LiveTree DEF fold_end, kfree, NewHeaps
      <3>2. c # node
        BY <1>2, <2>1 DEF Folding
      <3> QED
        BY <3>1, <3>2
    <2> QED
      BY <1>2, <2>1, <2>2, <2>3, <2>4 DEF Folding
  <1>4. \A k \in Slot : k < slot' <=> k < slot \/ k = slot
    BY <1>1, <1>3, GcAssumption DEF Slot
  <1>5. \A l \in KeptUnder(c) : \E k \in Slot : new[node].slots[k] = l
    <2> SUFFICES ASSUME NEW l \in KeptUnder(c) PROVE \E k \in Slot : new[node].slots[k] = l
      OBVIOUS
    <2>1. IsArray(array) /\ old = array.heap
      BY LiveTree
    <2>2. PICK y \in DOMAIN old, k \in Slot : NewLeaf(y, k) /\ new[y].slots[k] = l
      BY DEF Housed, KeptUnder
    <2>3. PICK x, m : HoldsLeaf(array, x, m, l) /\ Settled(y, x)
      BY <2>2 DEF Housed
    <2>4. c \in Anc(array, x)
      BY <2>3, HomeUnder
    <2>5. CASE y = c
      <3>1. k < i
        BY <1>1, GcAssumption DEF Slot
      <3> QED
        BY <1>1, <1>2, <2>2, <2>5, <3>1 DEF NewLeaf, Detached
    <2>6. CASE y # c /\ c \in Anc(array, y)
      <3>1. Allocated(y) /\ new[c] # Freed
        BY <1>3, <2>2 DEF NewLeaf, Allocated, Freed
      <3>2. PICK w \in Anc(array, y) : Allocated(w) /\ NewUp(w) # NULL /\ NewUp(w).id = c /\ w # c
        BY <2>6, <3>1, ChildOnWay
      <3>3. w \in DOMAIN old /\ ~Detached(w)
        BY <1>2, <2>1, <3>2, AncClimbs DEF Detached
      <3>4. PointedTo(new, new_root, w) /\ new[c].t = NewUp(w).t /\ new[w].parent_slot \in Slot
        BY <3>2, <3>3, ShapeOf DEF Allocated
      <3>5. new[c].slots[new[w].parent_slot] = [t |-> new[w].t, id |-> w]
        BY <1>3, <3>2, <3>4 DEF PointedTo, NewUp, is_shortcut
      <3> QED
        BY <1>3, <3>2, <3>4, <3>5 DEF is_meta, Allocated
    <2>7. CASE c \notin Anc(array, y)
      <3>1. y = node
        BY <1>3, <2>3, <2>4, <2>7 DEF Settled, Freed
      <3> QED
        BY <2>2, <3>1
    <2> QED
      BY <2>5, <2>6, <2>7
  <1>6. Counted' = Counted
    <2>1. \A x : KeptUnder(x)' = KeptUnder(x)
      BY <1>1 DEF KeptUnder, HoldsLeaf, IsNode
    <2>2. \A x, k : x = new[node].slots[k].id => KeptUnder(x)' = KeptUnder(new[node].slots[k].id)
      BY <2>1
    <2>3. \A k : KeptUnder(new[node].slots[k].id)' = KeptUnder(new[node].slots[k].id)
      BY <1>1, <1>3, <2>2
    <2>4. \A l : l \in Counted' <=>
            l \in kept /\ \/ \E k \in Slot : new[node].slots[k] = l
                          \/ \E k \in Slot : /\ k < slot' /\ is_meta(new[node].slots[k])
                                             /\ l \in KeptUnder(new[node].slots[k].id)
      BY <1>1, <1>3, <2>3 DEF Counted
    <2>5. \A l : l \in Counted <=>
            l \in kept /\ \/ \E k \in Slot : new[node].slots[k] = l
                          \/ \E k \in Slot : /\ k < slot /\ is_meta(new[node].slots[k])
                                             /\ l \in KeptUnder(new[node].slots[k].id)
                          \/ l \in KeptUnder(c)
      BY <1>1, <1>2 DEF Counted
    <2> QED
      BY <1>3, <1>4, <1>5, <2>4, <2>5
  <1>7. Vacant' = Vacant
    BY <1>1, <1>3 DEF Vacant
  <1> QED
    BY <1>1, <1>3, <1>4, <1>6, <1>7 DEF Counting

-----------------------------------------------------------------------------
(* The counts, put together.                                               *)

\* Under a node with no node above it are all leaves.
LEMMA AllUnder ==
  ASSUME WalkInv, Live, Asked, IsNode(array, node), Upper.cursor = NULL
  PROVE  KeptUnder(node) = kept
  <1>1. IsArray(array) /\ old = array.heap /\ node \in DOMAIN old
    BY LiveTree DEF IsNode
  <1>2. ASSUME NEW l \in kept PROVE l \in KeptUnder(node)
    <2>1. PICK x, k : HoldsLeaf(array, x, k, l)
      BY DEF Asked
    <2>2. x \in DOMAIN old /\ old[x].t = "node" /\ array.root.id \in Anc(array, x)
      BY <1>1, <2>1, TopIsRoot DEF HoldsLeaf, IsNode
    <2>3. CASE Upper.shortcut
      <3>1. PICK s : s = Up(array, node).id
        OBVIOUS
      <3>2. /\ Up(array, node).t = "shortcut" /\ s \in DOMAIN old /\ Up(array, s) = NULL
            /\ Up(array, node) # NULL
        BY <1>1, <2>3, <3>1, UpperShape DEF NULL
      <3>3. s = array.root.id /\ s \in Anc(array, x)
        BY <1>1, <2>2, <3>2, TopIsRoot
      <3>4. old[s].t = "shortcut" /\ old[s].next_node = NodePtr(node)
        BY <1>1, <3>1, <3>2, UpPoints
      <3>5. node \in Anc(array, x)
        BY <1>1, <2>2, <3>2, <3>3, <3>4, BelowShortcut DEF NodePtr
      <3> QED
        BY <2>1, <3>5 DEF KeptUnder
    <2>4. CASE ~Upper.shortcut
      <3>1. Up(array, node) = NULL
        BY <1>1, <2>4 DEF Upper, Up
      <3>2. node = array.root.id
        BY <1>1, <3>1, TopIsRoot
      <3> QED
        BY <2>1, <2>2, <3>2 DEF KeptUnder
    <2> QED
      BY <2>3, <2>4
  <1> QED
    BY <1>2 DEF KeptUnder

LEMMA CountLeaves ==
  ASSUME WalkInv, Live, ShapeInv, Asked, Housed, Counting, excise_node \/ excise_shortcut \/ leave_node
  PROVE  Counting'
  <1>1. /\ pc = "compress" /\ slot = FAN_OUT /\ new_n = node /\ node' = node /\ kept' = kept
        /\ IsNode(array, node) /\ nr_leaves_on_tree' = new[node].nr /\ pc # "continue_node"
    BY OpenAbove DEF excise_node, excise_shortcut, leave_node, Compressed, treeVars
  <1>2. Leaving
    BY ExciseNodeStep, ExciseShortcutStep, LeaveNodeStep
  <1>3. nr_leaves_on_tree' = Cardinality(KeptUnder(node))
    BY <1>1, AllCounted DEF Counting
  <1>4. KeptUnder(node') = KeptUnder(node) /\ \A y : KeptUnder(y)' = KeptUnder(y)
    <2>1. Next
      BY Zenon DEF Next
    <2> QED
      BY <1>1, <2>1, KeptUnderNext
  <1>5. pc' = "ascend" => Cardinality(KeptUnder(node))' = Cardinality(KeptUnder(node))
    <2>1. \A y : y = node => Cardinality(KeptUnder(y))' = Cardinality(KeptUnder(node))
      BY <1>4
    <2> QED
      BY <1>1, <1>4, <2>1
  <1>6. pc' = "gc_complete" => KeptUnder(node) = kept
    BY <1>1, <1>2, AllUnder DEF Leaving
  <1> QED
    BY <1>1, <1>2, <1>3, <1>5, <1>6 DEF Counting, Leaving

LEMMA CountingNext ==
  ASSUME WalkInv, Live, ShapeInv, Kinds, Asked, Housed, Finished, Counting, Next, Live'
  PROVE  Counting'
  <1>1. CASE descend_shortcut \/ descend_node \/ continue_node \/ retry
    <2>1. pc' \in {"descend", "continue_node", "retry_compress", "ENOMEM"}
      BY <1>1 DEF descend_shortcut, descend_node, continue_node, retry, enomem
    <2> QED
      BY <2>1 DEF Counting
  <1>2. CASE compress
    BY <1>2, CountBegins
  <1>3. CASE compress_skip
    BY <1>3, CountSkips
  <1>4. CASE compress_retain
    BY <1>4, CountRetains
  <1>5. CASE compress_fold
    BY <1>5, CountFolds
  <1>6. CASE fold
    BY <1>6, CountMoves
  <1>7. CASE fold_end
    BY <1>7, CountFolded
  <1>8. CASE excise_node \/ excise_shortcut \/ leave_node
    BY <1>8, CountLeaves
  <1>9. CASE ascend_old_tree
    <2>1. /\ pc = "ascend" /\ UNCHANGED <<kept, nr_leaves_on_tree>>
          /\ pc' = "continue_node" \/ (pc' = "gc_complete" /\ Upper.cursor = NULL)
      BY <1>9 DEF ascend_old_tree
    <2>2. pc' = "gc_complete" => KeptUnder(node) = kept
      BY <2>1, AllUnder DEF WalkInv, Place, Ascending
    <2> QED
      BY <2>1, <2>2 DEF Counting
  <1>10. CASE gc_complete
    BY <1>10 DEF gc_complete, Counting, treeVars
  <1>11. ~assoc_array_gc /\ ~BUG_ON
    BY DEF assoc_array_gc, BUG_ON, Live
  <1> QED
    BY <1>1, <1>2, <1>3, <1>4, <1>5, <1>6, <1>7, <1>8, <1>9, <1>10, <1>11, Zenon DEF Next

-----------------------------------------------------------------------------
(* Leaves and counts, put together.                                        *)

LEMMA LeavesStart ==
  ASSUME WalkInv, assoc_array_gc, Live'
  PROVE  Kinds' /\ Asked' /\ Housed' /\ Finished' /\ Counting'
  <1>1. /\ pc = "start" /\ new' = [x \in DOMAIN old |-> Absent] /\ old' = old /\ array' = array
        /\ pc' \in (IF array.root = NULL THEN {"done"} ELSE {"descend", "ENOMEM"})
        /\ UNCHANGED <<kept, dropped>>
    BY DEF assoc_array_gc, old
  <1>2. pc' = "descend" /\ array.root # NULL /\ array \in Trees
    BY <1>1 DEF Live, WalkInv, Types
  <1>3. kept' = {} /\ dropped' = {}
    BY <1>1 DEF WalkInv, Place, Fresh
  <1>4. \A x \in DOMAIN old : new'[x] = Absent /\ new'[x].t = "absent"
    BY <1>1 DEF Absent
  <1>5. IsArray(array) /\ old = array.heap
    BY <1>2, GcAssumption DEF old
  <1>6. Kinds' /\ Finished'
    BY <1>1, <1>4 DEF Kinds, Finished, Closed, Allocated
  <1>7. Asked'
    <2>1. ASSUME NEW x, NEW k, NEW l, HoldsLeaf(array, x, k, l)' PROVE ~Passed(x, k)'
      BY <1>1, <1>4, <1>5, <2>1 DEF HoldsLeaf, IsNode, Passed
    <2> QED
      BY <1>3, <2>1 DEF Asked
  <1>8. Housed'
    <2>1. \A y \in DOMAIN old, k \in Slot : ~NewLeaf(y, k)'
      BY <1>4 DEF NewLeaf
    <2> QED
      BY <1>1, <1>3, <2>1 DEF Housed
  <1>9. Counting'
    BY <1>2 DEF Counting
  <1> QED
    BY <1>6, <1>7, <1>8, <1>9

LEMMA LeavesNextStep ==
  ASSUME WalkInv, Live, ShapeInv, Kinds, Asked, Housed, Finished, Counting, Next, Live'
  PROVE  Kinds' /\ Asked' /\ Housed' /\ Finished' /\ Counting'
  BY KindsNext, AskedNext, HousedNext, FinishedNext, CountingNext

LEMMA InvNext ==
  ASSUME Inv, [Next]_vars
  PROVE  Inv'
  <1>1. WalkInv'
    BY WalkNext DEF Inv
  <1>2. CASE Next
    <2>1. CASE assoc_array_gc
      BY <1>1, <2>1, ShapeStart, LeavesStart DEF Inv
    <2>2. CASE ~assoc_array_gc
      <3>1. Live
        BY <1>2, <2>2, LiveSteps DEF Inv
      <3> QED
        BY <1>1, <1>2, <3>1, ShapeNext, LeavesNextStep DEF Inv
    <2> QED
      BY <2>1, <2>2
  <1>3. CASE UNCHANGED vars
    <2>1. UNCHANGED <<array, new, new_root, pc, cursor, new_parent, result, node, slot, i, next_slot,
                      nr_free, retained, nr_leaves_on_tree, kept, dropped, prog>>
      BY <1>3 DEF vars, treeVars, walkVars, foldVars
    <2>2. Live' <=> Live
      BY <2>1 DEF Live
    <2>3. ShapeInv => ShapeInv'
      BY <2>1, Zenon DEF ShapeInv, Allocated, Detached, old
    <2>4. Kinds => Kinds'
      BY <2>1, Zenon DEF Kinds, Allocated, old
    <2>5. Asked => Asked'
      BY <2>1, Zenon DEF Asked, Passed, Waits
    <2>6. Housed => Housed'
      <3>1. \A y, k : NewLeaf(y, k)' <=> NewLeaf(y, k)
        BY <2>1, Zenon DEF NewLeaf, Detached
      <3>2. \A y, x : Settled(y, x)' <=> Settled(y, x)
        BY <2>1, Zenon DEF Settled, Detached
      <3> QED
        BY <2>1, <3>1, <3>2, Zenon DEF Housed, old
    <2>7. Finished => Finished'
      BY <2>1, Zenon DEF Finished, FinishedAt, Closed, KeptUnder, IsOpen, Allocated, old
    <2>8. Counting => Counting'
      BY <2>1, Zenon DEF Counting, Counted, KeptUnder, Movable, Vacant
    <2> QED
      BY <1>1, <2>2, <2>3, <2>4, <2>5, <2>6, <2>7, <2>8, Zenon DEF Inv
  <1> QED
    BY <1>2, <1>3

\* Each leaf kept is in the nearest node left, whatever was folded and excised, and
\* what is finished counts the leaves below it.
THEOREM LeafInvariance ==
  Spec => []Inv
  <1>1. Init => Inv
    BY WalkInit DEF Init, Inv, Live
  <1>2. Inv /\ [Next]_vars => Inv'
    BY InvNext
  <1> QED
    BY <1>1, <1>2, PTL DEF Spec

-----------------------------------------------------------------------------
(* The assertions.                                                         *)

\* The slot of a child is not free.
LEMMA FreeSlots ==
  ASSUME WalkInv, Live, pc = "compress", slot \in Slot, is_meta(new[node].slots[slot])
  PROVE  nr_free \in Nat /\ nr_free <= FAN_OUT - 1
  <1>1. nr_free = Cardinality(Vacant)
    BY DEF WalkInv, Place, Compressing
  <1>2. Vacant \subseteq Slot \ {slot} /\ IsFiniteSet(Slot) /\ Cardinality(Slot) = FAN_OUT
    BY SlotsFinite DEF Vacant, is_meta, NULL
  <1>3. IsFiniteSet(Slot \ {slot}) /\ Cardinality(Slot \ {slot}) = FAN_OUT - 1
    BY <1>2, FS_RemoveElement
  <1> QED
    BY <1>1, <1>2, <1>3, FS_Subset, FS_CardinalityType

\* BUG_ON(s): a node behind a shortcut has more leaves
\* below it than would fit.
THEOREM ShortcutNeverFits ==
  Spec => []~BugShortcut
  <1>1. Inv => ~BugShortcut
    <2> SUFFICES ASSUME Inv, BugShortcut PROVE FALSE
      OBVIOUS
    <2>1. /\ pc = "compress" /\ slot < FAN_OUT /\ is_shortcut(new[new_n].slots[slot])
          /\ new[ChildAt(slot)].nr <= nr_free + 1
      BY DEF BugShortcut, Fits
    <2>2. Live /\ WalkInv /\ Kinds /\ Finished /\ pc \in Within
      <3>1. Live
        BY <2>1 DEF Inv, WalkInv, Types, Live
      <3> QED
        BY <2>1, <3>1 DEF Inv, Within
    <2>3. slot \in Slot
      BY <2>1, <2>2, FilledNode, GcAssumption DEF Slot
    <2>4. new_n = node /\ is_meta(new[new_n].slots[slot])
      BY <2>1, <2>2, FilledNode DEF is_meta, is_shortcut
    <2>5. new[ChildAt(slot)].nr > FAN_OUT
      BY <2>1, <2>2, <2>3, <2>4, ChildCount
    <2>6. new[ChildAt(slot)].nr = Cardinality(KeptUnder(new[node].slots[slot].id))
      BY <2>2, <2>3, <2>4, ChildCount
    <2>7. new[ChildAt(slot)].nr \in Nat
      BY <2>2, <2>6, KeptFinite, FS_CardinalityType DEF Inv
    <2>8. nr_free \in Nat /\ nr_free <= FAN_OUT - 1
      BY <2>1, <2>2, <2>3, <2>4, FreeSlots
    <2> QED
      BY <2>1, <2>3, <2>5, <2>7, <2>8, GcAssumption
  <1> QED
    BY <1>1, LeafInvariance, PTL

\* BUG_ON(next_slot >= FAN_OUT): each pointer of the child finds a free slot.
THEOREM FoldFindsRoom ==
  Spec => []~BugFull
  <1>1. Inv => ~BugFull
    <2> SUFFICES ASSUME Inv, BugFull PROVE FALSE
      OBVIOUS
    <2>1. pc = "fold" /\ i < FAN_OUT /\ new[cursor.id].slots[i].t = "leaf" /\ FreeFrom(next_slot) = FAN_OUT
      BY DEF BugFull
    <2>2. Live /\ WalkInv /\ Counting /\ pc \in Within
      BY <2>1 DEF Inv, WalkInv, Types, Live, Within
    <2>3. /\ new_n = node /\ next_slot \in 0 .. FAN_OUT /\ nr_free = Cardinality(Vacant)
          /\ i \in 0 .. FAN_OUT
      BY <2>1, <2>2, FilledNode DEF WalkInv, Place, Compressing, Folding
    <2>4. Vacant = {}
      <3>1. \A j \in next_slot .. FAN_OUT - 1 : new[node].slots[j] # NULL
        BY <2>1, <2>3, FirstFree
      <3>2. \A k \in Slot : k < next_slot => k \notin Vacant
        BY <2>1, <2>2 DEF Counting
      <3>3. \A k \in Slot : k < next_slot \/ k \in next_slot .. FAN_OUT - 1
        BY <2>3, GcAssumption DEF Slot
      <3> QED
        BY <3>1, <3>2, <3>3 DEF Vacant
    <2>5. nr_free = 0
      BY <2>3, <2>4, FS_EmptySet
    <2>6. Cardinality(Movable) \in Nat /\ IsFiniteSet(Movable)
      <3>1. Movable \in SUBSET Slot
        BY DEF Movable
      <3> QED
        BY <3>1, SlotsFinite
    <2>7. Cardinality(Movable) <= 0
      BY <2>1, <2>2, <2>5 DEF Counting
    <2>8. i \in Movable
      BY <2>1, <2>3, GcAssumption DEF Movable, Slot
    <2> QED
      BY <2>6, <2>7, <2>8, FS_EmptySet
  <1> QED
    BY <1>1, LeafInvariance, PTL

\* A child that is folded in has no more leaves below it than there are slots.
FoldsFew == Live /\ pc = "fold" => new[cursor.id].nr <= FAN_OUT

LEMMA FoldsFewNext ==
  ASSUME Inv, FoldsFew, [Next]_vars
  PROVE  FoldsFew'
  <1>1. CASE compress_fold
    <2>1. /\ pc = "compress" /\ pc' = "fold" /\ cursor' = NodePtr(ChildAt(slot)) /\ Fits(ChildAt(slot))
          /\ slot < FAN_OUT
      BY <1>1 DEF compress_fold
    <2>2. Live /\ WalkInv /\ Kinds /\ Finished /\ pc \in Within
      <3>1. Live
        BY <2>1 DEF Inv, WalkInv, Types, Live
      <3> QED
        BY <2>1, <3>1 DEF Inv, Within
    <2>3. PICK c : c = ChildAt(slot)
      OBVIOUS
    <2>4. /\ slot \in Slot /\ new_n = node /\ c # node /\ c \in DOMAIN old
          /\ c = new[node].slots[slot].id /\ new[node].slots[slot] = NodePtr(c)
      BY <1>1, <2>2, <2>3, FoldBeginEdits
    <2>5. is_meta(new[new_n].slots[slot])
      BY <2>4 DEF is_meta, NodePtr
    <2>6. new'[c] = new[c]
      BY <1>1, <2>2, <2>4, WithinKeeps DEF fold_end, compress_fold
    <2>7. new[c].nr = Cardinality(KeptUnder(c))
      BY <2>2, <2>3, <2>4, <2>5, ChildCount
    <2>8. new[c].nr \in Nat
      BY <2>2, <2>7, KeptFinite, FS_CardinalityType DEF Inv
    <2>9. nr_free \in Nat /\ nr_free <= FAN_OUT - 1
      BY <2>1, <2>2, <2>4, <2>5, FreeSlots
    <2>10. new[c].nr <= FAN_OUT
      BY <2>1, <2>3, <2>8, <2>9, GcAssumption DEF Fits
    <2>11. cursor'.id = c
      BY <2>1, <2>3 DEF NodePtr
    <2> QED
      BY <2>6, <2>10, <2>11 DEF FoldsFew
  <1>2. CASE fold
    <2>1. pc = "fold" /\ pc' = "fold" /\ cursor' = cursor
      BY <1>2 DEF fold, walkVars
    <2>2. Live /\ WalkInv
      <3>1. Live
        BY <2>1 DEF Inv, WalkInv, Types, Live
      <3> QED
        BY <3>1 DEF Inv
    <2>3. cursor.id \in DOMAIN old /\ cursor.id # node
      BY <1>2, <2>2, FoldEdits
    <2>4. new'[cursor.id] = new[cursor.id]
      BY <1>2, <2>1, <2>2, <2>3, WithinKeeps DEF fold_end
    <2> QED
      BY <2>1, <2>2, <2>4 DEF FoldsFew
  <1>3. CASE UNCHANGED vars
    BY <1>3, Zenon DEF vars, treeVars, walkVars, FoldsFew, Live
  <1>4. CASE assoc_array_gc \/ descend_shortcut \/ descend_node \/ continue_node \/ compress
    <2>1. pc' # "fold"
      BY <1>4 DEF assoc_array_gc, descend_shortcut, descend_node, continue_node, compress, enomem
    <2> QED
      BY <2>1 DEF FoldsFew
  <1>5. CASE compress_skip \/ compress_retain \/ fold_end \/ retry \/ gc_complete
    <2>1. pc' # "fold"
      BY <1>5 DEF compress_skip, compress_retain, fold_end, retry, gc_complete
    <2> QED
      BY <2>1 DEF FoldsFew
  <1>6. CASE excise_node \/ excise_shortcut \/ leave_node \/ ascend_old_tree \/ BUG_ON
    <2>1. pc' # "fold"
      BY <1>6 DEF excise_node, excise_shortcut, leave_node, ascend_old_tree, BUG_ON
    <2> QED
      BY <2>1 DEF FoldsFew
  <1> QED
    BY <1>1, <1>2, <1>3, <1>4, <1>5, <1>6, Zenon DEF Next

\* BUG_ON(assoc_array_ptr_is_meta(p)): in the patched program it can only fail for a
\* child with exactly as many leaves below it as it has slots.
THEOREM MetaFoldedOnlyWhenFull ==
  Spec => [](prog = "repro_fixed.c" /\ BugMeta => new[cursor.id].nr = FAN_OUT)
  <1>1. Inv /\ FoldsFew => (prog = "repro_fixed.c" /\ BugMeta => new[cursor.id].nr = FAN_OUT)
    <2> SUFFICES ASSUME Inv, FoldsFew, prog = "repro_fixed.c", BugMeta PROVE new[cursor.id].nr = FAN_OUT
      OBVIOUS
    <2>1. pc = "fold" /\ i < FAN_OUT /\ is_meta(new[cursor.id].slots[i])
      BY DEF BugMeta
    <2>2. Live
      BY <2>1 DEF Inv, WalkInv, Types, Live
    <2>3. WalkInv /\ Finished /\ Asked /\ pc \in Within /\ Folding
      BY <2>1, <2>2 DEF Inv, Within, WalkInv, Place
    <2>4. PICK c : c = cursor.id
      OBVIOUS
    <2>5. /\ c \in DOMAIN old /\ new[c].t = "node" /\ node \in Anc(array, c) /\ node # c /\ i \in Slot
          /\ IsArray(array) /\ old = array.heap /\ new_parent = NodePtr(node) /\ node \in DOMAIN old
      BY <2>1, <2>2, <2>3, <2>4, FilledNode, LiveTree, GcAssumption DEF Folding, Slot
    <2>6. Closed(c)
      <3>1. c \notin Anc(array, node)
        BY <2>5, AncOnce
      <3> QED
        BY <2>5, <3>1 DEF Closed, IsOpen, NodePtr, Allocated
    <2>7. FinishedAt(c)
      BY <2>3, <2>5, <2>6 DEF Finished
    <2>8. ~(new[c].nr < FAN_OUT)
      BY <2>1, <2>4, <2>5, <2>7 DEF FinishedAt
    <2>9. new[c].nr \in Nat
      BY <2>2, <2>3, <2>5, <2>7, KeptFinite, FS_CardinalityType DEF FinishedAt
    <2> QED
      BY <2>1, <2>2, <2>4, <2>8, <2>9, GcAssumption DEF FoldsFew
  <1>2. Init => FoldsFew
    BY DEF Init, FoldsFew, Live
  <1>3. Inv /\ FoldsFew /\ [Next]_vars => FoldsFew'
    BY FoldsFewNext
  <1> QED
    BY <1>1, <1>2, <1>3, LeafInvariance, PTL DEF Spec

-----------------------------------------------------------------------------
(* The finished array.                                                     *)

\* The leaves below an object are those kept of the leaves at home below it.
LEMMA LeavesBelow ==
  ASSUME WalkInv, Live, ShapeInv, Asked, Housed, pc \notin {"descend", "fold"},
         NEW x \in DOMAIN old, Allocated(x)
  PROVE  /\ {new[q[1]].slots[q[2]] : q \in LeafPlaces(x)} = KeptUnder(x)
         /\ Cardinality(LeafPlaces(x)) = Cardinality(KeptUnder(x))
  <1> DEFINE P == LeafPlaces(x)
             f == [q \in P |-> new[q[1]].slots[q[2]]]
  <1>1. From(x) = {y \in DOMAIN old : Allocated(y) /\ x \in Anc(array, y)}
    BY FromBelow
  <1>2. IsArray(array) /\ old = array.heap /\ \A y : ~Detached(y)
    BY LiveTree DEF Detached
  <1>3. \A q : q \in P <=> /\ q \in (DOMAIN old) \X Slot /\ NewLeaf(q[1], q[2])
                           /\ x \in Anc(array, q[1])
    BY <1>1, <1>2 DEF LeafPlaces, NewLeaf, Allocated
  <1>4. ASSUME NEW q \in P PROVE new[q[1]].slots[q[2]] \in KeptUnder(x)
    <2>1. q[1] \in DOMAIN old /\ q[2] \in Slot /\ NewLeaf(q[1], q[2]) /\ x \in Anc(array, q[1])
      BY <1>3
    <2>2. PICK l : l = new[q[1]].slots[q[2]]
      OBVIOUS
    <2>3. l \in KeptUnder(q[1])
      BY <2>1, <2>2, LeafUnder
    <2>4. PICK y, k : q[1] \in Anc(array, y) /\ HoldsLeaf(array, y, k, l)
      BY <2>3 DEF KeptUnder
    <2>5. x \in Anc(array, y)
      BY <1>2, <2>1, <2>4, AncTrans DEF HoldsLeaf, IsNode
    <2> QED
      BY <2>2, <2>3, <2>4, <2>5 DEF KeptUnder
  <1>5. ASSUME NEW l \in KeptUnder(x) PROVE \E q \in P : new[q[1]].slots[q[2]] = l
    <2>1. PICK y \in DOMAIN old, k \in Slot : NewLeaf(y, k) /\ new[y].slots[k] = l
      BY DEF Housed, KeptUnder
    <2>2. PICK z, m : HoldsLeaf(array, z, m, l) /\ Settled(y, z)
      BY <2>1 DEF Housed
    <2>3. x \in Anc(array, z) /\ new[x] # Freed
      BY <2>2, HomeUnder DEF Allocated, Freed
    <2>4. x \in Anc(array, y)
      BY <1>2, <2>2, <2>3 DEF Settled
    <2>5. <<y, k>> \in P
      BY <1>3, <2>1, <2>4
    <2> QED
      BY <2>1, <2>5
  <1>6. \A q, r \in P : f[q] = f[r] => q = r
    <2> SUFFICES ASSUME NEW q \in P, NEW r \in P, f[q] = f[r] PROVE q = r
      OBVIOUS
    <2>1. /\ q \in (DOMAIN old) \X Slot /\ r \in (DOMAIN old) \X Slot
          /\ NewLeaf(q[1], q[2]) /\ NewLeaf(r[1], r[2])
          /\ new[q[1]].slots[q[2]] = new[r[1]].slots[r[2]]
      BY <1>3
    <2>2. q[1] = r[1] /\ q[2] = r[2]
      BY <2>1 DEF Housed
    <2> QED
      BY <2>1, <2>2
  <1>7. f \in [P -> KeptUnder(x)] /\ IsFiniteSet(KeptUnder(x)) /\ \A q \in P : f[q] = new[q[1]].slots[q[2]]
    BY <1>4, KeptFinite
  <1>8. \A l \in KeptUnder(x) : \E q \in P : f[q] = l
    BY <1>5, <1>7
  <1>9. {new[q[1]].slots[q[2]] : q \in P} = KeptUnder(x)
    BY <1>4, <1>5
  <1>10. Cardinality(P) = Cardinality(KeptUnder(x))
    <2> HIDE DEF P, f
    <2> QED
      BY <1>6, <1>7, <1>8, SameSize
  <1> QED
    BY <1>9, <1>10

\* When the collection is over.
LEMMA Over ==
  ASSUME Inv, Collected
  PROVE  /\ WalkInv /\ Live /\ ShapeInv /\ Asked /\ Housed /\ Finished
         /\ pc \notin {"descend", "fold"} /\ pc \notin Walking
         /\ result = [root |-> new_root, nr |-> Cardinality(kept)]
         /\ result.root.id \in DOMAIN old /\ Allocated(result.root.id)
         /\ \A y \in DOMAIN old : Allocated(y) => result.root.id \in Anc(array, y)
         /\ From(result.root.id) = {y \in DOMAIN old : Allocated(y)}
         /\ \A x \in DOMAIN old : Allocated(x) => FinishedAt(x)
         /\ \A y, k : ~Waits(y, k)
  <1>1. pc = "done" /\ Live
    BY DEF Collected, Live
  <1>2. /\ WalkInv /\ ShapeInv /\ Asked /\ Housed /\ Finished /\ Counting
        /\ pc \notin {"descend", "fold"} /\ pc \notin Walking /\ pc \notin Within
    BY <1>1 DEF Inv, Walking, Within
  <1>3. result = [root |-> new_root, nr |-> Cardinality(kept)]
    BY <1>1, <1>2 DEF Counting
  <1>4. /\ result.root.id \in DOMAIN old /\ Allocated(result.root.id)
        /\ \A y \in DOMAIN old : Allocated(y) => result.root.id \in Anc(array, y)
    BY <1>1, <1>2, <1>3, RootAbove
  <1>5. From(result.root.id) = {y \in DOMAIN old : Allocated(y)}
    BY <1>1, <1>2, <1>4, FromBelow
  <1>6. \A x \in DOMAIN old : Allocated(x) => FinishedAt(x)
    BY <1>2 DEF Finished, Closed, IsOpen
  <1>7. \A y, k : ~Waits(y, k)
    BY <1>1 DEF Waits, Within
  <1> QED
    BY <1>1, <1>2, <1>3, <1>4, <1>5, <1>6, <1>7

\* The new array holds each leaf kept exactly once and no other, its count says how
\* many, and no leaf of the old one is lost without having been given up.
THEOREM KeepsExactlyOnce ==
  Spec => []KeptExactlyOnce
  <1>1. Inv => KeptExactlyOnce
    <2> SUFFICES ASSUME Inv, Collected
                 PROVE  /\ {new[q[1]].slots[q[2]] : q \in LeafPlaces(result.root.id)} = kept
                        /\ Cardinality(LeafPlaces(result.root.id)) = Cardinality(kept)
                        /\ OldLeaves \ kept = dropped
                        /\ result.nr = Cardinality(kept)
      BY DEF KeptExactlyOnce
    <2> DEFINE r == result.root.id
    <2>1. /\ WalkInv /\ Live /\ ShapeInv /\ Asked /\ Housed /\ pc \notin {"descend", "fold"}
          /\ r \in DOMAIN old /\ Allocated(r) /\ \A y \in DOMAIN old : Allocated(y) => r \in Anc(array, y)
          /\ result.nr = Cardinality(kept) /\ \A y, k : ~Waits(y, k)
      BY Over
    <2>2. IsArray(array) /\ old = array.heap
      BY <2>1, LiveTree
    <2>3. KeptUnder(r) = kept
      <3>1. ASSUME NEW l \in kept PROVE l \in KeptUnder(r)
        <4>1. PICK y \in DOMAIN old, k \in Slot : NewLeaf(y, k) /\ new[y].slots[k] = l
          BY <2>1 DEF Housed
        <4>2. l \in KeptUnder(y) /\ r \in Anc(array, y)
          BY <2>1, <4>1, LeafUnder DEF NewLeaf, Allocated
        <4>3. PICK z, m : y \in Anc(array, z) /\ HoldsLeaf(array, z, m, l)
          BY <4>2 DEF KeptUnder
        <4>4. r \in Anc(array, z)
          BY <2>2, <4>2, <4>3, AncTrans DEF HoldsLeaf, IsNode
        <4> QED
          BY <4>3, <4>4 DEF KeptUnder
      <3> QED
        BY <3>1 DEF KeptUnder
    <2>4. /\ {new[q[1]].slots[q[2]] : q \in LeafPlaces(r)} = KeptUnder(r)
          /\ Cardinality(LeafPlaces(r)) = Cardinality(KeptUnder(r))
      BY <2>1, LeavesBelow
    <2>5. \A l : l \in OldLeaves <=> \E x, k : HoldsLeaf(array, x, k, l)
      BY <2>2 DEF OldLeaves, HoldsLeaf, IsNode
    <2>6. \A x, k, l : HoldsLeaf(array, x, k, l) => Passed(x, k)
      <3>1. \A x \in DOMAIN old : new[x] # Absent
        BY <2>1 DEF WalkInv, Opened, Unvisited, Collected
      <3> QED
        BY <2>1, <2>2, <3>1 DEF Passed, HoldsLeaf, IsNode
    <2>7. OldLeaves \ kept = dropped
      BY <2>1, <2>5, <2>6 DEF Asked
    <2> QED
      BY <2>1, <2>3, <2>4, <2>7
  <1> QED
    BY <1>1, LeafInvariance, PTL

\* In the new array back pointers and parent slots lead to the pointer they are for, and
\* each node counts the leaves below it.
THEOREM LinkedAndCounted ==
  Spec => []LinksAndCounts
  <1>1. Inv => LinksAndCounts
    <2> SUFFICES ASSUME Inv, Collected, NEW x \in From(result.root.id)
                 PROVE  /\ IF x = result.root.id THEN NewUp(x) = NULL
                           ELSE IF is_shortcut(NewUp(x)) THEN new[NewUp(x).id].next_node.id = x
                           ELSE new[NewUp(x).id].slots[new[x].parent_slot] = [t |-> new[x].t, id |-> x]
                        /\ new[x].t = "node" => new[x].nr = Cardinality(LeafPlaces(x))
      BY DEF LinksAndCounts, NewUp
    <2>1. /\ WalkInv /\ Live /\ ShapeInv /\ Asked /\ Housed /\ pc \notin {"descend", "fold"}
          /\ x \in DOMAIN old /\ Allocated(x) /\ FinishedAt(x) /\ result.root = new_root
      BY Over
    <2>2. PointedTo(new, new_root, x)
      BY <2>1, ShapeOf DEF Detached
    <2>3. NewUp(new_root.id) = NULL
      BY <2>1 DEF ShapeInv, Leads, NewUp
    <2>4. x # new_root.id => NewUp(x) # NULL
      BY <2>2 DEF PointedTo, NewUp
    <2>5. x # new_root.id =>
            IF is_shortcut(NewUp(x)) THEN new[NewUp(x).id].next_node.id = x
            ELSE new[NewUp(x).id].slots[new[x].parent_slot] = [t |-> new[x].t, id |-> x]
      BY <2>2, <2>4 DEF PointedTo, NewUp
    <2>6. new[x].t = "node" => new[x].nr = Cardinality(LeafPlaces(x))
      BY <2>1, LeavesBelow DEF FinishedAt
    <2> QED
      BY <2>1, <2>3, <2>5, <2>6
  <1> QED
    BY <1>1, LeafInvariance, PTL

\* In the patched program a node of the new array with room to spare holds only leaves,
\* and has no shortcut before it.
THEOREM PatchedIsCompact ==
  Spec => []Compact
  <1>1. Inv => Compact
    <2> SUFFICES ASSUME Inv, Collected, prog = "repro_fixed.c", NEW x \in From(result.root.id),
                        new[x].t = "node", new[x].nr < FAN_OUT
                 PROVE  Below(x) = {} /\ ~is_shortcut(NewUp(x))
      BY DEF Compact, NewUp
    <2>1. /\ WalkInv /\ Live /\ ShapeInv /\ x \in DOMAIN old /\ Allocated(x) /\ FinishedAt(x) /\ Asked
          /\ \A y \in DOMAIN old : Allocated(y) => FinishedAt(y)
          /\ pc \notin {"descend", "fold"}
      BY Over
    <2>2. Below(x) = {}
      BY <2>1 DEF FinishedAt, Below
    <2>3. ASSUME is_shortcut(NewUp(x)) PROVE FALSE
      <3>1. PICK s : s = NewUp(x).id
        OBVIOUS
      <3>2. NewUp(x).t = "shortcut" /\ NewUp(x) # NULL
        BY <2>3 DEF is_shortcut, NULL
      <3>3. s \in DOMAIN old /\ new[s].t = "shortcut" /\ Allocated(s) /\ PointedTo(new, new_root, x)
        BY <2>1, <3>1, <3>2, ShapeOf DEF Detached
      <3>4. new[s].next_node = [t |-> new[x].t, id |-> x]
        BY <2>3, <3>1, <3>2, <3>3 DEF PointedTo, NewUp
      <3>5. new[x].nr > FAN_OUT
        BY <2>1, <3>3, <3>4 DEF FinishedAt
      <3>6. new[x].nr \in Nat
        BY <2>1, KeptFinite, FS_CardinalityType DEF FinishedAt
      <3> QED
        BY <3>5, <3>6, GcAssumption
    <2> QED
      BY <2>2, <2>3
  <1> QED
    BY <1>1, LeafInvariance, PTL

\* Collecting an array without shortcuts, the only ones the program can print, leaves
\* one without.
THEOREM BringsNoShortcut ==
  Spec => [](Collected /\ (\A x \in DOMAIN old : old[x].t = "node") =>
               \A x \in From(result.root.id) : new[x].t = "node")
  <1>1. Inv => (Collected /\ (\A x \in DOMAIN old : old[x].t = "node") =>
                  \A x \in From(result.root.id) : new[x].t = "node")
    <2> SUFFICES ASSUME Inv, Collected, \A x \in DOMAIN old : old[x].t = "node",
                        NEW x \in From(result.root.id)
                 PROVE  new[x].t = "node"
      OBVIOUS
    <2>1. x \in DOMAIN old /\ Allocated(x)
      BY Over
    <2>2. Kinds
      BY DEF Inv, Collected, Live
    <2> QED
      BY <2>1, <2>2 DEF Kinds
  <1> QED
    BY <1>1, LeafInvariance, PTL

=============================================================================
