-------------------------------- MODULE RbTree --------------------------------
(***************************************************************************)
(* The red-black tree of rbtree.c and the walks of sshinner_s_data.c, as   *)
(* operators on a record of pointers: a node is its key, and what C does   *)
(* with rb_left and rb_right in two mirrored branches is written once, for *)
(* a side d.                                                               *)
(*                                                                         *)
(* Reading a field of Nil, a NULL dereference, is an error to TLC.         *)
(***************************************************************************)
EXTENDS Integers, FiniteSets

CONSTANTS Nodes,    \* the keys, which memcmp orders as integers
          Nil

ASSUME NodesAssumption == Nodes \subseteq Int /\ IsFiniteSet(Nodes)
ASSUME NilAssumption   == Nil \notin Nodes

Sides == {"left", "right"}
Other(d) == IF d = "left" THEN "right" ELSE "left"

Pointers == Nodes \cup {Nil}
Trees == [root : Pointers, parent : [Nodes -> Pointers], red : [Nodes -> BOOLEAN],
          kid : [Nodes -> [Sides -> Pointers]]]

Leaf  == [d \in Sides |-> Nil]
Empty == [root |-> Nil, parent |-> [n \in Nodes |-> Nil], red |-> [n \in Nodes |-> FALSE],
          kid |-> [n \in Nodes |-> Leaf]]

IsRed(t, n) == n # Nil /\ t.red[n]

\* Where a key belongs that is not n's.
SideOf(key, n) == IF key < n THEN "left" ELSE "right"

\* A loop of the code goes up or down the tree from s, so it has no more rounds
\* than there are nodes, and then a round changes nothing.
Loop(Round(_), s) ==
    LET run[k \in Nat] == IF k = 0 THEN s ELSE Round(run[k - 1])
    IN  run[Cardinality(Nodes)]

-----------------------------------------------------------------------------
(* Pointer surgery.                                                        *)

\* rb_set_parent_color, for a node that may be missing
SetParentColor(t, n, p, isRed) ==
    IF n = Nil THEN t ELSE [t EXCEPT !.parent[n] = p, !.red[n] = isRed]

SetParent(t, n, p) == IF n = Nil THEN t ELSE [t EXCEPT !.parent[n] = p]

\* n takes over the place and the colour of old: __rb_parent_color is copied
Inherit(t, n, old) == SetParentColor(t, n, t.parent[old], t.red[old])

\* __rb_change_child
ChangeChild(t, old, new, p) ==
    IF p = Nil THEN [t EXCEPT !.root = new]
    ELSE [t EXCEPT !.kid[p][IF t.kid[p]["left"] = old THEN "left" ELSE "right"] = new]

\* Faulty: the tree above is not told of its new child.
RotateSetParentsOnly(t, old, new, isRed) == SetParentColor(Inherit(t, new, old), old, new, isRed)

\* __rb_rotate_set_parents
RotateSetParents(t, old, new, isRed) ==
    ChangeChild(SetParentColor(Inherit(t, new, old), old, new, isRed),
                old, new, t.parent[old])

\* new, the d-child of old, gives old its inner child and takes old as a child.
Swing(t, old, new, d) ==
    LET inner == t.kid[new][Other(d)] IN
    SetParent([t EXCEPT !.kid[old][d] = inner, !.kid[new][Other(d)] = old], inner, old)

\* A rotation that finds the inner child black, or paints it black.
SwingBlack(t, old, new, d) ==
    SetParentColor(Swing(t, old, new, d), t.kid[new][Other(d)], old, FALSE)

-----------------------------------------------------------------------------
(* Insertion.                                                              *)

\* Case 3 of __rb_insert: rotate at gparent.
InsertRotate(t, gparent, parent, d) ==
    RotateSetParents(SwingBlack(t, gparent, parent, d), gparent, parent, TRUE)

\* Faulty: an inner grandchild is taken for an outer one, without case 2.
InsertTurnOuter(t, node, parent, gparent, d) == InsertRotate(t, gparent, parent, d)

\* Cases 2 and 3: an inner grandchild first changes places with its parent.
InsertTurn(t, node, parent, gparent, d) ==
    IF node = t.kid[parent][Other(d)]
      THEN InsertRotate(SetParentColor(SwingBlack(t, parent, node, Other(d)), parent, node, TRUE),
                        gparent, node, d)
      ELSE InsertRotate(t, gparent, parent, d)

\* A round of __rb_insert, which is done when s.node is Nil: case 1 flips colours
\* and goes on at gparent.
InsertRound(s) ==
    LET t       == s.tree
        node    == s.node
        parent  == t.parent[node]
        gparent == t.parent[parent]
        d       == IF parent # t.kid[gparent]["right"] THEN "left" ELSE "right"
        uncle   == t.kid[gparent][Other(d)]
        flipped == SetParentColor(SetParentColor(t, uncle, gparent, FALSE),
                                  parent, gparent, FALSE)
    IN IF node = Nil THEN s
       ELSE IF parent = Nil
         THEN [tree |-> SetParentColor(t, node, Nil, FALSE), node |-> Nil]
       ELSE IF ~t.red[parent] THEN [tree |-> t, node |-> Nil]
       ELSE IF IsRed(t, uncle)
         THEN [tree |-> SetParentColor(flipped, gparent, t.parent[gparent], TRUE),
               node |-> gparent]
       ELSE [tree |-> InsertTurn(t, node, parent, gparent, d), node |-> Nil]

\* rb_insert_color
InsertColor(t, node) == Loop(InsertRound, [tree |-> t, node |-> node]).tree

\* The walk of ss_uuid_search and ss_uuid_insert: at is the node with the key or
\* Nil, parent the last node before it.
Descend(t, key) ==
    Loop(LAMBDA w : IF w.at \in {Nil, key} THEN w
                    ELSE [at |-> t.kid[w.at][SideOf(key, w.at)], parent |-> w.at],
         [at |-> t.root, parent |-> Nil])

\* ss_uuid_search succeeds
Found(t, key) == Descend(t, key).at = key

\* rb_link_node
Link(t, key, parent) ==
    LET fresh == [t EXCEPT !.parent[key] = parent, !.red[key] = TRUE, !.kid[key] = Leaf]
    IN  IF parent = Nil THEN [fresh EXCEPT !.root = key]
        ELSE [fresh EXCEPT !.kid[parent][SideOf(key, parent)] = key]

\* ss_uuid_insert
Insert(t, key) ==
    IF Found(t, key) THEN t
    ELSE InsertColor(Link(t, key, Descend(t, key).parent), key)

-----------------------------------------------------------------------------
(* Removal.                                                                *)

\* Case 4 of ____rb_erase_color: rotate at parent, the outer child turns black.
EraseRotate(t, parent, sibling, outer, d) ==
    RotateSetParents(SetParentColor(Swing(t, parent, sibling, Other(d)), outer, sibling, FALSE),
                     parent, sibling, FALSE)

\* Cases 3 and 4: an inner red nephew first changes places with the sibling.
EraseTurn(t, parent, sibling, d) ==
    LET outer == t.kid[sibling][Other(d)]
        inner == t.kid[sibling][d]
    IN IF IsRed(t, outer) THEN EraseRotate(t, parent, sibling, outer, d)
       ELSE EraseRotate([SwingBlack(t, sibling, inner, d) EXCEPT !.kid[parent][Other(d)] = inner],
                        parent, inner, sibling, d)

\* Case 1: a red sibling is rotated above parent.
EraseSibling(t, parent, sibling, d) ==
    IF t.red[sibling]
      THEN RotateSetParents(SwingBlack(t, parent, sibling, Other(d)), parent, sibling, TRUE)
      ELSE t

\* A round of ____rb_erase_color, which is done when s.parent is Nil: paths through
\* s.node lack one black node.
EraseRound(s) ==
    LET parent  == s.parent
        d       == IF s.node # s.tree.kid[parent]["right"] THEN "left" ELSE "right"
        t       == EraseSibling(s.tree, parent, s.tree.kid[parent][Other(d)], d)
        sibling == t.kid[parent][Other(d)]
        flipped == SetParentColor(t, sibling, parent, TRUE)
    IN IF parent = Nil THEN s
       ELSE IF \E e \in Sides : IsRed(t, t.kid[sibling][e])
         THEN [tree |-> EraseTurn(t, parent, sibling, d), node |-> Nil, parent |-> Nil]
       ELSE IF t.red[parent]
         THEN [tree |-> [flipped EXCEPT !.red[parent] = FALSE], node |-> Nil, parent |-> Nil]
       ELSE [tree |-> flipped, node |-> parent, parent |-> t.parent[parent]]

\* ____rb_erase_color
EraseColor(t, parent) ==
    Loop(EraseRound, [tree |-> t, node |-> Nil, parent |-> parent]).tree

Leftmost(t, n) ==
    Loop(LAMBDA m : IF t.kid[m]["left"] = Nil THEN m ELSE t.kid[m]["left"], n)

\* Cases 2 and 3 of __rb_erase_augmented: n's successor leaves its place to its
\* right child.
Promote(t, n, successor) ==
    LET child  == t.kid[n]["right"]
        above  == t.parent[successor]
        orphan == t.kid[successor]["right"]
    IN IF successor = child THEN t
       ELSE SetParent([t EXCEPT !.kid[above]["left"] = orphan,
                                !.kid[successor]["right"] = child], child, successor)

\* Then the successor takes n's place, links and colour; the colour that leaves
\* the tree is the successor's.
UnlinkInner(t, n) ==
    LET child     == t.kid[n]["right"]
        successor == Leftmost(t, child)
        parent    == IF successor = child THEN successor ELSE t.parent[successor]
        orphan    == t.kid[successor]["right"]
        moved     == SetParent([Promote(t, n, successor) EXCEPT
                                   !.kid[successor]["left"] = t.kid[n]["left"]],
                               t.kid[n]["left"], successor)
        placed    == Inherit(ChangeChild(moved, n, successor, t.parent[n]), successor, n)
    IN [tree |-> SetParentColor(placed, orphan, parent, FALSE),
        rebalance |-> IF orphan = Nil /\ ~t.red[successor] THEN parent ELSE Nil]

\* Case 1: n has at most one child, which takes its place and colour.
UnlinkOuter(t, n) ==
    LET child == t.kid[n][IF t.kid[n]["left"] = Nil THEN "right" ELSE "left"]
    IN [tree |-> ChangeChild(Inherit(t, child, n), n, child, t.parent[n]),
        rebalance |-> IF child = Nil /\ ~t.red[n] THEN t.parent[n] ELSE Nil]

\* rb_erase.  The node is freed: its fields are forgotten.
Erase(t, n) ==
    LET cut  == IF Nil \in {t.kid[n][d] : d \in Sides} THEN UnlinkOuter(t, n)
                ELSE UnlinkInner(t, n)
    IN [EraseColor(cut.tree, cut.rebalance) EXCEPT !.parent[n] = Nil, !.red[n] = FALSE, !.kid[n] = Leaf]

-----------------------------------------------------------------------------
(* What a tree has to be, by the comment of rbtree.c.                      *)

\* The nodes below n, with n.
Below(t, n) ==
    LET below[m \in Pointers] ==
            IF m = Nil THEN {} ELSE {m} \cup UNION {below[t.kid[m][d]] : d \in Sides}
    IN  below[n]

\* 5) Black nodes on a path from n to a leaf: one number, if the rule holds.
BlackHeights(t, n) ==
    LET heights[m \in Pointers] ==
            IF m = Nil THEN {0}
            ELSE LET under == UNION {heights[t.kid[m][d]] : d \in Sides}
                 IN  IF t.red[m] THEN under ELSE {h + 1 : h \in under}
    IN  heights[n]

IsRedBlack(t) ==
    /\ ~IsRed(t, t.root)
    /\ \A n \in Below(t, t.root) :
          t.red[n] => \A d \in Sides : ~IsRed(t, t.kid[n][d])
    /\ Cardinality(BlackHeights(t, t.root)) = 1

\* Every node is where a walk looks for it, and knows its parent.
IsOrdered(t) ==
    /\ t.root # Nil => t.parent[t.root] = Nil
    /\ \A n \in Below(t, t.root) :
          /\ \A m \in Below(t, t.kid[n]["left"])  : m < n
          /\ \A m \in Below(t, t.kid[n]["right"]) : m > n
          /\ \A d \in Sides : t.kid[n][d] # Nil => t.parent[t.kid[n][d]] = n
=============================================================================
