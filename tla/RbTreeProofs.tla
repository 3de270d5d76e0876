----------------------------- MODULE RbTreeProofs -----------------------------
(***************************************************************************)
(* Proofs about RbTree, for any finite set of keys: insertion and removal  *)
(* keep the tree a red-black tree in order, add and take their key, and a  *)
(* search finds the keys that are in it.                                   *)
(*                                                                         *)
(* What a tree has to be is said node by node, with witnesses in place of  *)
(* recursion: sub[n] is the set of nodes below n (Shaped), h[n] the number *)
(* of black nodes on the paths from n to a leaf (Balanced), and no red     *)
(* node has a red child (Colored); with a black root the tree is Valid.    *)
(* While a tree is rebalanced exactly one of these has one exception: at   *)
(* node, red below a red parent (Unsettled), or at the paths through one   *)
(* child of parent, which lack one black node (Lacking).  A round of       *)
(* __rb_insert or ____rb_erase_color removes the exception, or moves it to *)
(* a node with more nodes below it, and there are only so many nodes: so   *)
(* the loops end (LoopEnds), and end with a valid tree.                    *)
(***************************************************************************)
EXTENDS RbTree, FiniteSetTheorems, WellFoundedInduction, TLAPS

-----------------------------------------------------------------------------
(* Fields of a tree, and what the pointer surgery does to them.            *)

\* Fields of a tree, which the provers take as they are.
Root(t)      == t.root
Par(t, n)    == t.parent[n]
Kid(t, n, d) == t.kid[n][d]

SetKid(t, n, d, k) == [t EXCEPT !.kid[n][d] = k]

\* There are two sides.
LEMMA OtherSide ==
    \A d \in Sides : /\ Other(d) \in Sides /\ Other(d) # d /\ Other(Other(d)) = d
                     /\ \A e \in Sides : e = d \/ e = Other(d)
  BY DEF Sides, Other

\* The fields of a tree are pointers.
LEMMA Typed ==
    ASSUME NEW t \in Trees
    PROVE  /\ Root(t) \in Pointers
           /\ \A n \in Nodes : Par(t, n) \in Pointers /\ \A d \in Sides : Kid(t, n, d) \in Pointers
  BY DEF Trees, Root, Par, Kid

\* Nil is the pointer that is no node.
LEMMA NodePointers ==
    /\ Nil \in Pointers /\ Nil \notin Nodes
    /\ \A n : n \in Pointers <=> n = Nil \/ n \in Nodes
  BY NilAssumption DEF Pointers

\* Pointers of t2 are those of t, but the parent of n is p.
Moved(t, t2, n, p) ==
    /\ t2 \in Trees /\ Root(t2) = Root(t)
    /\ \A x \in Nodes : \A d \in Sides : Kid(t2, x, d) = Kid(t, x, d)
    /\ Par(t2, n) = p /\ \A x \in Nodes \ {n} : Par(t2, x) = Par(t, x)

\* Pointers of t2 are those of t, but the d-child of n is k.
Hung(t, t2, n, d, k) ==
    /\ t2 \in Trees /\ Root(t2) = Root(t)
    /\ Kid(t2, n, d) = k /\ Kid(t2, n, Other(d)) = Kid(t, n, Other(d))
    /\ \A x \in Nodes \ {n} : \A f \in Sides : Kid(t2, x, f) = Kid(t, x, f)
    /\ \A x \in Nodes : Par(t2, x) = Par(t, x)

\* Pointers of t2 are those of t, but the root is r.
Rooted(t, t2, r) ==
    /\ t2 \in Trees /\ Root(t2) = r
    /\ \A x \in Nodes : \A d \in Sides : Kid(t2, x, d) = Kid(t, x, d)
    /\ \A x \in Nodes : Par(t2, x) = Par(t, x)

\* Nodes outside S have the colour they had.
SameColors(t, t2, S) == \A x \in Nodes \ S : IsRed(t2, x) <=> IsRed(t, x)

\* rb_set_parent_color changes the parent and the colour of one node.
LEMMA Painted ==
    ASSUME NEW t \in Trees, NEW n \in Nodes, NEW p \in Pointers, NEW c \in BOOLEAN,
           NEW t2, t2 = SetParentColor(t, n, p, c)
    PROVE  Moved(t, t2, n, p) /\ SameColors(t, t2, {n}) /\ (IsRed(t2, n) <=> c)
<1>1. n # Nil
  BY NilAssumption
<1>2. t2 = [t EXCEPT !.parent[n] = p, !.red[n] = c]
  BY <1>1 DEF SetParentColor
<1>3. t2 \in Trees
  <2>1. t2 = [root |-> t.root, parent |-> [t.parent EXCEPT ![n] = p],
              red |-> [t.red EXCEPT ![n] = c], kid |-> t.kid]
    BY <1>2 DEF Trees
  <2>2. /\ t.root \in Pointers /\ t.kid \in [Nodes -> [Sides -> Pointers]]
        /\ [t.parent EXCEPT ![n] = p] \in [Nodes -> Pointers]
        /\ [t.red EXCEPT ![n] = c] \in [Nodes -> BOOLEAN]
    BY DEF Trees
  <2> QED
    BY <2>1, <2>2 DEF Trees
<1>4. Root(t2) = Root(t) /\ \A x \in Nodes : \A d \in Sides : Kid(t2, x, d) = Kid(t, x, d)
  BY <1>2 DEF Trees, Root, Kid
<1>5. Par(t2, n) = p /\ \A x \in Nodes \ {n} : Par(t2, x) = Par(t, x)
  BY <1>2 DEF Trees, Par
<1>6. t2.red[n] = c /\ \A x \in Nodes \ {n} : t2.red[x] = t.red[x]
  BY <1>2 DEF Trees
<1>7. SameColors(t, t2, {n}) /\ (IsRed(t2, n) <=> c)
  BY <1>1, <1>6 DEF IsRed, SameColors
<1>8. Moved(t, t2, n, p)
  BY <1>3, <1>4, <1>5 DEF Moved
<1> QED
  BY <1>7, <1>8

\* The same, for red.
LEMMA PaintedRed ==
    ASSUME NEW t \in Trees, NEW n \in Nodes, NEW p \in Pointers,
           NEW t2, t2 = SetParentColor(t, n, p, TRUE)
    PROVE  Moved(t, t2, n, p) /\ SameColors(t, t2, {n}) /\ IsRed(t2, n)
  BY Painted

\* The same, for black.
LEMMA PaintedBlack ==
    ASSUME NEW t \in Trees, NEW n \in Nodes, NEW p \in Pointers,
           NEW t2, t2 = SetParentColor(t, n, p, FALSE)
    PROVE  Moved(t, t2, n, p) /\ SameColors(t, t2, {n}) /\ ~IsRed(t2, n)
  BY Painted

\* rb_set_parent changes the parent of one node.
LEMMA Reparented ==
    ASSUME NEW t \in Trees, NEW n \in Nodes, NEW p \in Pointers,
           NEW t2, t2 = SetParent(t, n, p)
    PROVE  Moved(t, t2, n, p) /\ SameColors(t, t2, {})
<1>1. t2 = [t EXCEPT !.parent[n] = p]
  BY NilAssumption DEF SetParent
<1>2. t2 \in Trees
  <2>1. [t.parent EXCEPT ![n] = p] \in [Nodes -> Pointers]
    BY DEF Trees
  <2>2. t2 = [t EXCEPT !.parent = [t.parent EXCEPT ![n] = p]]
    BY <1>1
  <2> QED
    BY <2>1, <2>2 DEF Trees
<1>3. Root(t2) = Root(t) /\ \A x \in Nodes : \A d \in Sides : Kid(t2, x, d) = Kid(t, x, d)
  BY <1>1 DEF Trees, Root, Kid
<1>4. Par(t2, n) = p /\ \A x \in Nodes \ {n} : Par(t2, x) = Par(t, x)
  BY <1>1 DEF Trees, Par
<1>5. t2.red = t.red
  BY <1>1 DEF Trees
<1> QED
  BY <1>2, <1>3, <1>4, <1>5 DEF IsRed, Moved, SameColors

\* An assignment to rb_left or rb_right changes one child.
LEMMA KidSet ==
    ASSUME NEW t \in Trees, NEW n \in Nodes, NEW d \in Sides, NEW k \in Pointers,
           NEW t2, t2 = SetKid(t, n, d, k)
    PROVE  Hung(t, t2, n, d, k) /\ SameColors(t, t2, {})
<1>1. t2 \in Trees
  BY DEF Trees, SetKid
<1>2. Root(t2) = Root(t) /\ t2.parent = t.parent /\ t2.red = t.red
  BY DEF Trees, SetKid, Root
<1>3. Kid(t2, n, d) = k /\ Kid(t2, n, Other(d)) = Kid(t, n, Other(d))
  BY OtherSide DEF Trees, SetKid, Kid
<1>4. \A x \in Nodes \ {n} : \A f \in Sides : Kid(t2, x, f) = Kid(t, x, f)
  BY DEF Trees, SetKid, Kid
<1>5. SameColors(t, t2, {})
  BY <1>2 DEF IsRed, SameColors
<1> QED
  BY <1>1, <1>2, <1>3, <1>4, <1>5 DEF Par, Hung

\* __rb_change_child, of a node that is one child of its parent
LEMMA ChildChanged ==
    ASSUME NEW t \in Trees, NEW old \in Nodes, NEW new \in Pointers, NEW p \in Nodes,
           NEW d \in Sides, Kid(t, p, d) = old, Kid(t, p, Other(d)) # old,
           NEW t2, t2 = ChangeChild(t, old, new, p)
    PROVE  Hung(t, t2, p, d, new) /\ SameColors(t, t2, {})
<1>1. p # Nil
  BY NilAssumption
<1>2. d = IF t.kid[p]["left"] = old THEN "left" ELSE "right"
  BY DEF Sides, Other, Kid
<1>3. t2 = SetKid(t, p, d, new)
  BY <1>1, <1>2 DEF ChangeChild, SetKid
<1> QED
  BY <1>3, KidSet

\* __rb_change_child without a parent changes the root.
LEMMA RootChanged ==
    ASSUME NEW t \in Trees, NEW old \in Nodes, NEW new \in Pointers,
           NEW t2, t2 = ChangeChild(t, old, new, Nil)
    PROVE  Rooted(t, t2, new) /\ SameColors(t, t2, {})
<1>1. t2 = [t EXCEPT !.root = new]
  BY DEF ChangeChild
<1>2. t2 \in Trees /\ t2.root = new /\ t2.parent = t.parent /\ t2.red = t.red /\ t2.kid = t.kid
  BY <1>1 DEF Trees
<1> QED
  BY <1>2 DEF Root, Par, Kid, IsRed, Rooted, SameColors

\* Copying __rb_parent_color changes the parent and the colour of one node.
LEMMA Inherited ==
    ASSUME NEW t \in Trees, NEW n \in Nodes, NEW old \in Nodes, NEW t2, t2 = Inherit(t, n, old)
    PROVE  Moved(t, t2, n, Par(t, old)) /\ SameColors(t, t2, {n}) /\ (IsRed(t2, n) <=> IsRed(t, old))
<1>1. PICK c \in BOOLEAN : c = t.red[old]
  BY DEF Trees
<1>2. PICK p \in Pointers : p = Par(t, old)
  BY Typed
<1>3. t2 = SetParentColor(t, n, p, c)
  BY <1>1, <1>2 DEF Inherit, Par
<1>4. Moved(t, t2, n, p) /\ SameColors(t, t2, {n}) /\ (IsRed(t2, n) <=> c)
  BY <1>3, Painted
<1>5. IsRed(t, old) <=> c
  BY <1>1, NilAssumption DEF IsRed
<1> QED
  BY <1>2, <1>4, <1>5

-----------------------------------------------------------------------------
(* Rotations: links.                                                       *)

\* The links after Swing: new, the d-child of old, has taken old as a child.
Swung(t, t2, old, new, d) ==
    /\ t2 \in Trees /\ Root(t2) = Root(t)
    /\ Kid(t2, old, d) = Kid(t, new, Other(d)) /\ Kid(t2, old, Other(d)) = Kid(t, old, Other(d))
    /\ Kid(t2, new, Other(d)) = old /\ Kid(t2, new, d) = Kid(t, new, d)
    /\ \A x \in Nodes \ {old, new} : \A f \in Sides : Kid(t2, x, f) = Kid(t, x, f)
    /\ Kid(t, new, Other(d)) # Nil => Par(t2, Kid(t, new, Other(d))) = old
    /\ \A x \in Nodes \ {new, Kid(t, new, Other(d))} : Par(t2, x) = Par(t, x)

\* The links after a rotation at old, whose d-child new takes its place.
Rotated(t, t2, old, new, d) ==
    /\ t2 \in Trees
    /\ Root(t2) = IF Par(t, old) = Nil THEN new ELSE Root(t)
    /\ Kid(t2, old, d) = Kid(t, new, Other(d)) /\ Kid(t2, old, Other(d)) = Kid(t, old, Other(d))
    /\ Kid(t2, new, Other(d)) = old /\ Kid(t2, new, d) = Kid(t, new, d)
    /\ \A x \in Nodes \ {old, new} : \A f \in Sides :
          Kid(t2, x, f) = IF x = Par(t, old) /\ Kid(t, x, f) = old THEN new ELSE Kid(t, x, f)
    /\ Par(t2, new) = Par(t, old) /\ Par(t2, old) = new
    /\ Kid(t, new, Other(d)) # Nil => Par(t2, Kid(t, new, Other(d))) = old
    /\ \A x \in Nodes \ {old, new, Kid(t, new, Other(d))} : Par(t2, x) = Par(t, x)

\* A node that can be rotated: it is one child of its parent, and not among its own.
Rotatable(t, old, new, d) ==
    /\ old \in Nodes /\ new \in Nodes /\ d \in Sides
    /\ Kid(t, old, d) = new /\ old # new
    /\ Kid(t, new, Other(d)) \notin {old, new}
    /\ Par(t, old) # Nil =>
          /\ Par(t, old) \notin {old, new, Kid(t, new, Other(d))}
          /\ \E f \in Sides : Kid(t, Par(t, old), f) = old /\ Kid(t, Par(t, old), Other(f)) # old

\* Swing makes the links that Swung says, and leaves the colours.
LEMMA SwingLinks ==
    ASSUME NEW t \in Trees, NEW old \in Nodes, NEW new \in Nodes, old # new, NEW d \in Sides,
           NEW t2, t2 = Swing(t, old, new, d)
    PROVE  Swung(t, t2, old, new, d) /\ SameColors(t, t2, {})
<1>1. PICK inner \in Pointers : inner = Kid(t, new, Other(d))
  BY OtherSide, Typed
<1>2. PICK a : a = SetKid(t, old, d, inner)
  OBVIOUS
<1>3. PICK b : b = SetKid(a, new, Other(d), old)
  OBVIOUS
<1>4. t2 = SetParent(b, inner, old)
  BY <1>1, <1>2, <1>3 DEF Swing, SetKid, Kid
<1>5. Hung(t, a, old, d, inner) /\ SameColors(t, a, {})
  BY <1>2, KidSet
<1>6. Other(d) \in Sides /\ Other(d) # d /\ Other(Other(d)) = d /\ old \in Pointers
      /\ \A f \in Sides : f = d \/ f = Other(d)
  BY OtherSide, NodePointers
<1>7. a \in Trees
  BY <1>5 DEF Hung
<1>8. Hung(a, b, new, Other(d), old) /\ SameColors(a, b, {})
  BY <1>3, <1>6, <1>7, KidSet
<1>9. b \in Trees
  BY <1>8 DEF Hung
<1>10. /\ Root(b) = Root(t)
       /\ Kid(b, old, d) = inner /\ Kid(b, old, Other(d)) = Kid(t, old, Other(d))
       /\ Kid(b, new, Other(d)) = old /\ Kid(b, new, d) = Kid(t, new, d)
       /\ \A x \in Nodes \ {old, new} : \A f \in Sides : Kid(b, x, f) = Kid(t, x, f)
       /\ \A x \in Nodes : Par(b, x) = Par(t, x)
  BY <1>5, <1>6, <1>8 DEF Hung
<1>11. SameColors(t, b, {})
  BY <1>5, <1>8 DEF SameColors
<1>12. CASE inner = Nil
  <2>1. t2 = b
    BY <1>4, <1>12 DEF SetParent
  <2>2. \A x \in Nodes : x # Nil
    BY NodePointers
  <2> QED
    BY <1>1, <1>9, <1>10, <1>11, <1>12, <2>1, <2>2 DEF Swung
<1>13. CASE inner # Nil
  <2>1. inner \in Nodes
    BY <1>1, <1>13, NodePointers
  <2>2. Moved(b, t2, inner, old) /\ SameColors(b, t2, {})
    BY <1>4, <1>6, <1>9, <2>1, Reparented
  <2>3. SameColors(t, t2, {})
    BY <1>11, <2>2 DEF SameColors
  <2>4. /\ t2 \in Trees /\ Root(t2) = Root(t) /\ Par(t2, inner) = old
        /\ \A x \in Nodes \ {inner} : Par(t2, x) = Par(t, x)
        /\ \A x \in Nodes : \A f \in Sides : Kid(t2, x, f) = Kid(b, x, f)
    BY <1>10, <2>1, <2>2 DEF Moved
  <2> QED
    BY <1>1, <1>6, <1>10, <2>3, <2>4 DEF Swung
<1> QED
  BY <1>12, <1>13

\* Where the inner child is black, painting it black changes nothing more.
LEMMA SwingBlackLinks ==
    ASSUME NEW t \in Trees, NEW old \in Nodes, NEW new \in Nodes, old # new, NEW d \in Sides,
           ~IsRed(t, Kid(t, new, Other(d))), NEW t2, t2 = SwingBlack(t, old, new, d)
    PROVE  Swung(t, t2, old, new, d) /\ SameColors(t, t2, {})
<1>1. PICK inner \in Pointers : inner = Kid(t, new, Other(d))
  BY OtherSide, Typed
<1>2. PICK s : s = Swing(t, old, new, d)
  OBVIOUS
<1>3. t2 = SetParentColor(s, inner, old, FALSE)
  BY <1>1, <1>2 DEF SwingBlack, Kid
<1>4. Swung(t, s, old, new, d) /\ SameColors(t, s, {})
  BY <1>2, SwingLinks
<1>5. CASE inner = Nil
  <2>1. t2 = s
    BY <1>3, <1>5 DEF SetParentColor
  <2> QED
    BY <1>4, <2>1
<1>6. CASE inner # Nil
  <2>1. inner \in Nodes /\ old \in Pointers /\ s \in Trees
    BY <1>1, <1>4, <1>6, NodePointers DEF Swung
  <2>2. Moved(s, t2, inner, old) /\ SameColors(s, t2, {inner}) /\ ~IsRed(t2, inner)
    BY <1>3, <2>1, PaintedBlack
  <2>3. SameColors(t, t2, {})
    BY <1>1, <1>4, <2>1, <2>2 DEF SameColors
  <2>4. Swung(t, t2, old, new, d)
    <3>1. \A x \in Nodes : \A f \in Sides : Kid(t2, x, f) = Kid(s, x, f)
      BY <2>2 DEF Moved
    <3>2. \A x \in Nodes : Par(t2, x) = Par(s, x)
      BY <1>1, <1>4, <1>6, <2>2 DEF Moved, Swung
    <3>3. t2 \in Trees /\ Root(t2) = Root(s)
      BY <2>2 DEF Moved
    <3> QED
      BY <1>1, <1>4, <2>1, <3>1, <3>2, <3>3, OtherSide DEF Swung
  <2> QED
    BY <2>3, <2>4
<1> QED
  BY <1>5, <1>6

\* What RotateSetParents does after Swing, whatever colours are given in between.
LEMMA RotateLinks ==
    ASSUME NEW t \in Trees, NEW old, NEW new, NEW d, Rotatable(t, old, new, d),
           NEW u, Swung(t, u, old, new, d), NEW c \in BOOLEAN,
           NEW t2, t2 = RotateSetParents(u, old, new, c)
    PROVE  /\ Rotated(t, t2, old, new, d) /\ SameColors(u, t2, {old, new})
           /\ IsRed(t2, new) <=> IsRed(u, old)
           /\ IsRed(t2, old) <=> c
<1>1. PICK inner : inner = Kid(t, new, Other(d))
  OBVIOUS
<1>2. PICK up : up = Par(t, old)
  OBVIOUS
<1>3. PICK v : v = Inherit(u, new, old)
  OBVIOUS
<1>4. PICK w : w = SetParentColor(v, old, new, c)
  OBVIOUS
<1>5. /\ old \in Nodes /\ new \in Nodes /\ d \in Sides /\ old # new /\ inner \notin {old, new}
      /\ Other(d) \in Sides /\ Other(d) # d
      /\ \A f \in Sides : f = d \/ f = Other(d)
      /\ old \in Pointers /\ new \in Pointers /\ inner \in Pointers /\ up \in Pointers /\ u \in Trees
  BY <1>1, <1>2, OtherSide, NodePointers, Typed DEF Rotatable, Swung
<1>6. up # Nil => /\ up \in Nodes /\ up \notin {old, new, inner}
                  /\ \E f \in Sides : Kid(t, up, f) = old /\ Kid(t, up, Other(f)) # old
  BY <1>1, <1>2, <1>5, NodePointers DEF Rotatable
<1>7. Par(u, old) = up
  BY <1>1, <1>2, <1>5 DEF Swung
<1>8. Moved(u, v, new, up) /\ SameColors(u, v, {new}) /\ (IsRed(v, new) <=> IsRed(u, old))
  BY <1>3, <1>5, <1>7, Inherited
<1>9. v \in Trees
  BY <1>8 DEF Moved
<1>10. Moved(v, w, old, new) /\ SameColors(v, w, {old}) /\ (IsRed(w, old) <=> c)
  BY <1>4, <1>5, <1>9, Painted
<1>11. t2 = ChangeChild(w, old, new, up)
  BY <1>3, <1>4, <1>7 DEF RotateSetParents, Par
<1>12. /\ w \in Trees /\ Root(w) = Root(u)
       /\ \A x \in Nodes : \A f \in Sides : Kid(w, x, f) = Kid(u, x, f)
       /\ Par(w, new) = up /\ Par(w, old) = new
       /\ \A x \in Nodes \ {old, new} : Par(w, x) = Par(u, x)
  BY <1>5, <1>8, <1>10 DEF Moved
<1>13. SameColors(u, w, {old, new}) /\ (IsRed(w, new) <=> IsRed(u, old)) /\ (IsRed(w, old) <=> c)
  BY <1>5, <1>8, <1>10 DEF SameColors
<1>14. /\ t2 \in Trees /\ SameColors(w, t2, {})
       /\ Root(t2) = IF up = Nil THEN new ELSE Root(w)
       /\ \A x \in Nodes : Par(t2, x) = Par(w, x)
       /\ \A f \in Sides : Kid(t2, old, f) = Kid(w, old, f) /\ Kid(t2, new, f) = Kid(w, new, f)
       /\ \A x \in Nodes \ {old, new} : \A f \in Sides :
              Kid(t2, x, f) = IF x = up /\ Kid(w, x, f) = old THEN new ELSE Kid(w, x, f)
  <2>1. CASE up = Nil
    <3>1. Rooted(w, t2, new) /\ SameColors(w, t2, {})
      BY <1>5, <1>11, <1>12, <2>1, RootChanged
    <3>2. \A x \in Nodes : x # up
      BY <2>1, NodePointers
    <3> QED
      BY <1>5, <2>1, <3>1, <3>2 DEF Rooted
  <2>2. CASE up # Nil
    <3>1. up \in Nodes /\ up \notin {old, new}
      BY <1>6, <2>2
    <3>2. PICK g \in Sides : Kid(t, up, g) = old /\ Kid(t, up, Other(g)) # old
      BY <1>6, <2>2
    <3>3. Other(g) \in Sides /\ \A f \in Sides : f = g \/ f = Other(g)
      BY OtherSide
    <3>4. Kid(w, up, g) = old /\ Kid(w, up, Other(g)) # old
      BY <1>12, <3>1, <3>2, <3>3 DEF Swung
    <3>5. Hung(w, t2, up, g, new) /\ SameColors(w, t2, {})
      BY <1>5, <1>11, <1>12, <3>1, <3>4, ChildChanged
    <3> QED
      BY <1>5, <2>2, <3>1, <3>3, <3>4, <3>5 DEF Hung
  <2> QED
    BY <2>1, <2>2
<1>15. SameColors(u, t2, {old, new}) /\ (IsRed(t2, new) <=> IsRed(u, old)) /\ (IsRed(t2, old) <=> c)
  BY <1>5, <1>13, <1>14 DEF SameColors
<1>16. /\ Root(u) = Root(t)
       /\ Kid(u, old, d) = inner /\ Kid(u, old, Other(d)) = Kid(t, old, Other(d))
       /\ Kid(u, new, Other(d)) = old /\ Kid(u, new, d) = Kid(t, new, d)
       /\ \A x \in Nodes \ {old, new} : \A f \in Sides : Kid(u, x, f) = Kid(t, x, f)
       /\ inner # Nil => Par(u, inner) = old
       /\ \A x \in Nodes \ {new, inner} : Par(u, x) = Par(t, x)
  BY <1>1 DEF Swung
<1>17. inner # Nil => inner \in Nodes
  BY <1>5, NodePointers
<1>18. Rotated(t, t2, old, new, d)
  BY <1>1, <1>2, <1>5, <1>12, <1>14, <1>16, <1>17 DEF Rotated
<1> QED
  BY <1>15, <1>18

TurnRed(u, old, new)   == RotateSetParents(u, old, new, TRUE)
TurnBlack(u, old, new) == RotateSetParents(u, old, new, FALSE)

\* Swing and __rb_rotate_set_parents are a rotation; old turns red.
LEMMA TurnRedLinks ==
    ASSUME NEW t \in Trees, NEW old, NEW new, NEW d, Rotatable(t, old, new, d),
           NEW u, Swung(t, u, old, new, d), NEW t2, t2 = TurnRed(u, old, new)
    PROVE  /\ Rotated(t, t2, old, new, d) /\ SameColors(u, t2, {old, new})
           /\ (IsRed(t2, new) <=> IsRed(u, old)) /\ IsRed(t2, old)
<1>1. PICK c \in BOOLEAN : c
  OBVIOUS
<1>2. t2 = RotateSetParents(u, old, new, c)
  BY <1>1 DEF TurnRed
<1>3. /\ Rotated(t, t2, old, new, d) /\ SameColors(u, t2, {old, new})
      /\ (IsRed(t2, new) <=> IsRed(u, old)) /\ (IsRed(t2, old) <=> c)
  BY <1>2, RotateLinks
<1> QED
  BY <1>1, <1>3

\* The same, where old turns black.
LEMMA TurnBlackLinks ==
    ASSUME NEW t \in Trees, NEW old, NEW new, NEW d, Rotatable(t, old, new, d),
           NEW u, Swung(t, u, old, new, d), NEW t2, t2 = TurnBlack(u, old, new)
    PROVE  /\ Rotated(t, t2, old, new, d) /\ SameColors(u, t2, {old, new})
           /\ (IsRed(t2, new) <=> IsRed(u, old)) /\ ~IsRed(t2, old)
<1>1. PICK c \in BOOLEAN : ~c
  OBVIOUS
<1>2. t2 = RotateSetParents(u, old, new, c)
  BY <1>1 DEF TurnBlack
<1>3. /\ Rotated(t, t2, old, new, d) /\ SameColors(u, t2, {old, new})
      /\ (IsRed(t2, new) <=> IsRed(u, old)) /\ (IsRed(t2, old) <=> c)
  BY <1>2, RotateLinks
<1> QED
  BY <1>1, <1>3

-----------------------------------------------------------------------------
(* Induction, over sets in place of predicates.                            *)

\* A set of numbers with 0 and the successor of each has them all.
LEMMA NatSteps ==
    ASSUME NEW T \in SUBSET Nat, 0 \in T, \A k \in T : k + 1 \in T
    PROVE  T = Nat
<1> SUFFICES ASSUME Nat \ T # {} PROVE FALSE
  OBVIOUS
<1>1. Nat \ T \subseteq Nat
  OBVIOUS
<1>2. PICK n \in Nat \ T : \A m \in Nat \ T : ~(<<m, n>> \in OpToRel(<, Nat))
  BY <1>1, WFMin, NatLessThanWellFounded, Zenon
<1>3. \A m \in Nat \ T : ~(m < n)
  BY <1>2 DEF OpToRel
<1>4. n \in Nat /\ n \notin T
  OBVIOUS
<1>5. n # 0 /\ n - 1 \in Nat /\ n - 1 < n /\ (n - 1) + 1 = n
  BY <1>4
<1>6. n - 1 \in T
  BY <1>3, <1>5
<1>7. (n - 1) + 1 \in T
  BY <1>6
<1> QED
  BY <1>4, <1>5, <1>7

\* A function is obtained from its first value and a step.
LEMMA Iteration ==
    ASSUME NEW S, NEW s \in S, NEW F \in [S -> S]
    PROVE  \E f \in [Nat -> S] : f[0] = s /\ \A k \in Nat : f[k + 1] = F[f[k]]
<1> DEFINE Runs(n) == {f \in [0..n -> S] : f[0] = s /\ \A k \in 0..n : k # 0 => f[k] = F[f[k - 1]]}
           T == {n \in Nat : Runs(n) # {}}
<1>1. 0 \in T
  <2>1. [k \in 0..0 |-> s] \in Runs(0)
    OBVIOUS
  <2> QED
    BY <2>1
<1>2. ASSUME NEW n \in T PROVE n + 1 \in T
  <2>1. PICK f \in [0..n -> S] : f[0] = s /\ \A k \in 0..n : k # 0 => f[k] = F[f[k - 1]]
    BY <1>2
  <2>2. n \in Nat /\ f[n] \in S /\ F[f[n]] \in S
    BY <2>1
  <2> DEFINE g == [k \in 0..(n + 1) |-> IF k = n + 1 THEN F[f[n]] ELSE f[k]]
  <2>3. g \in [0..(n + 1) -> S]
    BY <2>1, <2>2
  <2>4. g[0] = s
    BY <2>1, <2>2
  <2>5. ASSUME NEW k \in 0..(n + 1), k # 0 PROVE g[k] = F[g[k - 1]]
    <3>1. CASE k = n + 1
      BY <2>2, <3>1
    <3>2. CASE k # n + 1
      <4>1. k \in 0..n /\ k - 1 \in 0..n /\ k - 1 # n + 1
        BY <2>2, <2>5, <3>2
      <4>2. g[k] = f[k] /\ g[k - 1] = f[k - 1]
        BY <2>2, <3>2, <4>1
      <4> QED
        BY <2>1, <2>5, <4>1, <4>2
    <3> QED
      BY <3>1, <3>2
  <2> HIDE DEF g
  <2>6. g \in Runs(n + 1)
    BY <2>3, <2>4, <2>5
  <2> QED
    BY <2>2, <2>6
<1>3. T = Nat
  <2> HIDE DEF T
  <2>1. T \in SUBSET Nat
    BY DEF T
  <2> QED
    BY <1>1, <1>2, <2>1, NatSteps
<1> DEFINE run(n) == CHOOSE f : f \in Runs(n)
<1>4. \A n \in Nat : run(n) \in Runs(n)
  BY <1>3
<1>5. ASSUME NEW n \in Nat, NEW f \in Runs(n), NEW g \in Runs(n + 1)
      PROVE  \A k \in 0..n : g[k] = f[k]
  <2> DEFINE A == {k \in Nat : k \in 0..n => g[k] = f[k]}
  <2>1. 0 \in A
    OBVIOUS
  <2>2. ASSUME NEW k \in A PROVE k + 1 \in A
    <3> SUFFICES ASSUME k + 1 \in 0..n PROVE g[k + 1] = f[k + 1]
      OBVIOUS
    <3>1. k \in 0..n /\ k + 1 \in 0..(n + 1) /\ k + 1 # 0 /\ (k + 1) - 1 = k
      OBVIOUS
    <3>2. g[k + 1] = F[g[(k + 1) - 1]] /\ f[k + 1] = F[f[(k + 1) - 1]]
      BY <3>1
    <3> QED
      BY <3>1, <3>2
  <2>3. A = Nat
    <3> HIDE DEF A
    <3>1. A \in SUBSET Nat
      BY DEF A
    <3> QED
      BY <2>1, <2>2, <3>1, NatSteps
  <2>4. ASSUME NEW k \in 0..n PROVE g[k] = f[k]
    <3>1. k \in Nat
      OBVIOUS
    <3>2. k \in A
      <4> HIDE DEF A
      <4> QED
        BY <2>3, <3>1
    <3> QED
      BY <3>2
  <2> QED
    BY <2>4
<1> HIDE DEF run
<1> DEFINE h == [n \in Nat |-> run(n)[n]]
<1>6. h \in [Nat -> S]
  <2>1. ASSUME NEW n \in Nat PROVE run(n)[n] \in S
    BY <1>4
  <2> QED
    BY <2>1
<1>7. h[0] = s
  BY <1>4
<1>8. ASSUME NEW k \in Nat PROVE h[k + 1] = F[h[k]]
  <2>1. run(k) \in Runs(k) /\ run(k + 1) \in Runs(k + 1)
    BY <1>4
  <2>2. run(k + 1)[k] = run(k)[k]
    <3>1. \A m \in 0..k : run(k + 1)[m] = run(k)[m]
      BY <1>5, <2>1
    <3> QED
      BY <3>1
  <2>3. run(k + 1)[k + 1] = F[run(k + 1)[(k + 1) - 1]] /\ (k + 1) - 1 = k
    BY <2>1
  <2> QED
    BY <2>2, <2>3
<1> QED
  <2> HIDE DEF h
  <2> QED
    BY <1>6, <1>7, <1>8

-----------------------------------------------------------------------------
(* What a red-black tree is, node by node.                                 *)

At(f, x) == f[x]

Less(d, m, n) == IF d = "left" THEN m < n ELSE m > n

Size(sub, n) == Cardinality(At(sub, n))

\* t is a tree of the nodes M: sub gives the nodes below each of them, in order.
Shaped(t, M, sub) ==
    /\ t \in Trees /\ sub \in [Pointers -> SUBSET Nodes]
    /\ At(sub, Nil) = {} /\ At(sub, Root(t)) = M
    /\ Root(t) # Nil => Root(t) \in M /\ Par(t, Root(t)) = Nil
    /\ \A n \in M : \A d \in Sides :
          /\ Kid(t, n, d) \in M \cup {Nil}
          /\ Kid(t, n, d) # Nil => Par(t, Kid(t, n, d)) = n
          /\ \A x : x \in At(sub, n) <=> \/ x = n \/ x \in At(sub, Kid(t, n, d))
                                         \/ x \in At(sub, Kid(t, n, Other(d)))
          /\ \A x \in At(sub, Kid(t, n, d)) : Less(d, x, n)

\* Less orders the nodes, and SideOf is the side of one that is not the node's.
LEMMA LessOrder ==
    /\ \A d \in Sides : \A m \in Nodes : ~Less(d, m, m)
    /\ \A d \in Sides : \A m, n \in Nodes : Less(d, m, n) => ~Less(Other(d), m, n)
    /\ \A d \in Sides : \A m, n \in Nodes : Less(d, m, n) <=> Less(Other(d), n, m)
    /\ \A d \in Sides : \A m, n, k \in Nodes : Less(d, m, n) /\ Less(d, n, k) => Less(d, m, k)
    /\ \A d \in Sides : \A m, n \in Nodes : m # n => Less(d, m, n) \/ Less(Other(d), m, n)
    /\ \A m, n \in Nodes : m # n => SideOf(m, n) \in Sides /\ Less(SideOf(m, n), m, n)
<1>1. \A m \in Nodes : m \in Int
  BY NodesAssumption
<1> QED
  BY <1>1 DEF Less, Sides, Other, SideOf

\* What Shaped says of the types, the root and Nil.
LEMMA SubType ==
    ASSUME NEW t, NEW M, NEW sub, Shaped(t, M, sub)
    PROVE  /\ \A n \in Pointers : At(sub, n) \subseteq Nodes
           /\ M \subseteq Nodes /\ t \in Trees /\ Root(t) \in M \cup {Nil}
           /\ At(sub, Root(t)) = M /\ At(sub, Nil) = {}
<1>1. \A n \in Pointers : At(sub, n) \subseteq Nodes
  BY DEF Shaped, At
<1>2. t \in Trees
  BY DEF Shaped
<1>3. Root(t) \in Pointers
  BY <1>2, Typed
<1> QED
  BY <1>1, <1>2, <1>3 DEF Shaped

\* What Shaped says of a node and its child on side d.
LEMMA ShapedNode ==
    ASSUME NEW t, NEW M, NEW sub, Shaped(t, M, sub), NEW n \in M, NEW d \in Sides
    PROVE  /\ n \in Nodes /\ n # Nil /\ n \in At(sub, n)
           /\ Kid(t, n, d) \in M \cup {Nil}
           /\ Kid(t, n, d) # Nil => Kid(t, n, d) \in M /\ Par(t, Kid(t, n, d)) = n
           /\ Kid(t, n, d) # n
           /\ n \notin At(sub, Kid(t, n, d))
           /\ At(sub, Kid(t, n, d)) \subseteq Nodes
           /\ \A x : x \in At(sub, n) <=> \/ x = n \/ x \in At(sub, Kid(t, n, d))
                                          \/ x \in At(sub, Kid(t, n, Other(d)))
           /\ \A x \in At(sub, Kid(t, n, d)) : Less(d, x, n) /\ x \notin At(sub, Kid(t, n, Other(d)))
<1>1. /\ Kid(t, n, d) \in M \cup {Nil}
      /\ Kid(t, n, d) # Nil => Par(t, Kid(t, n, d)) = n
      /\ \A x : x \in At(sub, n) <=> \/ x = n \/ x \in At(sub, Kid(t, n, d))
                                     \/ x \in At(sub, Kid(t, n, Other(d)))
      /\ \A x \in At(sub, Kid(t, n, d)) : Less(d, x, n)
  BY DEF Shaped
<1>2. \A x \in At(sub, Kid(t, n, Other(d))) : Less(Other(d), x, n)
  BY OtherSide DEF Shaped
<1>3. n \in Nodes /\ n # Nil /\ Kid(t, n, d) \in Pointers
  BY <1>1, SubType, NodePointers
<1>4. At(sub, Kid(t, n, d)) \subseteq Nodes
  BY <1>3, SubType
<1>5. n \notin At(sub, Kid(t, n, d))
  BY <1>1, <1>3, LessOrder
<1>6. \A x \in At(sub, Kid(t, n, d)) : x \notin At(sub, Kid(t, n, Other(d)))
  BY <1>1, <1>2, <1>3, <1>4, LessOrder
<1>7. Kid(t, n, d) # n
  BY <1>1, <1>5
<1> QED
  BY <1>1, <1>3, <1>4, <1>5, <1>6, <1>7

\* A node has more nodes below it than its children, and no more than there are.
LEMMA Sizes ==
    ASSUME NEW t, NEW M, NEW sub, Shaped(t, M, sub)
    PROVE  /\ \A n \in Pointers : Size(sub, n) \in Nat /\ Size(sub, n) <= Cardinality(Nodes)
           /\ Cardinality(Nodes) \in Nat
           /\ \A n \in M : Size(sub, n) > 0 /\ \A d \in Sides : Size(sub, Kid(t, n, d)) < Size(sub, n)
<1>1. IsFiniteSet(Nodes) /\ Cardinality(Nodes) \in Nat
  BY NodesAssumption, FS_CardinalityType
<1>2. ASSUME NEW n \in Pointers
      PROVE  IsFiniteSet(At(sub, n)) /\ Size(sub, n) \in Nat /\ Size(sub, n) <= Cardinality(Nodes)
  <2>1. At(sub, n) \in SUBSET Nodes
    BY SubType
  <2> QED
    BY <1>1, <2>1, FS_Subset, FS_CardinalityType DEF Size
<1>3. ASSUME NEW n \in M, NEW d \in Sides
      PROVE  Size(sub, n) > 0 /\ Size(sub, Kid(t, n, d)) < Size(sub, n)
  <2>1. n \in Pointers /\ Kid(t, n, d) \in Pointers
    BY ShapedNode, NodePointers
  <2>2. At(sub, Kid(t, n, d)) \in SUBSET At(sub, n)
    BY ShapedNode
  <2>3. At(sub, Kid(t, n, d)) # At(sub, n)
    BY ShapedNode
  <2>4. Size(sub, Kid(t, n, d)) <= Size(sub, n) /\ Size(sub, Kid(t, n, d)) # Size(sub, n)
    BY <1>2, <2>1, <2>2, <2>3, FS_Subset DEF Size
  <2> QED
    BY <1>2, <2>1, <2>4
<1>4. "left" \in Sides
  BY DEF Sides
<1> QED
  BY <1>1, <1>2, <1>3, <1>4

\* Induction from the leaves: what holds of Nil, and of a node when it holds
\* of its children, holds of all nodes.
LEMMA TreeInduction ==
    ASSUME NEW t, NEW M, NEW sub, Shaped(t, M, sub), NEW T, Nil \in T,
           \A n \in M : (\A d \in Sides : Kid(t, n, d) \in T) => n \in T
    PROVE  M \subseteq T
<1> DEFINE A == {k \in Nat : \A n \in M : Size(sub, n) <= k => n \in T}
<1>1. \A n \in M : Size(sub, n) \in Nat
  BY Sizes, SubType, NodePointers
<1>2. 0 \in A
  BY <1>1, Sizes
<1>3. ASSUME NEW k \in A PROVE k + 1 \in A
  <2> SUFFICES ASSUME NEW n \in M, Size(sub, n) <= k + 1 PROVE n \in T
    OBVIOUS
  <2>1. k \in Nat /\ \A m \in M : Size(sub, m) <= k => m \in T
    OBVIOUS
  <2>2. ASSUME NEW d \in Sides PROVE Kid(t, n, d) \in T
    <3>1. Kid(t, n, d) \in M \cup {Nil} /\ Size(sub, Kid(t, n, d)) < Size(sub, n)
      BY ShapedNode, Sizes
    <3>2. CASE Kid(t, n, d) \in M
      <4>1. Size(sub, Kid(t, n, d)) <= k
        BY <1>1, <2>1, <3>1, <3>2
      <4> QED
        BY <2>1, <3>2, <4>1
    <3> QED
      BY <3>1, <3>2
  <2> QED
    BY <2>2
<1>4. A = Nat
  <2> HIDE DEF A
  <2>1. A \in SUBSET Nat
    BY DEF A
  <2> QED
    BY <1>2, <1>3, <2>1, NatSteps
<1> QED
  BY <1>1, <1>4

\* What is below a node, has its own nodes below there, and its parent.
LEMMA Nested ==
    ASSUME NEW t, NEW M, NEW sub, Shaped(t, M, sub), NEW y \in M, NEW x \in At(sub, y)
    PROVE  /\ x \in M /\ At(sub, x) \subseteq At(sub, y)
           /\ x # y => /\ Par(t, x) \in At(sub, y) /\ Par(t, x) \in M
                       /\ \E d \in Sides : Kid(t, Par(t, x), d) = x
<1> DEFINE OK(n) == \A z \in At(sub, n) :
                        /\ z \in M /\ At(sub, z) \subseteq At(sub, n)
                        /\ z # n => /\ Par(t, z) \in At(sub, n) /\ Par(t, z) \in M
                                    /\ \E d \in Sides : Kid(t, Par(t, z), d) = z
           T == {n \in Pointers : OK(n)}
<1>1. Nil \in T
  BY NodePointers, SubType
<1>2. ASSUME NEW n \in M, \A d \in Sides : Kid(t, n, d) \in T PROVE n \in T
  <2>1. n \in Pointers
    BY SubType, NodePointers
  <2>2. ASSUME NEW z \in At(sub, n)
        PROVE  /\ z \in M /\ At(sub, z) \subseteq At(sub, n)
               /\ z # n => /\ Par(t, z) \in At(sub, n) /\ Par(t, z) \in M
                           /\ \E d \in Sides : Kid(t, Par(t, z), d) = z
    <3>1. CASE z = n
      BY <3>1
    <3>2. CASE z # n
      <4>1. PICK d \in Sides : z \in At(sub, Kid(t, n, d))
        <5>1. "left" \in Sides
          BY DEF Sides
        <5>2. z \in At(sub, Kid(t, n, "left")) \/ z \in At(sub, Kid(t, n, Other("left")))
          BY <3>2, <5>1, ShapedNode
        <5> QED
          BY <5>1, <5>2, OtherSide
      <4>2. PICK k : k = Kid(t, n, d)
        OBVIOUS
      <4>3. OK(k)
        BY <1>2, <4>2
      <4>4. k # Nil => k \in M /\ Par(t, k) = n
        BY <4>2, ShapedNode
      <4>5. k # Nil
        BY <4>1, <4>2, SubType
      <4>6. At(sub, k) \subseteq At(sub, n) /\ n \in At(sub, n)
        BY <4>2, ShapedNode
      <4>7. CASE z = k
        BY <4>2, <4>4, <4>5, <4>6, <4>7
      <4>8. CASE z # k
        BY <4>1, <4>2, <4>3, <4>6, <4>8
      <4> QED
        BY <4>7, <4>8
    <3> QED
      BY <3>1, <3>2
  <2> QED
    BY <2>1, <2>2
<1>3. M \subseteq T
  <2> HIDE DEF T
  <2> QED
    BY <1>1, <1>2, TreeInduction
<1> QED
  BY <1>3

\* Every node but the root is a child of its parent.
LEMMA Upward ==
    ASSUME NEW t, NEW M, NEW sub, Shaped(t, M, sub), NEW n \in M
    PROVE  /\ n = Root(t) => Par(t, n) = Nil
           /\ n # Root(t) => /\ Par(t, n) \in M /\ n \in At(sub, Par(t, n))
                             /\ \E d \in Sides : Kid(t, Par(t, n), d) = n
<1>1. Root(t) # Nil => Root(t) \in M /\ Par(t, Root(t)) = Nil
  BY DEF Shaped
<1>2. n \in At(sub, Root(t)) /\ n # Nil
  BY SubType, NodePointers
<1>3. Root(t) # Nil
  BY <1>2, SubType
<1>4. n # Root(t) => Par(t, n) \in M /\ \E d \in Sides : Kid(t, Par(t, n), d) = n
  BY <1>1, <1>2, <1>3, Nested
<1>5. ASSUME NEW p \in M, NEW d \in Sides, Kid(t, p, d) = n PROVE n \in At(sub, p)
  <2>1. n \in At(sub, n)
    BY OtherSide, ShapedNode, <1>5
  <2> QED
    BY <1>5, <2>1, ShapedNode
<1> QED
  BY <1>1, <1>2, <1>3, <1>4, <1>5

\* A node is one child of one parent.
LEMMA OneParent ==
    ASSUME NEW t, NEW M, NEW sub, Shaped(t, M, sub), NEW n \in M, NEW d \in Sides,
           Kid(t, n, d) # Nil
    PROVE  /\ Kid(t, n, d) # Kid(t, n, Other(d)) /\ Kid(t, n, d) # Root(t)
           /\ \A x \in M : \A f \in Sides : Kid(t, x, f) = Kid(t, n, d) => x = n /\ f = d
<1>1. PICK k : k = Kid(t, n, d)
  OBVIOUS
<1>2. k \in M /\ Par(t, k) = n /\ k \in At(sub, k) /\ n # Nil
  BY <1>1, ShapedNode
<1>3. Kid(t, n, Other(d)) # k
  BY <1>1, <1>2, ShapedNode
<1>4. k # Root(t)
  BY <1>2, Upward
<1>5. ASSUME NEW x \in M, NEW f \in Sides, Kid(t, x, f) = k PROVE x = n /\ f = d
  <2>1. k # Nil
    BY <1>1
  <2>2. Par(t, k) = x
    BY <1>5, <2>1, ShapedNode
  <2> QED
    BY <1>2, <1>3, <1>5, <2>2, OtherSide
<1> QED
  BY <1>1, <1>3, <1>4, <1>5

\* A node of a tree can be rotated with each of its children.
LEMMA CanRotate ==
    ASSUME NEW t, NEW M, NEW sub, Shaped(t, M, sub), NEW old \in M, NEW d \in Sides,
           NEW new, new = Kid(t, old, d), new # Nil
    PROVE  Rotatable(t, old, new, d)
<1>1. PICK inner : inner = Kid(t, new, Other(d))
  OBVIOUS
<1>2. PICK up : up = Par(t, old)
  OBVIOUS
<1>3. Other(d) \in Sides
  BY OtherSide
<1>4. new \in M /\ old # new /\ old \in Nodes /\ new \in Nodes /\ Par(t, new) = old /\ old # Nil
  BY ShapedNode
<1>5. inner # new /\ (inner # Nil => inner \in M /\ Par(t, inner) = new /\ inner \in At(sub, inner))
  BY <1>1, <1>3, <1>4, ShapedNode
<1>6. inner # Nil => inner \in At(sub, new)
  BY <1>1, <1>3, <1>4, <1>5, ShapedNode
<1>7. inner # old
  BY <1>4, <1>6, ShapedNode
<1>8. ASSUME up # Nil
      PROVE  /\ up \notin {old, new, inner}
             /\ \E f \in Sides : Kid(t, up, f) = old /\ Kid(t, up, Other(f)) # old
  <2>1. PICK f \in Sides : up \in M /\ Kid(t, up, f) = old
    BY <1>2, <1>8, Upward
  <2>2. old \in At(sub, old) /\ new \in At(sub, old) /\ up \notin At(sub, old) /\ up # old
    BY <1>4, <2>1, ShapedNode
  <2>3. inner # Nil => inner \in At(sub, old)
    BY <1>6, ShapedNode
  <2>4. Kid(t, up, Other(f)) # old
    BY <1>4, <2>1, OneParent
  <2> QED
    BY <1>8, <2>1, <2>2, <2>3, <2>4
<1> QED
  BY <1>1, <1>2, <1>4, <1>5, <1>7, <1>8 DEF Rotatable

Weight(t, n) == IF IsRed(t, n) THEN 0 ELSE 1
Lack(n, d, lp, ld) == IF n = lp /\ d = ld THEN 1 ELSE 0

\* h counts the black nodes on the paths below a node: rule 5, but paths on the
\* ld side of lp lack one.
Balanced(t, M, h, lp, ld) ==
    /\ h \in [Pointers -> Nat] /\ At(h, Nil) = 0
    /\ \A n \in M : \A d \in Sides :
          At(h, n) = At(h, Kid(t, n, d)) + Weight(t, n) + Lack(n, d, lp, ld)

\* Rule 4: no red node has a red child, but for ex.
Colored(t, M, ex) ==
    \A n \in M : \A d \in Sides :
        IsRed(t, n) /\ IsRed(t, Kid(t, n, d)) => Kid(t, n, d) = ex

\* Nodes that are not in the tree have no children.
Leafy(t, S) == \A n \in Nodes \ S : \A d \in Sides : Kid(t, n, d) = Nil

\* What is below each node after a rotation.
Resub(t, sub, sub2, old, new, d) ==
    /\ sub2 \in [Pointers -> SUBSET Nodes]
    /\ At(sub2, new) = At(sub, old)
    /\ \A x : x \in At(sub2, old) <=> \/ x = old \/ x \in At(sub, Kid(t, new, Other(d)))
                                      \/ x \in At(sub, Kid(t, old, Other(d)))
    /\ \A n \in Pointers \ {old, new} : At(sub2, n) = At(sub, n)

\* There is a function that gives what is below each node after a rotation.
LEMMA HasResub ==
    ASSUME NEW t, NEW M, NEW sub, Shaped(t, M, sub), NEW old \in M, NEW d \in Sides,
           NEW new, new = Kid(t, old, d), new # Nil
    PROVE  \E sub2 : Resub(t, sub, sub2, old, new, d)
<1>1. old \in Nodes /\ new \in Nodes /\ old # new /\ Other(d) \in Sides
      /\ old \in Pointers /\ new \in Pointers /\ new \in M
  BY ShapedNode, SubType, OtherSide, NodePointers
<1>2. PICK A : A = At(sub, Kid(t, new, Other(d)))
  OBVIOUS
<1>3. PICK B : B = At(sub, Kid(t, old, Other(d)))
  OBVIOUS
<1>4. A \subseteq Nodes /\ B \subseteq Nodes /\ At(sub, old) \subseteq Nodes
  BY <1>1, <1>2, <1>3, ShapedNode, SubType
<1>5. PICK sub2 : sub2 = [n \in Pointers |-> IF n = new THEN At(sub, old)
                                    ELSE IF n = old THEN {old} \cup A \cup B ELSE At(sub, n)]
  OBVIOUS
<1>6. \A n \in Pointers : At(sub2, n) = IF n = new THEN At(sub, old)
                                    ELSE IF n = old THEN {old} \cup A \cup B ELSE At(sub, n)
  BY <1>5 DEF At
<1>7. sub2 \in [Pointers -> SUBSET Nodes]
  BY <1>1, <1>4, <1>5, SubType
<1> QED
  BY <1>1, <1>2, <1>3, <1>6, <1>7 DEF Resub

\* After a rotation the tree has the same nodes, still in order.
LEMMA RotateShape ==
    ASSUME NEW t, NEW M, NEW sub, Shaped(t, M, sub), NEW old \in M, NEW d \in Sides,
           NEW new, new = Kid(t, old, d), new # Nil,
           NEW t2, Rotated(t, t2, old, new, d), NEW sub2, Resub(t, sub, sub2, old, new, d)
    PROVE  Shaped(t2, M, sub2)
<1>1. PICK e \in Sides : e = Other(d)
  BY OtherSide
<1>2. PICK inner : inner = Kid(t, new, e)
  OBVIOUS
<1>3. PICK far : far = Kid(t, old, e)
  OBVIOUS
<1>4. PICK near : near = Kid(t, new, d)
  OBVIOUS
<1>5. PICK up : up = Par(t, old)
  OBVIOUS
<1>e. e # d /\ d = Other(e) /\ \A f \in Sides : f = d \/ f = e
  BY <1>1, OtherSide
<1>6. /\ t2 \in Trees /\ Root(t2) = IF up = Nil THEN new ELSE Root(t)
      /\ Kid(t2, old, d) = inner /\ Kid(t2, old, e) = far
      /\ Kid(t2, new, e) = old /\ Kid(t2, new, d) = near
      /\ \A x \in Nodes \ {old, new} : \A f \in Sides :
             Kid(t2, x, f) = IF x = up /\ Kid(t, x, f) = old THEN new ELSE Kid(t, x, f)
      /\ Par(t2, new) = up /\ Par(t2, old) = new
      /\ inner # Nil => Par(t2, inner) = old
      /\ \A x \in Nodes \ {old, new, inner} : Par(t2, x) = Par(t, x)
  BY <1>1, <1>2, <1>3, <1>4, <1>5 DEF Rotated
<1>7. /\ sub2 \in [Pointers -> SUBSET Nodes] /\ At(sub2, new) = At(sub, old)
      /\ \A x : x \in At(sub2, old) <=> x = old \/ x \in At(sub, inner) \/ x \in At(sub, far)
      /\ \A n \in Pointers \ {old, new} : At(sub2, n) = At(sub, n)
  BY <1>1, <1>2, <1>3 DEF Resub
<1>8. /\ new \in M /\ old # new /\ old \in Nodes /\ new \in Nodes /\ old # Nil
      /\ old \in Pointers /\ new \in Pointers /\ Nil \in Pointers
      /\ old \in At(sub, old) /\ new \in At(sub, new)
  BY ShapedNode, NodePointers
<1>9. /\ inner \in M \cup {Nil} /\ far \in M \cup {Nil} /\ near \in M \cup {Nil}
      /\ inner # Nil => Par(t, inner) = new
      /\ far # Nil => Par(t, far) = old
      /\ near # Nil => Par(t, near) = new
      /\ Par(t, new) = old
  BY <1>1, <1>2, <1>3, <1>4, <1>8, ShapedNode
<1>10. /\ \A x : x \in At(sub, old) <=> x = old \/ x \in At(sub, new) \/ x \in At(sub, far)
       /\ \A x : x \in At(sub, new) <=> x = new \/ x \in At(sub, near) \/ x \in At(sub, inner)
       /\ \A x \in At(sub, new) : Less(d, x, old)
       /\ \A x \in At(sub, far) : Less(e, x, old)
       /\ \A x \in At(sub, near) : Less(d, x, new)
       /\ \A x \in At(sub, inner) : Less(e, x, new)
  BY <1>1, <1>2, <1>3, <1>4, <1>e, <1>8, ShapedNode
<1>11. inner \notin {old, new} /\ far \notin {old, new} /\ near \notin {old, new}
  <2>1. old \notin At(sub, new) /\ new \notin At(sub, inner) /\ new \notin At(sub, near)
    BY <1>1, <1>2, <1>4, <1>8, ShapedNode
  <2>2. (inner # Nil => inner \in At(sub, inner)) /\ (near # Nil => near \in At(sub, near))
    BY <1>9, ShapedNode
  <2>3. old # Nil /\ new # Nil /\ far # old /\ far # new
    BY <1>1, <1>3, <1>8, ShapedNode, OneParent
  <2> QED
    BY <1>10, <2>1, <2>2, <2>3
<1>12. /\ M \subseteq Nodes /\ Root(t) \in M \cup {Nil} /\ At(sub, Root(t)) = M /\ At(sub, Nil) = {}
       /\ \A n \in M : n \in Pointers /\ n # Nil
  BY SubType, NodePointers
<1>13. /\ old = Root(t) <=> up = Nil
       /\ up # Nil => up \in M /\ up \notin {old, new, inner}
  <2>1. Rotatable(t, old, new, d)
    BY CanRotate
  <2>2. up # Nil => up \notin {old, new, inner}
    BY <1>1, <1>2, <1>5, <2>1 DEF Rotatable
  <2> QED
    BY <1>5, <1>12, <2>2, Upward
<1>14. At(sub2, Nil) = {} /\ At(sub2, Root(t2)) = M
  BY <1>6, <1>7, <1>8, <1>11, <1>12, <1>13, OneParent, Upward, <1>9
<1>15. Root(t2) # Nil => Root(t2) \in M /\ Par(t2, Root(t2)) = Nil
  <2>1. CASE up = Nil
    BY <1>6, <1>8, <2>1
  <2>2. CASE up # Nil
    <3>1. Root(t2) = Root(t) /\ Root(t) # old
      BY <1>6, <1>13, <2>2
    <3>2. Root(t) # Nil => Root(t) \in M /\ Par(t, Root(t)) = Nil
      BY <1>12, Upward
    <3>3. Root(t) # Nil => Root(t) \notin {old, new, inner}
      BY <1>8, <1>9, <3>1, <3>2
    <3> QED
      BY <1>6, <1>12, <3>1, <3>2, <3>3
  <2> QED
    BY <2>1, <2>2
<1>16. ASSUME NEW n \in M, NEW f \in Sides
       PROVE  /\ Kid(t2, n, f) \in M \cup {Nil}
              /\ Kid(t2, n, f) # Nil => Par(t2, Kid(t2, n, f)) = n
              /\ \A x : x \in At(sub2, n) <=> \/ x = n \/ x \in At(sub2, Kid(t2, n, f))
                                              \/ x \in At(sub2, Kid(t2, n, Other(f)))
              /\ \A x \in At(sub2, Kid(t2, n, f)) : Less(f, x, n)
  <2>1. CASE n = old
    <3>1. At(sub2, inner) = At(sub, inner) /\ At(sub2, far) = At(sub, far)
      BY <1>7, <1>8, <1>9, <1>11, <1>12
    <3>2. \A x \in At(sub, inner) : Less(d, x, old)
      BY <1>10
    <3>3. far # Nil => far # inner
      BY <1>8, <1>9
    <3> QED
      BY <1>1, <1>e, <1>6, <1>7, <1>8, <1>9, <1>10, <1>11, <1>12, <2>1, <3>1, <3>2, <3>3
  <2>2. CASE n = new
    <3>1. At(sub2, near) = At(sub, near)
      BY <1>7, <1>8, <1>9, <1>11, <1>12
    <3>2. \A x \in At(sub2, old) : Less(e, x, new)
      <4>1. Less(d, new, old)
        BY <1>8, <1>10
      <4>2. Less(e, old, new)
        BY <1>1, <1>8, <4>1, LessOrder
      <4>3. \A x \in At(sub, far) : x \in Nodes
        BY <1>9, <1>12, SubType, NodePointers
      <4> QED
        BY <1>1, <1>7, <1>8, <1>10, <4>2, <4>3, LessOrder
    <3>3. near # Nil => near # inner
      BY <1>2, <1>4, <1>1, <1>8, OneParent
    <3>4. Kid(t2, n, f) = IF f = d THEN near ELSE old
      BY <1>e, <1>6, <2>2
    <3>5. Kid(t2, n, Other(f)) = IF f = d THEN old ELSE near
      BY <1>1, <1>e, <1>6, <2>2
    <3>6. near # Nil => near \in Nodes /\ Par(t2, near) = new
      BY <1>6, <1>9, <1>11, <1>12, <3>3
    <3>7. Kid(t2, n, f) \in M \cup {Nil} /\ (Kid(t2, n, f) # Nil => Par(t2, Kid(t2, n, f)) = n)
      BY <1>6, <1>9, <2>2, <3>4, <3>6
    <3>8. \A x : x \in At(sub2, n) <=> x = new \/ x \in At(sub2, near) \/ x \in At(sub2, old)
      BY <1>7, <1>10, <2>2, <3>1
    <3>9. \A x \in At(sub2, Kid(t2, n, f)) : Less(f, x, n)
      BY <1>10, <1>e, <2>2, <3>1, <3>2, <3>4
    <3> QED
      BY <2>2, <3>4, <3>5, <3>7, <3>8, <3>9
  <2>3. CASE n \notin {old, new}
    <3>1. n \in Nodes
      BY <1>12
    <3>2. ASSUME NEW g \in Sides
          PROVE  At(sub2, Kid(t2, n, g)) = At(sub, Kid(t, n, g))
      <4>1. CASE n = up /\ Kid(t, n, g) = old
        BY <1>6, <1>7, <2>3, <3>1, <4>1
      <4>2. CASE ~(n = up /\ Kid(t, n, g) = old)
        <5>1. Kid(t2, n, g) = Kid(t, n, g)
          BY <1>6, <2>3, <3>1, <4>2
        <5>2. Kid(t, n, g) \in Pointers /\ (Kid(t, n, g) # Nil => Par(t, Kid(t, n, g)) = n)
          <6>1. Kid(t, n, g) \in M \cup {Nil} /\ (Kid(t, n, g) # Nil => Par(t, Kid(t, n, g)) = n)
            BY ShapedNode
          <6> QED
            BY <1>8, <1>12, <6>1
        <5>3. Kid(t, n, g) \notin {old, new}
          BY <1>5, <1>8, <1>9, <1>12, <2>3, <4>2, <5>2
        <5> QED
          BY <1>7, <5>1, <5>2, <5>3
      <4> QED
        BY <4>1, <4>2
    <3>3. At(sub2, n) = At(sub, n)
      BY <1>7, <1>12, <2>3
    <3>4. /\ \A x : x \in At(sub, n) <=> \/ x = n \/ x \in At(sub, Kid(t, n, f))
                                         \/ x \in At(sub, Kid(t, n, Other(f)))
          /\ \A x \in At(sub, Kid(t, n, f)) : Less(f, x, n)
          /\ Kid(t, n, f) \in M \cup {Nil}
          /\ Kid(t, n, f) # Nil => Par(t, Kid(t, n, f)) = n
      BY ShapedNode
    <3>5. Kid(t2, n, f) \in M \cup {Nil} /\ (Kid(t2, n, f) # Nil => Par(t2, Kid(t2, n, f)) = n)
      <4>1. CASE n = up /\ Kid(t, n, f) = old
        BY <1>6, <1>8, <2>3, <3>1, <4>1
      <4>2. CASE ~(n = up /\ Kid(t, n, f) = old)
        <5>1. Kid(t2, n, f) = Kid(t, n, f)
          BY <1>6, <2>3, <3>1, <4>2
        <5>2. Kid(t, n, f) # Nil => Kid(t, n, f) \in Nodes /\ Kid(t, n, f) \notin {old, new, inner}
          BY <1>5, <1>8, <1>9, <1>12, <2>3, <3>4, <4>2
        <5> QED
          BY <1>6, <3>4, <5>1, <5>2
      <4> QED
        BY <4>1, <4>2
    <3>6. Other(f) \in Sides
      BY OtherSide
    <3> QED
      BY <3>2, <3>3, <3>4, <3>5, <3>6
  <2> QED
    BY <2>1, <2>2, <2>3
<1> QED
  BY <1>6, <1>7, <1>14, <1>15, <1>16 DEF Shaped

-----------------------------------------------------------------------------
(* Rotations: heights and colours.                                         *)

\* A rotation leaves the children of the other nodes, but for the parent of old.
LEMMA OtherKids ==
    ASSUME NEW t, NEW M, NEW sub, Shaped(t, M, sub), NEW old \in M, NEW d \in Sides,
           NEW new, new = Kid(t, old, d), new # Nil,
           NEW t2, Rotated(t, t2, old, new, d), NEW n \in M \ {old, new}, NEW f \in Sides
    PROVE  \/ Kid(t, n, f) = old /\ Kid(t2, n, f) = new /\ n = Par(t, old)
           \/ Kid(t2, n, f) = Kid(t, n, f) /\ Kid(t, n, f) \notin {old, new}
<1>1. n \in Nodes /\ new \in M /\ old # Nil /\ Par(t, new) = old /\ n \notin {old, new}
  BY ShapedNode
<1>2. Kid(t2, n, f) = IF n = Par(t, old) /\ Kid(t, n, f) = old THEN new ELSE Kid(t, n, f)
  BY <1>1 DEF Rotated
<1>3. Kid(t, n, f) # Nil => Par(t, Kid(t, n, f)) = n
  BY ShapedNode
<1> QED
  BY <1>1, <1>2, <1>3

\* A rotation gives no children to nodes outside the tree.
LEMMA RotateLeafy ==
    ASSUME NEW t, NEW M, NEW sub, Shaped(t, M, sub), NEW old \in M, NEW d \in Sides,
           NEW new, new = Kid(t, old, d), new # Nil,
           NEW t2, Rotated(t, t2, old, new, d), NEW S, Leafy(t, S), M \subseteq S
    PROVE  Leafy(t2, S)
<1>1. new \in M /\ (Par(t, old) # Nil => Par(t, old) \in M)
  BY ShapedNode, Upward
<1>2. \A x \in Nodes \ S : x \notin {old, new} /\ x # Par(t, old)
  BY <1>1, NodePointers
<1> QED
  BY <1>2 DEF Leafy, Rotated

\* The nodes about a rotation.
LEMMA Around ==
    ASSUME NEW t, NEW M, NEW sub, Shaped(t, M, sub), NEW old \in M, NEW d \in Sides,
           NEW new, new = Kid(t, old, d), new # Nil, NEW e, e = Other(d),
           NEW inner, inner = Kid(t, new, e), NEW far, far = Kid(t, old, e),
           NEW near, near = Kid(t, new, d)
    PROVE  /\ e \in Sides /\ e # d /\ d = Other(e) /\ \A f \in Sides : f = d \/ f = e
           /\ new \in M /\ old # new /\ old \in Nodes /\ new \in Nodes /\ old # Nil
           /\ old \in Pointers /\ new \in Pointers /\ Nil \in Pointers /\ M \subseteq Nodes
           /\ \A n \in M : n \in Pointers /\ n # Nil
           /\ inner \in M \cup {Nil} /\ far \in M \cup {Nil} /\ near \in M \cup {Nil}
           /\ inner \in Pointers /\ far \in Pointers /\ near \in Pointers
           /\ inner \notin {old, new} /\ near \notin {old, new} /\ far \notin {old, new}
<1>1. e \in Sides /\ e # d /\ d = Other(e) /\ \A f \in Sides : f = d \/ f = e
  BY OtherSide
<1>2. /\ new \in M /\ old # new /\ old \in Nodes /\ new \in Nodes
      /\ old \in Pointers /\ new \in Pointers /\ Nil \in Pointers /\ old # Nil /\ M \subseteq Nodes
      /\ \A n \in M : n \in Pointers /\ n # Nil
  BY ShapedNode, NodePointers, SubType
<1>3. Rotatable(t, old, new, d)
  BY CanRotate
<1>4. inner \notin {old, new}
  BY <1>3 DEF Rotatable
<1>5. inner \in M \cup {Nil} /\ far \in M \cup {Nil} /\ near \in M \cup {Nil}
  BY <1>1, <1>2, ShapedNode
<1>6. far # old /\ far # new /\ near # new
  BY <1>1, <1>2, ShapedNode, OneParent
<1>7. near # old
  <2>1. near # Nil => near \in At(sub, near) /\ near \in M
    BY <1>5, ShapedNode
  <2>2. near # Nil => near \in At(sub, new)
    BY <1>2, <2>1, ShapedNode
  <2> QED
    BY <1>2, <2>2, ShapedNode
<1> QED
  BY <1>1, <1>2, <1>4, <1>5, <1>6, <1>7

\* The heights of two nodes are exchanged.
Swapped(h, h2, old, new) ==
    /\ h2 \in [Pointers -> Nat]
    /\ At(h2, new) = At(h, old) /\ At(h2, old) = At(h, new)
    /\ \A n \in Pointers \ {old, new} : At(h2, n) = At(h, n)

\* Two heights can be exchanged.
LEMMA HasSwapped ==
    ASSUME NEW h \in [Pointers -> Nat], NEW old \in Pointers, NEW new \in Pointers
    PROVE  \E h2 : Swapped(h, h2, old, new)
<1>1. PICK h2 : h2 = [n \in Pointers |-> IF n = new THEN h[old] ELSE IF n = old THEN h[new] ELSE h[n]]
  OBVIOUS
<1>2. Swapped(h, h2, old, new)
  BY <1>1 DEF Swapped, At
<1> QED
  BY <1>2

\* Heights are natural numbers.
LEMMA HeightType ==
    ASSUME NEW t, NEW M, NEW h, NEW lp, NEW ld, Balanced(t, M, h, lp, ld)
    PROVE  \A n \in Pointers : At(h, n) \in Nat
  BY DEF Balanced, At

\* Around a rotation that exchanges the colours of a black node and its red child.
LEMMA RotateSwap ==
    ASSUME NEW t, NEW M, NEW sub, Shaped(t, M, sub), NEW old \in M, NEW d \in Sides,
           NEW new, new = Kid(t, old, d), new # Nil,
           NEW t2, Rotated(t, t2, old, new, d),
           NEW h, NEW lp, NEW ld, Balanced(t, M, h, lp, ld), lp # new, lp = old => ld = Other(d),
           ~IsRed(t, old), IsRed(t, new), IsRed(t2, old), ~IsRed(t2, new), SameColors(t, t2, {old, new}),
           NEW h2, Swapped(h, h2, old, new)
    PROVE  Balanced(t2, M, h2, lp, ld)
<1>1. PICK e : e = Other(d)
  OBVIOUS
<1>4. PICK inner : inner = Kid(t, new, e)
  OBVIOUS
<1>5. PICK far : far = Kid(t, old, e)
  OBVIOUS
<1>6. PICK near : near = Kid(t, new, d)
  OBVIOUS
<1>2. e \in Sides /\ e # d /\ d = Other(e) /\ \A f \in Sides : f = d \/ f = e
  BY <1>1, <1>4, <1>5, <1>6, Around
<1>3. /\ new \in M /\ old # new /\ old \in Nodes /\ new \in Nodes
      /\ old \in Pointers /\ new \in Pointers /\ Nil \in Pointers /\ old # Nil /\ M \subseteq Nodes
      /\ \A n \in M : n \in Pointers
  BY <1>1, <1>4, <1>5, <1>6, Around
<1>7. /\ inner \in Pointers /\ far \in Pointers /\ near \in Pointers
      /\ inner \notin {old, new} /\ near \notin {old, new} /\ far \notin {old, new}
  BY <1>1, <1>4, <1>5, <1>6, Around
<1>8. /\ Kid(t2, old, d) = inner /\ Kid(t2, old, e) = far
      /\ Kid(t2, new, e) = old /\ Kid(t2, new, d) = near
  BY <1>1, <1>4, <1>5, <1>6 DEF Rotated
<1>9. /\ h2 \in [Pointers -> Nat] /\ At(h2, new) = At(h, old) /\ At(h2, old) = At(h, new)
      /\ \A n \in Pointers \ {old, new} : At(h2, n) = At(h, n)
  BY DEF Swapped
<1>10. /\ At(h, Nil) = 0
       /\ \A n \in M : \A f \in Sides : At(h, n) = At(h, Kid(t, n, f)) + Weight(t, n) + Lack(n, f, lp, ld)
  BY DEF Balanced
<1>11. \A n \in Pointers : At(h, n) \in Nat
  BY HeightType
<1>12. /\ At(h, old) = At(h, new) + 1
       /\ At(h, old) = At(h, far) + 1 + Lack(old, e, lp, ld)
       /\ At(h, new) = At(h, inner) /\ At(h, new) = At(h, near)
  <2>1. Weight(t, old) = 1 /\ Weight(t, new) = 0
    BY DEF Weight
  <2>2. Lack(old, d, lp, ld) = 0 /\ Lack(new, d, lp, ld) = 0 /\ Lack(new, e, lp, ld) = 0
    BY <1>1, <1>2 DEF Lack
  <2>3. /\ At(h, old) = At(h, new) + Weight(t, old) + Lack(old, d, lp, ld)
        /\ At(h, old) = At(h, far) + Weight(t, old) + Lack(old, e, lp, ld)
        /\ At(h, new) = At(h, inner) + Weight(t, new) + Lack(new, e, lp, ld)
        /\ At(h, new) = At(h, near) + Weight(t, new) + Lack(new, d, lp, ld)
    BY <1>2, <1>3, <1>4, <1>5, <1>6, <1>10
  <2> QED
    BY <1>3, <1>7, <1>11, <2>1, <2>2, <2>3
<1>13. At(h2, Nil) = 0
  BY <1>3, <1>9, <1>10
<1>14. ASSUME NEW n \in M, NEW f \in Sides
       PROVE  At(h2, n) = At(h2, Kid(t2, n, f)) + Weight(t2, n) + Lack(n, f, lp, ld)
  <2>1. CASE n = old
    <3>1. Weight(t2, old) = 0 /\ At(h2, inner) = At(h, inner) /\ At(h2, far) = At(h, far)
      BY <1>7, <1>9 DEF Weight
    <3>2. Lack(old, d, lp, ld) = 0 /\ (Lack(old, e, lp, ld) = 0 \/ Lack(old, e, lp, ld) = 1)
      BY <1>1, <1>2 DEF Lack
    <3>3. CASE f = d
      BY <1>3, <1>7, <1>8, <1>9, <1>11, <1>12, <2>1, <3>1, <3>2, <3>3
    <3>4. CASE f = e
      BY <1>3, <1>7, <1>8, <1>9, <1>11, <1>12, <2>1, <3>1, <3>2, <3>4
    <3> QED
      BY <1>2, <3>3, <3>4
  <2>2. CASE n = new
    <3>1. Weight(t2, new) = 1 /\ At(h2, near) = At(h, near)
      BY <1>7, <1>9 DEF Weight
    <3>2. Lack(new, f, lp, ld) = 0
      BY DEF Lack
    <3>3. CASE f = d
      BY <1>3, <1>7, <1>8, <1>9, <1>11, <1>12, <2>2, <3>1, <3>2, <3>3
    <3>4. CASE f = e
      BY <1>3, <1>7, <1>8, <1>9, <1>11, <1>12, <2>2, <3>1, <3>2, <3>4
    <3> QED
      BY <1>2, <3>3, <3>4
  <2>3. CASE n \notin {old, new}
    <3>1. Weight(t2, n) = Weight(t, n) /\ At(h2, n) = At(h, n)
      BY <1>3, <1>9, <2>3 DEF Weight, SameColors
    <3>2. At(h2, Kid(t2, n, f)) = At(h, Kid(t, n, f))
      <4>1. Kid(t, n, f) \in Pointers
        BY <1>3, ShapedNode
      <4> QED
        BY <1>9, <2>3, <4>1, OtherKids
    <3> QED
      BY <1>10, <3>1, <3>2
  <2> QED
    BY <2>1, <2>2, <2>3
<1> QED
  BY <1>9, <1>13, <1>14 DEF Balanced

\* A rotation of two red nodes.
LEMMA RotateRed ==
    ASSUME NEW t, NEW M, NEW sub, Shaped(t, M, sub), NEW old \in M, NEW d \in Sides,
           NEW new, new = Kid(t, old, d), new # Nil,
           NEW t2, Rotated(t, t2, old, new, d),
           NEW h, NEW ld, Balanced(t, M, h, Nil, ld),
           IsRed(t, old), IsRed(t, new), SameColors(t, t2, {}), Colored(t, M, new)
    PROVE  Balanced(t2, M, h, Nil, ld) /\ Colored(t2, M, old)
<1>1. PICK e : e = Other(d)
  OBVIOUS
<1>2. PICK inner : inner = Kid(t, new, e)
  OBVIOUS
<1>3. PICK far : far = Kid(t, old, e)
  OBVIOUS
<1>4. PICK near : near = Kid(t, new, d)
  OBVIOUS
<1>5. e \in Sides /\ e # d /\ d = Other(e) /\ \A f \in Sides : f = d \/ f = e
  BY <1>1, <1>2, <1>3, <1>4, Around
<1>6. /\ new \in M /\ old # new /\ old \in Nodes /\ new \in Nodes
      /\ old \in Pointers /\ new \in Pointers /\ Nil \in Pointers /\ old # Nil /\ M \subseteq Nodes
      /\ \A n \in M : n \in Pointers
  BY <1>1, <1>2, <1>3, <1>4, Around
<1>7. /\ inner \in Pointers /\ far \in Pointers /\ near \in Pointers
      /\ inner \notin {old, new} /\ near \notin {old, new} /\ far \notin {old, new}
  BY <1>1, <1>2, <1>3, <1>4, Around
<1>8. /\ Kid(t2, old, d) = inner /\ Kid(t2, old, e) = far
      /\ Kid(t2, new, e) = old /\ Kid(t2, new, d) = near
  BY <1>1, <1>2, <1>3, <1>4 DEF Rotated
<1>9. /\ \A n \in M : \A f \in Sides : At(h, n) = At(h, Kid(t, n, f)) + Weight(t, n) + Lack(n, f, Nil, ld)
      /\ \A n \in M : \A f \in Sides : Lack(n, f, Nil, ld) = 0
      /\ \A n \in Pointers : At(h, n) \in Nat
  BY NodePointers, SubType, HeightType DEF Balanced, Lack
<1>10. \A n \in M : Weight(t2, n) = Weight(t, n) /\ (IsRed(t2, n) <=> IsRed(t, n))
  BY <1>6 DEF SameColors, Weight
<1>11. Weight(t, old) = 0 /\ Weight(t, new) = 0
  BY DEF Weight
<1>12. /\ At(h, old) = At(h, new) /\ At(h, old) = At(h, far)
       /\ At(h, new) = At(h, inner) /\ At(h, new) = At(h, near)
  <2>1. At(h, old) = At(h, new) + Weight(t, old) + 0
    BY <1>9
  <2>2. At(h, old) = At(h, far) + Weight(t, old) + 0
    BY <1>3, <1>5, <1>9
  <2>3. At(h, new) = At(h, inner) + Weight(t, new) + 0
    BY <1>2, <1>5, <1>6, <1>9
  <2>4. At(h, new) = At(h, near) + Weight(t, new) + 0
    BY <1>4, <1>6, <1>9
  <2> QED
    BY <1>6, <1>7, <1>9, <1>11, <2>1, <2>2, <2>3, <2>4
<1>13. ASSUME NEW n \in M, NEW f \in Sides
       PROVE  At(h, Kid(t2, n, f)) = At(h, Kid(t, n, f))
  <2>1. CASE n = old
    BY <1>3, <1>5, <1>8, <1>12, <2>1
  <2>2. CASE n = new
    BY <1>2, <1>4, <1>5, <1>8, <1>12, <2>2
  <2>3. CASE n \notin {old, new}
    <3>1. \/ Kid(t, n, f) = old /\ Kid(t2, n, f) = new
          \/ Kid(t2, n, f) = Kid(t, n, f)
      BY <2>3, OtherKids
    <3> QED
      BY <1>12, <3>1
  <2> QED
    BY <2>1, <2>2, <2>3
<1>14. Balanced(t2, M, h, Nil, ld)
  BY <1>9, <1>10, <1>13 DEF Balanced
<1>15. ASSUME NEW n \in M, NEW f \in Sides, IsRed(t2, n), IsRed(t2, Kid(t2, n, f))
       PROVE  Kid(t2, n, f) = old
  <2>1. Kid(t2, n, f) # Nil
    BY <1>15 DEF IsRed
  <2>2. /\ IsRed(t, n) /\ t2 \in Trees
        /\ \A m \in Nodes : IsRed(t2, m) <=> IsRed(t, m)
    BY <1>6, <1>10, <1>15 DEF SameColors, Rotated
  <2>3. Kid(t2, n, f) \in Nodes
    BY <1>6, <2>1, <2>2, Typed, NodePointers
  <2>4. IsRed(t, Kid(t2, n, f))
    BY <1>15, <2>2, <2>3
  <2>5. \A m \in M : \A g \in Sides : IsRed(t, m) /\ IsRed(t, Kid(t, m, g)) => Kid(t, m, g) = new
    BY DEF Colored
  <2>6. CASE n = old
    BY <1>2, <1>3, <1>5, <1>6, <1>7, <1>8, <2>1, <2>2, <2>4, <2>5, <2>6
  <2>7. CASE n = new
    BY <1>2, <1>4, <1>5, <1>6, <1>7, <1>8, <2>1, <2>2, <2>4, <2>5, <2>7
  <2>8. CASE n \notin {old, new}
    BY <1>6, <2>2, <2>4, <2>5, <2>8, OtherKids
  <2> QED
    BY <2>6, <2>7, <2>8
<1>16. Colored(t2, M, old)
  BY <1>15 DEF Colored
<1> QED
  BY <1>14, <1>16

\* Colours around a rotation that exchanges the colours of a black node and its
\* red child, when the nodes the black one will have as children are black.
LEMMA SwapColored ==
    ASSUME NEW t, NEW M, NEW sub, Shaped(t, M, sub), NEW old \in M, NEW d \in Sides,
           NEW new, new = Kid(t, old, d), new # Nil,
           NEW t2, Rotated(t, t2, old, new, d),
           NEW ex, Colored(t, M, ex), ex = Nil \/ ex = Kid(t, new, d),
           ~IsRed(t, Kid(t, new, Other(d))), ~IsRed(t, Kid(t, old, Other(d))),
           ~IsRed(t2, new), SameColors(t, t2, {old, new})
    PROVE  Colored(t2, M, Nil)
<1>1. PICK e : e = Other(d)
  OBVIOUS
<1>2. PICK inner : inner = Kid(t, new, e)
  OBVIOUS
<1>3. PICK far : far = Kid(t, old, e)
  OBVIOUS
<1>4. PICK near : near = Kid(t, new, d)
  OBVIOUS
<1>5. e \in Sides /\ e # d /\ d = Other(e) /\ \A f \in Sides : f = d \/ f = e
  BY <1>1, <1>2, <1>3, <1>4, Around
<1>6. /\ new \in M /\ old # new /\ old \in Nodes /\ new \in Nodes
      /\ M \subseteq Nodes /\ \A n \in M : n # Nil
      /\ inner \in Pointers /\ far \in Pointers
      /\ inner \notin {old, new} /\ far \notin {old, new}
  BY <1>1, <1>2, <1>3, <1>4, Around
<1>7. \A n \in Nodes \ {old, new} : IsRed(t2, n) <=> IsRed(t, n)
  BY DEF SameColors
<1>8. ~IsRed(t2, inner) /\ ~IsRed(t2, far)
  <2>1. (inner # Nil => inner \in Nodes) /\ (far # Nil => far \in Nodes)
    BY <1>6, NodePointers
  <2>2. ~IsRed(t2, Nil)
    BY DEF IsRed
  <2> QED
    BY <1>1, <1>2, <1>3, <1>6, <1>7, <2>1, <2>2
<1>9. ASSUME NEW n \in M, NEW f \in Sides, IsRed(t2, n), IsRed(t2, Kid(t2, n, f)) PROVE FALSE
  <2>1. n # new
    BY <1>9
  <2>2. n # old
    <3>1. Kid(t2, old, d) = inner /\ Kid(t2, old, e) = far
      BY <1>1, <1>2, <1>3 DEF Rotated
    <3> QED
      BY <1>5, <1>8, <1>9, <3>1
  <2>3. PICK k : k = Kid(t2, n, f)
    OBVIOUS
  <2>4. k # new
    BY <1>9, <2>3
  <2>5. k = Kid(t, n, f) /\ k \notin {old, new}
    BY <2>1, <2>2, <2>3, <2>4, OtherKids
  <2>6. k # Nil
    BY <1>9, <2>3 DEF IsRed
  <2>7. k \in M /\ Par(t, k) = n
    BY <2>5, <2>6, ShapedNode
  <2>8. IsRed(t, n) /\ IsRed(t, k)
    BY <1>6, <1>7, <1>9, <2>1, <2>2, <2>3, <2>5, <2>7
  <2>9. k = ex
    BY <2>5, <2>8 DEF Colored
  <2>10. Par(t, k) = new
    BY <1>6, <2>6, <2>9, ShapedNode
  <2> QED
    BY <2>1, <2>7, <2>10
<1> QED
  BY <1>9 DEF Colored

\* The heights after case 4 of ____rb_erase_color.
Filled(h, h2, old, new, outer) ==
    /\ h2 \in [Pointers -> Nat]
    /\ At(h2, new) = At(h, old) /\ At(h2, old) = At(h, new) /\ At(h2, outer) = At(h, outer) + 1
    /\ \A n \in Pointers \ {old, new, outer} : At(h2, n) = At(h, n)

\* There are the heights that Filled says.
LEMMA HasFilled ==
    ASSUME NEW h \in [Pointers -> Nat], NEW old \in Pointers, NEW new \in Pointers,
           NEW outer \in Pointers \ {old, new}
    PROVE  \E h2 : Filled(h, h2, old, new, outer)
<1>1. PICK h2 : h2 = [n \in Pointers |-> IF n = new THEN h[old] ELSE IF n = old THEN h[new]
                                         ELSE IF n = outer THEN h[outer] + 1 ELSE h[n]]
  OBVIOUS
<1>2. h2 \in [Pointers -> Nat]
  BY <1>1
<1>3. Filled(h, h2, old, new, outer)
  BY <1>1, <1>2 DEF Filled, At
<1> QED
  BY <1>3

\* Case 4: paths through old's other child get the black node they lack.
LEMMA RotateFour ==
    ASSUME NEW t, NEW M, NEW sub, Shaped(t, M, sub), NEW old \in M, NEW d \in Sides,
           NEW new, new = Kid(t, old, d), new # Nil,
           NEW outer, outer = Kid(t, new, d),
           NEW t2, Rotated(t, t2, old, new, d),
           NEW h, Balanced(t, M, h, old, Other(d)), Colored(t, M, Nil),
           ~IsRed(t, new), IsRed(t, outer),
           IsRed(t2, new) <=> IsRed(t, old), ~IsRed(t2, old), ~IsRed(t2, outer),
           SameColors(t, t2, {old, new, outer}),
           NEW h2, Filled(h, h2, old, new, outer)
    PROVE  Balanced(t2, M, h2, Nil, "left") /\ Colored(t2, M, Nil)
<1>1. PICK e : e = Other(d)
  OBVIOUS
<1>2. PICK inner : inner = Kid(t, new, e)
  OBVIOUS
<1>3. PICK far : far = Kid(t, old, e)
  OBVIOUS
<1>5. e \in Sides /\ e # d /\ d = Other(e) /\ \A f \in Sides : f = d \/ f = e
  BY <1>1, <1>2, <1>3, Around
<1>6. /\ new \in M /\ old # new /\ old \in Nodes /\ new \in Nodes
      /\ old \in Pointers /\ new \in Pointers /\ Nil \in Pointers /\ old # Nil /\ M \subseteq Nodes
      /\ \A n \in M : n \in Pointers /\ n # Nil
  BY <1>1, <1>2, <1>3, Around
<1>7. /\ inner \in Pointers /\ far \in Pointers /\ outer \in Pointers
      /\ inner \notin {old, new} /\ outer \notin {old, new} /\ far \notin {old, new}
  BY <1>1, <1>2, <1>3, Around
<1>o. outer # Nil /\ outer \in M /\ Par(t, outer) = new
  <2>1. outer # Nil
    BY DEF IsRed
  <2> QED
    BY <1>6, <2>1, ShapedNode
<1>p. inner # outer /\ far # outer
  BY <1>o, <1>1, <1>2, <1>3, <1>5, <1>6, OneParent
<1>8. /\ Kid(t2, old, d) = inner /\ Kid(t2, old, e) = far
      /\ Kid(t2, new, e) = old /\ Kid(t2, new, d) = outer
  BY <1>1, <1>2, <1>3 DEF Rotated
<1>9. /\ h2 \in [Pointers -> Nat] /\ At(h2, new) = At(h, old) /\ At(h2, old) = At(h, new)
      /\ At(h2, outer) = At(h, outer) + 1
      /\ \A n \in Pointers \ {old, new, outer} : At(h2, n) = At(h, n)
  BY DEF Filled
<1>10. /\ At(h, Nil) = 0
       /\ \A n \in M : \A f \in Sides : At(h, n) = At(h, Kid(t, n, f)) + Weight(t, n) + Lack(n, f, old, e)
  BY <1>1 DEF Balanced
<1>11. \A n \in Pointers : At(h, n) \in Nat
  BY HeightType
<1>w. /\ Weight(t, new) = 1 /\ Weight(t, outer) = 0 /\ Weight(t2, new) = Weight(t, old)
      /\ Weight(t2, old) = 1 /\ Weight(t2, outer) = 1 /\ Weight(t, old) \in Nat
  BY DEF Weight
<1>12. /\ At(h, old) = At(h, new) + Weight(t, old)
       /\ At(h, new) = At(h, far) + 1
       /\ At(h, new) = At(h, inner) + 1 /\ At(h, new) = At(h, outer) + 1
  <2>2. Lack(old, d, old, e) = 0 /\ Lack(old, e, old, e) = 1 /\ Lack(new, d, old, e) = 0 /\ Lack(new, e, old, e) = 0
    BY <1>5, <1>6 DEF Lack
  <2>3. /\ At(h, old) = At(h, new) + Weight(t, old) + Lack(old, d, old, e)
        /\ At(h, old) = At(h, far) + Weight(t, old) + Lack(old, e, old, e)
        /\ At(h, new) = At(h, inner) + Weight(t, new) + Lack(new, e, old, e)
        /\ At(h, new) = At(h, outer) + Weight(t, new) + Lack(new, d, old, e)
    BY <1>2, <1>3, <1>5, <1>6, <1>10
  <2> QED
    BY <1>6, <1>7, <1>11, <1>w, <2>2, <2>3
<1>13. At(h2, Nil) = 0
  BY <1>6, <1>o, <1>9, <1>10
<1>14. ASSUME NEW n \in M, NEW f \in Sides
       PROVE  At(h2, n) = At(h2, Kid(t2, n, f)) + Weight(t2, n) + 0
  <2>1. CASE n = old
    <3>1. At(h2, inner) = At(h, inner) /\ At(h2, far) = At(h, far)
      BY <1>7, <1>9, <1>p
    <3>2. Kid(t2, n, f) \in {inner, far}
      BY <1>5, <1>8, <2>1
    <3>3. At(h2, old) = At(h2, inner) + 1 + 0 /\ At(h2, old) = At(h2, far) + 1 + 0
      BY <1>7, <1>9, <1>11, <1>12, <3>1
    <3> QED
      BY <1>w, <2>1, <3>2, <3>3
  <2>2. CASE n = new
    <3>1. Kid(t2, n, f) \in {old, outer}
      BY <1>5, <1>8, <2>2
    <3>2. At(h2, old) = At(h, new) /\ At(h2, outer) = At(h, new)
      BY <1>9, <1>12
    <3>3. At(h2, new) = At(h, new) + Weight(t, old) + 0
      BY <1>6, <1>9, <1>11, <1>12, <1>w
    <3> QED
      BY <1>w, <2>2, <3>1, <3>2, <3>3
  <2>3. CASE n \notin {old, new}
    <3>1. At(h, n) = At(h, Kid(t, n, f)) + Weight(t, n) + 0
      <4>1. Lack(n, f, old, e) = 0
        BY <2>3 DEF Lack
      <4> QED
        BY <1>10, <4>1
    <3>2. Kid(t, n, f) # outer
      <4>1. Kid(t, n, f) # Nil => Par(t, Kid(t, n, f)) = n
        BY ShapedNode
      <4> QED
        BY <1>o, <2>3, <4>1
    <3>3. Kid(t, n, f) \in Pointers /\ Kid(t, n, f) \in M \cup {Nil}
      BY <1>6, ShapedNode
    <3>4. At(h2, Kid(t2, n, f)) = At(h, Kid(t, n, f))
      BY <1>9, <2>3, <3>2, <3>3, OtherKids
    <3>5. CASE n = outer
      BY <1>7, <1>9, <1>11, <1>w, <3>1, <3>3, <3>4, <3>5
    <3>6. CASE n # outer
      <4>1. At(h2, n) = At(h, n)
        BY <1>6, <1>9, <2>3, <3>6
      <4>2. Weight(t2, n) = Weight(t, n)
        BY <1>6, <2>3, <3>6 DEF Weight, SameColors
      <4> QED
        BY <3>1, <3>4, <4>1, <4>2
    <3> QED
      BY <3>5, <3>6
  <2> QED
    BY <2>1, <2>2, <2>3
<1>15. Balanced(t2, M, h2, Nil, "left")
  <2>1. \A n \in M : \A f \in Sides : Lack(n, f, Nil, "left") = 0
    BY <1>6 DEF Lack
  <2> QED
    BY <1>9, <1>13, <1>14, <2>1 DEF Balanced
<1>16. ASSUME NEW n \in M, NEW f \in Sides, IsRed(t2, n), IsRed(t2, Kid(t2, n, f)) PROVE FALSE
  <2>1. PICK k : k = Kid(t2, n, f)
    OBVIOUS
  <2>2. n # old /\ n # outer /\ k # old /\ k # outer
    BY <1>16, <2>1
  <2>3. n # new
    BY <1>5, <1>8, <2>1, <2>2
  <2>4. IsRed(t, n)
    BY <1>6, <1>16, <2>2, <2>3 DEF SameColors
  <2>5. CASE k = new
    <3>1. n \in M \ {old, new}
      BY <2>2, <2>3
    <3>2. \/ Kid(t, n, f) = old /\ Kid(t2, n, f) = new
          \/ Kid(t2, n, f) = Kid(t, n, f) /\ Kid(t, n, f) \notin {old, new}
      BY <3>1, OtherKids
    <3>3. Kid(t, n, f) = old
      BY <2>1, <2>5, <3>2
    <3> QED
      BY <1>16, <1>6, <2>1, <2>4, <2>5, <3>3 DEF Colored
  <2>6. CASE k # new
    <3>1. k = Kid(t, n, f) /\ k \notin {old, new}
      BY <2>1, <2>2, <2>3, <2>6, OtherKids
    <3>2. k # Nil
      BY <1>16, <2>1 DEF IsRed
    <3>3. k \in M
      BY <3>1, <3>2, ShapedNode
    <3>4. IsRed(t, k)
      BY <1>6, <1>16, <2>1, <2>2, <3>1, <3>3 DEF SameColors
    <3> QED
      BY <2>4, <3>1, <3>2, <3>4 DEF Colored
  <2> QED
    BY <2>5, <2>6
<1>17. Colored(t2, M, Nil)
  BY <1>16 DEF Colored
<1> QED
  BY <1>15, <1>17

-----------------------------------------------------------------------------
(* Recolouring, and loops.                                                 *)

\* t2 differs from t in its colours only.
Linked(t, t2) ==
    /\ t \in Trees /\ t2 \in Trees /\ Root(t2) = Root(t)
    /\ \A x \in Nodes : Par(t2, x) = Par(t, x) /\ \A d \in Sides : Kid(t2, x, d) = Kid(t, x, d)

\* A node painted in its place changes colours only.
LEMMA LinkedMoved ==
    ASSUME NEW t \in Trees, NEW n \in Nodes, NEW t2, Moved(t, t2, n, Par(t, n))
    PROVE  Linked(t, t2)
  BY DEF Moved, Linked

\* Two changes of colours are one.
LEMMA LinkedTwice ==
    ASSUME NEW t, NEW t2, NEW t3, Linked(t, t2), Linked(t2, t3)
    PROVE  Linked(t, t3)
  BY DEF Linked

\* A change of colours leaves the nodes in order,
LEMMA LinkedShape ==
    ASSUME NEW t, NEW t2, Linked(t, t2), NEW M, NEW sub, Shaped(t, M, sub)
    PROVE  Shaped(t2, M, sub)
<1>1. M \subseteq Nodes /\ Root(t) \in M \cup {Nil}
  BY SubType
<1>2. \A n \in M : \A d \in Sides : Kid(t, n, d) \in M \cup {Nil} /\ Other(d) \in Sides
  BY ShapedNode, OtherSide
<1>3. /\ t2 \in Trees /\ Root(t2) = Root(t)
      /\ \A x \in Nodes : Par(t2, x) = Par(t, x) /\ \A d \in Sides : Kid(t2, x, d) = Kid(t, x, d)
  BY DEF Linked
<1>4. Root(t) # Nil => Root(t) \in Nodes
  BY <1>1
<1>5. \A n \in M : \A d \in Sides : Kid(t, n, d) # Nil => Kid(t, n, d) \in Nodes
  BY <1>1, <1>2
<1> QED
  BY <1>1, <1>2, <1>3, <1>4, <1>5 DEF Shaped

\* and gives no children to nodes outside the tree.
LEMMA LinkedLeafy ==
    ASSUME NEW t, NEW t2, Linked(t, t2), NEW S, Leafy(t, S)
    PROVE  Leafy(t2, S)
  BY DEF Linked, Leafy

\* A red-black tree of the nodes M, of which only those in S have children.
Valid(t, M, S) ==
    \E sub, h : /\ Shaped(t, M, sub) /\ Balanced(t, M, h, Nil, "left") /\ Colored(t, M, Nil)
                /\ ~IsRed(t, Root(t)) /\ Leafy(t, S)

\* f is the run of F from s.
RunOf(f, S, s, F) == f \in [Nat -> S] /\ f[0] = s /\ \A k \in Nat : f[k + 1] = F[f[k]]

\* Every step of F takes a state of S to Done or to a higher rank.
Climbs(S, F, Done, rank) ==
    /\ rank \in [S -> Nat]
    /\ \A x \in S : x \notin Done => 0 < rank[x] /\ rank[x] <= Cardinality(Nodes)
    /\ \A x \in S : x \notin Done /\ F[x] \notin Done => rank[F[x]] > rank[x]
    /\ \A x \in S : x \in Done => F[x] \in Done

\* A function has a run from every state.
LEMMA HasRun ==
    ASSUME NEW S, NEW s \in S, NEW F \in [S -> S]
    PROVE  \E f : RunOf(f, S, s, F)
<1>1. PICK f : f \in [Nat -> S] /\ f[0] = s /\ \A k \in Nat : f[k + 1] = F[f[k]]
  <2>1. \E f \in [Nat -> S] : f[0] = s /\ \A k \in Nat : f[k + 1] = F[f[k]]
    BY Iteration
  <2> QED
    BY <2>1, Zenon
<1>2. RunOf(f, S, s, F)
  BY <1>1, Zenon DEF RunOf
<1> QED
  BY <1>2, Zenon

\* A loop whose state gets a higher rank in every round ends in as many rounds
\* as there are nodes.
LEMMA LoopEnds ==
    ASSUME NEW S, NEW s \in S, NEW F \in [S -> S], NEW Done, NEW rank,
           Climbs(S, F, Done, rank)
    PROVE  \E f : RunOf(f, S, s, F) /\ f[Cardinality(Nodes)] \in Done
<1>r. PICK f : RunOf(f, S, s, F)
  BY HasRun
<1>1. f \in [Nat -> S] /\ f[0] = s /\ \A k \in Nat : f[k + 1] = F[f[k]]
  BY <1>r DEF RunOf
<1>c. /\ rank \in [S -> Nat]
      /\ \A x \in S : x \notin Done => 0 < rank[x] /\ rank[x] <= Cardinality(Nodes)
      /\ \A x \in S : x \notin Done /\ F[x] \notin Done => rank[F[x]] > rank[x]
      /\ \A x \in S : x \in Done => F[x] \in Done
  BY DEF Climbs
<1>2. Cardinality(Nodes) \in Nat
  BY NodesAssumption, FS_CardinalityType
<1> DEFINE A == {k \in Nat : f[k] \in Done \/ rank[f[k]] > k}
<1>3. \A k \in Nat : f[k] \in S /\ rank[f[k]] \in Nat
  BY <1>1, <1>c
<1>4. 0 \in A
  BY <1>3, <1>c
<1>5. ASSUME NEW k \in A PROVE k + 1 \in A
  <2>1. k \in Nat /\ k + 1 \in Nat /\ (f[k] \in Done \/ rank[f[k]] > k) /\ f[k + 1] = F[f[k]]
    BY <1>1
  <2>2. f[k] \in S /\ rank[f[k]] \in Nat /\ rank[f[k + 1]] \in Nat
    BY <1>3, <2>1
  <2>3. CASE f[k] \in Done
    BY <1>c, <2>1, <2>2, <2>3
  <2>4. CASE f[k] \notin Done /\ f[k + 1] \notin Done
    <3>1. rank[f[k + 1]] > rank[f[k]] /\ rank[f[k]] > k
      BY <1>c, <2>1, <2>2, <2>4
    <3>2. rank[f[k + 1]] > k + 1
      BY <2>1, <2>2, <3>1
    <3> QED
      BY <2>1, <3>2
  <2> QED
    BY <2>1, <2>3, <2>4
<1>6. A = Nat
  <2> HIDE DEF A
  <2>1. A \in SUBSET Nat
    BY DEF A
  <2> QED
    BY <1>4, <1>5, <2>1, NatSteps
<1>7. f[Cardinality(Nodes)] \in Done
  <2>1. PICK N \in Nat : N = Cardinality(Nodes)
    BY <1>2
  <2>2. f[N] \in Done \/ rank[f[N]] > N
    BY <1>6
  <2>3. f[N] \in S /\ rank[f[N]] \in Nat
    BY <1>3
  <2>4. f[N] \notin Done => rank[f[N]] <= N
    BY <1>c, <2>1, <2>3
  <2>5. N \in Nat
    OBVIOUS
  <2> QED
    BY <2>1, <2>2, <2>3, <2>4, <2>5
<1> QED
  BY <1>r, <1>7

\* Two runs of a loop from one state are one.
LEMMA OneRun ==
    ASSUME NEW S, NEW s, NEW F, NEW f, RunOf(f, S, s, F),
           NEW g, g[0] = s, \A k \in Nat : g[k] \in S => g[k + 1] = F[g[k]]
    PROVE  \A k \in Nat : g[k] = f[k]
<1>r. f \in [Nat -> S] /\ f[0] = s /\ \A k \in Nat : f[k + 1] = F[f[k]]
  BY DEF RunOf
<1> DEFINE A == {k \in Nat : g[k] = f[k]}
<1>1. 0 \in A
  BY <1>r
<1>2. ASSUME NEW k \in A PROVE k + 1 \in A
  <2>1. k \in Nat /\ g[k] = f[k] /\ f[k] \in S
    BY <1>r
  <2>2. g[k + 1] = f[k + 1]
    BY <1>r, <2>1
  <2> QED
    BY <2>1, <2>2
<1>3. A = Nat
  <2> HIDE DEF A
  <2>1. A \in SUBSET Nat
    BY DEF A
  <2> QED
    BY <1>1, <1>2, <2>1, NatSteps
<1> QED
  BY <1>3

\* LoopEnds for __rb_insert.
LEMMA InsertLoop ==
    ASSUME NEW S, NEW s \in S, NEW F \in [S -> S], \A x \in S : F[x] = InsertRound(x),
           NEW Done, NEW rank, Climbs(S, F, Done, rank)
    PROVE  Loop(InsertRound, s) \in S /\ Loop(InsertRound, s) \in Done
<1>1. PICK f : RunOf(f, S, s, F) /\ f[Cardinality(Nodes)] \in Done
  BY LoopEnds
<1>2. f \in [Nat -> S] /\ f[0] = s /\ \A k \in Nat : f[k + 1] = F[f[k]]
  BY <1>1 DEF RunOf
<1>4. f = [k \in Nat |-> IF k = 0 THEN s ELSE InsertRound(f[k - 1])]
  <2>1. ASSUME NEW k \in Nat PROVE f[k] = IF k = 0 THEN s ELSE InsertRound(f[k - 1])
    <3>1. CASE k # 0
      <4>1. k - 1 \in Nat /\ (k - 1) + 1 = k
        BY <3>1
      <4>2. f[k - 1] \in S /\ f[(k - 1) + 1] = F[f[k - 1]]
        BY <1>2, <4>1
      <4> QED
        BY <3>1, <4>1, <4>2
    <3> QED
      BY <1>2, <3>1
  <2>2. f = [k \in Nat |-> f[k]]
    BY <1>2
  <2> QED
    BY <2>1, <2>2
<1>5. PICK g : /\ g = CHOOSE run : run = [k \in Nat |-> IF k = 0 THEN s ELSE InsertRound(run[k - 1])]
               /\ Loop(InsertRound, s) = g[Cardinality(Nodes)]
  BY DEF Loop
<1>6. g = [k \in Nat |-> IF k = 0 THEN s ELSE InsertRound(g[k - 1])]
  BY <1>4, <1>5
<1>7. g[0] = s /\ \A k \in Nat : g[k] \in S => g[k + 1] = F[g[k]]
  <2>1. \A k \in Nat : g[k] = IF k = 0 THEN s ELSE InsertRound(g[k - 1])
    BY <1>6
  <2>2. ASSUME NEW k \in Nat, g[k] \in S PROVE g[k + 1] = F[g[k]]
    <3>1. k + 1 \in Nat /\ k + 1 # 0 /\ (k + 1) - 1 = k
      OBVIOUS
    <3>2. g[k + 1] = InsertRound(g[(k + 1) - 1])
      BY <2>1, <3>1
    <3> QED
      BY <2>2, <3>1, <3>2
  <2>3. g[0] = s
    BY <2>1
  <2> QED
    BY <2>2, <2>3
<1>8. \A k \in Nat : g[k] = f[k]
  BY <1>1, <1>7, OneRun
<1>9. Cardinality(Nodes) \in Nat
  BY NodesAssumption, FS_CardinalityType
<1>10. Loop(InsertRound, s) = f[Cardinality(Nodes)] /\ f[Cardinality(Nodes)] \in S
  BY <1>2, <1>5, <1>8, <1>9
<1> QED
  BY <1>1, <1>10

-----------------------------------------------------------------------------
(* Insertion: __rb_insert.                                                 *)

\* The heights of the nodes in S are one more.
Raised(h, h2, S) ==
    /\ h2 \in [Pointers -> Nat]
    /\ \A x \in Pointers : At(h2, x) = IF x \in S THEN At(h, x) + 1 ELSE At(h, x)

\* Some heights can be one more.
LEMMA HasRaised ==
    ASSUME NEW h \in [Pointers -> Nat], NEW S
    PROVE  \E h2 : Raised(h, h2, S)
<1>1. PICK h2 : h2 = [x \in Pointers |-> IF x \in S THEN h[x] + 1 ELSE h[x]]
  OBVIOUS
<1>2. Raised(h, h2, S)
  BY <1>1 DEF Raised, At
<1> QED
  BY <1>2

\* The side on which a node is found below its parent.
LEMMA SideFound ==
    ASSUME NEW t, NEW M, NEW sub, Shaped(t, M, sub), NEW p \in M, NEW f \in Sides,
           NEW n, n = Kid(t, p, f), n # Kid(t, p, Other(f)),
           NEW d, d = IF n # Kid(t, p, "right") THEN "left" ELSE "right"
    PROVE  d = f
  BY DEF Sides, Other

\* node may be a red child of a red parent, and nothing else is wrong.
Unsettled(t, node, M, sub, S) ==
    /\ Shaped(t, M, sub) /\ \E h : Balanced(t, M, h, Nil, "left")
    /\ node \in M /\ IsRed(t, node) /\ Colored(t, M, node)
    /\ IsRed(t, Root(t)) => Root(t) = node
    /\ Leafy(t, S) /\ M \subseteq S

\* A tree with its four properties is valid.
LEMMA Founded ==
    ASSUME NEW t, NEW M, NEW sub, Shaped(t, M, sub), NEW h, Balanced(t, M, h, Nil, "left"),
           Colored(t, M, Nil), ~IsRed(t, Root(t)), NEW S, Leafy(t, S)
    PROVE  Valid(t, M, S)
  BY DEF Valid

\* The first way out of __rb_insert: node is the root, and turns black.
LEMMA InsertRoot ==
    ASSUME NEW t, NEW node, NEW M, NEW sub, NEW S, Unsettled(t, node, M, sub, S),
           Par(t, node) = Nil, NEW t2, Moved(t, t2, node, Nil), SameColors(t, t2, {node}),
           ~IsRed(t2, node)
    PROVE  Valid(t2, M, S)
<1>1. /\ Shaped(t, M, sub) /\ node \in M /\ IsRed(t, node) /\ Colored(t, M, node)
      /\ Leafy(t, S) /\ M \subseteq S
  BY DEF Unsettled
<1>2. PICK h : Balanced(t, M, h, Nil, "left")
  BY DEF Unsettled
<1>3. node = Root(t) /\ node \in Nodes /\ t \in Trees /\ M \subseteq Nodes /\ node # Nil
  BY <1>1, Upward, SubType, NodePointers
<1>5. Linked(t, t2)
  BY <1>3, LinkedMoved
<1>6. Shaped(t2, M, sub) /\ Leafy(t2, S)
  BY <1>1, <1>5, LinkedShape, LinkedLeafy
<1>7. PICK h2 : Raised(h, h2, {node})
  BY <1>2, HasRaised DEF Balanced
<1>8. Root(t2) = node /\ \A x \in Nodes : \A d \in Sides : Kid(t2, x, d) = Kid(t, x, d)
  BY <1>3, <1>5 DEF Linked
<1>9. ASSUME NEW n \in M, NEW d \in Sides
      PROVE  /\ At(h2, n) = At(h2, Kid(t2, n, d)) + Weight(t2, n) + Lack(n, d, Nil, "left")
             /\ IsRed(t2, n) /\ IsRed(t2, Kid(t2, n, d)) => Kid(t2, n, d) = Nil
  <2>1. PICK k : k = Kid(t, n, d)
    OBVIOUS
  <2>a. k # Nil => k # Root(t)
    BY <1>1, <2>1, OneParent
  <2>b. n \in Nodes /\ n # Nil /\ k \in M \cup {Nil}
    BY <1>1, <2>1, ShapedNode
  <2>2. n \in Nodes /\ n # Nil /\ k \in M \cup {Nil} /\ k # node /\ Kid(t2, n, d) = k
    BY <1>3, <1>8, <2>1, <2>a, <2>b
  <2>3. At(h, n) = At(h, k) + Weight(t, n) + Lack(n, d, Nil, "left")
    BY <1>2, <2>1 DEF Balanced
  <2>4. n \in Pointers /\ k \in Pointers
    BY <1>3, <2>2, NodePointers
  <2>5. At(h, n) \in Nat /\ At(h, k) \in Nat
    BY <1>2, <2>4, HeightType
  <2>6. At(h2, k) = At(h, k) /\ At(h2, n) = IF n = node THEN At(h, n) + 1 ELSE At(h, n)
    BY <1>7, <2>2, <2>4 DEF Raised
  <2>7. Weight(t, n) = IF IsRed(t, n) THEN 0 ELSE 1
    BY DEF Weight
  <2>8. Weight(t2, n) = IF n # node /\ IsRed(t, n) THEN 0 ELSE 1
    BY <2>2 DEF Weight, SameColors
  <2>9. Lack(n, d, Nil, "left") = 0
    BY <2>2 DEF Lack
  <2>10. At(h2, n) = At(h2, k) + Weight(t2, n) + Lack(n, d, Nil, "left")
    <3>1. CASE n = node
      <4>1. Weight(t, n) = 0 /\ Weight(t2, n) = 1
        BY <1>1, <2>7, <2>8, <3>1
      <4>2. At(h, n) = At(h, k)
        BY <2>3, <2>5, <2>9, <4>1
      <4>3. At(h2, n) = At(h, k) + 1 /\ At(h2, k) = At(h, k)
        BY <2>6, <3>1, <4>2
      <4>4. PICK a \in Nat : a = At(h, k)
        BY <2>5
      <4>5. At(h2, n) = a + 1 /\ At(h2, k) = a
        BY <4>3, <4>4
      <4> QED
        BY <2>9, <4>1, <4>5
    <3>2. CASE n # node
      <4>1. Weight(t2, n) = Weight(t, n)
        BY <2>7, <2>8, <3>2
      <4> QED
        BY <2>3, <2>6, <3>2, <4>1
    <3> QED
      BY <3>1, <3>2
  <2>11. IsRed(t2, n) /\ IsRed(t2, k) => k = Nil
    <3> SUFFICES ASSUME IsRed(t2, n), IsRed(t2, k), k # Nil PROVE FALSE
      OBVIOUS
    <3>1. IsRed(t, n) /\ IsRed(t, k)
      BY <1>3, <2>2 DEF SameColors
    <3> QED
      BY <1>1, <2>1, <2>2, <3>1 DEF Colored
  <2> QED
    BY <2>2, <2>10, <2>11
<1>10. At(h2, Nil) = 0 /\ h2 \in [Pointers -> Nat]
  BY <1>2, <1>3, <1>7, NodePointers DEF Raised, Balanced
<1>11. Balanced(t2, M, h2, Nil, "left")
  BY <1>9, <1>10 DEF Balanced
<1>12. Colored(t2, M, Nil)
  BY <1>9 DEF Colored
<1> QED
  BY <1>6, <1>8, <1>11, <1>12, Founded

\* The second: the parent is black, and nothing is to be done.
LEMMA InsertBlackParent ==
    ASSUME NEW t, NEW node, NEW M, NEW sub, NEW S, Unsettled(t, node, M, sub, S),
           Par(t, node) # Nil, ~IsRed(t, Par(t, node))
    PROVE  Valid(t, M, S)
<1>1. /\ Shaped(t, M, sub) /\ node \in M /\ Colored(t, M, node)
      /\ Leafy(t, S) /\ M \subseteq S /\ (IsRed(t, Root(t)) => Root(t) = node)
  BY DEF Unsettled
<1>2. PICK h : Balanced(t, M, h, Nil, "left")
  BY DEF Unsettled
<1>3. node # Root(t)
  BY <1>1, Upward
<1>4. ASSUME NEW n \in M, NEW d \in Sides, IsRed(t, n), IsRed(t, Kid(t, n, d)) PROVE FALSE
  <2>1. Kid(t, n, d) = node
    BY <1>1, <1>4 DEF Colored
  <2>2. node # Nil
    BY <1>1, SubType, NodePointers
  <2>3. Par(t, node) = n
    BY <1>1, <2>1, <2>2, ShapedNode
  <2> QED
    BY <1>4, <2>3
<1>5. Colored(t, M, Nil)
  BY <1>4 DEF Colored
<1> QED
  BY <1>1, <1>2, <1>3, <1>5, Founded

\* Where an unsettled node stands, below a red parent.
Stands(t, node, parent, gparent, d, M) ==
    /\ parent \in M /\ gparent \in M /\ d \in Sides /\ parent = Kid(t, gparent, d)
    /\ parent = Par(t, node) /\ parent # Nil /\ ~IsRed(t, gparent) /\ node # Root(t) /\ ~IsRed(t, Root(t))
    /\ node # Nil /\ \E f \in Sides : node = Kid(t, parent, f)

\* Otherwise node has a red parent, which has a black one.
LEMMA Standing ==
    ASSUME NEW t, NEW node, NEW M, NEW sub, NEW S, Unsettled(t, node, M, sub, S),
           NEW parent, parent = Par(t, node), IsRed(t, parent),
           NEW gparent, gparent = Par(t, parent),
           NEW d, d = IF parent # Kid(t, gparent, "right") THEN "left" ELSE "right"
    PROVE  Stands(t, node, parent, gparent, d, M)
<1>1. /\ Shaped(t, M, sub) /\ node \in M /\ Colored(t, M, node)
      /\ IsRed(t, Root(t)) => Root(t) = node
  BY DEF Unsettled
<1>2. parent # Nil
  BY DEF IsRed
<1>3. node # Root(t)
  BY <1>1, <1>2, Upward
<1>4. parent \in M /\ \E f \in Sides : Kid(t, parent, f) = node
  BY <1>1, <1>3, Upward
<1>5. parent # Root(t)
  BY <1>1, <1>3
<1>6. PICK e \in Sides : gparent \in M /\ Kid(t, gparent, e) = parent
  BY <1>1, <1>4, <1>5, Upward
<1>7. Kid(t, gparent, Other(e)) # parent
  BY <1>1, <1>2, <1>6, OneParent
<1>8. d = e
  BY <1>1, <1>6, <1>7, SideFound
<1>9. node # Nil /\ parent # node
  BY <1>1, <1>4, SubType, NodePointers, ShapedNode
<1>10. ~IsRed(t, gparent)
  BY <1>1, <1>6, <1>9 DEF Colored
<1> QED
  BY <1>1, <1>2, <1>3, <1>4, <1>6, <1>8, <1>9, <1>10 DEF Stands

\* Case 1 of __rb_insert: the links stay, and gparent changes colours with its children.
LEMMA InsertFlip ==
    ASSUME NEW t, NEW node, NEW M, NEW sub, NEW S, Unsettled(t, node, M, sub, S),
           NEW parent, NEW gparent, NEW d, Stands(t, node, parent, gparent, d, M), IsRed(t, parent),
           NEW uncle, uncle = Kid(t, gparent, Other(d)), IsRed(t, uncle),
           NEW t2, Linked(t, t2), SameColors(t, t2, {parent, uncle, gparent}),
           ~IsRed(t2, parent), ~IsRed(t2, uncle), IsRed(t2, gparent)
    PROVE  /\ Unsettled(t2, gparent, M, sub, S)
           /\ Size(sub, gparent) > Size(sub, node)
<1>1. /\ Shaped(t, M, sub) /\ node \in M /\ IsRed(t, node) /\ Colored(t, M, node)
      /\ Leafy(t, S) /\ M \subseteq S
  BY DEF Unsettled
<1>2. PICK h : Balanced(t, M, h, Nil, "left")
  BY DEF Unsettled
<1>3. /\ parent \in M /\ gparent \in M /\ d \in Sides /\ parent = Kid(t, gparent, d)
      /\ parent = Par(t, node) /\ parent # Nil /\ ~IsRed(t, gparent) /\ node # Root(t) /\ ~IsRed(t, Root(t))
      /\ node # Nil /\ \E f \in Sides : node = Kid(t, parent, f)
  BY DEF Stands
<1>4. uncle # Nil /\ Other(d) \in Sides /\ \A f \in Sides : f = d \/ f = Other(d)
  <2>1. uncle # Nil
    BY DEF IsRed
  <2> QED
    BY <1>3, <2>1, OtherSide
<1>5. uncle \in M /\ parent # uncle /\ gparent \notin {parent, uncle} /\ M \subseteq Nodes
  <2>a. gparent \in M /\ d \in Sides /\ Kid(t, gparent, d) # Nil
    BY <1>3
  <2>b. Kid(t, gparent, d) # Kid(t, gparent, Other(d))
    BY <1>1, <2>a, OneParent
  <2>1. parent # uncle
    BY <1>3, <2>b
  <2>2. uncle \in M /\ uncle # gparent /\ parent # gparent
    BY <1>1, <1>3, <1>4, ShapedNode
  <2> QED
    BY <1>1, <2>1, <2>2, SubType
<1>6. Shaped(t2, M, sub) /\ Leafy(t2, S)
  BY <1>1, LinkedShape, LinkedLeafy
<1>7. PICK h2 : Raised(h, h2, {parent, uncle})
  BY <1>2, HasRaised DEF Balanced
<1>8. Root(t2) = Root(t) /\ \A x \in Nodes : \A f \in Sides : Kid(t2, x, f) = Kid(t, x, f)
  BY DEF Linked
<1>9. \A x \in Pointers : At(h, x) \in Nat
  BY <1>2, HeightType
<1>10. \A x \in Pointers : At(h2, x) = IF x \in {parent, uncle} THEN At(h, x) + 1 ELSE At(h, x)
  BY <1>7 DEF Raised
<1>11. \A n \in M : \A f \in Sides : Kid(t, n, f) \in {parent, uncle} => n = gparent
  <2>1. Kid(t, gparent, d) # Nil /\ Kid(t, gparent, Other(d)) # Nil
    BY <1>3, <1>4
  <2>a. gparent \in M /\ d \in Sides
    BY <1>3
  <2>2. \A n \in M : \A f \in Sides : Kid(t, n, f) = Kid(t, gparent, d) => n = gparent
    BY <1>1, <2>a, <2>1, OneParent
  <2>3. \A n \in M : \A f \in Sides : Kid(t, n, f) = Kid(t, gparent, Other(d)) => n = gparent
    BY <1>1, <1>3, <1>4, <2>1, OneParent
  <2> QED
    BY <1>3, <2>2, <2>3
<1>12. ASSUME NEW n \in M, NEW f \in Sides
       PROVE  /\ At(h2, n) = At(h2, Kid(t2, n, f)) + Weight(t2, n) + Lack(n, f, Nil, "left")
              /\ IsRed(t2, n) /\ IsRed(t2, Kid(t2, n, f)) => Kid(t2, n, f) = gparent
  <2>1. PICK k : k = Kid(t, n, f)
    OBVIOUS
  <2>2. n \in Nodes /\ n # Nil /\ k \in M \cup {Nil}
    BY <1>1, <2>1, ShapedNode
  <2>3. n \in Pointers /\ k \in Pointers /\ Kid(t2, n, f) = k /\ k # n
    BY <1>1, <1>5, <1>8, <2>1, <2>2, NodePointers, ShapedNode
  <2>4. k \in {parent, uncle} <=> n = gparent
    BY <1>3, <1>4, <1>11, <2>1
  <2>5. At(h, n) = At(h, k) + Weight(t, n) + Lack(n, f, Nil, "left")
    BY <1>2, <2>1 DEF Balanced
  <2>6. Lack(n, f, Nil, "left") = 0
    BY <2>2 DEF Lack
  <2>7. PICK a \in Nat : a = At(h, k)
    BY <1>9, <2>3
  <2>8. CASE n = gparent
    <3>1. Weight(t, n) = 1 /\ Weight(t2, n) = 0
      BY <1>3, <2>8 DEF Weight
    <3>2. At(h, n) = a + 1
      BY <2>5, <2>6, <2>7, <3>1
    <3>3. At(h2, n) = a + 1 /\ At(h2, k) = a + 1
      BY <1>5, <1>10, <2>3, <2>4, <2>7, <2>8, <3>2
    <3>4. At(h2, n) = At(h2, k) + Weight(t2, n) + Lack(n, f, Nil, "left")
      BY <2>6, <3>1, <3>3
    <3>5. ~IsRed(t2, k)
      BY <2>4, <2>8
    <3> QED
      BY <2>3, <3>4, <3>5
  <2>9. CASE n \in {parent, uncle}
    <3>1. Weight(t, n) = 0 /\ Weight(t2, n) = 1
      BY <2>9 DEF Weight
    <3>2. At(h, n) = a
      BY <2>5, <2>6, <2>7, <3>1
    <3>3. At(h2, n) = a + 1 /\ At(h2, k) = a
      BY <1>5, <1>10, <2>3, <2>4, <2>7, <2>9, <3>2
    <3>4. At(h2, n) = At(h2, k) + Weight(t2, n) + Lack(n, f, Nil, "left")
      BY <2>6, <3>1, <3>3
    <3>5. ~IsRed(t2, n)
      BY <2>9
    <3> QED
      BY <2>3, <3>4, <3>5
  <2>10. CASE n \notin {parent, uncle, gparent}
    <3>1. (IsRed(t2, n) <=> IsRed(t, n)) /\ Weight(t2, n) = Weight(t, n)
      BY <2>2, <2>10 DEF SameColors, Weight
    <3>2. At(h2, n) = At(h, n) /\ At(h2, k) = At(h, k)
      BY <1>10, <2>3, <2>4, <2>10
    <3>3. At(h2, n) = At(h2, k) + Weight(t2, n) + Lack(n, f, Nil, "left")
      BY <2>5, <3>1, <3>2
    <3>4. ASSUME IsRed(t2, n), IsRed(t2, k), k # gparent PROVE FALSE
      <4>1. k # Nil /\ k \in Nodes
        BY <1>5, <2>2, <3>4, NodePointers DEF IsRed
      <4>2. IsRed(t, n) /\ IsRed(t, k)
        BY <2>4, <2>10, <3>1, <3>4, <4>1 DEF SameColors
      <4>3. k = node
        BY <1>1, <2>1, <4>2 DEF Colored
      <4>4. Par(t, k) = n
        BY <1>1, <2>1, <4>1, ShapedNode
      <4> QED
        BY <1>3, <2>10, <4>3, <4>4
    <3> QED
      BY <2>3, <3>3, <3>4
  <2> QED
    BY <2>8, <2>9, <2>10
<1>13. At(h2, Nil) = 0 /\ h2 \in [Pointers -> Nat]
  <2>1. Nil \in Pointers /\ Nil \notin {parent, uncle}
    BY <1>3, <1>4, NodePointers
  <2> QED
    BY <1>2, <1>7, <1>10, <2>1 DEF Raised, Balanced
<1>14. Balanced(t2, M, h2, Nil, "left")
  BY <1>12, <1>13 DEF Balanced
<1>15. Colored(t2, M, gparent)
  BY <1>12 DEF Colored
<1>16. IsRed(t2, Root(t2)) => Root(t2) = gparent
  <2>1. Root(t) \in M
    BY <1>1, <1>3, SubType, ShapedNode, Upward DEF Shaped
  <2> QED
    BY <1>3, <1>5, <1>8, <2>1 DEF SameColors
<1>17. Unsettled(t2, gparent, M, sub, S)
  BY <1>1, <1>3, <1>6, <1>14, <1>15, <1>16 DEF Unsettled
<1>18. Size(sub, gparent) > Size(sub, node)
  <2>1. Size(sub, parent) < Size(sub, gparent) /\ Size(sub, node) < Size(sub, parent)
    BY <1>1, <1>3, Sizes
  <2>2. Size(sub, gparent) \in Nat /\ Size(sub, parent) \in Nat /\ Size(sub, node) \in Nat
    BY <1>1, <1>3, <1>5, NodePointers, Sizes
  <2> QED
    BY <2>1, <2>2
<1> QED
  BY <1>17, <1>18

\* Case 3 of __rb_insert, with what Swing leaves: a rotation at gparent.
LEMMA InsertOuter ==
    ASSUME NEW t, NEW M, NEW sub, Shaped(t, M, sub), NEW h, Balanced(t, M, h, Nil, "left"),
           NEW old \in M, NEW d \in Sides, NEW new, new = Kid(t, old, d), IsRed(t, new), ~IsRed(t, old),
           NEW ex, ex = Kid(t, new, d), Colored(t, M, ex),
           ~IsRed(t, Kid(t, new, Other(d))), ~IsRed(t, Kid(t, old, Other(d))), ~IsRed(t, Root(t)),
           NEW S, Leafy(t, S), M \subseteq S,
           NEW u, Swung(t, u, old, new, d), SameColors(t, u, {}),
           NEW t2, t2 = TurnRed(u, old, new)
    PROVE  Valid(t2, M, S)
<1>1. new # Nil
  BY DEF IsRed
<1>2. Rotatable(t, old, new, d) /\ t \in Trees
  BY <1>1, CanRotate, SubType
<1>3. /\ Rotated(t, t2, old, new, d) /\ SameColors(u, t2, {old, new})
      /\ IsRed(t2, new) <=> IsRed(u, old)
      /\ IsRed(t2, old)
  BY <1>2, TurnRedLinks
<1>4. old \in Nodes /\ new \in Nodes /\ new \in M /\ M \subseteq Nodes
  BY <1>1, ShapedNode, SubType
<1>5. SameColors(t, t2, {old, new}) /\ ~IsRed(t2, new)
  BY <1>3, <1>4 DEF SameColors
<1>6. PICK sub2 : Resub(t, sub, sub2, old, new, d)
  BY <1>1, HasResub
<1>7. Shaped(t2, M, sub2)
  BY <1>1, <1>3, <1>6, RotateShape
<1>8. PICK h2 : Swapped(h, h2, old, new)
  BY <1>4, NodePointers, HasSwapped DEF Balanced
<1>9. Balanced(t2, M, h2, Nil, "left")
  <2>1. Nil # new /\ Nil # old
    BY <1>1, <1>4, NodePointers
  <2> QED
    BY <1>1, <1>3, <1>5, <1>8, <2>1, RotateSwap
<1>10. Colored(t2, M, Nil)
  BY <1>1, <1>3, <1>5, SwapColored
<1>11. ~IsRed(t2, Root(t2))
  <2>1. CASE Par(t, old) = Nil
    BY <1>3, <1>5, <2>1 DEF Rotated
  <2>2. CASE Par(t, old) # Nil
    <3>a. old # Root(t)
      BY <2>2, Upward
    <3>1. Root(t2) = Root(t) /\ Root(t) # old
      BY <1>3, <2>2, <3>a DEF Rotated
    <3>2. Root(t) # new
      BY <1>1, OneParent
    <3>3. Root(t) \in Nodes
      BY <1>4, SubType, Upward, <3>1, NodePointers
    <3> QED
      BY <1>5, <3>1, <3>2, <3>3 DEF SameColors
  <2> QED
    BY <2>1, <2>2
<1>12. Leafy(t2, S)
  BY <1>1, <1>3, RotateLeafy
<1> QED
  BY <1>7, <1>9, <1>10, <1>11, <1>12, Founded

\* u2 differs from u in the d-child of g, and in the parents of p and m.
Stale(u, u2, g, d, p, m) ==
    /\ u2 \in Trees /\ Root(u2) = Root(u)
    /\ \A x \in Nodes : \A f \in Sides : x # g \/ f # d => Kid(u2, x, f) = Kid(u, x, f)
    /\ \A x \in Nodes \ {p, m} : Par(u2, x) = Par(u, x)

\* Two rotations in a row, of which the first was left unfinished: what it would
\* have set is set by the second.
LEMMA Mended ==
    ASSUME NEW t, NEW M, NEW sub, Shaped(t, M, sub), NEW g \in M, NEW d \in Sides,
           NEW p, p = Kid(t, g, d), p # Nil, NEW e, e = Other(d),
           NEW m, m = Kid(t, p, e), m # Nil,
           NEW u, Swung(t, u, p, m, e), NEW v, Rotated(t, v, p, m, e),
           NEW u2, Stale(u, u2, g, d, p, m), NEW w, Swung(u2, w, g, m, d),
           NEW w2, w2 \in Trees, Root(w2) = Root(w),
           \A x \in Nodes : \A f \in Sides : Kid(w2, x, f) = Kid(w, x, f),
           \A x \in Nodes \ {p} : Par(w2, x) = Par(w, x), Par(w2, p) = m
    PROVE  Swung(v, w2, g, m, d)
<1>1. e \in Sides /\ e # d /\ d = Other(e) /\ \A f \in Sides : f = d \/ f = e
  BY OtherSide
<1>s. \A x \in M : \A f \in Sides : /\ Kid(t, x, f) \in M \cup {Nil} /\ Kid(t, x, f) # x
                                    /\ Kid(t, x, f) # Nil => Par(t, Kid(t, x, f)) = x
  BY ShapedNode
<1>o. \A x \in M : \A f \in Sides : Kid(t, x, f) # Nil => Kid(t, x, f) # Kid(t, x, Other(f))
  BY OneParent
<1>2. p \in M /\ p # g /\ p \in Nodes /\ g \in Nodes /\ g # Nil /\ Par(t, p) = g
  BY ShapedNode
<1>3. m \in M /\ m # p /\ m \in Nodes /\ Par(t, m) = p
  BY <1>1, <1>2, ShapedNode
<1>4. m # g
  <2>1. m \in At(sub, p)
    BY <1>1, <1>2, <1>3, ShapedNode
  <2> QED
    BY <2>1, ShapedNode
<1>5. PICK near : near = Kid(t, m, d)
  OBVIOUS
<1>6. PICK far : far = Kid(t, m, e)
  OBVIOUS
<1>7. near \notin {p, m} /\ far \notin {p, m} /\ near # g /\ (near = far => near = Nil)
  <2>1. Rotatable(t, p, m, e)
    BY <1>1, <1>2, <1>3, CanRotate
  <2>2. near \notin {p, m} /\ near # g
    BY <1>1, <1>2, <1>5, <2>1 DEF Rotatable
  <2>3. far # m
    BY <1>1, <1>3, <1>6, <1>s
  <2>4. far # p
    <3>1. far # Nil => Par(t, far) = m
      BY <1>1, <1>3, <1>6, <1>s
    <3> QED
      BY <1>2, <1>4, <3>1
  <2>5. near # Nil => near # far
    BY <1>1, <1>3, <1>5, <1>6, <1>o
  <2> QED
    BY <2>2, <2>3, <2>4, <2>5
<1>8. Kid(t, g, e) # p
  <2>1. Kid(t, g, d) # Nil
    OBVIOUS
  <2>2. Kid(t, g, d) # Kid(t, g, Other(d))
    BY <2>1, OneParent
  <2> QED
    BY <2>2
<1>9. /\ Root(u) = Root(t)
      /\ Kid(u, p, e) = near /\ Kid(u, p, d) = Kid(t, p, d)
      /\ Kid(u, m, d) = p /\ Kid(u, m, e) = far
      /\ \A x \in Nodes \ {p, m} : \A f \in Sides : Kid(u, x, f) = Kid(t, x, f)
      /\ near # Nil => Par(u, near) = p
      /\ \A x \in Nodes \ {m, near} : Par(u, x) = Par(t, x)
  BY <1>1, <1>5, <1>6 DEF Swung
<1>10. /\ Root(v) = Root(t)
       /\ Kid(v, p, e) = near /\ Kid(v, p, d) = Kid(t, p, d)
       /\ Kid(v, m, d) = p /\ Kid(v, m, e) = far
       /\ \A x \in Nodes \ {p, m} : \A f \in Sides :
             Kid(v, x, f) = IF x = g /\ Kid(t, x, f) = p THEN m ELSE Kid(t, x, f)
       /\ Par(v, p) = m
       /\ near # Nil => Par(v, near) = p
       /\ \A x \in Nodes \ {p, m, near} : Par(v, x) = Par(t, x)
  <2>1. /\ Root(v) = IF Par(t, p) = Nil THEN m ELSE Root(t)
        /\ Kid(v, p, e) = Kid(t, m, Other(e)) /\ Kid(v, p, Other(e)) = Kid(t, p, Other(e))
        /\ Kid(v, m, Other(e)) = p /\ Kid(v, m, e) = Kid(t, m, e)
        /\ \A x \in Nodes \ {p, m} : \A f \in Sides :
              Kid(v, x, f) = IF x = Par(t, p) /\ Kid(t, x, f) = p THEN m ELSE Kid(t, x, f)
        /\ Par(v, p) = m
        /\ Kid(t, m, Other(e)) # Nil => Par(v, Kid(t, m, Other(e))) = p
        /\ \A x \in Nodes \ {p, m, Kid(t, m, Other(e))} : Par(v, x) = Par(t, x)
    BY DEF Rotated
  <2>2. Kid(t, m, Other(e)) = near /\ Kid(t, m, e) = far /\ Other(e) = d
    BY <1>1, <1>5, <1>6
  <2>3. Root(v) = Root(t) /\ Par(v, p) = m
    BY <1>2, <2>1
  <2>4. /\ Kid(v, p, e) = near /\ Kid(v, p, d) = Kid(t, p, d)
        /\ Kid(v, m, d) = p /\ Kid(v, m, e) = far
    BY <2>1, <2>2
  <2>5. near # Nil => Par(v, near) = p
    BY <2>1, <2>2
  <2>6. \A x \in Nodes \ {p, m, near} : Par(v, x) = Par(t, x)
    BY <2>1, <2>2
  <2>7. \A x \in Nodes \ {p, m} : \A f \in Sides :
             Kid(v, x, f) = IF x = g /\ Kid(t, x, f) = p THEN m ELSE Kid(t, x, f)
    BY <1>2, <2>1
  <2> QED
    BY <2>3, <2>4, <2>5, <2>6, <2>7
<1>11. /\ Root(u2) = Root(u)
       /\ \A x \in Nodes : \A f \in Sides : x # g \/ f # d => Kid(u2, x, f) = Kid(u, x, f)
       /\ \A x \in Nodes \ {p, m} : Par(u2, x) = Par(u, x)
  BY DEF Stale
<1>12. Kid(u2, m, e) = far /\ Kid(u2, m, d) = p /\ Kid(u2, g, e) = Kid(t, g, e)
  BY <1>1, <1>2, <1>3, <1>4, <1>9, <1>11
<1>13. /\ Root(w) = Root(u2)
       /\ Kid(w, g, d) = far /\ Kid(w, g, e) = Kid(t, g, e)
       /\ Kid(w, m, e) = g /\ Kid(w, m, d) = p
       /\ \A x \in Nodes \ {g, m} : \A f \in Sides : Kid(w, x, f) = Kid(u2, x, f)
       /\ far # Nil => Par(w, far) = g
       /\ \A x \in Nodes \ {m, far} : Par(w, x) = Par(u2, x)
  BY <1>1, <1>12 DEF Swung
<1>14. /\ Root(w2) = Root(v)
       /\ Kid(w2, g, d) = far /\ Kid(w2, g, e) = Kid(v, g, e)
       /\ Kid(w2, m, e) = g /\ Kid(w2, m, d) = Kid(v, m, d)
  BY <1>1, <1>2, <1>3, <1>4, <1>8, <1>9, <1>10, <1>11, <1>13
<1>15. ASSUME NEW x \in Nodes \ {g, m}, NEW f \in Sides PROVE Kid(w2, x, f) = Kid(v, x, f)
  <2>1. Kid(w2, x, f) = Kid(u, x, f)
    BY <1>11, <1>13
  <2>2. CASE x = p
    BY <1>1, <1>9, <1>10, <2>1, <2>2
  <2>3. CASE x # p
    BY <1>9, <1>10, <2>1, <2>3
  <2> QED
    BY <2>2, <2>3
<1>16. far # Nil => Par(w2, far) = g
  <2>1. far \in M \cup {Nil}
    BY <1>1, <1>3, <1>6, <1>s
  <2>2. far # Nil => far \in Nodes
    BY <2>1, SubType
  <2> QED
    BY <1>7, <1>13, <2>2
<1>17. ASSUME NEW x \in Nodes \ {m, far} PROVE Par(w2, x) = Par(v, x)
  <2>1. CASE x = p
    BY <1>10, <2>1
  <2>2. CASE x # p
    <3>1. Par(w2, x) = Par(u, x)
      BY <1>11, <1>13, <2>2
    <3>2. CASE x = near
      <4>1. near # Nil
        BY <3>2, NodePointers
      <4> QED
        BY <1>9, <1>10, <3>1, <3>2, <4>1
    <3>3. CASE x # near
      BY <1>9, <1>10, <2>2, <3>1, <3>3
    <3> QED
      BY <3>2, <3>3
  <2> QED
    BY <2>1, <2>2
<1> QED
  BY <1>1, <1>10, <1>14, <1>15, <1>16, <1>17 DEF Swung

\* Cases 2 and 3 of __rb_insert.
LEMMA InsertInner ==
    ASSUME NEW t, NEW node, NEW M, NEW sub, NEW S, Unsettled(t, node, M, sub, S),
           NEW parent, NEW gparent, NEW d, Stands(t, node, parent, gparent, d, M), IsRed(t, parent),
           NEW e, e = Other(d), ~IsRed(t, Kid(t, gparent, e)), node = Kid(t, parent, e),
           NEW u, u = SwingBlack(t, parent, node, e),
           NEW u2, Moved(u, u2, parent, node), SameColors(u, u2, {parent}), IsRed(u2, parent),
           NEW w, w = SwingBlack(u2, gparent, node, d),
           NEW t2, t2 = TurnRed(w, gparent, node)
    PROVE  Valid(t2, M, S)
<1>1. /\ Shaped(t, M, sub) /\ node \in M /\ IsRed(t, node) /\ Colored(t, M, node)
      /\ Leafy(t, S) /\ M \subseteq S
  BY DEF Unsettled
<1>2. PICK h : Balanced(t, M, h, Nil, "left")
  BY DEF Unsettled
<1>3. /\ parent \in M /\ gparent \in M /\ d \in Sides /\ parent = Kid(t, gparent, d)
      /\ parent # Nil /\ ~IsRed(t, gparent) /\ node # Root(t) /\ ~IsRed(t, Root(t)) /\ node # Nil
  BY DEF Stands
<1>4. e \in Sides /\ e # d /\ d = Other(e) /\ \A f \in Sides : f = d \/ f = e
  BY <1>3, OtherSide
<1>5. t \in Trees /\ M \subseteq Nodes
  BY <1>1, SubType
<1>6. parent # node /\ gparent # parent /\ gparent # node
  <2>1. parent # node /\ node \in At(sub, parent)
    BY <1>1, <1>3, <1>4, ShapedNode
  <2>2. gparent # parent /\ gparent \notin At(sub, parent)
    BY <1>1, <1>3, ShapedNode
  <2> QED
    BY <2>1, <2>2
<1>7. \A f \in Sides : ~IsRed(t, Kid(t, node, f))
  <2>1. \A f \in Sides : Kid(t, node, f) # node
    BY <1>1, ShapedNode
  <2> QED
    BY <1>1, <2>1 DEF Colored
<1>8. Swung(t, u, parent, node, e) /\ SameColors(t, u, {})
  BY <1>1, <1>3, <1>4, <1>5, <1>6, <1>7, SwingBlackLinks
<1>9. PICK v : v = TurnRed(u, parent, node)
  OBVIOUS
<1>10. Rotatable(t, parent, node, e)
  BY <1>1, <1>3, <1>4, CanRotate
<1>11. /\ Rotated(t, v, parent, node, e) /\ SameColors(u, v, {parent, node})
       /\ (IsRed(v, node) <=> IsRed(u, parent)) /\ IsRed(v, parent)
  BY <1>5, <1>8, <1>9, <1>10, TurnRedLinks
<1>12. SameColors(t, v, {}) /\ IsRed(v, node)
  <2>1. \A x \in Nodes : IsRed(u, x) <=> IsRed(t, x)
    BY <1>8 DEF SameColors
  <2>2. \A x \in Nodes \ {parent, node} : IsRed(v, x) <=> IsRed(u, x)
    BY <1>11 DEF SameColors
  <2>3. parent \in Nodes /\ node \in Nodes
    BY <1>1, <1>3, <1>5
  <2>4. IsRed(v, node)
    BY <1>11, <2>1, <2>3
  <2>5. \A x \in Nodes : IsRed(v, x) <=> IsRed(t, x)
    BY <1>1, <1>11, <2>1, <2>2, <2>4
  <2> QED
    BY <2>4, <2>5 DEF SameColors
<1>13. PICK sub2 : Resub(t, sub, sub2, parent, node, e)
  BY <1>1, <1>3, <1>4, HasResub
<1>14. Shaped(v, M, sub2)
  BY <1>1, <1>3, <1>4, <1>11, <1>13, RotateShape
<1>15. Balanced(v, M, h, Nil, "left") /\ Colored(v, M, parent)
  BY <1>1, <1>2, <1>3, <1>4, <1>11, <1>12, RotateRed
<1>16. Leafy(v, S)
  BY <1>1, <1>3, <1>4, <1>11, RotateLeafy
<1>17. Par(t, parent) = gparent /\ gparent # Nil /\ Kid(t, gparent, e) # parent
  <2>1. Par(t, parent) = gparent /\ gparent # Nil
    BY <1>1, <1>3, ShapedNode
  <2>2. Kid(t, gparent, d) # Nil
    BY <1>3
  <2>3. gparent \in M /\ d \in Sides
    BY <1>3
  <2>4. Kid(t, gparent, d) # Kid(t, gparent, Other(d))
    BY <1>1, <2>2, <2>3, OneParent
  <2> QED
    BY <1>3, <2>1, <2>4
<1>18. /\ Root(v) = Root(t) /\ Kid(v, gparent, d) = node /\ Kid(v, gparent, e) = Kid(t, gparent, e)
       /\ Kid(v, node, d) = parent /\ Kid(v, node, e) = Kid(t, node, e)
  BY <1>3, <1>4, <1>5, <1>6, <1>11, <1>17 DEF Rotated
<1>19. /\ ~IsRed(v, gparent) /\ ~IsRed(v, Root(v)) /\ ~IsRed(v, Kid(v, node, e))
       /\ ~IsRed(v, Kid(v, gparent, e))
  <2>1. \A x \in Nodes : IsRed(v, x) <=> IsRed(t, x)
    BY <1>12 DEF SameColors
  <2>2. ~IsRed(v, Nil)
    BY DEF IsRed
  <2>3. Root(t) \in M \cup {Nil} /\ Kid(t, node, e) \in M \cup {Nil} /\ Kid(t, gparent, e) \in M \cup {Nil}
    BY <1>1, <1>3, <1>4, SubType, ShapedNode
  <2>4. \A x \in M \cup {Nil} : ~IsRed(t, x) => ~IsRed(v, x)
    BY <1>5, <2>1, <2>2
  <2> QED
    BY <1>3, <1>4, <1>7, <1>18, <2>3, <2>4
<1>20. /\ u2 \in Trees /\ Root(u2) = Root(u)
       /\ \A x \in Nodes : \A f \in Sides : Kid(u2, x, f) = Kid(u, x, f)
       /\ Par(u2, parent) = node /\ \A x \in Nodes \ {parent} : Par(u2, x) = Par(u, x)
  BY DEF Moved
<1>21. Stale(u, u2, gparent, d, parent, node)
  BY <1>20 DEF Stale
<1>22. Kid(u2, node, e) = Kid(t, node, e) /\ parent # Kid(t, node, e)
  <2>1. Kid(u2, node, e) = Kid(t, node, e)
    BY <1>1, <1>4, <1>5, <1>8, <1>20 DEF Swung
  <2>2. Kid(t, node, e) # Nil => Par(t, Kid(t, node, e)) = node
    BY <1>1, <1>4, ShapedNode
  <2> QED
    BY <1>3, <1>6, <1>17, <2>1, <2>2
<1>23. SameColors(v, u2, {})
  <2>1. \A x \in Nodes : IsRed(u, x) <=> IsRed(v, x)
    BY <1>8, <1>12 DEF SameColors
  <2>2. \A x \in Nodes \ {parent} : IsRed(u2, x) <=> IsRed(u, x)
    BY DEF SameColors
  <2>3. \A x \in Nodes : IsRed(u2, x) <=> IsRed(v, x)
    BY <1>11, <2>1, <2>2
  <2> QED
    BY <2>3 DEF SameColors
<1>24. ~IsRed(u2, Kid(u2, node, e))
  <2>1. \A x \in Nodes : IsRed(u2, x) <=> IsRed(v, x)
    BY <1>23 DEF SameColors
  <2>2. ~IsRed(u2, Nil)
    BY DEF IsRed
  <2>3. Kid(t, node, e) \in M \cup {Nil}
    BY <1>1, <1>4, ShapedNode
  <2> QED
    BY <1>5, <1>18, <1>19, <1>22, <2>1, <2>2, <2>3
<1>25. Swung(u2, w, gparent, node, d) /\ SameColors(u2, w, {})
  BY <1>1, <1>3, <1>4, <1>5, <1>6, <1>20, <1>24, SwingBlackLinks
<1>26. Par(w, parent) = node /\ w \in Trees
  BY <1>3, <1>4, <1>5, <1>6, <1>20, <1>22, <1>25 DEF Swung
<1>27. Swung(v, w, gparent, node, d)
  BY <1>1, <1>3, <1>8, <1>11, <1>21, <1>25, <1>26, Mended
<1>28. SameColors(v, w, {})
  BY <1>23, <1>25 DEF SameColors
<1>29. Colored(v, M, Kid(v, node, d)) /\ node = Kid(v, gparent, d)
  BY <1>15, <1>18
<1>30. ~IsRed(v, Kid(v, node, Other(d))) /\ ~IsRed(v, Kid(v, gparent, Other(d)))
  BY <1>19
<1> QED
  BY <1>1, <1>3, <1>12, <1>14, <1>15, <1>16, <1>19, <1>27, <1>28, <1>29, <1>30, InsertOuter

Blackened(t, n, p) == SetParentColor(t, n, p, FALSE)
Reddened(t, n, p)  == SetParentColor(t, n, p, TRUE)

State(t, node) == [tree |-> t, node |-> node]

\* What a round of __rb_insert does, case by case.
LEMMA InsertRoundCases ==
    ASSUME NEW t, NEW node, node # Nil,
           NEW parent, parent = Par(t, node), NEW gparent, gparent = Par(t, parent),
           NEW d, d = IF parent # Kid(t, gparent, "right") THEN "left" ELSE "right",
           NEW e, e = Other(d), NEW uncle, uncle = Kid(t, gparent, e)
    PROVE  /\ parent = Nil => InsertRound(State(t, node)) = State(Blackened(t, node, Nil), Nil)
           /\ parent # Nil /\ ~IsRed(t, parent) => InsertRound(State(t, node)) = State(t, Nil)
           /\ IsRed(t, parent) /\ IsRed(t, uncle) =>
                InsertRound(State(t, node)) =
                    State(Reddened(Blackened(Blackened(t, uncle, gparent), parent, gparent),
                                   gparent, Par(t, gparent)), gparent)
           /\ IsRed(t, parent) /\ ~IsRed(t, uncle) /\ node = Kid(t, parent, e) =>
                InsertRound(State(t, node)) =
                    State(TurnRed(SwingBlack(Reddened(SwingBlack(t, parent, node, e), parent, node),
                                             gparent, node, d), gparent, node), Nil)
           /\ IsRed(t, parent) /\ ~IsRed(t, uncle) /\ node # Kid(t, parent, e) =>
                InsertRound(State(t, node)) =
                    State(TurnRed(SwingBlack(t, gparent, parent, d), gparent, parent), Nil)
<1>1. State(t, node).tree = t /\ State(t, node).node = node
  BY DEF State
<1>2. CASE parent = Nil
  <2>1. ~IsRed(t, parent)
    BY <1>2 DEF IsRed
  <2> QED
    BY <1>1, <1>2, <2>1, Zenon DEF InsertRound, Blackened, Par, State
<1>3. CASE parent # Nil /\ ~IsRed(t, parent)
  <2>1. ~t.red[parent]
    BY <1>3 DEF IsRed
  <2> QED
    BY <1>1, <1>3, <2>1, Zenon DEF InsertRound, Par, State
<1>4. CASE IsRed(t, parent) /\ IsRed(t, uncle)
  <2>1. parent # Nil /\ t.red[parent]
    BY <1>4 DEF IsRed
  <2> QED
    BY <1>1, <1>4, <2>1, Zenon DEF InsertRound, Par, Kid, State, Blackened, Reddened
<1>5. CASE IsRed(t, parent) /\ ~IsRed(t, uncle)
  <2>1. parent # Nil /\ t.red[parent]
    BY <1>5 DEF IsRed
  <2>2. InsertRound(State(t, node)) = State(InsertTurn(t, node, parent, gparent, d), Nil)
    BY <1>1, <1>5, <2>1, Zenon DEF InsertRound, Par, Kid, State
  <2>3. CASE node = Kid(t, parent, e)
    <3>1. InsertTurn(t, node, parent, gparent, d)
            = TurnRed(SwingBlack(Reddened(SwingBlack(t, parent, node, e), parent, node),
                                 gparent, node, d), gparent, node)
      BY <2>3, Zenon DEF InsertTurn, InsertRotate, TurnRed, Reddened, Kid
    <3> QED
      BY <1>5, <2>1, <2>2, <2>3, <3>1, Zenon
  <2>4. CASE node # Kid(t, parent, e)
    <3>1. InsertTurn(t, node, parent, gparent, d)
            = TurnRed(SwingBlack(t, gparent, parent, d), gparent, parent)
      BY <2>4, Zenon DEF InsertTurn, InsertRotate, TurnRed, Kid
    <3> QED
      BY <1>5, <2>1, <2>2, <2>4, <3>1, Zenon
  <2> QED
    BY <2>3, <2>4, Zenon
<1> QED
  BY <1>2, <1>3, <1>4, <1>5

\* A valid tree is one of nodes.
LEMMA ValidTree ==
    ASSUME NEW t, NEW M, NEW S, Valid(t, M, S)
    PROVE  t \in Trees /\ M \subseteq Nodes
  BY SubType DEF Valid

\* Painting a node black changes its colour and parent only.
LEMMA BlackenedIs ==
    ASSUME NEW t \in Trees, NEW n \in Nodes, NEW p \in Pointers, NEW t2, t2 = Blackened(t, n, p)
    PROVE  Moved(t, t2, n, p) /\ SameColors(t, t2, {n}) /\ ~IsRed(t2, n) /\ t2 \in Trees
<1>1. Moved(t, t2, n, p) /\ SameColors(t, t2, {n}) /\ ~IsRed(t2, n)
  BY PaintedBlack DEF Blackened
<1> QED
  BY <1>1 DEF Moved

\* The same, for red.
LEMMA ReddenedIs ==
    ASSUME NEW t \in Trees, NEW n \in Nodes, NEW p \in Pointers, NEW t2, t2 = Reddened(t, n, p)
    PROVE  Moved(t, t2, n, p) /\ SameColors(t, t2, {n}) /\ IsRed(t2, n) /\ t2 \in Trees
<1>1. Moved(t, t2, n, p) /\ SameColors(t, t2, {n}) /\ IsRed(t2, n)
  BY PaintedRed DEF Reddened
<1> QED
  BY <1>1 DEF Moved

\* A round of __rb_insert on a tree that is unsettled at node makes it valid,
\* or leaves it unsettled higher up.
LEMMA InsertStep ==
    ASSUME NEW t, NEW node, NEW M, NEW sub, NEW S, Unsettled(t, node, M, sub, S)
    PROVE  \E t2, n2 :
              /\ InsertRound(State(t, node)) = State(t2, n2) /\ t2 \in Trees /\ n2 \in Pointers
              /\ \/ n2 = Nil /\ Valid(t2, M, S)
                 \/ n2 # Nil /\ Unsettled(t2, n2, M, sub, S) /\ Size(sub, n2) > Size(sub, node)
<1>1. /\ Shaped(t, M, sub) /\ node \in M /\ Colored(t, M, node) /\ t \in Trees /\ M \subseteq Nodes
      /\ Leafy(t, S) /\ M \subseteq S /\ node # Nil
  BY SubType, NodePointers DEF Unsettled
<1>2. PICK parent : parent = Par(t, node)
  OBVIOUS
<1>3. PICK gparent : gparent = Par(t, parent)
  OBVIOUS
<1>4. PICK d : d = IF parent # Kid(t, gparent, "right") THEN "left" ELSE "right"
  OBVIOUS
<1>5. PICK e : e = Other(d)
  OBVIOUS
<1>6. PICK uncle : uncle = Kid(t, gparent, e)
  OBVIOUS
<1>p. Nil \in Pointers /\ \A n \in Nodes : n \in Pointers /\ n # Nil
  BY NodePointers
<1>7. CASE parent = Nil
  <2>1. PICK t2 : t2 = Blackened(t, node, Nil)
    OBVIOUS
  <2>2. InsertRound(State(t, node)) = State(t2, Nil)
    BY <1>1, <1>2, <1>7, <2>1, InsertRoundCases
  <2>3. Moved(t, t2, node, Nil) /\ SameColors(t, t2, {node}) /\ ~IsRed(t2, node)
    BY <1>1, <1>p, <2>1, BlackenedIs
  <2>4. Valid(t2, M, S)
    BY <1>2, <1>7, <2>3, InsertRoot
  <2> QED
    BY <1>p, <2>2, <2>4, ValidTree
<1>8. CASE parent # Nil /\ ~IsRed(t, parent)
  <2>1. InsertRound(State(t, node)) = State(t, Nil)
    BY <1>1, <1>2, <1>8, InsertRoundCases
  <2>2. Valid(t, M, S)
    BY <1>2, <1>8, InsertBlackParent
  <2> QED
    BY <1>p, <2>1, <2>2, ValidTree
<1>9. ASSUME IsRed(t, parent)
      PROVE  /\ Stands(t, node, parent, gparent, d, M)
             /\ parent \in Nodes /\ gparent \in Nodes /\ parent # gparent /\ d \in Sides
             /\ parent = Kid(t, gparent, d) /\ Par(t, parent) = gparent /\ e \in Sides /\ d = Other(e)
             /\ parent \in M /\ gparent \in M /\ parent # node /\ node \in Nodes /\ gparent # node
  <2>1. Stands(t, node, parent, gparent, d, M)
    BY <1>2, <1>3, <1>4, <1>9, Standing
  <2>2. /\ parent \in M /\ gparent \in M /\ d \in Sides /\ parent = Kid(t, gparent, d)
        /\ parent # Nil /\ \E f \in Sides : node = Kid(t, parent, f)
    BY <2>1 DEF Stands
  <2>3. e \in Sides /\ d = Other(e)
    BY <1>5, <2>2, OtherSide
  <2>4. parent # gparent /\ gparent \notin At(sub, parent)
    BY <1>1, <2>2, ShapedNode
  <2>5. parent # node /\ node \in At(sub, parent)
    BY <1>1, <2>2, ShapedNode
  <2> QED
    BY <1>1, <1>3, <2>1, <2>2, <2>3, <2>4, <2>5
<1>10. CASE IsRed(t, parent) /\ IsRed(t, uncle)
  <2>s. /\ Stands(t, node, parent, gparent, d, M)
        /\ parent \in Nodes /\ gparent \in Nodes /\ parent # gparent /\ d \in Sides
        /\ parent = Kid(t, gparent, d) /\ Par(t, parent) = gparent /\ e \in Sides /\ d = Other(e)
        /\ parent \in M /\ gparent \in M
    BY <1>9, <1>10
  <2>1. PICK a : a = Blackened(t, uncle, gparent)
    OBVIOUS
  <2>2. PICK b : b = Blackened(a, parent, gparent)
    OBVIOUS
  <2>3. PICK up : up = Par(t, gparent)
    OBVIOUS
  <2>4. PICK t2 : t2 = Reddened(b, gparent, up)
    OBVIOUS
  <2>5. InsertRound(State(t, node)) = State(t2, gparent)
    BY <1>1, <1>2, <1>3, <1>4, <1>5, <1>6, <1>10, <2>1, <2>2, <2>3, <2>4, InsertRoundCases
  <2>6. uncle # Nil
    BY <1>10 DEF IsRed
  <2>7. /\ uncle \in M \cup {Nil} /\ uncle # gparent
        /\ uncle # Nil => Par(t, uncle) = gparent
    BY <1>1, <1>6, <2>s, ShapedNode
  <2>8. parent # uncle
    <3>1. Kid(t, gparent, d) # Nil
      BY <2>s, <1>p
    <3>2. Kid(t, gparent, d) # Kid(t, gparent, Other(d))
      BY <1>1, <2>s, <3>1, OneParent
    <3> QED
      BY <1>5, <1>6, <2>s, <3>2
  <2>9. uncle \in Nodes /\ gparent \in Pointers /\ up \in Pointers
    BY <1>1, <1>p, <2>3, <2>s, <2>6, <2>7, Typed
  <2>10. Moved(t, a, uncle, gparent) /\ SameColors(t, a, {uncle}) /\ ~IsRed(a, uncle) /\ a \in Trees
    BY <1>1, <2>1, <2>9, BlackenedIs
  <2>11. Moved(a, b, parent, gparent) /\ SameColors(a, b, {parent}) /\ ~IsRed(b, parent) /\ b \in Trees
    BY <2>2, <2>9, <2>10, <2>s, BlackenedIs
  <2>12. Moved(b, t2, gparent, up) /\ SameColors(b, t2, {gparent}) /\ IsRed(t2, gparent) /\ t2 \in Trees
    BY <2>4, <2>9, <2>11, <2>s, ReddenedIs
  <2>13. Linked(t, a)
    BY <1>1, <2>6, <2>7, <2>9, <2>10, LinkedMoved
  <2>14. Linked(a, b)
    <3>1. Par(a, parent) = gparent
      BY <2>13, <2>s DEF Linked
    <3> QED
      BY <2>10, <2>11, <2>s, <3>1, LinkedMoved
  <2>15. Linked(t, b)
    BY <2>13, <2>14, LinkedTwice
  <2>16. Linked(b, t2)
    <3>1. Par(b, gparent) = up
      BY <2>3, <2>15, <2>s DEF Linked
    <3> QED
      BY <2>11, <2>12, <2>s, <3>1, LinkedMoved
  <2>17. Linked(t, t2)
    BY <2>15, <2>16, LinkedTwice
  <2>18. SameColors(t, t2, {parent, uncle, gparent}) /\ ~IsRed(t2, parent) /\ ~IsRed(t2, uncle)
    BY <2>7, <2>8, <2>9, <2>10, <2>11, <2>12, <2>s DEF SameColors
  <2>19. Unsettled(t2, gparent, M, sub, S) /\ Size(sub, gparent) > Size(sub, node)
    <3>1. uncle = Kid(t, gparent, Other(d))
      BY <1>5, <1>6
    <3> QED
      BY <1>10, <2>12, <2>17, <2>18, <2>s, <3>1, InsertFlip
  <2> QED
    BY <1>p, <2>5, <2>9, <2>12, <2>19, <2>s
<1>11. CASE IsRed(t, parent) /\ ~IsRed(t, uncle) /\ node = Kid(t, parent, e)
  <2>1. PICK u : u = SwingBlack(t, parent, node, e)
    OBVIOUS
  <2>2. PICK u2 : u2 = Reddened(u, parent, node)
    OBVIOUS
  <2>3. PICK w : w = SwingBlack(u2, gparent, node, d)
    OBVIOUS
  <2>4. PICK t2 : t2 = TurnRed(w, gparent, node)
    OBVIOUS
  <2>5. InsertRound(State(t, node)) = State(t2, Nil)
    <3>1. node # Nil
      BY <1>1
    <3>2. InsertRound(State(t, node)) =
             State(TurnRed(SwingBlack(Reddened(SwingBlack(t, parent, node, e), parent, node),
                                      gparent, node, d), gparent, node), Nil)
      BY <1>2, <1>3, <1>4, <1>5, <1>6, <1>11, <3>1, InsertRoundCases
    <3> QED
      BY <2>1, <2>2, <2>3, <2>4, <3>2
  <2>6. ~IsRed(t, Kid(t, node, d))
    <3>1. node \in M /\ d \in Sides
      BY <1>1, <1>9, <1>11
    <3>2. Kid(t, node, d) # node
      BY <1>1, <3>1, ShapedNode
    <3>3. IsRed(t, node)
      BY DEF Unsettled
    <3> QED
      BY <1>1, <3>1, <3>2, <3>3 DEF Colored
  <2>7. u \in Trees
    <3>1. Swung(t, u, parent, node, e)
      BY <1>1, <1>9, <1>11, <2>1, <2>6, SwingBlackLinks
    <3> QED
      BY <3>1 DEF Swung
  <2>8. Moved(u, u2, parent, node) /\ SameColors(u, u2, {parent}) /\ IsRed(u2, parent)
    BY <1>p, <1>9, <1>11, <2>2, <2>7, ReddenedIs
  <2>9. Valid(t2, M, S)
    BY <1>5, <1>6, <1>9, <1>11, <2>1, <2>3, <2>4, <2>8, InsertInner
  <2> QED
    BY <1>p, <2>5, <2>9, ValidTree
<1>12. CASE IsRed(t, parent) /\ ~IsRed(t, uncle) /\ node # Kid(t, parent, e)
  <2>1. PICK u : u = SwingBlack(t, gparent, parent, d)
    OBVIOUS
  <2>2. PICK t2 : t2 = TurnRed(u, gparent, parent)
    OBVIOUS
  <2>3. InsertRound(State(t, node)) = State(t2, Nil)
    <3>1. InsertRound(State(t, node)) = State(TurnRed(SwingBlack(t, gparent, parent, d), gparent, parent), Nil)
      BY <1>1, <1>2, <1>3, <1>4, <1>5, <1>6, <1>12, InsertRoundCases
    <3> QED
      BY <2>1, <2>2, <3>1
  <2>4. ~IsRed(t, gparent) /\ ~IsRed(t, Root(t)) /\ \E f \in Sides : node = Kid(t, parent, f)
    BY <1>9, <1>12 DEF Stands
  <2>5. node = Kid(t, parent, d)
    BY <1>5, <1>9, <1>12, <2>4, OtherSide
  <2>6. ~IsRed(t, Kid(t, parent, e))
    BY <1>1, <1>9, <1>12 DEF Colored
  <2>7. Swung(t, u, gparent, parent, d) /\ SameColors(t, u, {})
    BY <1>1, <1>5, <1>9, <1>12, <2>1, <2>6, SwingBlackLinks
  <2>8. PICK h : Balanced(t, M, h, Nil, "left")
    BY DEF Unsettled
  <2>9. ~IsRed(t, Kid(t, gparent, Other(d))) /\ ~IsRed(t, Kid(t, parent, Other(d)))
    BY <1>5, <1>6, <1>12, <2>6
  <2>10. Valid(t2, M, S)
    BY <1>1, <1>9, <1>12, <2>2, <2>4, <2>5, <2>7, <2>8, <2>9, InsertOuter
  <2> QED
    BY <1>p, <2>3, <2>10, ValidTree
<1> QED
  BY <1>7, <1>8, <1>10, <1>11, <1>12

InsertStates(M, sub, S) ==
    {x \in [tree : Trees, node : Pointers] :
        IF x.node = Nil THEN Valid(x.tree, M, S) ELSE Unsettled(x.tree, x.node, M, sub, S)}

\* rb_insert_color settles the tree.
LEMMA InsertColorIs ==
    ASSUME NEW t, NEW node, NEW M, NEW sub, NEW S, Unsettled(t, node, M, sub, S)
    PROVE  Valid(InsertColor(t, node), M, S)
<1>1. PICK X : X = InsertStates(M, sub, S)
  OBVIOUS
<1>2. PICK s : s = State(t, node)
  OBVIOUS
<1>3. \A a \in Trees, b \in Pointers :
         State(a, b) \in X <=> IF b = Nil THEN Valid(a, M, S) ELSE Unsettled(a, b, M, sub, S)
  BY <1>1 DEF InsertStates, State
<1>4. \A x \in X : \E a \in Trees, b \in Pointers : x = State(a, b)
  <2>1. ASSUME NEW x \in X PROVE x.tree \in Trees /\ x.node \in Pointers /\ x = State(x.tree, x.node)
    BY <1>1 DEF InsertStates, State
  <2> QED
    BY <2>1
<1>5. \A a, b : State(a, b).tree = a /\ State(a, b).node = b
  BY DEF State
<1>6. t \in Trees /\ node \in Pointers /\ node # Nil /\ Shaped(t, M, sub)
  BY SubType, NodePointers DEF Unsettled
<1>7. s \in X
  BY <1>2, <1>3, <1>6
<1>8. PICK F : F = [x \in X |-> InsertRound(x)]
  OBVIOUS
<1>9. ASSUME NEW x \in X
      PROVE  /\ InsertRound(x) \in X
             /\ x.node = Nil => InsertRound(x).node = Nil
             /\ x.node # Nil => 0 < Size(sub, x.node) /\ Size(sub, x.node) <= Cardinality(Nodes)
             /\ x.node # Nil /\ InsertRound(x).node # Nil =>
                   Size(sub, InsertRound(x).node) > Size(sub, x.node)
  <2>1. PICK a \in Trees, b \in Pointers : x = State(a, b)
    BY <1>4
  <2>2. x.node = b
    BY <1>5, <2>1
  <2>3. CASE b = Nil
    <3>1. InsertRound(x) = x
      BY <2>2, <2>3, Zenon DEF InsertRound
    <3> QED
      BY <2>2, <2>3, <3>1
  <2>4. CASE b # Nil
    <3>1. Unsettled(a, b, M, sub, S)
      BY <1>3, <2>1, <2>4
    <3>2. PICK a2, b2 :
              /\ InsertRound(State(a, b)) = State(a2, b2) /\ a2 \in Trees /\ b2 \in Pointers
              /\ \/ b2 = Nil /\ Valid(a2, M, S)
                 \/ b2 # Nil /\ Unsettled(a2, b2, M, sub, S) /\ Size(sub, b2) > Size(sub, b)
      BY <3>1, InsertStep
    <3>3. InsertRound(x) = State(a2, b2) /\ InsertRound(x).node = b2
      BY <1>5, <2>1, <3>2
    <3>4. InsertRound(x) \in X
      BY <1>3, <3>2, <3>3
    <3>5. 0 < Size(sub, b) /\ Size(sub, b) <= Cardinality(Nodes)
      <4>1. Shaped(a, M, sub) /\ b \in M
        BY <3>1 DEF Unsettled
      <4>2. Size(sub, b) > 0 /\ Size(sub, b) \in Nat /\ Size(sub, b) <= Cardinality(Nodes)
        BY <4>1, Sizes
      <4> QED
        BY <4>2
    <3> QED
      BY <2>2, <2>4, <3>2, <3>3, <3>4, <3>5
  <2> QED
    BY <2>3, <2>4
<1>10. PICK rank : rank = [x \in X |-> Size(sub, x.node)]
  OBVIOUS
<1>11. PICK Done : Done = {x \in X : x.node = Nil}
  OBVIOUS
<1>12. Climbs(X, F, Done, rank)
  <2>1. \A x \in X : rank[x] = Size(sub, x.node) /\ F[x] = InsertRound(x) /\ (x \in Done <=> x.node = Nil)
    BY <1>8, <1>10, <1>11
  <2>2. \A x \in X : F[x] \in X
    BY <1>9, <2>1
  <2>3. rank \in [X -> Nat]
    <3>1. \A x \in X : x.node \in Pointers
      BY <1>4, <1>5
    <3>2. \A x \in X : Size(sub, x.node) \in Nat
      BY <1>6, <3>1, Sizes
    <3> QED
      BY <1>10, <3>2
  <2> QED
    BY <1>9, <2>1, <2>2, <2>3 DEF Climbs
<1>13. F \in [X -> X] /\ \A x \in X : F[x] = InsertRound(x)
  BY <1>8, <1>9
<1>14. PICK y : y = Loop(InsertRound, s)
  OBVIOUS
<1>15. y \in X /\ y \in Done
  BY <1>7, <1>12, <1>13, <1>14, InsertLoop
<1>16. Valid(y.tree, M, S)
  BY <1>1, <1>11, <1>15 DEF InsertStates
<1>17. InsertColor(t, node) = y.tree
  BY <1>2, <1>14, Zenon DEF InsertColor, State
<1> QED
  BY <1>16, <1>17

-----------------------------------------------------------------------------
(* Removal: ____rb_erase_color.                                            *)

\* Paths through the d-child of parent, node, lack a black node.
Lacking(t, node, parent, d, h, M, sub, S) ==
    /\ Shaped(t, M, sub) /\ Balanced(t, M, h, parent, d) /\ Colored(t, M, Nil)
    /\ parent \in M /\ d \in Sides /\ Kid(t, parent, d) = node
    /\ ~IsRed(t, node) /\ ~IsRed(t, Root(t)) /\ Leafy(t, S) /\ M \subseteq S

\* What the pieces around the lacking node are.
LEMMA LackingAround ==
    ASSUME NEW t, NEW node, NEW parent, NEW d, NEW h, NEW M, NEW sub, NEW S,
           Lacking(t, node, parent, d, h, M, sub, S),
           NEW e, e = Other(d), NEW sibling, sibling = Kid(t, parent, e)
    PROVE  /\ t \in Trees /\ M \subseteq Nodes /\ e \in Sides /\ e # d /\ d = Other(e)
           /\ \A f \in Sides : f = d \/ f = e
           /\ parent \in M /\ parent \in Nodes /\ parent # Nil /\ Nil \in Pointers
           /\ sibling \in M /\ sibling \in Nodes /\ sibling # Nil /\ sibling # parent
           /\ node \in M \cup {Nil} /\ node # parent /\ node # sibling
           /\ Par(t, sibling) = parent /\ sibling # Root(t)
           /\ At(h, sibling) \in Nat /\ At(h, sibling) > 0 /\ At(h, parent) \in Nat
           /\ At(h, parent) = At(h, sibling) + Weight(t, parent)
           /\ At(h, sibling) = At(h, node) + 1
<1>1. /\ Shaped(t, M, sub) /\ Balanced(t, M, h, parent, d)
      /\ parent \in M /\ d \in Sides /\ Kid(t, parent, d) = node
  BY DEF Lacking
<1>2. e \in Sides /\ e # d /\ d = Other(e) /\ \A f \in Sides : f = d \/ f = e
  BY <1>1, OtherSide
<1>3. t \in Trees /\ M \subseteq Nodes /\ parent \in Nodes /\ parent # Nil /\ Nil \in Pointers
  BY <1>1, SubType, NodePointers
<1>4. node \in M \cup {Nil} /\ node # parent
  BY <1>1, ShapedNode
<1>5. sibling \in M \cup {Nil} /\ sibling # parent /\ (sibling # Nil => Par(t, sibling) = parent)
  BY <1>1, <1>2, ShapedNode
<1>6. \A n \in M \cup {Nil} : n \in Pointers
  BY <1>3, NodePointers
<1>7. /\ At(h, parent) = At(h, node) + Weight(t, parent) + Lack(parent, d, parent, d)
      /\ At(h, parent) = At(h, sibling) + Weight(t, parent) + Lack(parent, e, parent, d)
      /\ At(h, Nil) = 0
  BY <1>1, <1>2 DEF Balanced
<1>8. Lack(parent, d, parent, d) = 1 /\ Lack(parent, e, parent, d) = 0
  BY <1>2 DEF Lack
<1>9. At(h, parent) \in Nat /\ At(h, node) \in Nat /\ At(h, sibling) \in Nat
  BY <1>1, <1>4, <1>5, <1>6, HeightType
<1>10. Weight(t, parent) \in Nat
  BY DEF Weight
<1>11. At(h, sibling) = At(h, node) + 1 /\ At(h, parent) = At(h, sibling) + Weight(t, parent)
  BY <1>7, <1>8, <1>9, <1>10
<1>12. At(h, sibling) > 0
  BY <1>9, <1>11
<1>13. sibling # Nil
  BY <1>7, <1>12
<1>14. node # sibling
  BY <1>9, <1>11
<1>15. sibling # Root(t)
  <2>1. Kid(t, parent, e) # Nil
    BY <1>13
  <2>2. Kid(t, parent, e) # Root(t)
    BY <1>1, <1>2, <2>1, OneParent
  <2> QED
    BY <2>2
<1>16. sibling \in M /\ sibling \in Nodes
  BY <1>3, <1>5, <1>13
<1> QED
  BY <1>1, <1>2, <1>3, <1>4, <1>5, <1>9, <1>11, <1>12, <1>13, <1>14, <1>15, <1>16

\* Case 1 of ____rb_erase_color: then the sibling is black, and the parent red.
LEMMA EraseOne ==
    ASSUME NEW t, NEW node, NEW parent, NEW d, NEW h, NEW M, NEW sub, NEW S,
           Lacking(t, node, parent, d, h, M, sub, S),
           NEW e, e = Other(d), NEW sibling, sibling = Kid(t, parent, e), IsRed(t, sibling),
           NEW u, u = SwingBlack(t, parent, sibling, e), NEW t2, t2 = TurnRed(u, parent, sibling)
    PROVE  /\ \E h2, sub2 : Lacking(t2, node, parent, d, h2, M, sub2, S)
           /\ IsRed(t2, parent) /\ ~IsRed(t2, Kid(t2, parent, e))
<1>1. /\ t \in Trees /\ M \subseteq Nodes /\ e \in Sides /\ e # d /\ d = Other(e)
      /\ parent \in M /\ parent \in Nodes /\ parent # Nil /\ Nil \in Pointers
      /\ sibling \in M /\ sibling \in Nodes /\ sibling # Nil /\ sibling # parent
      /\ sibling # Root(t)
  BY LackingAround
<1>2. /\ Shaped(t, M, sub) /\ Balanced(t, M, h, parent, d) /\ Colored(t, M, Nil)
      /\ d \in Sides /\ Kid(t, parent, d) = node
      /\ ~IsRed(t, node) /\ ~IsRed(t, Root(t)) /\ Leafy(t, S) /\ M \subseteq S
  BY DEF Lacking
<1>3. ~IsRed(t, parent)
  BY <1>1, <1>2 DEF Colored
<1>4. \A f \in Sides : ~IsRed(t, Kid(t, sibling, f))
  <2>1. ~IsRed(t, Nil)
    BY DEF IsRed
  <2> QED
    BY <1>1, <1>2, <2>1 DEF Colored
<1>5. Swung(t, u, parent, sibling, e) /\ SameColors(t, u, {})
  BY <1>1, <1>2, <1>4, SwingBlackLinks
<1>6. Rotatable(t, parent, sibling, e)
  BY <1>1, <1>2, CanRotate
<1>7. /\ Rotated(t, t2, parent, sibling, e) /\ SameColors(u, t2, {parent, sibling})
      /\ (IsRed(t2, sibling) <=> IsRed(u, parent)) /\ IsRed(t2, parent)
  BY <1>1, <1>5, <1>6, TurnRedLinks
<1>8. SameColors(t, t2, {parent, sibling}) /\ ~IsRed(t2, sibling)
  BY <1>1, <1>3, <1>5, <1>7 DEF SameColors
<1>9. PICK sub2 : Resub(t, sub, sub2, parent, sibling, e)
  BY <1>1, <1>2, HasResub
<1>10. Shaped(t2, M, sub2)
  BY <1>1, <1>2, <1>7, <1>9, RotateShape
<1>11. PICK h2 : Swapped(h, h2, parent, sibling)
  BY <1>1, <1>2, NodePointers, HasSwapped DEF Balanced
<1>12. Balanced(t2, M, h2, parent, d)
  BY <1>1, <1>2, <1>3, <1>7, <1>8, <1>11, RotateSwap
<1>13. Colored(t2, M, Nil)
  <2>1. ~IsRed(t, Kid(t, sibling, Other(e))) /\ ~IsRed(t, Kid(t, parent, Other(e)))
    BY <1>1, <1>2, <1>4
  <2> QED
    BY <1>1, <1>2, <1>7, <1>8, <2>1, SwapColored
<1>14. /\ Kid(t2, parent, d) = node /\ Kid(t2, parent, e) = Kid(t, sibling, d)
       /\ Root(t2) = IF Par(t, parent) = Nil THEN sibling ELSE Root(t)
  BY <1>1, <1>2, <1>7 DEF Rotated
<1>15. ASSUME NEW x \in M \cup {Nil}, x # parent, ~IsRed(t, x) PROVE ~IsRed(t2, x)
  <2>1. ~IsRed(t2, Nil)
    BY DEF IsRed
  <2>2. CASE x = Nil
    BY <2>1, <2>2
  <2>3. CASE x = sibling
    BY <1>8, <2>3
  <2>4. CASE x # Nil /\ x # sibling
    BY <1>1, <1>8, <1>15, <2>4 DEF SameColors
  <2> QED
    BY <2>2, <2>3, <2>4
<1>16. ~IsRed(t2, node)
  <2>1. node \in M \cup {Nil} /\ node # parent
    BY LackingAround
  <2> QED
    BY <1>2, <1>15, <2>1
<1>17. ~IsRed(t2, Kid(t2, parent, e))
  <2>1. Kid(t, sibling, d) \in M \cup {Nil}
    BY <1>1, <1>2, ShapedNode
  <2>2. Kid(t, sibling, d) # parent
    BY <1>1, <1>6 DEF Rotatable
  <2> QED
    BY <1>2, <1>4, <1>14, <1>15, <2>1, <2>2
<1>18. ~IsRed(t2, Root(t2))
  <2>1. CASE Par(t, parent) = Nil
    BY <1>8, <1>14, <2>1
  <2>2. CASE Par(t, parent) # Nil
    <3>1. parent # Root(t)
      BY <1>1, <1>2, <2>2, Upward
    <3>2. Root(t) \in M \cup {Nil}
      BY <1>2, SubType
    <3> QED
      BY <1>2, <1>14, <1>15, <2>2, <3>1, <3>2
  <2> QED
    BY <2>1, <2>2
<1>19. Leafy(t2, S)
  BY <1>1, <1>2, <1>7, RotateLeafy
<1>20. Lacking(t2, node, parent, d, h2, M, sub2, S)
  BY <1>1, <1>2, <1>10, <1>12, <1>13, <1>14, <1>16, <1>18, <1>19 DEF Lacking
<1> QED
  BY <1>7, <1>17, <1>20

\* Case 4 of ____rb_erase_color, with what Swing and the painting leave.
LEMMA EraseFour ==
    ASSUME NEW t, NEW node, NEW parent, NEW d, NEW h, NEW M, NEW sub, NEW S,
           Lacking(t, node, parent, d, h, M, sub, S),
           NEW e, e = Other(d), NEW sibling, sibling = Kid(t, parent, e), ~IsRed(t, sibling),
           NEW outer, outer = Kid(t, sibling, e), IsRed(t, outer),
           NEW u, Swung(t, u, parent, sibling, e), SameColors(t, u, {sibling, outer}), ~IsRed(u, outer),
           NEW t2, t2 = TurnBlack(u, parent, sibling)
    PROVE  Valid(t2, M, S)
<1>1. /\ t \in Trees /\ M \subseteq Nodes /\ e \in Sides /\ e # d /\ d = Other(e)
      /\ parent \in M /\ parent \in Nodes /\ parent # Nil /\ Nil \in Pointers
      /\ sibling \in M /\ sibling \in Nodes /\ sibling # Nil /\ sibling # parent
      /\ sibling # Root(t)
  BY LackingAround
<1>2. /\ Shaped(t, M, sub) /\ Balanced(t, M, h, parent, d) /\ Colored(t, M, Nil)
      /\ d \in Sides /\ ~IsRed(t, Root(t)) /\ Leafy(t, S) /\ M \subseteq S
  BY DEF Lacking
<1>3. outer # Nil
  BY DEF IsRed
<1>4. outer \in M /\ outer \in Nodes /\ outer # sibling /\ Par(t, outer) = sibling
  BY <1>1, <1>2, <1>3, ShapedNode
<1>5. outer # parent
  <2>1. Par(t, sibling) = parent
    BY LackingAround
  <2>2. sibling \in At(sub, sibling) /\ outer \in At(sub, outer) /\ outer \in At(sub, sibling)
    BY <1>1, <1>2, <1>4, ShapedNode
  <2>3. parent \notin At(sub, sibling)
    BY <1>1, <1>2, ShapedNode
  <2> QED
    BY <2>2, <2>3
<1>6. Rotatable(t, parent, sibling, e)
  BY <1>1, <1>2, CanRotate
<1>7. /\ Rotated(t, t2, parent, sibling, e) /\ SameColors(u, t2, {parent, sibling})
      /\ (IsRed(t2, sibling) <=> IsRed(u, parent)) /\ ~IsRed(t2, parent)
  BY SMTT(30), <1>1, <1>6, TurnBlackLinks
<1>8. /\ SameColors(t, t2, {parent, sibling, outer}) /\ ~IsRed(t2, outer)
      /\ IsRed(t2, sibling) <=> IsRed(t, parent)
  BY <1>1, <1>4, <1>5, <1>7 DEF SameColors
<1>9. PICK sub2 : Resub(t, sub, sub2, parent, sibling, e)
  BY <1>1, <1>2, HasResub
<1>10. Shaped(t2, M, sub2)
  BY <1>1, <1>2, <1>7, <1>9, RotateShape
<1>11. PICK h2 : Filled(h, h2, parent, sibling, outer)
  <2>1. h \in [Pointers -> Nat]
    BY <1>2 DEF Balanced
  <2>2. parent \in Pointers /\ sibling \in Pointers /\ outer \in Pointers \ {parent, sibling}
    BY <1>1, <1>4, <1>5, NodePointers
  <2> QED
    BY <2>1, <2>2, HasFilled
<1>12. Balanced(t2, M, h2, Nil, "left") /\ Colored(t2, M, Nil)
  <2>1. Balanced(t, M, h, parent, Other(e))
    BY <1>1, <1>2
  <2> QED
    BY <1>1, <1>2, <1>7, <1>8, <1>11, <2>1, RotateFour
<1>13. Root(t2) = IF Par(t, parent) = Nil THEN sibling ELSE Root(t)
  BY <1>7 DEF Rotated
<1>14. ~IsRed(t2, Root(t2))
  <2>1. CASE Par(t, parent) = Nil
    <3>0. parent # Root(t) => Par(t, parent) \in M
      BY <1>1, <1>2, Upward
    <3>1. parent = Root(t)
      BY <1>1, <2>1, <3>0, NodePointers
    <3> QED
      BY <1>2, <1>8, <1>13, <2>1, <3>1
  <2>2. CASE Par(t, parent) # Nil
    <3>1. parent # Root(t)
      BY <1>1, <1>2, <2>2, Upward
    <3>2. Root(t) \in M \cup {Nil} /\ ~IsRed(t2, Nil)
      BY <1>2, SubType DEF IsRed
    <3>3. Root(t2) = Root(t)
      BY <1>13, <2>2
    <3>4. Root(t) # Nil /\ Root(t) # outer => (IsRed(t2, Root(t)) <=> IsRed(t, Root(t)))
      BY <1>1, <1>8, <3>1, <3>2 DEF SameColors
    <3> QED
      BY <1>2, <1>8, <3>2, <3>3, <3>4
  <2> QED
    BY <2>1, <2>2
<1>15. Leafy(t2, S)
  BY <1>1, <1>2, <1>7, RotateLeafy
<1> QED
  BY <1>10, <1>12, <1>14, <1>15, Founded

\* Case 3 and then case 4.
LEMMA EraseThree ==
    ASSUME NEW t, NEW node, NEW parent, NEW d, NEW h, NEW M, NEW sub, NEW S,
           Lacking(t, node, parent, d, h, M, sub, S),
           NEW e, e = Other(d), NEW sibling, sibling = Kid(t, parent, e), ~IsRed(t, sibling),
           ~IsRed(t, Kid(t, sibling, e)),
           NEW inner, inner = Kid(t, sibling, d), IsRed(t, inner),
           NEW u, u = SwingBlack(t, sibling, inner, d),
           NEW u2, u2 = SetKid(u, parent, e, inner),
           NEW w, w = Swing(u2, parent, inner, e),
           NEW w2, w2 = Blackened(w, sibling, inner),
           NEW t2, t2 = TurnBlack(w2, parent, inner)
    PROVE  Valid(t2, M, S)
<1>1. /\ t \in Trees /\ M \subseteq Nodes /\ e \in Sides /\ e # d /\ d = Other(e)
      /\ parent \in M /\ parent \in Nodes /\ parent # Nil /\ Nil \in Pointers
      /\ sibling \in M /\ sibling \in Nodes /\ sibling # Nil /\ sibling # parent
      /\ sibling # Root(t) /\ Par(t, sibling) = parent
  BY LackingAround
<1>2. /\ Shaped(t, M, sub) /\ Balanced(t, M, h, parent, d) /\ Colored(t, M, Nil)
      /\ d \in Sides /\ ~IsRed(t, Root(t)) /\ Leafy(t, S) /\ M \subseteq S
      /\ Kid(t, parent, d) = node /\ ~IsRed(t, node)
  BY DEF Lacking
<1>3. inner # Nil
  BY DEF IsRed
<1>4. inner \in M /\ inner \in Nodes /\ inner # sibling /\ Par(t, inner) = sibling
  BY <1>1, <1>2, <1>3, ShapedNode
<1>5. inner # parent
  <2>2. sibling \in At(sub, sibling) /\ inner \in At(sub, inner) /\ inner \in At(sub, sibling)
    BY <1>1, <1>2, <1>4, ShapedNode
  <2>3. parent \notin At(sub, sibling)
    BY <1>1, <1>2, ShapedNode
  <2> QED
    BY <2>2, <2>3
<1>6. \A f \in Sides : ~IsRed(t, Kid(t, inner, f))
  <2>1. ~IsRed(t, Nil)
    BY DEF IsRed
  <2> QED
    BY <1>2, <1>4, <2>1 DEF Colored
<1>7. Swung(t, u, sibling, inner, d) /\ SameColors(t, u, {})
  BY <1>1, <1>2, <1>4, <1>6, SwingBlackLinks
<1>8. PICK v : v = TurnRed(u, sibling, inner)
  OBVIOUS
<1>9. Rotatable(t, sibling, inner, d)
  BY <1>1, <1>2, <1>3, CanRotate
<1>10. /\ Rotated(t, v, sibling, inner, d) /\ SameColors(u, v, {sibling, inner})
       /\ (IsRed(v, inner) <=> IsRed(u, sibling)) /\ IsRed(v, sibling)
  <2>1. t \in Trees /\ Swung(t, u, sibling, inner, d)
    BY <1>1, <1>7
  <2> QED
    BY <1>8, <1>9, <2>1, TurnRedLinks
<1>11. SameColors(t, v, {sibling, inner}) /\ ~IsRed(v, inner)
  BY <1>1, <1>7, <1>10 DEF SameColors
<1>12. PICK sub2 : Resub(t, sub, sub2, sibling, inner, d)
  BY <1>1, <1>2, <1>3, HasResub
<1>13. Shaped(v, M, sub2)
  BY <1>1, <1>2, <1>3, <1>10, <1>12, RotateShape
<1>14. PICK h2 : Swapped(h, h2, sibling, inner)
  BY <1>1, <1>2, <1>4, NodePointers, HasSwapped DEF Balanced
<1>15. Balanced(v, M, h2, parent, d)
  BY <1>1, <1>2, <1>3, <1>5, <1>10, <1>11, <1>14, RotateSwap
<1>16. Colored(v, M, Nil)
  <2>1. ~IsRed(t, Kid(t, inner, Other(d))) /\ ~IsRed(t, Kid(t, sibling, Other(d)))
    BY <1>1, <1>6
  <2> QED
    BY <1>1, <1>2, <1>3, <1>10, <1>11, <2>1, SwapColored
<1>17. Leafy(v, S)
  BY <1>1, <1>2, <1>3, <1>10, RotateLeafy
<1>18. Kid(t, parent, d) # sibling
  BY <1>2, LackingAround
<1>19. /\ Root(v) = Root(t) /\ Kid(v, parent, e) = inner /\ Kid(v, parent, d) = node
       /\ Kid(v, inner, e) = sibling
  <2>1. /\ Root(v) = IF Par(t, sibling) = Nil THEN inner ELSE Root(t)
        /\ Kid(v, inner, Other(d)) = sibling
        /\ \A x \in Nodes \ {sibling, inner} : \A f \in Sides :
             Kid(v, x, f) = IF x = Par(t, sibling) /\ Kid(t, x, f) = sibling THEN inner ELSE Kid(t, x, f)
    BY <1>10 DEF Rotated
  <2>2. Kid(v, parent, e) = inner /\ Kid(v, parent, d) = node
    BY <1>1, <1>2, <1>5, <1>18, <2>1
  <2> QED
    BY <1>1, <2>1, <2>2
<1>20. ASSUME NEW x \in M \cup {Nil}, x # sibling, ~IsRed(t, x) PROVE ~IsRed(v, x)
  <2>1. ~IsRed(v, Nil)
    BY DEF IsRed
  <2>2. CASE x = Nil
    BY <2>1, <2>2
  <2>3. CASE x = inner
    BY <1>11, <2>3
  <2>4. CASE x # Nil /\ x # inner
    BY <1>1, <1>11, <1>20, <2>4 DEF SameColors
  <2> QED
    BY <2>2, <2>3, <2>4
<1>21. ~IsRed(v, node) /\ ~IsRed(v, Root(v))
  <2>1. node \in M \cup {Nil} /\ node # sibling
    BY LackingAround
  <2>2. Root(t) \in M \cup {Nil}
    BY <1>2, SubType
  <2> QED
    BY <1>1, <1>2, <1>19, <1>20, <2>1, <2>2
<1>22. Lacking(v, node, parent, d, h2, M, sub2, S)
  BY <1>1, <1>2, <1>13, <1>15, <1>16, <1>17, <1>19, <1>21 DEF Lacking
<1>23. u \in Trees
  BY <1>7 DEF Swung
<1>24. Hung(u, u2, parent, e, inner) /\ SameColors(u, u2, {})
  BY <1>1, <1>4, <1>23, NodePointers, KidSet
<1>25. /\ u2 \in Trees /\ Root(u2) = Root(u)
       /\ Kid(u2, parent, d) = Kid(u, parent, d)
       /\ \A x \in Nodes \ {parent} : \A f \in Sides : Kid(u2, x, f) = Kid(u, x, f)
       /\ \A x \in Nodes : Par(u2, x) = Par(u, x)
  BY <1>1, <1>24 DEF Hung
<1>26. Stale(u, u2, parent, e, sibling, inner)
  <2>1. \A x \in Nodes : \A f \in Sides : x # parent \/ f # e => Kid(u2, x, f) = Kid(u, x, f)
    BY <1>1, <1>2, <1>25, OtherSide
  <2> QED
    BY <1>25, <2>1 DEF Stale
<1>27. Swung(u2, w, parent, inner, e) /\ SameColors(u2, w, {})
  BY <1>1, <1>4, <1>5, <1>25, SwingLinks
<1>28. w \in Trees
  BY <1>27 DEF Swung
<1>29. Moved(w, w2, sibling, inner) /\ SameColors(w, w2, {sibling}) /\ ~IsRed(w2, sibling) /\ w2 \in Trees
  BY <1>1, <1>4, <1>28, NodePointers, BlackenedIs
<1>30. /\ Root(w2) = Root(w) /\ \A x \in Nodes : \A f \in Sides : Kid(w2, x, f) = Kid(w, x, f)
       /\ \A x \in Nodes \ {sibling} : Par(w2, x) = Par(w, x)
       /\ Par(w2, sibling) = inner
  BY <1>29 DEF Moved
<1>31. Swung(v, w2, parent, inner, e)
  BY <1>1, <1>2, <1>3, <1>7, <1>10, <1>26, <1>27, <1>29, <1>30, Mended
<1>32. SameColors(v, w2, {inner, sibling})
  <2>1. \A x \in Nodes : IsRed(w, x) <=> IsRed(t, x)
    BY <1>7, <1>24, <1>27 DEF SameColors
  <2> QED
    BY <1>11, <1>29, <2>1 DEF SameColors
<1>33. sibling = Kid(v, inner, e) /\ inner = Kid(v, parent, e)
  BY <1>19
<1> QED
  BY <1>10, <1>11, <1>22, <1>29, <1>31, <1>32, <1>33, EraseFour

\* The heights of the nodes in T are one less.
Lowered(h, h2, T) ==
    /\ h2 \in [Pointers -> Nat]
    /\ \A x \in Pointers : At(h2, x) = IF x \in T THEN At(h, x) - 1 ELSE At(h, x)

\* Heights that are not 0 can be one less.
LEMMA HasLowered ==
    ASSUME NEW h \in [Pointers -> Nat], NEW T, \A x \in T : At(h, x) > 0
    PROVE  \E h2 : Lowered(h, h2, T)
<1>1. PICK h2 : h2 = [x \in Pointers |-> IF x \in T THEN h[x] - 1 ELSE h[x]]
  OBVIOUS
<1>2. Lowered(h, h2, T)
  <2>1. ASSUME NEW x \in Pointers
        PROVE  /\ At(h2, x) = IF x \in T THEN At(h, x) - 1 ELSE At(h, x)
               /\ h2[x] \in Nat
    <3>1. h[x] \in Nat /\ (x \in T => h[x] > 0)
      BY DEF At
    <3>2. h2[x] = IF x \in T THEN h[x] - 1 ELSE h[x]
      BY <1>1
    <3> QED
      BY <3>1, <3>2 DEF At
  <2> QED
    BY <1>1, <2>1 DEF Lowered
<1> QED
  BY <1>2

\* Case 2 of ____rb_erase_color.  The lack is gone if the parent was red, and
\* goes on to the parent's place if it was black.
LEMMA EraseFlip ==
    ASSUME NEW t, NEW node, NEW parent, NEW d, NEW h, NEW M, NEW sub, NEW S,
           Lacking(t, node, parent, d, h, M, sub, S),
           NEW e, e = Other(d), NEW sibling, sibling = Kid(t, parent, e), ~IsRed(t, sibling),
           \A f \in Sides : ~IsRed(t, Kid(t, sibling, f)),
           NEW t2, Linked(t, t2), SameColors(t, t2, {sibling, parent}),
           IsRed(t2, sibling), ~IsRed(t2, parent),
           NEW up, NEW g \in Sides, up # Nil => up = Par(t, parent) /\ Kid(t, up, g) = parent,
           up = Nil => IsRed(t, parent) \/ Par(t, parent) = Nil,
           up # Nil => ~IsRed(t, parent) /\ up \in M
    PROVE  \E h2 : /\ Shaped(t2, M, sub) /\ Balanced(t2, M, h2, up, g) /\ Colored(t2, M, Nil)
                   /\ ~IsRed(t2, Root(t2)) /\ Leafy(t2, S)
<1>1. /\ t \in Trees /\ M \subseteq Nodes /\ e \in Sides /\ e # d /\ d = Other(e)
      /\ \A f \in Sides : f = d \/ f = e
      /\ parent \in M /\ parent \in Nodes /\ parent # Nil /\ Nil \in Pointers
      /\ sibling \in M /\ sibling \in Nodes /\ sibling # Nil /\ sibling # parent
      /\ node \in M \cup {Nil} /\ node # parent /\ node # sibling
      /\ sibling # Root(t)
  BY LackingAround
<1>2. /\ At(h, sibling) \in Nat /\ At(h, sibling) > 0 /\ At(h, parent) \in Nat
      /\ At(h, parent) = At(h, sibling) + Weight(t, parent)
      /\ At(h, sibling) = At(h, node) + 1
  BY LackingAround
<1>3. /\ Shaped(t, M, sub) /\ Balanced(t, M, h, parent, d) /\ Colored(t, M, Nil)
      /\ d \in Sides /\ Kid(t, parent, d) = node
      /\ ~IsRed(t, Root(t)) /\ Leafy(t, S) /\ M \subseteq S
  BY DEF Lacking
<1>4. Shaped(t2, M, sub) /\ Leafy(t2, S)
  BY <1>3, LinkedShape, LinkedLeafy
<1>5. Root(t2) = Root(t) /\ \A x \in Nodes : \A f \in Sides : Kid(t2, x, f) = Kid(t, x, f)
  BY DEF Linked
<1>6. PICK T : T = IF IsRed(t, parent) THEN {sibling} ELSE {sibling, parent}
  OBVIOUS
<1>7. At(h, parent) > 0 \/ IsRed(t, parent)
  <2>1. ~IsRed(t, parent) => Weight(t, parent) = 1
    BY DEF Weight
  <2> QED
    BY <1>2, <2>1
<1>8. PICK h2 : Lowered(h, h2, T)
  <2>1. h \in [Pointers -> Nat]
    BY <1>3 DEF Balanced
  <2>2. \A x \in T : At(h, x) > 0
    BY <1>2, <1>6, <1>7
  <2> QED
    BY <2>1, <2>2, HasLowered
<1>9. \A x \in Pointers : At(h, x) \in Nat /\ At(h2, x) = IF x \in T THEN At(h, x) - 1 ELSE At(h, x)
  BY <1>3, <1>8, HeightType DEF Lowered
<1>10. \A x \in M \cup {Nil} : x \in Pointers
  BY <1>1, NodePointers
<1>11. \A n \in M : \A f \in Sides : Kid(t, n, f) = sibling => n = parent /\ f = e
  <2>1. Kid(t, parent, e) # Nil
    BY <1>1
  <2> QED
    BY <1>1, <1>3, <2>1, OneParent
<1>12. \A n \in M : \A f \in Sides : Kid(t, n, f) = parent => Par(t, parent) = n
  BY <1>1, <1>3, ShapedNode
<1>13. up # parent /\ up # sibling
  <2>1. CASE up = Nil
    BY <1>1, <2>1
  <2>2. CASE up # Nil
    <3>1. up # parent /\ up \notin At(sub, parent)
      BY <1>3, <2>2, ShapedNode
    <3>2. sibling \in At(sub, sibling) /\ sibling \in At(sub, parent)
      BY <1>1, <1>3, ShapedNode
    <3> QED
      BY <3>1, <3>2
  <2> QED
    BY <2>1, <2>2
<1>14. \A n \in M : \A f \in Sides : Kid(t, n, f) = parent /\ n = up => f = g
  <2>1. ASSUME NEW f \in Sides, up \in M, Kid(t, up, f) = parent PROVE f = g
    <3>1. up # Nil
      BY <1>1, <2>1, NodePointers
    <3>2. Kid(t, up, g) = parent /\ Kid(t, up, g) # Nil
      BY <1>1, <3>1
    <3>3. \A x \in M : \A y \in Sides : Kid(t, x, y) = Kid(t, up, g) => x = up /\ y = g
      BY <1>3, <2>1, <3>2, OneParent
    <3> QED
      BY <2>1, <3>2, <3>3
  <2> QED
    BY <2>1
<1>15. ASSUME NEW n \in M, NEW f \in Sides
       PROVE  /\ At(h2, n) = At(h2, Kid(t2, n, f)) + Weight(t2, n) + Lack(n, f, up, g)
              /\ ~(IsRed(t2, n) /\ IsRed(t2, Kid(t2, n, f)))
  <2>1. PICK k : k = Kid(t, n, f)
    OBVIOUS
  <2>2. n \in Nodes /\ n # Nil /\ k \in M \cup {Nil} /\ k # n
    BY <1>3, <2>1, ShapedNode
  <2>3. n \in Pointers /\ k \in Pointers /\ Kid(t2, n, f) = k
    BY <1>5, <1>10, <2>1, <2>2
  <2>5. At(h, n) = At(h, k) + Weight(t, n) + Lack(n, f, parent, d)
    BY <1>3, <2>1 DEF Balanced
  <2>7. PICK a \in Nat : a = At(h, k)
    BY <1>9, <2>3
  <2>8. CASE n = parent
    <3>1. Weight(t2, n) = 1
      BY <2>8 DEF Weight
    <3>2. Lack(n, f, up, g) = 0
      BY <1>13, <2>8 DEF Lack
    <3>3. At(h2, n) = At(h, sibling)
      <4>1. CASE IsRed(t, parent)
        <5>1. Weight(t, parent) = 0 /\ parent \notin T
          BY <1>1, <1>6, <4>1 DEF Weight
        <5>2. At(h, parent) = At(h, sibling)
          BY <1>2, <5>1
        <5> QED
          BY <1>9, <2>3, <2>8, <5>1, <5>2
      <4>2. CASE ~IsRed(t, parent)
        <5>1. Weight(t, parent) = 1 /\ parent \in T
          BY <1>6, <4>2 DEF Weight
        <5>2. At(h, parent) = At(h, sibling) + 1
          BY <1>2, <5>1
        <5>3. At(h2, parent) = At(h, parent) - 1
          BY <1>9, <2>3, <2>8, <5>1
        <5> QED
          BY <1>2, <2>8, <5>2, <5>3
      <4> QED
        BY <4>1, <4>2
    <3>4. At(h2, k) + 1 = At(h, sibling)
      <4>1. CASE f = d
        <5>1. k = node /\ k \notin T
          BY <1>1, <1>3, <1>6, <2>1, <2>8, <4>1
        <5> QED
          BY <1>2, <1>9, <2>3, <5>1
      <4>2. CASE f = e
        <5>1. k = sibling /\ k \in T
          BY <1>6, <2>1, <2>8, <4>2
        <5> QED
          BY <1>2, <1>9, <2>3, <5>1
      <4> QED
        BY <1>1, <4>1, <4>2
    <3>5. At(h2, n) = At(h2, k) + Weight(t2, n) + Lack(n, f, up, g)
      <4>1. PICK b \in Nat : b = At(h2, k)
        BY <1>8, <2>3 DEF Lowered, At
      <4> QED
        BY <3>1, <3>2, <3>3, <3>4, <4>1
    <3> QED
      BY <2>3, <2>8, <3>5
  <2>9. CASE n = sibling
    <3>1. Weight(t2, n) = 0 /\ Weight(t, n) = 1
      BY <2>9 DEF Weight
    <3>2. Lack(n, f, up, g) = 0 /\ Lack(n, f, parent, d) = 0
      BY <1>1, <1>13, <2>9 DEF Lack
    <3>3. k # sibling /\ k # parent
      <4>1. k # parent
        <5>1. k # Nil => k \in At(sub, sibling)
          <6>1. k # Nil => k \in At(sub, k)
            BY <1>3, <2>2, ShapedNode
          <6>2. \A x : x \in At(sub, k) => x \in At(sub, n)
            BY <1>3, <2>1, ShapedNode
          <6> QED
            BY <2>9, <6>1, <6>2
        <5>2. parent \notin At(sub, sibling)
          BY <1>1, <1>3, ShapedNode
        <5> QED
          BY <1>1, <5>1, <5>2
      <4> QED
        BY <2>2, <2>9, <4>1
    <3>4. n \in T /\ k \notin T
      BY <1>6, <2>9, <3>3
    <3>5. At(h, n) = a + 1
      BY <2>5, <2>7, <3>1, <3>2
    <3>6. At(h2, n) = a /\ At(h2, k) = a
      BY <1>9, <2>3, <2>7, <3>4, <3>5
    <3>7. At(h2, n) = At(h2, k) + Weight(t2, n) + Lack(n, f, up, g)
      BY <3>1, <3>2, <3>6
    <3>8. ~IsRed(t2, k)
      <4>1. ~IsRed(t, k) /\ ~IsRed(t2, Nil)
        BY <2>1, <2>9 DEF IsRed
      <4> QED
        BY <1>1, <2>2, <3>3, <4>1 DEF SameColors
    <3> QED
      BY <2>3, <3>7, <3>8
  <2>10. CASE n \notin {sibling, parent}
    <3>1. k # sibling /\ n \notin T
      BY <1>6, <1>11, <2>1, <2>10
    <3>2. (IsRed(t2, n) <=> IsRed(t, n)) /\ Weight(t2, n) = Weight(t, n)
      BY <2>2, <2>10 DEF SameColors, Weight
    <3>3. Lack(n, f, parent, d) = 0
      BY <2>10 DEF Lack
    <3>4. Weight(t, n) \in Nat
      BY DEF Weight
    <3>5. At(h, n) = a + Weight(t, n)
      BY <2>5, <2>7, <3>3, <3>4
    <3>6. At(h2, n) = a + Weight(t, n)
      BY <1>9, <2>3, <3>1, <3>5
    <3>7. CASE k = parent /\ ~IsRed(t, parent)
      <4>1. up = n /\ f = g
        <5>1. Par(t, parent) = n
          BY <1>12, <2>1, <3>7
        <5>2. up # Nil
          BY <2>2, <3>7, <5>1
        <5>3. up = n
          BY <5>1, <5>2
        <5> QED
          BY <1>14, <2>1, <3>7, <5>3
      <4>2. Lack(n, f, up, g) = 1
        BY <4>1 DEF Lack
      <4>3. At(h2, k) = a - 1
        BY <1>6, <1>9, <2>3, <2>7, <3>7
      <4> QED
        <5>1. PICK b \in Nat : b = Weight(t, n)
          BY <3>4
        <5>2. At(h2, n) = a + b /\ Weight(t2, n) = b
          BY <3>2, <3>6, <5>1
        <5>3. At(h2, n) = At(h2, k) + Weight(t2, n) + Lack(n, f, up, g)
          BY <4>2, <4>3, <5>2
        <5> QED
          BY <1>1, <2>3, <3>7, <5>3
    <3>8. CASE ~(k = parent /\ ~IsRed(t, parent))
      <4>1. k \notin T
        BY <1>6, <3>1, <3>8
      <4>2. Lack(n, f, up, g) = 0
        <5>1. ~(n = up /\ f = g)
          <6> SUFFICES ASSUME n = up, f = g PROVE FALSE
            OBVIOUS
          <6>1. up # Nil
            BY <2>2
          <6>2. k = parent /\ ~IsRed(t, parent)
            BY <2>1, <6>1
          <6> QED
            BY <3>8, <6>2
        <5> QED
          BY <5>1 DEF Lack
      <4>3. At(h2, k) = a
        BY <1>9, <2>3, <2>7, <4>1
      <4>4. At(h2, n) = At(h2, k) + Weight(t2, n) + Lack(n, f, up, g)
        <5>1. PICK b \in Nat : b = Weight(t, n)
          BY <3>4
        <5>2. At(h2, n) = a + b /\ Weight(t2, n) = b
          BY <3>2, <3>6, <5>1
        <5> QED
          BY <4>2, <4>3, <5>2
      <4>5. ~(IsRed(t2, n) /\ IsRed(t2, k))
        <5>1. ~(IsRed(t, n) /\ IsRed(t, k))
          <6>1. ~IsRed(t, Nil)
            BY DEF IsRed
          <6> QED
            BY <1>3, <2>1, <6>1 DEF Colored
        <5>2. IsRed(t2, k) => k # parent /\ k # Nil
          BY DEF IsRed
        <5>3. IsRed(t2, k) => IsRed(t, k)
          BY <1>1, <2>2, <3>1, <5>2 DEF SameColors
        <5> QED
          BY <3>2, <5>1, <5>3
      <4> QED
        BY <2>3, <4>4, <4>5
    <3> QED
      BY <3>7, <3>8
  <2> QED
    BY <2>8, <2>9, <2>10
<1>16. At(h2, Nil) = 0 /\ h2 \in [Pointers -> Nat]
  <2>1. Nil \in Pointers /\ Nil \notin T
    BY <1>1, <1>6
  <2>2. At(h, Nil) = 0
    BY <1>3 DEF Balanced
  <2> QED
    BY <1>8, <1>9, <2>1, <2>2 DEF Lowered
<1>17. Balanced(t2, M, h2, up, g) /\ Colored(t2, M, Nil)
  BY <1>15, <1>16 DEF Balanced, Colored
<1>18. ~IsRed(t2, Root(t2))
  <2>1. Root(t) \in M \cup {Nil} /\ ~IsRed(t2, Nil)
    BY <1>3, SubType DEF IsRed
  <2>2. Root(t) \in M /\ Root(t) # parent => ~IsRed(t2, Root(t))
    BY <1>1, <1>3 DEF SameColors
  <2> QED
    BY <1>5, <2>1, <2>2
<1> QED
  BY <1>4, <1>17, <1>18

State3(t, node, parent) == [tree |-> t, node |-> node, parent |-> parent]

\* What a round of ____rb_erase_color does, case by case.
LEMMA EraseRoundCases ==
    ASSUME NEW t, NEW node, NEW parent, parent # Nil,
           NEW d, d = IF node # Kid(t, parent, "right") THEN "left" ELSE "right",
           NEW e, e = Other(d), NEW t1, t1 = EraseSibling(t, parent, Kid(t, parent, e), d),
           NEW sibling, sibling = Kid(t1, parent, e),
           NEW flipped, flipped = Reddened(t1, sibling, parent)
    PROVE  /\ (\E f \in Sides : IsRed(t1, Kid(t1, sibling, f))) =>
                EraseRound(State3(t, node, parent)) = State3(EraseTurn(t1, parent, sibling, d), Nil, Nil)
           /\ ~(\E f \in Sides : IsRed(t1, Kid(t1, sibling, f))) /\ IsRed(t1, parent) =>
                EraseRound(State3(t, node, parent)) =
                    State3([flipped EXCEPT !.red[parent] = FALSE], Nil, Nil)
           /\ ~(\E f \in Sides : IsRed(t1, Kid(t1, sibling, f))) /\ ~IsRed(t1, parent) =>
                EraseRound(State3(t, node, parent)) = State3(flipped, parent, Par(t1, parent))
<1>1. /\ State3(t, node, parent).tree = t /\ State3(t, node, parent).node = node
      /\ State3(t, node, parent).parent = parent
  BY DEF State3
<1>2. CASE \E f \in Sides : IsRed(t1, Kid(t1, sibling, f))
  BY <1>1, <1>2, Zenon DEF EraseRound, Kid, State3
<1>3. CASE ~(\E f \in Sides : IsRed(t1, Kid(t1, sibling, f))) /\ IsRed(t1, parent)
  <2>1. t1.red[parent]
    BY <1>3 DEF IsRed
  <2> QED
    BY <1>1, <1>3, <2>1, Zenon DEF EraseRound, Kid, State3, Reddened
<1>4. CASE ~(\E f \in Sides : IsRed(t1, Kid(t1, sibling, f))) /\ ~IsRed(t1, parent)
  <2>1. ~t1.red[parent]
    BY <1>4 DEF IsRed
  <2> QED
    BY <1>1, <1>4, <2>1, Zenon DEF EraseRound, Kid, Par, State3, Reddened
<1> QED
  BY <1>2, <1>3, <1>4

\* Case 1 is a rotation, or nothing.
LEMMA EraseSiblingCases ==
    ASSUME NEW t, NEW parent, NEW sibling, sibling # Nil, NEW d, NEW e, e = Other(d)
    PROVE  /\ IsRed(t, sibling) => EraseSibling(t, parent, sibling, d)
                                     = TurnRed(SwingBlack(t, parent, sibling, e), parent, sibling)
           /\ ~IsRed(t, sibling) => EraseSibling(t, parent, sibling, d) = t
<1>1. CASE IsRed(t, sibling)
  <2>1. t.red[sibling]
    BY <1>1 DEF IsRed
  <2> QED
    BY <1>1, <2>1, Zenon DEF EraseSibling, TurnRed
<1>2. CASE ~IsRed(t, sibling)
  <2>1. ~t.red[sibling]
    BY <1>2 DEF IsRed
  <2> QED
    BY <1>2, <2>1, Zenon DEF EraseSibling
<1> QED
  BY <1>1, <1>2

\* Case 4 is one rotation, case 3 two.
LEMMA EraseTurnCases ==
    ASSUME NEW t, NEW parent, NEW sibling, NEW d, NEW e, e = Other(d),
           NEW outer, outer = Kid(t, sibling, e), NEW inner, inner = Kid(t, sibling, d)
    PROVE  /\ IsRed(t, outer) =>
                EraseTurn(t, parent, sibling, d) =
                    TurnBlack(Blackened(Swing(t, parent, sibling, e), outer, sibling), parent, sibling)
           /\ ~IsRed(t, outer) =>
                EraseTurn(t, parent, sibling, d) =
                    TurnBlack(Blackened(Swing(SetKid(SwingBlack(t, sibling, inner, d), parent, e, inner),
                                              parent, inner, e), sibling, inner), parent, inner)
<1>1. CASE IsRed(t, outer)
  BY <1>1, Zenon DEF EraseTurn, EraseRotate, TurnBlack, Blackened, Kid
<1>2. CASE ~IsRed(t, outer)
  BY <1>2, Zenon DEF EraseTurn, EraseRotate, TurnBlack, Blackened, Kid, SetKid
<1> QED
  BY <1>1, <1>2

\* [t EXCEPT !.red[n] = FALSE]
LEMMA RedCleared ==
    ASSUME NEW t \in Trees, NEW n \in Nodes, NEW t2, t2 = [t EXCEPT !.red[n] = FALSE]
    PROVE  t2 = Blackened(t, n, Par(t, n))
<1>1. t2 = [t EXCEPT !.parent[n] = t.parent[n], !.red[n] = FALSE]
  BY DEF Trees
<1>2. n # Nil
  BY NilAssumption
<1> QED
  BY <1>1, <1>2, Zenon DEF Blackened, SetParentColor, Par

\* A round of ____rb_erase_color on a tree whose paths through node lack a black
\* one makes it valid, or leaves it lacking higher up.
LEMMA EraseStep ==
    ASSUME NEW t, NEW node, NEW parent, NEW d, NEW h, NEW M, NEW sub, NEW S,
           Lacking(t, node, parent, d, h, M, sub, S)
    PROVE  \E t2, n2, p2 :
              /\ EraseRound(State3(t, node, parent)) = State3(t2, n2, p2)
              /\ t2 \in Trees /\ n2 \in Pointers /\ p2 \in Pointers
              /\ \/ p2 = Nil /\ Valid(t2, M, S)
                 \/ /\ p2 # Nil /\ Size(sub, p2) > Size(sub, parent)
                    /\ \E d2, h2 : Lacking(t2, n2, p2, d2, h2, M, sub, S)
<1>1. PICK e : e = Other(d)
  OBVIOUS
<1>2. PICK sib : sib = Kid(t, parent, e)
  OBVIOUS
<1>3. /\ t \in Trees /\ M \subseteq Nodes /\ e \in Sides /\ e # d /\ d = Other(e)
      /\ parent \in M /\ parent \in Nodes /\ parent # Nil /\ Nil \in Pointers
      /\ sib # Nil /\ node # sib
  BY <1>1, <1>2, LackingAround
<1>4. Shaped(t, M, sub) /\ d \in Sides /\ Kid(t, parent, d) = node /\ M \subseteq S
  BY DEF Lacking
<1>5. PICK dc : dc = IF node # Kid(t, parent, "right") THEN "left" ELSE "right"
  OBVIOUS
<1>6. dc = d
  <2>1. node = Kid(t, parent, d) /\ node # Kid(t, parent, Other(d))
    BY <1>1, <1>2, <1>3, <1>4
  <2> QED
    BY <1>3, <1>4, <1>5, <2>1, SideFound
<1>7. PICK t1 : t1 = EraseSibling(t, parent, sib, d)
  OBVIOUS
<1>8. PICK h1, sub1 : /\ Lacking(t1, node, parent, d, h1, M, sub1, S)
                      /\ ~IsRed(t1, Kid(t1, parent, e))
                      /\ (t1 = t /\ sub1 = sub) \/ IsRed(t1, parent)
  <2>1. CASE IsRed(t, sib)
    <3>1. PICK u : u = SwingBlack(t, parent, sib, e)
      OBVIOUS
    <3>2. t1 = TurnRed(SwingBlack(t, parent, sib, e), parent, sib)
      BY <1>1, <1>3, <1>7, <2>1, EraseSiblingCases
    <3>3. t1 = TurnRed(u, parent, sib)
      BY <3>1, <3>2
    <3> QED
      BY <1>1, <1>2, <2>1, <3>1, <3>3, EraseOne
  <2>2. CASE ~IsRed(t, sib)
    <3>1. t1 = t
      BY <1>1, <1>3, <1>7, <2>2, EraseSiblingCases
    <3> QED
      BY <1>2, <2>2, <3>1
  <2> QED
    BY <2>1, <2>2
<1>9. PICK sibling : sibling = Kid(t1, parent, e)
  OBVIOUS
<1>10. /\ t1 \in Trees /\ sibling \in M /\ sibling \in Nodes /\ sibling # Nil /\ sibling # parent
       /\ Par(t1, sibling) = parent
  BY <1>1, <1>8, <1>9, LackingAround
<1>11. Shaped(t1, M, sub1) /\ Colored(t1, M, Nil) /\ Kid(t1, parent, d) = node
  BY <1>8 DEF Lacking
<1>12. PICK flipped : flipped = Reddened(t1, sibling, parent)
  OBVIOUS
<1>p. \A n \in Nodes : n \in Pointers /\ n # Nil
  BY NodePointers
<1>v. \A a : Valid(a, M, S) => a \in Trees
  BY ValidTree
<1>d. d = IF node # Kid(t, parent, "right") THEN "left" ELSE "right"
  BY <1>5, <1>6
<1>q. t1 = EraseSibling(t, parent, Kid(t, parent, e), d) /\ parent # Nil
  BY <1>2, <1>3, <1>7
<1>c. /\ (\E f \in Sides : IsRed(t1, Kid(t1, sibling, f))) =>
            EraseRound(State3(t, node, parent)) = State3(EraseTurn(t1, parent, sibling, d), Nil, Nil)
      /\ ~(\E f \in Sides : IsRed(t1, Kid(t1, sibling, f))) /\ IsRed(t1, parent) =>
            EraseRound(State3(t, node, parent)) =
                State3([flipped EXCEPT !.red[parent] = FALSE], Nil, Nil)
      /\ ~(\E f \in Sides : IsRed(t1, Kid(t1, sibling, f))) /\ ~IsRed(t1, parent) =>
            EraseRound(State3(t, node, parent)) = State3(flipped, parent, Par(t1, parent))
  BY <1>1, <1>d, <1>q, <1>9, <1>12, EraseRoundCases, SMTT(20)
<1>13. CASE \E f \in Sides : IsRed(t1, Kid(t1, sibling, f))
  <2>1. PICK t2 : t2 = EraseTurn(t1, parent, sibling, d)
    OBVIOUS
  <2>2. EraseRound(State3(t, node, parent)) = State3(t2, Nil, Nil)
    BY <1>c, <1>13, <2>1, Zenon
  <2>3. PICK outer : outer = Kid(t1, sibling, e)
    OBVIOUS
  <2>4. PICK inner : inner = Kid(t1, sibling, d)
    OBVIOUS
  <2>5. CASE IsRed(t1, outer)
    <3>1. PICK w : w = Swing(t1, parent, sibling, e)
      OBVIOUS
    <3>2. PICK u : u = Blackened(w, outer, sibling)
      OBVIOUS
    <3>3. t2 = TurnBlack(u, parent, sibling)
      BY <1>1, <2>1, <2>3, <2>5, <3>1, <3>2, EraseTurnCases
    <3>4. outer # Nil
      BY <2>5 DEF IsRed
    <3>5. outer \in Nodes /\ Par(t1, outer) = sibling /\ outer # sibling
      BY <1>3, <1>10, <1>11, <2>3, <3>4, ShapedNode
    <3>6. Swung(t1, w, parent, sibling, e) /\ SameColors(t1, w, {})
      BY <1>3, <1>10, <3>1, SwingLinks
    <3>7. w \in Trees
      BY <3>6 DEF Swung
    <3>8. Moved(w, u, outer, sibling) /\ SameColors(w, u, {outer}) /\ ~IsRed(u, outer) /\ u \in Trees
      BY <1>p, <1>10, <3>2, <3>5, <3>7, BlackenedIs
    <3>9. outer # Kid(t1, sibling, Other(e))
      <4>1. Kid(t1, sibling, e) # Nil
        BY <2>3, <3>4
      <4>2. Kid(t1, sibling, e) # Kid(t1, sibling, Other(e))
        BY <1>3, <1>10, <1>11, <4>1, OneParent
      <4> QED
        BY <2>3, <4>2
    <3>10. Par(w, outer) = sibling
      BY <3>5, <3>6, <3>9 DEF Swung
    <3>11. /\ Root(u) = Root(w)
           /\ \A x \in Nodes : \A f \in Sides : Kid(u, x, f) = Kid(w, x, f)
           /\ \A x \in Nodes : Par(u, x) = Par(w, x)
      BY <3>8, <3>10 DEF Moved
    <3>12. Swung(t1, u, parent, sibling, e)
      <4>1. Kid(t1, sibling, Other(e)) = Nil \/ Kid(t1, sibling, Other(e)) \in Nodes
        BY <1>3, <1>4, <1>10, NodePointers, Typed
      <4> QED
        BY <1>3, <1>4, <1>10, <3>6, <3>8, <3>11, <4>1 DEF Swung
    <3>13. SameColors(t1, u, {sibling, outer})
      BY <3>6, <3>8 DEF SameColors
    <3>14. ~IsRed(t1, sibling)
      BY <1>8, <1>9
    <3>15. Valid(t2, M, S)
      BY <1>1, <1>8, <1>9, <2>3, <2>5, <3>3, <3>8, <3>12, <3>13, <3>14, EraseFour
    <3> QED
      BY <1>3, <1>v, <2>2, <3>15
  <2>6. CASE ~IsRed(t1, outer)
    <3>1. IsRed(t1, inner)
      BY <1>1, <1>4, <1>13, <2>3, <2>4, <2>6, OtherSide
    <3>2. PICK u : u = SwingBlack(t1, sibling, inner, d)
      OBVIOUS
    <3>3. PICK u2 : u2 = SetKid(u, parent, e, inner)
      OBVIOUS
    <3>4. PICK w : w = Swing(u2, parent, inner, e)
      OBVIOUS
    <3>5. PICK w2 : w2 = Blackened(w, sibling, inner)
      OBVIOUS
    <3>6. t2 = TurnBlack(w2, parent, inner)
      BY <1>1, <2>1, <2>3, <2>4, <2>6, <3>2, <3>3, <3>4, <3>5, EraseTurnCases
    <3>7. ~IsRed(t1, sibling)
      BY <1>8, <1>9
    <3>8. ~IsRed(t1, Kid(t1, sibling, e))
      BY <2>3, <2>6
    <3>9. Valid(t2, M, S)
      BY <1>1, <1>8, <1>9, <2>4, <3>1, <3>2, <3>3, <3>4, <3>5, <3>6, <3>7, <3>8, EraseThree
    <3> QED
      BY <1>3, <1>v, <2>2, <3>9
  <2> QED
    BY <2>5, <2>6
<1>14. ASSUME ~\E f \in Sides : IsRed(t1, Kid(t1, sibling, f))
       PROVE  /\ Linked(t1, flipped) /\ flipped \in Trees
              /\ SameColors(t1, flipped, {sibling}) /\ IsRed(flipped, sibling)
  <2>1. Moved(t1, flipped, sibling, parent) /\ SameColors(t1, flipped, {sibling}) /\ IsRed(flipped, sibling) /\ flipped \in Trees
    BY <1>3, <1>p, <1>10, <1>12, ReddenedIs
  <2>2. Linked(t1, flipped)
    BY <1>10, <2>1, LinkedMoved
  <2> QED
    BY <2>1, <2>2
<1>15. CASE ~(\E f \in Sides : IsRed(t1, Kid(t1, sibling, f))) /\ IsRed(t1, parent)
  <2>1. PICK t2 : t2 = [flipped EXCEPT !.red[parent] = FALSE]
    OBVIOUS
  <2>2. EraseRound(State3(t, node, parent)) = State3(t2, Nil, Nil)
    <3>1. EraseRound(State3(t, node, parent)) = State3([flipped EXCEPT !.red[parent] = FALSE], Nil, Nil)
      BY <1>c, <1>15, Zenon
    <3> QED
      BY <2>1, <3>1, Zenon
  <2>3. /\ Linked(t1, flipped) /\ flipped \in Trees
        /\ SameColors(t1, flipped, {sibling}) /\ IsRed(flipped, sibling)
    BY <1>14, <1>15
  <2>4. PICK p : p = Par(flipped, parent)
    OBVIOUS
  <2>5. t2 = Blackened(flipped, parent, p)
    <3>1. t2 = Blackened(flipped, parent, Par(flipped, parent))
      BY <1>3, <2>1, <2>3, RedCleared, Zenon
    <3> QED
      BY <2>4, <3>1
  <2>6. p \in Pointers
    BY <1>3, <2>3, <2>4, Typed
  <2>7. Moved(flipped, t2, parent, p) /\ SameColors(flipped, t2, {parent}) /\ ~IsRed(t2, parent) /\ t2 \in Trees
    BY <1>3, <2>3, <2>5, <2>6, BlackenedIs
  <2>8. Linked(t1, t2)
    <3>1. Linked(flipped, t2)
      BY <1>3, <2>3, <2>4, <2>7, LinkedMoved
    <3> QED
      BY <2>3, <3>1, LinkedTwice
  <2>9. SameColors(t1, t2, {sibling, parent}) /\ IsRed(t2, sibling)
    BY <1>10, <2>3, <2>7 DEF SameColors
  <2>10. \E h2 : /\ Shaped(t2, M, sub1) /\ Balanced(t2, M, h2, Nil, "left") /\ Colored(t2, M, Nil)
                 /\ ~IsRed(t2, Root(t2)) /\ Leafy(t2, S)
    <3>1. ~IsRed(t1, sibling) /\ \A f \in Sides : ~IsRed(t1, Kid(t1, sibling, f))
      BY <1>8, <1>9, <1>15
    <3>2. PICK up : up = Nil
      OBVIOUS
    <3>3. PICK g \in Sides : g = "left"
      BY DEF Sides
    <3>4. \E h2 : /\ Shaped(t2, M, sub1) /\ Balanced(t2, M, h2, up, g) /\ Colored(t2, M, Nil)
                  /\ ~IsRed(t2, Root(t2)) /\ Leafy(t2, S)
      BY <1>1, <1>8, <1>9, <1>15, <2>7, <2>8, <2>9, <3>1, <3>2, EraseFlip
    <3> QED
      BY <3>2, <3>3, <3>4
  <2>11. Valid(t2, M, S)
    BY <2>10, Founded
  <2> QED
    BY <1>3, <2>2, <2>7, <2>11
<1>16. CASE ~(\E f \in Sides : IsRed(t1, Kid(t1, sibling, f))) /\ ~IsRed(t1, parent)
  <2>1. t1 = t /\ sub1 = sub
    BY <1>8, <1>16
  <2>2. PICK up : up = Par(t1, parent)
    OBVIOUS
  <2>3. EraseRound(State3(t, node, parent)) = State3(flipped, parent, up)
    BY <1>c, <1>16, <2>2, Zenon
  <2>4. /\ Linked(t1, flipped) /\ flipped \in Trees
        /\ SameColors(t1, flipped, {sibling}) /\ IsRed(flipped, sibling)
    BY <1>14, <1>16
  <2>5. ~IsRed(flipped, parent) /\ SameColors(t1, flipped, {sibling, parent})
    BY <1>3, <1>10, <1>16, <2>4 DEF SameColors
  <2>6. up \in Pointers
    BY <1>3, <1>10, <2>2, Typed
  <2>7. \E g \in Sides : up # Nil => up \in M /\ Kid(t1, up, g) = parent
    <3>1. "left" \in Sides
      BY DEF Sides
    <3>2. parent # Root(t1) => up \in M /\ \E g \in Sides : Kid(t1, up, g) = parent
      BY <1>3, <1>11, <2>2, Upward
    <3>3. parent = Root(t1) => up = Nil
      BY <1>3, <1>11, <2>2, Upward
    <3> QED
      BY <3>1, <3>2, <3>3
  <2>8. PICK g \in Sides : up # Nil => up \in M /\ Kid(t1, up, g) = parent
    BY <2>7
  <2>9. PICK h2 : /\ Shaped(flipped, M, sub1) /\ Balanced(flipped, M, h2, up, g) /\ Colored(flipped, M, Nil)
                  /\ ~IsRed(flipped, Root(flipped)) /\ Leafy(flipped, S)
    <3>1. ~IsRed(t1, sibling) /\ \A f \in Sides : ~IsRed(t1, Kid(t1, sibling, f))
      BY <1>8, <1>9, <1>16
    <3>2. /\ up # Nil => up = Par(t1, parent) /\ Kid(t1, up, g) = parent
          /\ up = Nil => IsRed(t1, parent) \/ Par(t1, parent) = Nil
          /\ up # Nil => ~IsRed(t1, parent) /\ up \in M
      BY <1>16, <2>2, <2>8
    <3> QED
      BY <1>1, <1>8, <1>9, <2>4, <2>5, <3>1, <3>2, EraseFlip
  <2>10. CASE up = Nil
    <3>1. Balanced(flipped, M, h2, Nil, "left")
      <4>1. h2 \in [Pointers -> Nat] /\ At(h2, Nil) = 0
        BY <2>9 DEF Balanced
      <4>2. ASSUME NEW n \in M, NEW f \in Sides
            PROVE  At(h2, n) = At(h2, Kid(flipped, n, f)) + Weight(flipped, n) + Lack(n, f, Nil, "left")
        <5>1. Lack(n, f, Nil, "left") = Lack(n, f, up, g)
          BY <1>3, <2>10, NodePointers DEF Lack
        <5> QED
          BY <2>9, <5>1 DEF Balanced
      <4> QED
        BY <4>1, <4>2 DEF Balanced
    <3>2. Valid(flipped, M, S)
      BY <2>9, <3>1, Founded
    <3> QED
      BY <1>3, <1>p, <2>3, <2>4, <2>6, <2>10, <3>2
  <2>11. CASE up # Nil
    <3>1. Kid(flipped, up, g) = parent
      BY <1>3, <2>4, <2>8, <2>11 DEF Linked
    <3>2. Lacking(flipped, parent, up, g, h2, M, sub, S)
      BY <1>4, <2>1, <2>5, <2>8, <2>9, <2>11, <3>1 DEF Lacking
    <3>3. Size(sub, up) > Size(sub, parent)
      <4>1. up \in M /\ Kid(t1, up, g) = parent
        BY <2>8, <2>11
      <4>2. Size(sub1, Kid(t1, up, g)) < Size(sub1, up)
        BY <1>11, <4>1, Sizes
      <4>3. Size(sub1, parent) \in Nat /\ Size(sub1, up) \in Nat
        BY <1>3, <1>11, <1>p, <2>6, Sizes
      <4> QED
        BY <2>1, <4>1, <4>2, <4>3
    <3> QED
      BY <1>3, <1>p, <2>3, <2>4, <2>6, <2>11, <3>2, <3>3
  <2> QED
    BY <2>10, <2>11
<1> QED
  BY <1>13, <1>15, <1>16

\* LoopEnds for ____rb_erase_color.
LEMMA EraseLoop ==
    ASSUME NEW S, NEW s \in S, NEW F \in [S -> S], \A x \in S : F[x] = EraseRound(x),
           NEW Done, NEW rank, Climbs(S, F, Done, rank)
    PROVE  Loop(EraseRound, s) \in S /\ Loop(EraseRound, s) \in Done
<1>1. PICK f : RunOf(f, S, s, F) /\ f[Cardinality(Nodes)] \in Done
  BY LoopEnds
<1>2. f \in [Nat -> S] /\ f[0] = s /\ \A k \in Nat : f[k + 1] = F[f[k]]
  BY <1>1 DEF RunOf
<1>4. f = [k \in Nat |-> IF k = 0 THEN s ELSE EraseRound(f[k - 1])]
  <2>1. ASSUME NEW k \in Nat PROVE f[k] = IF k = 0 THEN s ELSE EraseRound(f[k - 1])
    <3>1. CASE k # 0
      <4>1. k - 1 \in Nat /\ (k - 1) + 1 = k
        BY <3>1
      <4>2. f[k - 1] \in S /\ f[(k - 1) + 1] = F[f[k - 1]]
        BY <1>2, <4>1
      <4> QED
        BY <3>1, <4>1, <4>2
    <3> QED
      BY <1>2, <3>1
  <2>2. f = [k \in Nat |-> f[k]]
    BY <1>2
  <2> QED
    BY <2>1, <2>2
<1>5. PICK g : /\ g = CHOOSE run : run = [k \in Nat |-> IF k = 0 THEN s ELSE EraseRound(run[k - 1])]
               /\ Loop(EraseRound, s) = g[Cardinality(Nodes)]
  BY DEF Loop
<1>6. g = [k \in Nat |-> IF k = 0 THEN s ELSE EraseRound(g[k - 1])]
  BY <1>4, <1>5
<1>7. g[0] = s /\ \A k \in Nat : g[k] \in S => g[k + 1] = F[g[k]]
  <2>1. \A k \in Nat : g[k] = IF k = 0 THEN s ELSE EraseRound(g[k - 1])
    BY <1>6
  <2>2. ASSUME NEW k \in Nat, g[k] \in S PROVE g[k + 1] = F[g[k]]
    <3>1. k + 1 \in Nat /\ k + 1 # 0 /\ (k + 1) - 1 = k
      OBVIOUS
    <3>2. g[k + 1] = EraseRound(g[(k + 1) - 1])
      BY <2>1, <3>1
    <3> QED
      BY <2>2, <3>1, <3>2
  <2>3. g[0] = s
    BY <2>1
  <2> QED
    BY <2>2, <2>3
<1>8. \A k \in Nat : g[k] = f[k]
  BY <1>1, <1>7, OneRun
<1>9. Cardinality(Nodes) \in Nat
  BY NodesAssumption, FS_CardinalityType
<1>10. Loop(EraseRound, s) = f[Cardinality(Nodes)] /\ f[Cardinality(Nodes)] \in S
  BY <1>2, <1>5, <1>8, <1>9
<1> QED
  BY <1>1, <1>10

EraseStates(M, sub, S) ==
    {x \in [tree : Trees, node : Pointers, parent : Pointers] :
        IF x.parent = Nil THEN Valid(x.tree, M, S)
        ELSE \E d, h : Lacking(x.tree, x.node, x.parent, d, h, M, sub, S)}

\* ____rb_erase_color gives the paths the black node they lack.
LEMMA EraseColorIs ==
    ASSUME NEW t, NEW parent, NEW d, NEW h, NEW M, NEW sub, NEW S,
           Lacking(t, Nil, parent, d, h, M, sub, S)
    PROVE  Valid(EraseColor(t, parent), M, S)
<1>1. PICK X : X = EraseStates(M, sub, S)
  OBVIOUS
<1>2. PICK s : s = State3(t, Nil, parent)
  OBVIOUS
<1>3. \A a \in Trees, b \in Pointers, c \in Pointers :
         State3(a, b, c) \in X <=> IF c = Nil THEN Valid(a, M, S)
                                   ELSE \E d2, h2 : Lacking(a, b, c, d2, h2, M, sub, S)
  BY <1>1 DEF EraseStates, State3
<1>4. \A x \in X : \E a \in Trees, b \in Pointers, c \in Pointers : x = State3(a, b, c)
  <2>1. ASSUME NEW x \in X
        PROVE  /\ x.tree \in Trees /\ x.node \in Pointers /\ x.parent \in Pointers
               /\ x = State3(x.tree, x.node, x.parent)
    BY <1>1 DEF EraseStates, State3
  <2> QED
    BY <2>1
<1>5. \A a, b, c : State3(a, b, c).tree = a /\ State3(a, b, c).node = b /\ State3(a, b, c).parent = c
  BY DEF State3
<1>6. t \in Trees /\ parent \in Pointers /\ Nil \in Pointers /\ parent # Nil /\ Shaped(t, M, sub)
  BY SubType, NodePointers DEF Lacking
<1>7. s \in X
  BY <1>2, <1>3, <1>6
<1>8. PICK F : F = [x \in X |-> EraseRound(x)]
  OBVIOUS
<1>9. ASSUME NEW x \in X
      PROVE  /\ EraseRound(x) \in X
             /\ x.parent = Nil => EraseRound(x).parent = Nil
             /\ x.parent # Nil => 0 < Size(sub, x.parent) /\ Size(sub, x.parent) <= Cardinality(Nodes)
             /\ x.parent # Nil /\ EraseRound(x).parent # Nil =>
                   Size(sub, EraseRound(x).parent) > Size(sub, x.parent)
  <2>1. PICK a \in Trees, b \in Pointers, c \in Pointers : x = State3(a, b, c)
    BY <1>4
  <2>2. x.parent = c
    BY <1>5, <2>1
  <2>3. CASE c = Nil
    <3>1. EraseRound(x) = x
      BY <2>2, <2>3, Zenon DEF EraseRound
    <3> QED
      BY <2>2, <2>3, <3>1
  <2>4. CASE c # Nil
    <3>1. PICK d1, h1 : Lacking(a, b, c, d1, h1, M, sub, S)
      BY <1>3, <2>1, <2>4
    <3>2. PICK a2, b2, c2 :
              /\ EraseRound(State3(a, b, c)) = State3(a2, b2, c2)
              /\ a2 \in Trees /\ b2 \in Pointers /\ c2 \in Pointers
              /\ \/ c2 = Nil /\ Valid(a2, M, S)
                 \/ /\ c2 # Nil /\ Size(sub, c2) > Size(sub, c)
                    /\ \E d2, h2 : Lacking(a2, b2, c2, d2, h2, M, sub, S)
      BY <3>1, EraseStep
    <3>3. EraseRound(x) = State3(a2, b2, c2) /\ EraseRound(x).parent = c2
      BY <1>5, <2>1, <3>2
    <3>4. EraseRound(x) \in X
      BY <1>3, <3>2, <3>3
    <3>5. 0 < Size(sub, c) /\ Size(sub, c) <= Cardinality(Nodes)
      <4>1. Shaped(a, M, sub) /\ c \in M
        BY <3>1 DEF Lacking
      <4>2. Size(sub, c) > 0 /\ Size(sub, c) \in Nat /\ Size(sub, c) <= Cardinality(Nodes)
        BY <4>1, Sizes
      <4> QED
        BY <4>2
    <3> QED
      BY <2>2, <2>4, <3>2, <3>3, <3>4, <3>5
  <2> QED
    BY <2>3, <2>4
<1>10. PICK rank : rank = [x \in X |-> Size(sub, x.parent)]
  OBVIOUS
<1>11. PICK Done : Done = {x \in X : x.parent = Nil}
  OBVIOUS
<1>12. Climbs(X, F, Done, rank)
  <2>1. \A x \in X : rank[x] = Size(sub, x.parent) /\ F[x] = EraseRound(x) /\ (x \in Done <=> x.parent = Nil)
    BY <1>8, <1>10, <1>11
  <2>2. \A x \in X : F[x] \in X
    BY <1>9, <2>1
  <2>3. rank \in [X -> Nat]
    <3>1. \A x \in X : x.parent \in Pointers
      BY <1>4, <1>5
    <3>2. \A x \in X : Size(sub, x.parent) \in Nat
      BY <1>6, <3>1, Sizes
    <3> QED
      BY <1>10, <3>2
  <2> QED
    BY <1>9, <2>1, <2>2, <2>3 DEF Climbs
<1>13. F \in [X -> X] /\ \A x \in X : F[x] = EraseRound(x)
  BY <1>8, <1>9
<1>14. PICK y : y = Loop(EraseRound, s)
  OBVIOUS
<1>15. y \in X /\ y \in Done
  BY <1>7, <1>12, <1>13, <1>14, EraseLoop
<1>16. Valid(y.tree, M, S)
  BY <1>1, <1>11, <1>15 DEF EraseStates
<1>17. EraseColor(t, parent) = y.tree
  BY <1>2, <1>14, Zenon DEF EraseColor, State3
<1> QED
  BY <1>16, <1>17

\* Without a parent there is nothing to rebalance.
LEMMA EraseColorSkipped ==
    ASSUME NEW t
    PROVE  EraseColor(t, Nil) = t
<1>1. PICK s : s = State3(t, Nil, Nil)
  OBVIOUS
<1>2. s.parent = Nil /\ s.tree = t
  BY <1>1 DEF State3
<1>3. EraseRound(s) = s
  BY <1>2, Zenon DEF EraseRound
<1>4. PICK F : F = [x \in {s} |-> s]
  OBVIOUS
<1>5. F \in [{s} -> {s}] /\ \A x \in {s} : F[x] = EraseRound(x)
  BY <1>3, <1>4
<1>6. PICK rank : rank = [x \in {s} |-> 0]
  OBVIOUS
<1>7. Climbs({s}, F, {s}, rank)
  BY <1>4, <1>6 DEF Climbs
<1>8. Loop(EraseRound, s) \in {s}
  BY <1>5, <1>7, EraseLoop
<1>9. EraseColor(t, Nil) = Loop(EraseRound, s).tree
  BY <1>1, Zenon DEF EraseColor, State3
<1> QED
  BY <1>2, <1>8, <1>9

-----------------------------------------------------------------------------
(* Walks: to the successor, and ss_uuid_search.                            *)

Walk(at, parent) == [at |-> at, parent |-> parent]

\* A round of Leftmost, and one of Descend.
LeftStep(t, m) == IF t.kid[m]["left"] = Nil THEN m ELSE t.kid[m]["left"]
DescendStep(t, key, w) ==
    IF w.at \in {Nil, key} THEN w ELSE [at |-> t.kid[w.at][SideOf(key, w.at)], parent |-> w.at]

\* LoopEnds for the way to the successor.
LEMMA LeftLoop ==
    ASSUME NEW t, NEW S, NEW s \in S, NEW F \in [S -> S], \A x \in S : F[x] = LeftStep(t, x),
           NEW Done, NEW rank, Climbs(S, F, Done, rank)
    PROVE  Leftmost(t, s) \in S /\ Leftmost(t, s) \in Done
<1>1. PICK f : RunOf(f, S, s, F) /\ f[Cardinality(Nodes)] \in Done
  BY LoopEnds
<1>2. f \in [Nat -> S] /\ f[0] = s /\ \A k \in Nat : f[k + 1] = F[f[k]]
  BY <1>1 DEF RunOf
<1>4. f = [k \in Nat |-> IF k = 0 THEN s ELSE LeftStep(t, f[k - 1])]
  <2>1. ASSUME NEW k \in Nat PROVE f[k] = IF k = 0 THEN s ELSE LeftStep(t, f[k - 1])
    <3>1. CASE k # 0
      <4>1. k - 1 \in Nat /\ (k - 1) + 1 = k
        BY <3>1
      <4>2. f[k - 1] \in S /\ f[(k - 1) + 1] = F[f[k - 1]]
        BY <1>2, <4>1
      <4> QED
        BY <3>1, <4>1, <4>2
    <3> QED
      BY <1>2, <3>1
  <2>2. f = [k \in Nat |-> f[k]]
    BY <1>2
  <2> QED
    BY <2>1, <2>2
<1>5. PICK g : /\ g = CHOOSE run : run = [k \in Nat |-> IF k = 0 THEN s ELSE LeftStep(t, run[k - 1])]
               /\ Leftmost(t, s) = g[Cardinality(Nodes)]
  BY DEF Loop, Leftmost, LeftStep
<1>6. g = [k \in Nat |-> IF k = 0 THEN s ELSE LeftStep(t, g[k - 1])]
  BY <1>4, <1>5
<1>7. g[0] = s /\ \A k \in Nat : g[k] \in S => g[k + 1] = F[g[k]]
  <2>1. \A k \in Nat : g[k] = IF k = 0 THEN s ELSE LeftStep(t, g[k - 1])
    BY <1>6
  <2>2. ASSUME NEW k \in Nat, g[k] \in S PROVE g[k + 1] = F[g[k]]
    <3>1. k + 1 \in Nat /\ k + 1 # 0 /\ (k + 1) - 1 = k
      OBVIOUS
    <3>2. g[k + 1] = LeftStep(t, g[(k + 1) - 1])
      BY <2>1, <3>1
    <3> QED
      BY <2>2, <3>1, <3>2
  <2>3. g[0] = s
    BY <2>1
  <2> QED
    BY <2>2, <2>3
<1>8. \A k \in Nat : g[k] = f[k]
  BY <1>1, <1>7, OneRun
<1>9. Cardinality(Nodes) \in Nat
  BY NodesAssumption, FS_CardinalityType
<1>10. Leftmost(t, s) = f[Cardinality(Nodes)] /\ f[Cardinality(Nodes)] \in S
  BY <1>2, <1>5, <1>8, <1>9
<1> QED
  BY <1>1, <1>10

\* LoopEnds for the walk of ss_uuid_search and ss_uuid_insert.
LEMMA DescendLoop ==
    ASSUME NEW t, NEW key, NEW S, NEW s \in S, s = Walk(Root(t), Nil),
           NEW F \in [S -> S], \A x \in S : F[x] = DescendStep(t, key, x),
           NEW Done, NEW rank, Climbs(S, F, Done, rank)
    PROVE  Descend(t, key) \in S /\ Descend(t, key) \in Done
<1>1. PICK f : RunOf(f, S, s, F) /\ f[Cardinality(Nodes)] \in Done
  BY LoopEnds
<1>2. f \in [Nat -> S] /\ f[0] = s /\ \A k \in Nat : f[k + 1] = F[f[k]]
  BY <1>1 DEF RunOf
<1>3. Descend(t, key) =
        (CHOOSE run : run = [k \in Nat |-> IF k = 0 THEN s ELSE DescendStep(t, key, run[k - 1])])
            [Cardinality(Nodes)]
  BY DEF Loop, Descend, DescendStep, Walk, Root
<1>4. f = [k \in Nat |-> IF k = 0 THEN s ELSE DescendStep(t, key, f[k - 1])]
  <2>1. ASSUME NEW k \in Nat PROVE f[k] = IF k = 0 THEN s ELSE DescendStep(t, key, f[k - 1])
    <3>1. CASE k # 0
      <4>1. k - 1 \in Nat /\ (k - 1) + 1 = k
        BY <3>1
      <4>2. f[k - 1] \in S /\ f[(k - 1) + 1] = F[f[k - 1]]
        BY <1>2, <4>1
      <4> QED
        BY <3>1, <4>1, <4>2
    <3> QED
      BY <1>2, <3>1
  <2>2. f = [k \in Nat |-> f[k]]
    BY <1>2
  <2> QED
    BY <2>1, <2>2
<1>5. PICK g : /\ g = CHOOSE run : run = [k \in Nat |-> IF k = 0 THEN s ELSE DescendStep(t, key, run[k - 1])]
               /\ Descend(t, key) = g[Cardinality(Nodes)]
  BY Zenon, <1>3
<1>6. g = [k \in Nat |-> IF k = 0 THEN s ELSE DescendStep(t, key, g[k - 1])]
  BY <1>4, <1>5
<1>7. g[0] = s /\ \A k \in Nat : g[k] \in S => g[k + 1] = F[g[k]]
  <2>1. \A k \in Nat : g[k] = IF k = 0 THEN s ELSE DescendStep(t, key, g[k - 1])
    BY <1>6
  <2>2. ASSUME NEW k \in Nat, g[k] \in S PROVE g[k + 1] = F[g[k]]
    <3>1. k + 1 \in Nat /\ k + 1 # 0 /\ (k + 1) - 1 = k
      OBVIOUS
    <3>2. g[k + 1] = DescendStep(t, key, g[(k + 1) - 1])
      BY <2>1, <3>1
    <3> QED
      BY <2>2, <3>1, <3>2
  <2>3. g[0] = s
    BY <2>1
  <2> QED
    BY <2>2, <2>3
<1>8. \A k \in Nat : g[k] = f[k]
  BY <1>1, <1>7, OneRun
<1>9. Cardinality(Nodes) \in Nat
  BY NodesAssumption, FS_CardinalityType
<1>10. Descend(t, key) = f[Cardinality(Nodes)] /\ f[Cardinality(Nodes)] \in S
  BY <1>2, <1>5, <1>8, <1>9
<1> QED
  BY <1>1, <1>10

\* The leftmost node below c has no left child, and the others come after it.
LEMMA LeftmostIs ==
    ASSUME NEW t, NEW M, NEW sub, Shaped(t, M, sub), NEW c \in M
    PROVE  \E s \in M : /\ s = Leftmost(t, c) /\ s \in At(sub, c) /\ Kid(t, s, "left") = Nil
                        /\ \A x \in At(sub, c) : x = s \/ Less("right", x, s)
<1> DEFINE Behind(m) == \A x \in At(sub, c) : x \in At(sub, m) \/ Less("right", x, m)
           X == {m \in At(sub, c) : Behind(m)}
           Done == {m \in X : Kid(t, m, "left") = Nil}
           F == [m \in X |-> LeftStep(t, m)]
           rank == [m \in X |-> Cardinality(Nodes) - Size(sub, m) + 1]
<1>1. "left" \in Sides /\ "right" \in Sides /\ Other("left") = "right"
  BY DEF Sides, Other
<1>2. c \in At(sub, c) /\ \A m \in At(sub, c) : m \in M /\ At(sub, m) \subseteq At(sub, c)
  BY <1>1, ShapedNode, Nested
<1>3. c \in X
  BY <1>2
<1>4. \A m : LeftStep(t, m) = IF Kid(t, m, "left") = Nil THEN m ELSE Kid(t, m, "left")
  BY DEF LeftStep, Kid
<1>5. ASSUME NEW m \in X, Kid(t, m, "left") # Nil
      PROVE  Kid(t, m, "left") \in X /\ Size(sub, Kid(t, m, "left")) < Size(sub, m)
  <2>1. PICK k : k = Kid(t, m, "left")
    OBVIOUS
  <2>2. m \in M /\ m \in At(sub, c) /\ Behind(m)
    BY <1>2
  <2>3. k \in M /\ k \in At(sub, k)
    BY <1>1, <1>5, <2>1, <2>2, ShapedNode
  <2>4. k \in At(sub, m) /\ k \in At(sub, c)
    <3>1. \A x : x \in At(sub, k) => x \in At(sub, m)
      BY <1>1, <2>1, <2>2, ShapedNode
    <3> QED
      BY <1>2, <2>2, <2>3, <3>1
  <2>5. ASSUME NEW x \in At(sub, c) PROVE x \in At(sub, k) \/ Less("right", x, k)
    <3>1. x \in Nodes /\ m \in Nodes /\ k \in Nodes
      BY <1>2, <2>2, <2>3, SubType
    <3>2. Less("left", k, m)
      BY <1>1, <2>1, <2>2, <2>3, ShapedNode
    <3>3. Less("right", m, k)
      BY <1>1, <3>1, <3>2, LessOrder
    <3>4. CASE x \in At(sub, m)
      <4>1. x = m \/ x \in At(sub, k) \/ x \in At(sub, Kid(t, m, "right"))
        BY <1>1, <2>1, <2>2, <3>4, ShapedNode
      <4>2. x \in At(sub, Kid(t, m, "right")) => Less("right", x, m)
        BY <1>1, <2>2, ShapedNode
      <4> QED
        BY <1>1, <3>1, <3>3, <4>1, <4>2, LessOrder
    <3>5. CASE Less("right", x, m)
      BY <1>1, <3>1, <3>3, <3>5, LessOrder
    <3> QED
      BY <2>2, <3>4, <3>5
  <2>6. Size(sub, k) < Size(sub, m)
    BY <1>1, <2>1, <2>2, Sizes
  <2> QED
    BY <2>1, <2>4, <2>5, <2>6
<1>6. \A m \in X : m \in M /\ Size(sub, m) \in Nat /\ Size(sub, m) <= Cardinality(Nodes) /\ Size(sub, m) > 0
  <2>1. \A m \in X : m \in M
    BY <1>2
  <2>2. \A m \in M : m \in Pointers
    BY SubType, NodePointers
  <2> QED
    BY <2>1, <2>2, Sizes
<1>7. Cardinality(Nodes) \in Nat
  BY Sizes
<1>8. F \in [X -> X] /\ \A x \in X : F[x] = LeftStep(t, x)
  <2>1. \A x \in X : LeftStep(t, x) \in X
    BY <1>4, <1>5
  <2> HIDE DEF X
  <2> QED
    BY <2>1
<1>9. Climbs(X, F, Done, rank)
  <2>1. \A x \in X : /\ rank[x] = Cardinality(Nodes) - Size(sub, x) + 1
                     /\ x \in Done <=> Kid(t, x, "left") = Nil
    OBVIOUS
  <2>2. \A x \in X : x \in Done => F[x] = x
    BY <1>4, <1>8, <2>1
  <2>3. \A x \in X : x \notin Done => F[x] \in X /\ Size(sub, F[x]) < Size(sub, x)
    BY <1>4, <1>5, <1>8, <2>1
  <2>4. rank \in [X -> Nat] /\ \A x \in X : 0 < rank[x] /\ rank[x] <= Cardinality(Nodes)
    <3>1. \A x \in X : /\ Cardinality(Nodes) - Size(sub, x) + 1 \in Nat
                       /\ 0 < Cardinality(Nodes) - Size(sub, x) + 1
                       /\ Cardinality(Nodes) - Size(sub, x) + 1 <= Cardinality(Nodes)
      BY <1>6, <1>7
    <3> HIDE DEF X
    <3> QED
      BY <3>1
  <2>5. ASSUME NEW x \in X, x \notin Done PROVE rank[F[x]] > rank[x]
    <3>1. PICK y \in X : y = F[x]
      BY <2>3, <2>5
    <3>2. Size(sub, y) < Size(sub, x) /\ Size(sub, y) \in Nat /\ Size(sub, x) \in Nat
      BY <1>6, <2>3, <2>5, <3>1
    <3>3. rank[y] = Cardinality(Nodes) - Size(sub, y) + 1 /\ rank[x] = Cardinality(Nodes) - Size(sub, x) + 1
      BY <2>1
    <3>4. rank[y] > rank[x]
      <4> HIDE DEF rank, X
      <4> QED
        BY <1>7, <3>2, <3>3
    <3> QED
      BY <3>1, <3>4
  <2> HIDE DEF X, Done, F, rank
  <2> QED
    BY <2>2, <2>4, <2>5 DEF Climbs
<1>10. PICK s : s = Leftmost(t, c)
  OBVIOUS
<1>11. s \in X /\ s \in Done
  <2> HIDE DEF X, Done, F, rank
  <2> QED
    BY <1>3, <1>8, <1>9, <1>10, LeftLoop
<1>12. s \in M /\ s \in At(sub, c) /\ Behind(s) /\ Kid(t, s, "left") = Nil
  BY <1>2, <1>11
<1>13. ASSUME NEW x \in At(sub, c) PROVE x = s \/ Less("right", x, s)
  <2>1. CASE x \in At(sub, s)
    <3>1. x = s \/ x \in At(sub, Kid(t, s, "left")) \/ x \in At(sub, Kid(t, s, "right"))
      BY <1>1, <1>12, <2>1, ShapedNode
    <3>2. x \notin At(sub, Kid(t, s, "left"))
      BY <1>12, SubType
    <3>3. x \in At(sub, Kid(t, s, "right")) => Less("right", x, s)
      BY <1>1, <1>12, ShapedNode
    <3> QED
      BY <3>1, <3>2, <3>3
  <2> QED
    BY <1>12, <2>1
<1> QED
  BY <1>10, <1>12, <1>13

\* Where the search for a key ends: parent is where it would be hung.
Reached(t, M, sub, key, at, parent) ==
    /\ at \in M \cup {Nil} /\ parent \in M \cup {Nil}
    /\ key \in M => at # Nil /\ key \in At(sub, at)
    /\ parent = Nil => at = Root(t)
    /\ parent # Nil => parent # key /\ at = Kid(t, parent, SideOf(key, parent))
    /\ \A x \in M : \A f \in Sides : parent \in At(sub, Kid(t, x, f)) => Less(f, key, x)

\* A step of that walk.
LEMMA ReachedNext ==
    ASSUME NEW t, NEW M, NEW sub, Shaped(t, M, sub), NEW key \in Nodes, NEW at, NEW parent,
           Reached(t, M, sub, key, at, parent), at # Nil, at # key,
           NEW k, k = Kid(t, at, SideOf(key, at))
    PROVE  Reached(t, M, sub, key, k, at)
<1>1. /\ at \in M /\ parent \in M \cup {Nil}
      /\ key \in M => at # Nil /\ key \in At(sub, at)
      /\ parent = Nil => at = Root(t)
      /\ parent # Nil => parent # key /\ at = Kid(t, parent, SideOf(key, parent))
      /\ \A x \in M : \A f \in Sides : parent \in At(sub, Kid(t, x, f)) => Less(f, key, x)
  BY DEF Reached
<1>2. PICK d : d = SideOf(key, at)
  OBVIOUS
<1>3. at \in Nodes /\ d \in Sides /\ Less(d, key, at) /\ k = Kid(t, at, d)
  BY <1>1, <1>2, SubType, LessOrder
<1>4. k \in M \cup {Nil}
  BY <1>1, <1>3, ShapedNode
<1>5. ASSUME key \in M PROVE k # Nil /\ key \in At(sub, k)
  <2>1. key \in At(sub, at)
    BY <1>1, <1>5
  <2>2. key \in At(sub, Kid(t, at, d)) \/ key \in At(sub, Kid(t, at, Other(d)))
    BY <1>1, <1>3, <2>1, ShapedNode
  <2>3. key \notin At(sub, Kid(t, at, Other(d)))
    <3> SUFFICES ASSUME key \in At(sub, Kid(t, at, Other(d))) PROVE FALSE
      OBVIOUS
    <3>1. Less(Other(d), key, at)
      BY <1>1, <1>3, OtherSide, ShapedNode
    <3> QED
      BY <1>3, <3>1, LessOrder
  <2>4. key \in At(sub, k)
    BY <1>3, <2>2, <2>3
  <2> QED
    BY <2>4, SubType
<1>6. ASSUME NEW x \in M, NEW f \in Sides, at \in At(sub, Kid(t, x, f)) PROVE Less(f, key, x)
  <2>1. PICK y : y = Kid(t, x, f)
    OBVIOUS
  <2>2. y \in M \cup {Nil} /\ y # x /\ (y # Nil => Par(t, y) = x)
    BY <2>1, ShapedNode
  <2>3. y # Nil
    BY <1>6, <2>1, SubType
  <2>4. CASE y = at
    <3>1. at # Root(t)
      <4>1. Kid(t, x, f) # Nil
        BY <2>1, <2>3
      <4>2. Kid(t, x, f) # Root(t)
        BY <4>1, OneParent
      <4> QED
        BY <2>1, <2>4, <4>2
    <3>2. parent # Nil
      BY <1>1, <3>1
    <3>3. parent \in M /\ parent \in Nodes /\ parent # key /\ at = Kid(t, parent, SideOf(key, parent))
      BY <1>1, <3>2, SubType
    <3>4. SideOf(key, parent) \in Sides /\ Less(SideOf(key, parent), key, parent)
      BY <3>3, LessOrder
    <3>5. PICK g \in Sides : g = SideOf(key, parent)
      BY <3>4
    <3>6. Kid(t, parent, g) = at
      BY <3>3, <3>5
    <3>7. \A z \in M : \A q \in Sides : Kid(t, z, q) = Kid(t, x, f) => z = x /\ q = f
      BY <2>1, <2>3, OneParent
    <3>8. parent = x /\ g = f
      BY <2>1, <2>4, <3>3, <3>6, <3>7
    <3> QED
      BY <3>4, <3>5, <3>8
  <2>5. CASE y # at
    <3>1. Par(t, at) \in At(sub, y) /\ Par(t, at) \in M
      BY <1>6, <2>1, <2>2, <2>3, <2>5, Nested
    <3>2. at # Root(t)
      <4>1. at = Root(t) => Par(t, at) = Nil
        BY <1>1, <1>3, Upward
      <4>2. Nil \notin M
        BY SubType, NodePointers
      <4> QED
        BY <3>1, <4>1, <4>2
    <3>3. parent # Nil
      BY <1>1, <3>2
    <3>4. parent \in M /\ parent \in Nodes /\ parent # key /\ at = Kid(t, parent, SideOf(key, parent))
      BY <1>1, <3>3, SubType
    <3>5. PICK g \in Sides : g = SideOf(key, parent)
      BY <3>4, LessOrder
    <3>6. Kid(t, parent, g) = at
      BY <3>4, <3>5
    <3>7. Par(t, at) = parent
      BY <1>3, <3>4, <3>6, ShapedNode, NodePointers
    <3> QED
      BY <1>1, <2>1, <3>1, <3>7
  <2> QED
    BY <2>4, <2>5
<1> QED
  BY <1>1, <1>3, <1>4, <1>5, <1>6 DEF Reached

\* The walk ends at the key, or where the key would be hung.
LEMMA DescendIs ==
    ASSUME NEW t, NEW M, NEW sub, Shaped(t, M, sub), NEW key \in Nodes
    PROVE  \E at, parent : /\ Descend(t, key) = Walk(at, parent) /\ at \in {Nil, key}
                           /\ Reached(t, M, sub, key, at, parent)
<1> DEFINE X == {w \in [at : M \cup {Nil}, parent : M \cup {Nil}] : Reached(t, M, sub, key, w.at, w.parent)}
           Done == {w \in X : w.at \in {Nil, key}}
           F == [w \in X |-> DescendStep(t, key, w)]
           rank == [w \in X |-> Cardinality(Nodes) - Size(sub, w.at) + 1]
           s == Walk(Root(t), Nil)
<1>1. \A a, b : Walk(a, b).at = a /\ Walk(a, b).parent = b
  BY DEF Walk
<1>2. \A a, b : Reached(t, M, sub, key, a, b) => Walk(a, b) \in X
  BY DEF Walk, Reached
<1>3. \A w \in X : /\ w = Walk(w.at, w.parent) /\ Reached(t, M, sub, key, w.at, w.parent)
                   /\ w.at \in M \cup {Nil}
  BY DEF Walk
<1>4. Reached(t, M, sub, key, Root(t), Nil)
  <2>1. Root(t) \in M \cup {Nil} /\ At(sub, Root(t)) = M /\ At(sub, Nil) = {}
    BY SubType
  <2>2. key \in M => Root(t) # Nil /\ key \in At(sub, Root(t))
    BY <2>1
  <2>3. ASSUME NEW x \in M, NEW f \in Sides PROVE Nil \notin At(sub, Kid(t, x, f))
    BY NodePointers, ShapedNode
  <2> QED
    BY <2>1, <2>2, <2>3 DEF Reached
<1>5. s \in X
  BY <1>2, <1>4
<1>6. ASSUME NEW w \in X, w.at \notin {Nil, key}
      PROVE  /\ DescendStep(t, key, w) = Walk(Kid(t, w.at, SideOf(key, w.at)), w.at)
             /\ DescendStep(t, key, w) \in X
             /\ Size(sub, Kid(t, w.at, SideOf(key, w.at))) < Size(sub, w.at)
  <2>1. PICK a : a = w.at
    OBVIOUS
  <2>2. PICK k : k = Kid(t, a, SideOf(key, a))
    OBVIOUS
  <2>3. DescendStep(t, key, w) = Walk(k, a)
    BY <1>6, <2>1, <2>2 DEF DescendStep, Walk, Kid
  <2>4. Reached(t, M, sub, key, a, w.parent)
    BY <1>3, <2>1
  <2>5. Reached(t, M, sub, key, k, a)
    BY <1>6, <2>1, <2>2, <2>4, ReachedNext
  <2>6. a \in M /\ a \in Nodes /\ a # key
    BY <1>3, <1>6, <2>1, SubType
  <2>7. SideOf(key, a) \in Sides
    BY <2>6, LessOrder
  <2>8. Size(sub, k) < Size(sub, a)
    BY <2>2, <2>6, <2>7, Sizes
  <2> HIDE DEF X
  <2> QED
    BY <1>2, <2>1, <2>2, <2>3, <2>5, <2>8
<1>7. ASSUME NEW w \in X, w.at \in {Nil, key} PROVE DescendStep(t, key, w) = w
  BY <1>7, Zenon DEF DescendStep
<1>8. F \in [X -> X] /\ \A w \in X : F[w] = DescendStep(t, key, w)
  <2>1. \A w \in X : DescendStep(t, key, w) \in X
    <3> HIDE DEF X
    <3> QED
      BY <1>6, <1>7
  <2> HIDE DEF X
  <2> QED
    BY <2>1
<1>9. Cardinality(Nodes) \in Nat
  BY Sizes
<1>10. \A w \in X : /\ Size(sub, w.at) \in Nat /\ Size(sub, w.at) <= Cardinality(Nodes)
                    /\ w.at \notin {Nil, key} => Size(sub, w.at) > 0
  <2>1. \A m \in M \cup {Nil} : m \in Pointers
    BY SubType, NodePointers
  <2>2. \A m \in M \cup {Nil} : /\ Size(sub, m) \in Nat /\ Size(sub, m) <= Cardinality(Nodes)
                                /\ m # Nil => Size(sub, m) > 0
    BY <2>1, Sizes
  <2> HIDE DEF X
  <2> QED
    BY <1>3, <2>2
<1>11. Climbs(X, F, Done, rank)
  <2>1. \A w \in X : /\ rank[w] = Cardinality(Nodes) - Size(sub, w.at) + 1
                     /\ w \in Done <=> w.at \in {Nil, key}
    OBVIOUS
  <2> HIDE DEF X, Done, F
  <2>2. \A w \in X : w \in Done => F[w] = w
    BY <1>7, <1>8, <2>1
  <2>3. \A w \in X : w \notin Done => F[w] \in X /\ Size(sub, F[w].at) < Size(sub, w.at)
    BY <1>1, <1>6, <1>8, <2>1
  <2>4. rank \in [X -> Nat] /\ \A w \in X : w \notin Done => 0 < rank[w] /\ rank[w] <= Cardinality(Nodes)
    <3>1. \A w \in X : Cardinality(Nodes) - Size(sub, w.at) + 1 \in Nat
      BY <1>9, <1>10
    <3>2. \A w \in X : w \notin Done => /\ 0 < Cardinality(Nodes) - Size(sub, w.at) + 1
                                        /\ Cardinality(Nodes) - Size(sub, w.at) + 1 <= Cardinality(Nodes)
      BY <1>9, <1>10, <2>1
    <3> QED
      BY <2>1, <3>1, <3>2
  <2> HIDE DEF rank
  <2>5. ASSUME NEW w \in X, w \notin Done PROVE rank[F[w]] > rank[w]
    <3>1. PICK y \in X : y = F[w]
      BY <2>3, <2>5
    <3>2. Size(sub, y.at) < Size(sub, w.at) /\ Size(sub, y.at) \in Nat /\ Size(sub, w.at) \in Nat
      BY <1>10, <2>3, <2>5, <3>1
    <3>3. /\ rank[y] = Cardinality(Nodes) - Size(sub, y.at) + 1
          /\ rank[w] = Cardinality(Nodes) - Size(sub, w.at) + 1
      BY <2>1
    <3>4. rank[y] > rank[w]
      BY <1>9, <3>2, <3>3
    <3> QED
      BY <3>1, <3>4
  <2> QED
    BY <2>2, <2>4, <2>5 DEF Climbs
<1>12. Descend(t, key) \in X /\ Descend(t, key) \in Done
  <2>1. \E ss \in X : ss = Walk(Root(t), Nil)
    BY <1>5
  <2> HIDE DEF X, Done, F, rank, s
  <2> QED
    BY <1>8, <1>11, <2>1, DescendLoop
<1> QED
  BY <1>3, <1>12

-----------------------------------------------------------------------------
(* A new leaf: rb_link_node and ss_uuid_insert.                            *)

\* ss_uuid_search finds the keys that are in the tree.
LEMMA FoundIs ==
    ASSUME NEW t, NEW M, NEW S, Valid(t, M, S), NEW key \in Nodes
    PROVE  Found(t, key) <=> key \in M
<1>1. PICK sub : Shaped(t, M, sub)
  BY DEF Valid
<1>2. PICK at, parent : /\ Descend(t, key) = Walk(at, parent) /\ at \in {Nil, key}
                        /\ Reached(t, M, sub, key, at, parent)
  BY <1>1, DescendIs
<1>3. Descend(t, key).at = at
  BY <1>2 DEF Walk
<1>4. at \in M \cup {Nil} /\ (key \in M => at # Nil)
  BY <1>2 DEF Reached
<1>5. key # Nil
  BY NodePointers
<1> QED
  BY <1>2, <1>3, <1>4, <1>5 DEF Found

\* t2 is t with a red node key that has no children, hung at the d side of parent.
Planted(t, t2, key, parent, d) ==
    /\ t2 \in Trees /\ Root(t2) = IF parent = Nil THEN key ELSE Root(t)
    /\ Par(t2, key) = parent /\ IsRed(t2, key) /\ \A f \in Sides : Kid(t2, key, f) = Nil
    /\ \A x \in Nodes \ {key} :
          /\ Par(t2, x) = Par(t, x) /\ (IsRed(t2, x) <=> IsRed(t, x))
          /\ \A f \in Sides : Kid(t2, x, f) = IF x = parent /\ f = d THEN key ELSE Kid(t, x, f)

\* rb_link_node, with the colour that a new node has.
LEMMA LinkIs ==
    ASSUME NEW t \in Trees, NEW key \in Nodes, NEW parent \in Pointers, parent # key,
           NEW d, parent # Nil => d = SideOf(key, parent) /\ d \in Sides,
           NEW t2, t2 = Link(t, key, parent)
    PROVE  Planted(t, t2, key, parent, d)
<1>1. PICK u : u = [t EXCEPT !.parent[key] = parent, !.red[key] = TRUE, !.kid[key] = Leaf]
  OBVIOUS
<1>2. Leaf \in [Sides -> Pointers] /\ \A f \in Sides : Leaf[f] = Nil
  BY NodePointers DEF Leaf
<1>3. u \in Trees
  BY <1>1, <1>2 DEF Trees
<1>4. /\ u.root = t.root /\ u.parent = [t.parent EXCEPT ![key] = parent]
      /\ u.red = [t.red EXCEPT ![key] = TRUE] /\ u.kid = [t.kid EXCEPT ![key] = Leaf]
  BY <1>1 DEF Trees
<1>5. u.parent[key] = parent /\ \A x \in Nodes \ {key} : u.parent[x] = t.parent[x]
  BY <1>4 DEF Trees
<1>6. u.red[key] = TRUE /\ \A x \in Nodes \ {key} : u.red[x] = t.red[x]
  BY <1>4 DEF Trees
<1>7. u.kid[key] = Leaf /\ \A x \in Nodes \ {key} : u.kid[x] = t.kid[x]
  BY <1>4 DEF Trees
<1>8. Par(u, key) = parent /\ Root(u) = Root(t) /\ \A x \in Nodes \ {key} : Par(u, x) = Par(t, x)
  BY <1>4, <1>5 DEF Par, Root
<1>9. IsRed(u, key) /\ \A x \in Nodes \ {key} : IsRed(u, x) <=> IsRed(t, x)
  BY <1>6, NodePointers DEF IsRed
<1>10. /\ \A f \in Sides : Kid(u, key, f) = Nil
       /\ \A x \in Nodes \ {key} : \A f \in Sides : Kid(u, x, f) = Kid(t, x, f)
  BY <1>2, <1>7 DEF Kid
<1>11. CASE parent = Nil
  <2>1. t2 = [u EXCEPT !.root = key]
    BY <1>1, <1>11 DEF Link
  <2>2. t2 \in Trees /\ t2.root = key /\ t2.parent = u.parent /\ t2.red = u.red /\ t2.kid = u.kid
    BY <1>3, <2>1, NodePointers DEF Trees
  <2>3. /\ Root(t2) = key
        /\ \A x \in Nodes : /\ Par(t2, x) = Par(u, x) /\ (IsRed(t2, x) <=> IsRed(u, x))
                            /\ \A f \in Sides : Kid(t2, x, f) = Kid(u, x, f)
    BY <2>2 DEF Root, Par, IsRed, Kid
  <2>4. \A x \in Nodes : x # Nil
    BY NodePointers
  <2> QED
    BY <1>8, <1>9, <1>10, <1>11, <2>2, <2>3, <2>4 DEF Planted
<1>12. CASE parent # Nil
  <2>1. d = SideOf(key, parent) /\ d \in Sides /\ parent \in Nodes /\ key \in Pointers
    BY <1>12, NodePointers
  <2>2. t2 = SetKid(u, parent, d, key)
    BY <1>1, <1>12, <2>1 DEF Link, SetKid
  <2>3. Hung(u, t2, parent, d, key) /\ SameColors(u, t2, {})
    BY <1>3, <2>1, <2>2, KidSet
  <2>4. /\ t2 \in Trees /\ Root(t2) = Root(u)
        /\ Kid(t2, parent, d) = key /\ Kid(t2, parent, Other(d)) = Kid(u, parent, Other(d))
        /\ \A x \in Nodes \ {parent} : \A f \in Sides : Kid(t2, x, f) = Kid(u, x, f)
        /\ \A x \in Nodes : Par(t2, x) = Par(u, x) /\ (IsRed(t2, x) <=> IsRed(u, x))
    BY <2>3 DEF Hung, SameColors
  <2>5. \A f \in Sides : Kid(t2, parent, f) = IF f = d THEN key ELSE Kid(t, parent, f)
    BY <1>10, <2>1, <2>4, OtherSide
  <2>6. ASSUME NEW x \in Nodes \ {key}
        PROVE  /\ Par(t2, x) = Par(t, x) /\ (IsRed(t2, x) <=> IsRed(t, x))
               /\ \A f \in Sides : Kid(t2, x, f) = IF x = parent /\ f = d THEN key ELSE Kid(t, x, f)
    BY <1>8, <1>9, <1>10, <2>4, <2>5
  <2>7. Par(t2, key) = parent /\ IsRed(t2, key) /\ \A f \in Sides : Kid(t2, key, f) = Nil
    BY <1>8, <1>9, <1>10, <2>1, <2>4
  <2> QED
    BY <1>8, <1>12, <2>4, <2>6, <2>7 DEF Planted
<1> QED
  BY <1>11, <1>12

\* Where a node is planted: where the search for its key ends.
Plot(t, M, sub, key, parent, d) ==
    /\ key \in Nodes /\ key \notin M /\ parent \in M \cup {Nil}
    /\ parent = Nil => Root(t) = Nil
    /\ parent # Nil => d \in Sides /\ Kid(t, parent, d) = Nil /\ Less(d, key, parent)
    /\ \A x \in M : \A f \in Sides : parent \in At(sub, Kid(t, x, f)) => Less(f, key, x)

\* What is below each node then.
Grown(sub, sub2, key, parent) ==
    /\ sub2 \in [Pointers -> SUBSET Nodes]
    /\ \A n \in Pointers : \A x :
          x \in At(sub2, n) <=> IF n = key THEN x = key
                                ELSE x \in At(sub, n) \/ (x = key /\ parent \in At(sub, n))

\* There is such a sub2.
LEMMA HasGrown ==
    ASSUME NEW sub \in [Pointers -> SUBSET Nodes], NEW key \in Nodes, NEW parent
    PROVE  \E sub2 : Grown(sub, sub2, key, parent)
<1>1. PICK sub2 : sub2 = [n \in Pointers |-> IF n = key THEN {key}
                             ELSE IF parent \in sub[n] THEN sub[n] \cup {key} ELSE sub[n]]
  OBVIOUS
<1>2. sub2 \in [Pointers -> SUBSET Nodes]
  BY <1>1
<1>3. ASSUME NEW n \in Pointers, NEW x
      PROVE  x \in At(sub2, n) <=> IF n = key THEN x = key
                                ELSE x \in At(sub, n) \/ (x = key /\ parent \in At(sub, n))
  BY <1>1 DEF At
<1> QED
  BY <1>2, <1>3 DEF Grown

\* With the new leaf the tree has one node more, in order.
LEMMA PlantedShape ==
    ASSUME NEW t, NEW M, NEW sub, Shaped(t, M, sub), NEW key, NEW parent, NEW d,
           Plot(t, M, sub, key, parent, d), NEW t2, Planted(t, t2, key, parent, d),
           NEW sub2, Grown(sub, sub2, key, parent)
    PROVE  Shaped(t2, M \cup {key}, sub2)
<1>1. /\ key \in Nodes /\ key \notin M /\ parent \in M \cup {Nil}
      /\ parent = Nil => Root(t) = Nil
      /\ parent # Nil => d \in Sides /\ Kid(t, parent, d) = Nil /\ Less(d, key, parent)
      /\ \A x \in M : \A f \in Sides : parent \in At(sub, Kid(t, x, f)) => Less(f, key, x)
  BY DEF Plot
<1>2. /\ t2 \in Trees /\ Root(t2) = IF parent = Nil THEN key ELSE Root(t)
      /\ Par(t2, key) = parent /\ \A f \in Sides : Kid(t2, key, f) = Nil
      /\ \A x \in Nodes \ {key} :
          /\ Par(t2, x) = Par(t, x)
          /\ \A f \in Sides : Kid(t2, x, f) = IF x = parent /\ f = d THEN key ELSE Kid(t, x, f)
  BY DEF Planted
<1>3. /\ sub2 \in [Pointers -> SUBSET Nodes]
      /\ \A n \in Pointers : \A x :
          x \in At(sub2, n) <=> IF n = key THEN x = key
                                ELSE x \in At(sub, n) \/ (x = key /\ parent \in At(sub, n))
  BY DEF Grown
<1>4. /\ M \subseteq Nodes /\ Root(t) \in M \cup {Nil} /\ At(sub, Root(t)) = M /\ At(sub, Nil) = {}
      /\ key # Nil /\ Nil \in Pointers /\ key \in Pointers /\ Nil \notin M
  BY <1>1, SubType, NodePointers
<1>5. \A n \in M : n # key /\ n \in Nodes /\ n \in Pointers
  BY <1>1, <1>4, NodePointers
<1>6. \A x : x \notin At(sub2, Nil)
  BY <1>3, <1>4
<1>7. \A x : x \in At(sub2, key) <=> x = key
  BY <1>3, <1>4
<1>8. /\ \A x : x \in At(sub2, Root(t2)) <=> x \in M \cup {key}
      /\ Root(t2) \in M \cup {key} /\ Par(t2, Root(t2)) = Nil
  <2>1. CASE parent = Nil
    BY <1>1, <1>2, <1>4, <1>7, <2>1
  <2>2. CASE parent # Nil
    <3>1. parent \in M /\ Root(t2) = Root(t)
      BY <1>1, <1>2, <2>2
    <3>2. Root(t) \in M
      BY <1>4, <3>1
    <3>3. PICK r \in M : r = Root(t)
      BY <3>2
    <3>4. \A x : x \in At(sub2, r) <=> x \in M \/ x = key
      BY <1>3, <1>4, <1>5, <3>1, <3>3
    <3>5. Par(t, r) = Nil
      BY <3>3, Upward
    <3>6. Par(t2, r) = Nil
      BY <1>2, <1>5, <3>3, <3>5
    <3> QED
      BY <3>1, <3>3, <3>4, <3>6
  <2> QED
    BY <2>1, <2>2
<1>9. ASSUME NEW n \in M, NEW f \in Sides
      PROVE  \A x : x \in At(sub2, Kid(t2, n, f)) <=>
                 \/ x \in At(sub, Kid(t, n, f))
                 \/ x = key /\ (parent \in At(sub, Kid(t, n, f)) \/ (n = parent /\ f = d))
  <2>1. PICK k : k = Kid(t, n, f)
    OBVIOUS
  <2>2. PICK k2 : k2 = Kid(t2, n, f)
    OBVIOUS
  <2>3. k \in M \cup {Nil} /\ k \in Pointers /\ k # key
    BY <1>4, <1>5, <2>1, ShapedNode
  <2>4. CASE n = parent /\ f = d
    <3>1. k2 = key /\ k = Nil
      BY <1>1, <1>2, <1>4, <1>5, <2>1, <2>2, <2>4
    <3> QED
      BY <1>4, <1>7, <2>1, <2>2, <2>4, <3>1
  <2>5. CASE ~(n = parent /\ f = d)
    <3>1. k2 = k
      BY <1>2, <1>5, <2>1, <2>2, <2>5
    <3>2. \A x : x \in At(sub2, k) <=> x \in At(sub, k) \/ (x = key /\ parent \in At(sub, k))
      BY <1>3, <2>3
    <3> QED
      BY <2>1, <2>2, <2>5, <3>1, <3>2
  <2> QED
    BY <2>4, <2>5
<1>10. ASSUME NEW n \in M, NEW f \in Sides
       PROVE  /\ Kid(t2, n, f) \in M \cup {key} \cup {Nil}
              /\ Kid(t2, n, f) # Nil => Par(t2, Kid(t2, n, f)) = n
              /\ \A x : x \in At(sub2, n) <=> \/ x = n \/ x \in At(sub2, Kid(t2, n, f))
                                              \/ x \in At(sub2, Kid(t2, n, Other(f)))
              /\ \A x \in At(sub2, Kid(t2, n, f)) : Less(f, x, n)
  <2>1. PICK k : k = Kid(t, n, f)
    OBVIOUS
  <2>2. k \in M \cup {Nil} /\ (k # Nil => k \in M /\ Par(t, k) = n)
    BY <2>1, ShapedNode
  <2>3. PICK e \in Sides : e = Other(f)
    BY OtherSide
  <2>4. Kid(t2, n, f) = IF n = parent /\ f = d THEN key ELSE k
    BY <1>2, <1>5, <2>1
  <2>5. k # Nil => Par(t2, k) = n
    BY <1>2, <1>5, <2>2
  <2>6. \A x : x \in At(sub, n) <=> \/ x = n \/ x \in At(sub, k) \/ x \in At(sub, Kid(t, n, e))
    BY <2>1, <2>3, ShapedNode
  <2>7. /\ \A x : x \in At(sub2, Kid(t2, n, f)) <=>
                 x \in At(sub, k) \/ (x = key /\ (parent \in At(sub, k) \/ (n = parent /\ f = d)))
        /\ \A x : x \in At(sub2, Kid(t2, n, e)) <=>
                 \/ x \in At(sub, Kid(t, n, e))
                 \/ x = key /\ (parent \in At(sub, Kid(t, n, e)) \/ (n = parent /\ e = d))
    BY <1>9, <2>1
  <2>8. \A x : x \in At(sub2, n) <=> x \in At(sub, n) \/ (x = key /\ parent \in At(sub, n))
    BY <1>3, <1>5
  <2>9. n = parent => f = d \/ e = d
    BY <1>1, <1>4, <2>3, OtherSide
  <2>10. \A x : x \in At(sub2, n) <=> \/ x = n \/ x \in At(sub2, Kid(t2, n, f))
                                      \/ x \in At(sub2, Kid(t2, n, e))
    BY <2>6, <2>7, <2>8, <2>9
  <2>11. ASSUME NEW x \in At(sub2, Kid(t2, n, f)) PROVE Less(f, x, n)
    <3>1. \A z \in At(sub, k) : Less(f, z, n)
      BY <2>1, ShapedNode
    <3>2. parent \in At(sub, k) => Less(f, key, n)
      BY <1>1, <2>1
    <3>3. n = parent /\ f = d => Less(f, key, n)
      BY <1>1, <1>4
    <3> QED
      BY <2>7, <2>11, <3>1, <3>2, <3>3
  <2> QED
    BY <1>2, <2>2, <2>3, <2>4, <2>5, <2>10, <2>11
<1>11. ASSUME NEW f \in Sides
       PROVE  /\ Kid(t2, key, f) \in M \cup {key} \cup {Nil}
              /\ Kid(t2, key, f) # Nil => Par(t2, Kid(t2, key, f)) = key
              /\ \A x : x \in At(sub2, key) <=> \/ x = key \/ x \in At(sub2, Kid(t2, key, f))
                                                \/ x \in At(sub2, Kid(t2, key, Other(f)))
              /\ \A x \in At(sub2, Kid(t2, key, f)) : Less(f, x, key)
  BY <1>2, <1>6, <1>7, OtherSide
<1>12. At(sub2, Root(t2)) = M \cup {key} /\ At(sub2, Nil) = {}
  BY <1>6, <1>8
<1> QED
  BY <1>2, <1>3, <1>8, <1>10, <1>11, <1>12 DEF Shaped

\* The new leaf is red, so only its parent may be wrong.
LEMMA PlantedUnsettled ==
    ASSUME NEW t, NEW M, NEW sub, Shaped(t, M, sub), NEW h, Balanced(t, M, h, Nil, "left"),
           Colored(t, M, Nil), ~IsRed(t, Root(t)), Leafy(t, M),
           NEW key, NEW parent, NEW d,
           Plot(t, M, sub, key, parent, d), NEW t2, Planted(t, t2, key, parent, d)
    PROVE  \E sub2 : Unsettled(t2, key, M \cup {key}, sub2, M \cup {key})
<1>1. /\ key \in Nodes /\ key \notin M /\ parent \in M \cup {Nil}
      /\ parent = Nil => Root(t) = Nil
      /\ parent # Nil => d \in Sides /\ Kid(t, parent, d) = Nil
  BY DEF Plot
<1>2. /\ t2 \in Trees /\ Root(t2) = IF parent = Nil THEN key ELSE Root(t)
      /\ IsRed(t2, key) /\ \A f \in Sides : Kid(t2, key, f) = Nil
      /\ \A x \in Nodes \ {key} :
          /\ IsRed(t2, x) <=> IsRed(t, x)
          /\ \A f \in Sides : Kid(t2, x, f) = IF x = parent /\ f = d THEN key ELSE Kid(t, x, f)
  BY DEF Planted
<1>3. PICK sub2 : Grown(sub, sub2, key, parent)
  <2>1. sub \in [Pointers -> SUBSET Nodes]
    BY DEF Shaped
  <2> QED
    BY <1>1, <2>1, HasGrown
<1>4. Shaped(t2, M \cup {key}, sub2)
  BY <1>3, PlantedShape
<1>5. /\ M \subseteq Nodes /\ key # Nil /\ Nil \in Pointers /\ key \in Pointers
      /\ \A n \in M : n # key /\ n \in Nodes /\ n \in Pointers /\ n # Nil
  BY <1>1, SubType, NodePointers
<1>6. h \in [Pointers -> Nat] /\ At(h, Nil) = 0
  BY DEF Balanced
<1>7. PICK h2 : h2 = [x \in Pointers |-> IF x = key THEN 0 ELSE h[x]]
  OBVIOUS
<1>8. h2 \in [Pointers -> Nat] /\ \A x \in Pointers : At(h2, x) = IF x = key THEN 0 ELSE At(h, x)
  BY <1>6, <1>7 DEF At
<1>9. ASSUME NEW n \in M, NEW f \in Sides
      PROVE  /\ At(h2, n) = At(h2, Kid(t2, n, f)) + Weight(t2, n) + Lack(n, f, Nil, "left")
             /\ IsRed(t2, n) /\ IsRed(t2, Kid(t2, n, f)) => Kid(t2, n, f) = key
  <2>1. PICK k : k = Kid(t, n, f)
    OBVIOUS
  <2>2. k \in M \cup {Nil} /\ k \in Pointers /\ k # key
    BY <1>5, <2>1, ShapedNode
  <2>3. Kid(t2, n, f) = IF n = parent /\ f = d THEN key ELSE k
    BY <1>2, <1>5, <2>1
  <2>4. At(h, n) = At(h, k) + Weight(t, n) + Lack(n, f, Nil, "left")
    BY <2>1 DEF Balanced
  <2>5. Weight(t2, n) = Weight(t, n)
    BY <1>2, <1>5 DEF Weight
  <2>6. At(h2, n) = At(h, n) /\ At(h2, k) = At(h, k)
    BY <1>5, <1>8, <2>2
  <2>7. At(h2, Kid(t2, n, f)) = At(h, k)
    <3>1. CASE n = parent /\ f = d
      <4>1. k = Nil /\ Kid(t2, n, f) = key
        BY <1>1, <1>5, <2>1, <2>3, <3>1
      <4> QED
        BY <1>5, <1>6, <1>8, <4>1
    <3> QED
      BY <2>3, <2>6, <3>1
  <2>8. ASSUME IsRed(t2, n), IsRed(t2, Kid(t2, n, f)), Kid(t2, n, f) # key PROVE FALSE
    <3>1. Kid(t2, n, f) = k
      BY <2>3, <2>8
    <3>2. k # Nil
      BY <2>8, <3>1 DEF IsRed
    <3>3. IsRed(t, n) /\ IsRed(t, k)
      BY <1>2, <1>5, <2>2, <2>8, <3>1, <3>2
    <3> QED
      BY <2>1, <3>2, <3>3 DEF Colored
  <2> QED
    BY <2>4, <2>5, <2>6, <2>7, <2>8
<1>10. ASSUME NEW f \in Sides
       PROVE  /\ At(h2, key) = At(h2, Kid(t2, key, f)) + Weight(t2, key) + Lack(key, f, Nil, "left")
              /\ ~IsRed(t2, Kid(t2, key, f))
  <2>1. Kid(t2, key, f) = Nil
    BY <1>2
  <2>2. Weight(t2, key) = 0 /\ Lack(key, f, Nil, "left") = 0
    BY <1>2, <1>5 DEF Weight, Lack
  <2>3. At(h2, key) = 0 /\ At(h2, Nil) = 0
    BY <1>5, <1>6, <1>8
  <2>4. ~IsRed(t2, Nil)
    BY DEF IsRed
  <2> QED
    BY <2>1, <2>2, <2>3, <2>4
<1>11. At(h2, Nil) = 0
  BY <1>5, <1>6, <1>8
<1>12. Balanced(t2, M \cup {key}, h2, Nil, "left")
  BY <1>8, <1>9, <1>10, <1>11 DEF Balanced
<1>13. Colored(t2, M \cup {key}, key)
  BY <1>9, <1>10 DEF Colored
<1>14. IsRed(t2, Root(t2)) => Root(t2) = key
  <2>1. CASE parent # Nil
    <3>1. Root(t2) = Root(t) /\ Root(t) \in M \cup {Nil}
      BY <1>2, <2>1, SubType
    <3>2. ~IsRed(t2, Nil)
      BY DEF IsRed
    <3> QED
      BY <1>2, <1>5, <3>1, <3>2
  <2> QED
    BY <1>2, <2>1
<1>15. Leafy(t2, M \cup {key})
  <2>1. ASSUME NEW x \in Nodes \ (M \cup {key}), NEW f \in Sides PROVE Kid(t2, x, f) = Nil
    <3>1. Kid(t, x, f) = Nil
      BY <2>1 DEF Leafy
    <3>2. x # parent
      BY <1>1, <1>5, <2>1, NodePointers
    <3> QED
      BY <1>2, <2>1, <3>1, <3>2
  <2> QED
    BY <2>1 DEF Leafy
<1> QED
  BY <1>2, <1>4, <1>12, <1>13, <1>14, <1>15 DEF Unsettled

\* ss_uuid_insert of a new key into a valid tree, of any shape, gives a valid tree
\* of the old keys and the new one.
THEOREM InsertIs ==
    ASSUME NEW t, NEW M, Valid(t, M, M), NEW key \in Nodes, key \notin M
    PROVE  Valid(Insert(t, key), M \cup {key}, M \cup {key})
<1>1. PICK sub, h : /\ Shaped(t, M, sub) /\ Balanced(t, M, h, Nil, "left") /\ Colored(t, M, Nil)
                    /\ ~IsRed(t, Root(t)) /\ Leafy(t, M)
  BY DEF Valid
<1>2. PICK at, parent : /\ Descend(t, key) = Walk(at, parent) /\ at \in {Nil, key}
                        /\ Reached(t, M, sub, key, at, parent)
  BY <1>1, DescendIs
<1>3. Descend(t, key).at = at /\ Descend(t, key).parent = parent
  BY <1>2 DEF Walk
<1>4. /\ at \in M \cup {Nil} /\ parent \in M \cup {Nil}
      /\ parent = Nil => at = Root(t)
      /\ parent # Nil => parent # key /\ at = Kid(t, parent, SideOf(key, parent))
      /\ \A x \in M : \A f \in Sides : parent \in At(sub, Kid(t, x, f)) => Less(f, key, x)
  BY <1>2 DEF Reached
<1>5. at = Nil
  BY <1>2, <1>4
<1>6. PICK d : d = SideOf(key, parent)
  OBVIOUS
<1>7. parent # key /\ parent \in Pointers /\ (parent # Nil => parent \in Nodes)
  BY <1>1, <1>4, SubType, NodePointers
<1>8. parent # Nil => d \in Sides /\ Less(d, key, parent)
  BY <1>4, <1>6, <1>7, LessOrder
<1>9. Plot(t, M, sub, key, parent, d)
  BY <1>4, <1>5, <1>6, <1>8 DEF Plot
<1>10. PICK t2 : t2 = Link(t, key, parent)
  OBVIOUS
<1>11. t \in Trees
  BY <1>1, SubType
<1>12. Planted(t, t2, key, parent, d)
  BY <1>6, <1>7, <1>8, <1>10, <1>11, LinkIs
<1>13. PICK sub2 : Unsettled(t2, key, M \cup {key}, sub2, M \cup {key})
  BY <1>1, <1>9, <1>12, PlantedUnsettled
<1>14. Valid(InsertColor(t2, key), M \cup {key}, M \cup {key})
  BY <1>13, InsertColorIs
<1>15. ~Found(t, key)
  BY FoundIs
<1>16. Insert(t, key) = InsertColor(t2, key)
  BY <1>3, <1>10, <1>15, Zenon DEF Insert
<1> QED
  BY <1>14, <1>16

-----------------------------------------------------------------------------
(* Unlinking a node with at most one child.                                *)

\* A tree from which a node has gone: what is left is valid, or lacks a black
\* node where the missing child of rebalance is.
Settles(t, rebalance, M, S) ==
    \/ rebalance = Nil /\ Valid(t, M, S)
    \/ rebalance # Nil /\ \E d, h, sub : Lacking(t, Nil, rebalance, d, h, M, sub, S)

\* ____rb_erase_color makes a tree valid from which a node has gone.
LEMMA Settled ==
    ASSUME NEW t, NEW rebalance, NEW M, NEW S, Settles(t, rebalance, M, S)
    PROVE  Valid(EraseColor(t, rebalance), M, S)
<1>1. CASE rebalance = Nil
  <2>1. EraseColor(t, rebalance) = t
    BY <1>1, EraseColorSkipped
  <2> QED
    BY <1>1, <2>1 DEF Settles
<1>2. CASE rebalance # Nil
  <2>1. PICK d, h, sub : Lacking(t, Nil, rebalance, d, h, M, sub, S)
    BY <1>2 DEF Settles
  <2> QED
    BY <2>1, EraseColorIs
<1> QED
  BY <1>1, <1>2

\* What settles, from its parts: the nodes lack one black node below the side d
\* of rebalance, if anywhere.
LEMMA Settling ==
    ASSUME NEW t, NEW rebalance, NEW M, NEW S, NEW sub, NEW h, NEW d \in Sides,
           Shaped(t, M, sub), Balanced(t, M, h, rebalance, d), Colored(t, M, Nil),
           ~IsRed(t, Root(t)), Leafy(t, S), M \subseteq S,
           rebalance # Nil => rebalance \in M /\ Kid(t, rebalance, d) = Nil
    PROVE  Settles(t, rebalance, M, S)
<1>1. CASE rebalance = Nil
  <2>1. \A n \in M : n # Nil
    BY ShapedNode, OtherSide
  <2>2. \A n \in M : \A f \in Sides : Lack(n, f, rebalance, d) = Lack(n, f, Nil, "left")
    BY <1>1, <2>1 DEF Lack
  <2>3. Balanced(t, M, h, Nil, "left")
    BY <2>2 DEF Balanced
  <2> QED
    BY <1>1, <2>3, Founded DEF Settles
<1>2. CASE rebalance # Nil
  <2>1. ~IsRed(t, Nil)
    BY DEF IsRed
  <2>2. Lacking(t, Nil, rebalance, d, h, M, sub, S)
    BY <1>2, <2>1 DEF Lacking
  <2> QED
    BY <1>2, <2>2 DEF Settles
<1> QED
  BY <1>1, <1>2

\* t2 is t with child, which may be missing, in the place of n.
Replaced(t, t2, n, child) ==
    /\ t2 \in Trees /\ Root(t2) = IF Par(t, n) = Nil THEN child ELSE Root(t)
    /\ \A x \in Nodes : \A f \in Sides :
          Kid(t2, x, f) = IF Kid(t, x, f) = n THEN child ELSE Kid(t, x, f)
    /\ \A x \in Nodes \ {child} : Par(t2, x) = Par(t, x) /\ (IsRed(t2, x) <=> IsRed(t, x))
    /\ child # Nil => Par(t2, child) = Par(t, n) /\ (IsRed(t2, child) <=> IsRed(t, n))

\* Only its parent has a node for a child.
LEMMA OnlyKid ==
    ASSUME NEW t, NEW M, NEW sub, Shaped(t, M, sub), Leafy(t, M), NEW n \in M
    PROVE  /\ Par(t, n) = Nil => \A x \in Nodes : \A f \in Sides : Kid(t, x, f) # n
           /\ Par(t, n) # Nil =>
                 \E g \in Sides : \A x \in Nodes : \A f \in Sides :
                     Kid(t, x, f) = n <=> x = Par(t, n) /\ f = g
<1>1. n # Nil
  BY SubType, NodePointers
<1>2. \A x \in Nodes \ M : \A f \in Sides : Kid(t, x, f) # n
  BY <1>1 DEF Leafy
<1>3. \A x \in M : \A f \in Sides : Kid(t, x, f) = n => Par(t, n) = x
  BY <1>1, ShapedNode
<1>4. Nil \notin M
  BY SubType, NodePointers
<1>5. CASE Par(t, n) = Nil
  BY <1>2, <1>3, <1>4, <1>5
<1>6. CASE Par(t, n) # Nil
  <2>1. Par(t, n) \in M /\ \E g \in Sides : Kid(t, Par(t, n), g) = n
    BY <1>6, Upward
  <2>2. PICK p \in M : p = Par(t, n)
    BY <2>1
  <2>3. PICK g \in Sides : Kid(t, p, g) = n
    BY <2>1, <2>2
  <2>4. \A x \in M : \A f \in Sides : Kid(t, x, f) = Kid(t, p, g) => x = p /\ f = g
    BY <1>1, <2>3, OneParent
  <2>5. \A x \in Nodes : \A f \in Sides : Kid(t, x, f) = n <=> x = p /\ f = g
    BY <1>2, <2>3, <2>4
  <2> QED
    BY <1>6, <2>2, <2>5
<1> QED
  BY <1>5, <1>6

\* __rb_change_child in a tree whose pointers to n are known.
LEMMA ChildTold ==
    ASSUME NEW t \in Trees, NEW n \in Nodes, NEW new \in Pointers, NEW p \in Pointers,
           p = Nil => \A x \in Nodes : \A f \in Sides : Kid(t, x, f) # n,
           p # Nil => \E g \in Sides : \A x \in Nodes : \A f \in Sides :
                          Kid(t, x, f) = n <=> x = p /\ f = g,
           NEW t2, t2 = ChangeChild(t, n, new, p)
    PROVE  /\ t2 \in Trees /\ Root(t2) = (IF p = Nil THEN new ELSE Root(t))
           /\ \A x \in Nodes : \A f \in Sides :
                 Kid(t2, x, f) = IF Kid(t, x, f) = n THEN new ELSE Kid(t, x, f)
           /\ \A x \in Nodes : Par(t2, x) = Par(t, x) /\ (IsRed(t2, x) <=> IsRed(t, x))
<1>1. CASE p = Nil
  <2>1. Rooted(t, t2, new) /\ SameColors(t, t2, {})
    BY <1>1, RootChanged
  <2> QED
    BY <1>1, <2>1 DEF Rooted, SameColors
<1>2. CASE p # Nil
  <2>1. PICK g \in Sides : \A x \in Nodes : \A f \in Sides : Kid(t, x, f) = n <=> x = p /\ f = g
    BY <1>2
  <2>2. p \in Nodes
    BY <1>2, NodePointers
  <2>3. Other(g) \in Sides /\ Other(g) # g /\ \A f \in Sides : f = g \/ f = Other(g)
    BY OtherSide
  <2>4. Kid(t, p, g) = n /\ Kid(t, p, Other(g)) # n
    BY <2>1, <2>2, <2>3
  <2>5. Hung(t, t2, p, g, new) /\ SameColors(t, t2, {})
    BY <2>2, <2>4, ChildChanged
  <2>6. /\ t2 \in Trees /\ Root(t2) = Root(t)
        /\ Kid(t2, p, g) = new /\ Kid(t2, p, Other(g)) = Kid(t, p, Other(g))
        /\ \A x \in Nodes \ {p} : \A f \in Sides : Kid(t2, x, f) = Kid(t, x, f)
        /\ \A x \in Nodes : Par(t2, x) = Par(t, x)
        /\ \A x \in Nodes : IsRed(t2, x) <=> IsRed(t, x)
    BY <2>5 DEF Hung, SameColors
  <2>7. ASSUME NEW x \in Nodes, NEW f \in Sides
        PROVE  Kid(t2, x, f) = IF Kid(t, x, f) = n THEN new ELSE Kid(t, x, f)
    <3>1. CASE x = p /\ f = g
      BY <2>4, <2>6, <3>1
    <3>2. CASE x = p /\ f # g
      BY <2>3, <2>4, <2>6, <3>2
    <3>3. CASE x # p
      BY <2>1, <2>6, <3>3
    <3> QED
      BY <3>1, <3>2, <3>3
  <2> QED
    BY <1>2, <2>6, <2>7
<1> QED
  BY <1>1, <1>2

\* Case 1 of __rb_erase_augmented.
LEMMA UnlinkOuterTree ==
    ASSUME NEW t, NEW M, NEW sub, Shaped(t, M, sub), Leafy(t, M), NEW n \in M,
           NEW child, NEW e \in Sides, child = Kid(t, n, e),
           NEW t2, t2 = ChangeChild(Inherit(t, child, n), n, child, Par(t, n))
    PROVE  Replaced(t, t2, n, child)
<1>1. t \in Trees /\ n \in Nodes /\ n # Nil /\ child \in M \cup {Nil} /\ child # n
  BY SubType, ShapedNode
<1>2. child \in Pointers /\ (child # Nil => child \in Nodes)
  BY <1>1, SubType, NodePointers
<1>3. PICK p \in Pointers : p = Par(t, n)
  BY <1>1, Typed
<1>4. PICK u : u = Inherit(t, child, n)
  OBVIOUS
<1>5. /\ u \in Trees /\ Root(u) = Root(t)
      /\ \A x \in Nodes : \A f \in Sides : Kid(u, x, f) = Kid(t, x, f)
      /\ \A x \in Nodes \ {child} : Par(u, x) = Par(t, x) /\ (IsRed(u, x) <=> IsRed(t, x))
      /\ child # Nil => Par(u, child) = p /\ (IsRed(u, child) <=> IsRed(t, n))
  <2>1. CASE child = Nil
    <3>1. u = t
      BY <1>4, <2>1 DEF Inherit, SetParentColor
    <3> QED
      BY <1>1, <2>1, <3>1
  <2>2. CASE child # Nil
    <3>1. Moved(t, u, child, Par(t, n)) /\ SameColors(t, u, {child}) /\ (IsRed(u, child) <=> IsRed(t, n))
      BY <1>1, <1>2, <1>4, <2>2, Inherited
    <3> QED
      BY <1>3, <3>1 DEF Moved, SameColors
  <2> QED
    BY <2>1, <2>2
<1>6. /\ p = Nil => \A x \in Nodes : \A f \in Sides : Kid(t, x, f) # n
      /\ p # Nil => \E g \in Sides : \A x \in Nodes : \A f \in Sides :
                        Kid(t, x, f) = n <=> x = p /\ f = g
  BY <1>3, OnlyKid
<1>7. /\ p = Nil => \A x \in Nodes : \A f \in Sides : Kid(u, x, f) # n
      /\ p # Nil => \E g \in Sides : \A x \in Nodes : \A f \in Sides :
                        Kid(u, x, f) = n <=> x = p /\ f = g
  BY <1>5, <1>6
<1>8. t2 = ChangeChild(u, n, child, p)
  BY <1>3, <1>4
<1>9. /\ t2 \in Trees /\ Root(t2) = (IF p = Nil THEN child ELSE Root(u))
      /\ \A x \in Nodes : \A f \in Sides :
            Kid(t2, x, f) = IF Kid(u, x, f) = n THEN child ELSE Kid(u, x, f)
      /\ \A x \in Nodes : Par(t2, x) = Par(u, x) /\ (IsRed(t2, x) <=> IsRed(u, x))
  BY <1>1, <1>2, <1>5, <1>7, <1>8, ChildTold
<1> QED
  BY <1>2, <1>3, <1>5, <1>9 DEF Replaced

\* n is below no node any more.
Without(sub, sub2, n) ==
    /\ sub2 \in [Pointers -> SUBSET Nodes]
    /\ \A x \in Pointers : \A y : y \in At(sub2, x) <=> y \in At(sub, x) /\ y # n

\* There is a function that gives what is below each node without n.
LEMMA HasWithout ==
    ASSUME NEW sub \in [Pointers -> SUBSET Nodes], NEW n
    PROVE  \E sub2 : Without(sub, sub2, n)
<1>1. PICK sub2 : sub2 = [x \in Pointers |-> sub[x] \ {n}]
  OBVIOUS
<1> QED
  BY <1>1 DEF Without, At

\* Case 1 of the removal leaves the other nodes, in order.
LEMMA ReplacedShape ==
    ASSUME NEW t, NEW M, NEW sub, Shaped(t, M, sub), Leafy(t, M), NEW n \in M,
           NEW e \in Sides, NEW child, child = Kid(t, n, e), Kid(t, n, Other(e)) = Nil,
           NEW t2, Replaced(t, t2, n, child), NEW sub2, Without(sub, sub2, n)
    PROVE  Shaped(t2, M \ {n}, sub2)
<1>1. /\ t2 \in Trees /\ Root(t2) = IF Par(t, n) = Nil THEN child ELSE Root(t)
      /\ \A x \in Nodes : \A f \in Sides :
            Kid(t2, x, f) = IF Kid(t, x, f) = n THEN child ELSE Kid(t, x, f)
      /\ \A x \in Nodes \ {child} : Par(t2, x) = Par(t, x)
      /\ child # Nil => Par(t2, child) = Par(t, n)
  BY DEF Replaced
<1>2. /\ sub2 \in [Pointers -> SUBSET Nodes]
      /\ \A x \in Pointers : \A y : y \in At(sub2, x) <=> y \in At(sub, x) /\ y # n
  BY DEF Without
<1>3. /\ M \subseteq Nodes /\ Root(t) \in M \cup {Nil} /\ At(sub, Root(t)) = M /\ At(sub, Nil) = {}
      /\ Nil \in Pointers /\ Nil \notin M /\ n \in Nodes /\ n # Nil
  BY SubType, NodePointers
<1>4. \A x \in M : x \in Nodes /\ x \in Pointers /\ x # Nil
  BY <1>3, NodePointers
<1>5. child \in M \cup {Nil} /\ child # n /\ child \in Pointers /\ (child # Nil => Par(t, child) = n)
  BY <1>3, <1>4, ShapedNode
<1>6. \A y : y \in At(sub, n) <=> y = n \/ y \in At(sub, child)
  BY <1>3, ShapedNode
<1>7. n \notin At(sub, child)
  BY ShapedNode
<1>8. \A x \in M : \A f \in Sides : child # Nil /\ Kid(t, x, f) = child => x = n
  BY <1>5, ShapedNode
<1>9. /\ Root(t2) \in (M \ {n}) \cup {Nil} /\ At(sub2, Root(t2)) = M \ {n}
      /\ Root(t2) # Nil => Par(t2, Root(t2)) = Nil
  <2>1. CASE Par(t, n) = Nil
    <3>1. n = Root(t)
      BY <1>3, <2>1, Upward
    <3>2. \A y : y \in At(sub2, child) <=> y \in At(sub, n) /\ y # n
      BY <1>2, <1>5, <1>6
    <3>3. At(sub2, child) = M \ {n}
      BY <1>3, <3>1, <3>2
    <3> QED
      BY <1>1, <1>5, <2>1, <3>3
  <2>2. CASE Par(t, n) # Nil
    <3>1. n # Root(t) /\ Root(t2) = Root(t)
      BY <1>1, <2>2, Upward
    <3>2. Root(t) # Nil
      BY <1>3
    <3>3. PICK r \in M : r = Root(t)
      BY <1>3, <3>2
    <3>4. Par(t, r) = Nil /\ r # child
      BY <1>3, <1>5, <3>3, Upward
    <3>5. Par(t2, r) = Nil
      BY <1>1, <1>4, <3>4
    <3>6. \A y : y \in At(sub2, r) <=> y \in M /\ y # n
      BY <1>2, <1>3, <1>4, <3>3
    <3> QED
      BY <3>1, <3>3, <3>5, <3>6
  <2> QED
    BY <2>1, <2>2
<1>10. ASSUME NEW x \in M \ {n}, NEW f \in Sides
       PROVE  \A y : y \in At(sub2, Kid(t2, x, f)) <=> y \in At(sub, Kid(t, x, f)) /\ y # n
  <2>1. PICK k : k = Kid(t, x, f)
    OBVIOUS
  <2>2. k \in Pointers
    BY <1>3, <1>4, <2>1, ShapedNode
  <2>3. Kid(t2, x, f) = IF k = n THEN child ELSE k
    BY <1>1, <1>4, <2>1
  <2>4. \A y : y \in At(sub2, k) <=> y \in At(sub, k) /\ y # n
    BY <1>2, <2>2
  <2>5. \A y : y \in At(sub2, child) <=> y \in At(sub, n) /\ y # n
    BY <1>2, <1>5, <1>6
  <2> QED
    BY <2>1, <2>3, <2>4, <2>5
<1>11. ASSUME NEW x \in M \ {n}, NEW f \in Sides
       PROVE  /\ Kid(t2, x, f) \in (M \ {n}) \cup {Nil}
              /\ Kid(t2, x, f) # Nil => Par(t2, Kid(t2, x, f)) = x
              /\ \A y : y \in At(sub2, x) <=> \/ y = x \/ y \in At(sub2, Kid(t2, x, f))
                                              \/ y \in At(sub2, Kid(t2, x, Other(f)))
              /\ \A y \in At(sub2, Kid(t2, x, f)) : Less(f, y, x)
  <2>1. PICK k : k = Kid(t, x, f)
    OBVIOUS
  <2>2. k \in M \cup {Nil} /\ (k # Nil => Par(t, k) = x)
    BY <2>1, ShapedNode
  <2>3. Kid(t2, x, f) = IF k = n THEN child ELSE k
    BY <1>1, <1>4, <2>1
  <2>4. CASE k = n
    <3>1. Kid(t2, x, f) = child /\ (child # Nil => Par(t2, child) = x)
      BY <1>1, <1>3, <2>2, <2>3, <2>4
    <3>2. PICK g \in Sides : g = Other(f)
      BY OtherSide
    <3> QED
      <4>1. /\ \A y : y \in At(sub2, Kid(t2, x, f)) <=> y \in At(sub, k) /\ y # n
            /\ \A y : y \in At(sub2, Kid(t2, x, g)) <=> y \in At(sub, Kid(t, x, g)) /\ y # n
        BY <1>10, <2>1
      <4>2. \A y : y \in At(sub2, x) <=> y \in At(sub, x) /\ y # n
        BY <1>2, <1>4
      <4>3. \A y : y \in At(sub, x) <=> y = x \/ y \in At(sub, k) \/ y \in At(sub, Kid(t, x, g))
        BY <2>1, <3>2, ShapedNode
      <4>4. \A y \in At(sub, k) : Less(f, y, x)
        BY <2>1, ShapedNode
      <4>5. \A y : y \in At(sub2, x) <=> \/ y = x \/ y \in At(sub2, Kid(t2, x, f))
                                         \/ y \in At(sub2, Kid(t2, x, g))
        BY <4>1, <4>2, <4>3
      <4> QED
        BY <1>5, <3>1, <3>2, <4>1, <4>4, <4>5
  <2>5. CASE k # n
    <3>1. Kid(t2, x, f) = k
      BY <2>3, <2>5
    <3>2. k # Nil => k # child
      BY <1>8, <2>1
    <3>3. k # Nil => Par(t2, k) = x
      BY <1>1, <1>4, <2>2, <3>2
    <3>4. PICK g \in Sides : g = Other(f)
      BY OtherSide
    <3> QED
      <4>1. /\ \A y : y \in At(sub2, Kid(t2, x, f)) <=> y \in At(sub, k) /\ y # n
            /\ \A y : y \in At(sub2, Kid(t2, x, g)) <=> y \in At(sub, Kid(t, x, g)) /\ y # n
        BY <1>10, <2>1
      <4>2. \A y : y \in At(sub2, x) <=> y \in At(sub, x) /\ y # n
        BY <1>2, <1>4
      <4>3. \A y : y \in At(sub, x) <=> y = x \/ y \in At(sub, k) \/ y \in At(sub, Kid(t, x, g))
        BY <2>1, <3>4, ShapedNode
      <4>4. \A y \in At(sub, k) : Less(f, y, x)
        BY <2>1, ShapedNode
      <4>5. \A y : y \in At(sub2, x) <=> \/ y = x \/ y \in At(sub2, Kid(t2, x, f))
                                         \/ y \in At(sub2, Kid(t2, x, g))
        BY <4>1, <4>2, <4>3
      <4> QED
        BY <2>2, <2>5, <3>1, <3>3, <3>4, <4>1, <4>4, <4>5
  <2> QED
    BY <2>4, <2>5
<1>12. At(sub2, Nil) = {}
  BY <1>2, <1>3
<1> QED
  BY <1>1, <1>2, <1>9, <1>11, <1>12 DEF Shaped

\* The colours and heights after that.
LEMMA ReplacedSettles ==
    ASSUME NEW t, NEW M, NEW sub, Shaped(t, M, sub), NEW h, Balanced(t, M, h, Nil, "left"),
           Colored(t, M, Nil), ~IsRed(t, Root(t)), Leafy(t, M), NEW n \in M,
           NEW e \in Sides, NEW child, child = Kid(t, n, e), Kid(t, n, Other(e)) = Nil,
           NEW t2, Replaced(t, t2, n, child),
           NEW rebalance, rebalance = IF child = Nil /\ ~IsRed(t, n) THEN Par(t, n) ELSE Nil
    PROVE  Settles(t2, rebalance, M \ {n}, M)
<1>1. /\ t2 \in Trees /\ Root(t2) = IF Par(t, n) = Nil THEN child ELSE Root(t)
      /\ \A x \in Nodes : \A f \in Sides :
            Kid(t2, x, f) = IF Kid(t, x, f) = n THEN child ELSE Kid(t, x, f)
      /\ \A x \in Nodes \ {child} : IsRed(t2, x) <=> IsRed(t, x)
      /\ child # Nil => (IsRed(t2, child) <=> IsRed(t, n))
  BY DEF Replaced
<1>2. PICK sub2 : Without(sub, sub2, n)
  BY HasWithout DEF Shaped
<1>3. Shaped(t2, M \ {n}, sub2)
  BY <1>2, ReplacedShape
<1>4. /\ M \subseteq Nodes /\ Root(t) \in M \cup {Nil} /\ Nil \in Pointers /\ Nil \notin M
      /\ n \in Nodes /\ n # Nil /\ n \in Pointers
  BY SubType, NodePointers
<1>5. \A x \in M : x \in Nodes /\ x \in Pointers /\ x # Nil
  BY <1>4, NodePointers
<1>6. child \in M \cup {Nil} /\ child # n /\ child \in Pointers /\ (child # Nil => Par(t, child) = n)
  BY <1>4, <1>5, ShapedNode
<1>7. Other(e) \in Sides
  BY OtherSide
<1>8. \A x \in M : \A f \in Sides : Lack(x, f, Nil, "left") = 0
  BY <1>5 DEF Lack
<1>9. /\ At(h, Nil) = 0 /\ h \in [Pointers -> Nat]
      /\ \A x \in M : \A f \in Sides : At(h, x) = At(h, Kid(t, x, f)) + Weight(t, x) + Lack(x, f, Nil, "left")
  BY DEF Balanced
<1>10. \A x \in Pointers : At(h, x) \in Nat
  BY HeightType
<1>11. \A x : Weight(t, x) = IF IsRed(t, x) THEN 0 ELSE 1
  BY DEF Weight
<1>12. /\ At(h, n) = IF IsRed(t, n) THEN 0 ELSE 1
       /\ child # Nil => IsRed(t, child) /\ ~IsRed(t, n) /\ At(h, child) = 0
  <2>1. At(h, n) = 0 + Weight(t, n) + 0
    BY <1>7, <1>8, <1>9
  <2>2. At(h, n) = At(h, child) + Weight(t, n) + 0
    BY <1>8, <1>9
  <2>3. At(h, child) = 0 /\ At(h, n) = Weight(t, n)
    BY <1>6, <1>10, <1>11, <2>1, <2>2
  <2>4. ASSUME child # Nil PROVE IsRed(t, child)
    <3>1. child \in M
      BY <1>6, <2>4
    <3>2. At(h, child) = At(h, Kid(t, child, e)) + Weight(t, child) + 0
      BY <1>8, <1>9, <3>1
    <3>3. Kid(t, child, e) \in Pointers
      BY <1>4, <1>5, <3>1, ShapedNode
    <3>4. At(h, Kid(t, child, e)) \in Nat
      BY <1>10, <3>3
    <3> QED
      BY <1>11, <2>3, <3>2, <3>4
  <2>5. child # Nil => ~IsRed(t, n)
    BY <2>4 DEF Colored
  <2> QED
    BY <1>11, <2>3, <2>4, <2>5
<1>13. PICK g \in Sides : Par(t, n) # Nil => Kid(t, Par(t, n), g) = n /\ Par(t, n) \in M /\ Par(t, n) # n
  <2>1. CASE Par(t, n) = Nil
    BY <2>1
  <2>2. CASE Par(t, n) # Nil
    <3>1. Par(t, n) \in M /\ \E g \in Sides : Kid(t, Par(t, n), g) = n
      BY <2>2, Upward
    <3> QED
      BY <3>1, ShapedNode
  <2> QED
    BY <2>1, <2>2
<1>14. PICK h2 : Raised(h, h2, {child} \ {Nil})
  BY <1>9, HasRaised
<1>15. /\ h2 \in [Pointers -> Nat]
       /\ \A x \in Pointers : At(h2, x) = IF x \in {child} \ {Nil} THEN At(h, x) + 1 ELSE At(h, x)
  BY <1>14 DEF Raised
<1>16. At(h2, Nil) = 0 /\ (child # Nil => At(h2, child) = 1)
       /\ \A x \in Pointers \ {child} : At(h2, x) = At(h, x)
  BY <1>4, <1>6, <1>9, <1>12, <1>15
<1>17. ASSUME NEW x \in M \ {n}, NEW f \in Sides
       PROVE  /\ At(h2, x) = At(h2, Kid(t2, x, f)) + Weight(t2, x) + Lack(x, f, rebalance, g)
              /\ IsRed(t2, x) /\ IsRed(t2, Kid(t2, x, f)) => Kid(t2, x, f) = Nil
  <2>1. PICK k : k = Kid(t, x, f)
    OBVIOUS
  <2>2. k \in M \cup {Nil} /\ k # x /\ k \in Pointers /\ (k # Nil => Par(t, k) = x)
    BY <1>4, <1>5, <2>1, ShapedNode
  <2>3. Kid(t2, x, f) = IF k = n THEN child ELSE k
    BY <1>1, <1>5, <2>1
  <2>4. At(h, x) = At(h, k) + Weight(t, x)
    <3>1. At(h, x) = At(h, k) + Weight(t, x) + 0
      BY <1>8, <1>9, <2>1
    <3> QED
      BY <1>5, <1>10, <1>11, <2>2, <3>1
  <2>5. CASE k = n
    <3>1. x = Par(t, n) /\ x # child /\ Par(t, n) # Nil
      <4>1. x = Par(t, n) /\ x # Nil
        BY <1>4, <1>5, <2>2, <2>5
      <4>2. x # child
        <5> SUFFICES ASSUME x = child PROVE FALSE
          OBVIOUS
        <5>1. \A z \in At(sub, Kid(t, x, f)) : z \in At(sub, x)
          BY ShapedNode
        <5>2. \A z \in M : z \in At(sub, z) /\ z \notin At(sub, Kid(t, z, e))
          BY ShapedNode
        <5>3. n \in At(sub, x)
          BY <2>1, <2>5, <5>1, <5>2
        <5> QED
          BY <5>2, <5>3
      <4> QED
        BY <4>1, <4>2
    <3>2. f = g
      <4>1. Kid(t, x, f) # Nil
        BY <1>4, <2>1, <2>5
      <4>2. \A z \in M : \A q \in Sides : Kid(t, z, q) = Kid(t, x, f) => z = x /\ q = f
        BY <4>1, OneParent
      <4> QED
        BY <1>13, <2>1, <2>5, <3>1, <4>2
    <3>3. Kid(t2, x, f) = child /\ Weight(t2, x) = Weight(t, x) /\ (IsRed(t2, x) <=> IsRed(t, x))
      BY <1>1, <1>5, <2>3, <2>5, <3>1 DEF Weight
    <3>4. At(h2, x) = At(h, x)
      BY <1>5, <1>16, <3>1
    <3>5. Lack(x, f, rebalance, g) = IF child = Nil /\ ~IsRed(t, n) THEN 1 ELSE 0
      BY <1>5, <3>1, <3>2 DEF Lack
    <3>6. At(h, n) = At(h2, child) + Lack(x, f, rebalance, g)
      BY <1>12, <1>16, <3>5
    <3>7. At(h2, child) \in Nat /\ Weight(t, x) \in Nat /\ Lack(x, f, rebalance, g) \in Nat
      <4>1. At(h2, child) \in Nat
        BY <1>6, <1>15 DEF At
      <4> QED
        BY <1>11, <3>5, <4>1
    <3>8. At(h2, x) = At(h2, child) + Weight(t, x) + Lack(x, f, rebalance, g)
      BY <2>4, <2>5, <3>4, <3>6, <3>7
    <3>9. IsRed(t2, x) /\ IsRed(t2, child) => child = Nil
      BY <1>1, <1>12
    <3> QED
      BY <3>3, <3>8, <3>9
  <2>6. CASE k # n
    <3>1. Kid(t2, x, f) = k
      BY <2>3, <2>6
    <3>2. k # Nil => k # child
      BY <1>6, <2>2
    <3>3. Lack(x, f, rebalance, g) = 0
      BY <1>5, <1>13, <2>1, <2>6 DEF Lack
    <3>4. At(h2, k) = At(h, k)
      BY <1>9, <1>16, <2>2, <3>2
    <3>5. At(h2, x) = At(h, x) + (Weight(t2, x) - Weight(t, x))
      <4>1. CASE x = child
        <5>1. child # Nil /\ ~IsRed(t2, x) /\ IsRed(t, x)
          BY <1>1, <1>5, <1>12, <4>1
        <5>2. Weight(t2, x) = 1 /\ Weight(t, x) = 0
          BY <5>1 DEF Weight
        <5> QED
          BY <1>12, <1>16, <4>1, <5>1, <5>2
      <4>2. CASE x # child
        <5>1. IsRed(t2, x) <=> IsRed(t, x)
          BY <1>1, <1>5, <4>2
        <5>2. Weight(t2, x) = Weight(t, x) /\ Weight(t, x) \in Nat
          BY <5>1 DEF Weight
        <5>3. At(h2, x) = At(h, x) /\ At(h, x) \in Nat
          BY <1>5, <1>10, <1>16, <4>2
        <5> QED
          BY <5>2, <5>3
      <4> QED
        BY <4>1, <4>2
    <3>6. Weight(t2, x) \in Nat /\ Weight(t, x) \in Nat /\ At(h, k) \in Nat
      BY <1>10, <2>2 DEF Weight
    <3>7. At(h2, x) = At(h2, k) + Weight(t2, x) + Lack(x, f, rebalance, g)
      BY <2>4, <3>3, <3>4, <3>5, <3>6
    <3>8. ASSUME IsRed(t2, x), IsRed(t2, k), k # Nil PROVE FALSE
      <4>1. IsRed(t, k)
        BY <1>1, <1>5, <2>2, <3>2, <3>8
      <4>2. IsRed(t, x)
        BY <1>1, <1>5, <1>12, <3>8
      <4> QED
        BY <2>1, <3>8, <4>1, <4>2 DEF Colored
    <3> QED
      BY <3>1, <3>7, <3>8
  <2> QED
    BY <2>5, <2>6
<1>18. Balanced(t2, M \ {n}, h2, rebalance, g)
  BY <1>15, <1>16, <1>17 DEF Balanced
<1>19. Colored(t2, M \ {n}, Nil)
  BY <1>17 DEF Colored
<1>20. ~IsRed(t2, Root(t2))
  <2>1. ~IsRed(t2, Nil)
    BY DEF IsRed
  <2>2. child # Nil => ~IsRed(t2, child)
    BY <1>1, <1>12
  <2>3. Root(t2) # Nil /\ Root(t2) # child => ~IsRed(t2, Root(t2))
    BY <1>1, <1>4, <1>5
  <2> QED
    BY <2>1, <2>2, <2>3
<1>21. Leafy(t2, M)
  BY <1>1, <1>4 DEF Leafy
<1>22. rebalance # Nil => rebalance \in M \ {n} /\ Kid(t2, rebalance, g) = Nil
  BY <1>1, <1>5, <1>13
<1> QED
  BY <1>3, <1>18, <1>19, <1>20, <1>21, <1>22, Settling

-----------------------------------------------------------------------------
(* Unlinking a node with two children.                                     *)

\* The successor s of n: the leftmost node of the right child, with a right child
\* o, which may be missing; l is the left child of n, and above the parent of s.
Heir(t, M, n, s, child, l, o, above) ==
    /\ n \in M /\ s \in M /\ child \in M /\ l \in M /\ o \in M \cup {Nil} /\ above \in M
    /\ child = Kid(t, n, "right") /\ l = Kid(t, n, "left") /\ o = Kid(t, s, "right")
    /\ Kid(t, s, "left") = Nil /\ above = Par(t, s)
    /\ s # n /\ l # n /\ l # s /\ l # child /\ child # n /\ o \notin {n, s, l, child}
    /\ s = child => above = n
    /\ s # child => above \notin {n, s, l, o} /\ Kid(t, above, "left") = s
    /\ Par(t, n) \notin {n, s, l, child, o, above} \ {Nil}

\* A node with two children has a successor in the right one, and it is the
\* smallest there.
LEMMA HasHeir ==
    ASSUME NEW t, NEW M, NEW sub, Shaped(t, M, sub), NEW n \in M,
           Kid(t, n, "left") # Nil, Kid(t, n, "right") # Nil,
           NEW s, s = Leftmost(t, Kid(t, n, "right"))
    PROVE  /\ Heir(t, M, n, s, Kid(t, n, "right"), Kid(t, n, "left"), Kid(t, s, "right"), Par(t, s))
           /\ s \in At(sub, Kid(t, n, "right"))
           /\ \A x \in At(sub, Kid(t, n, "right")) : x = s \/ Less("right", x, s)
<1>1. PICK child : child = Kid(t, n, "right")
  OBVIOUS
<1>2. PICK l : l = Kid(t, n, "left")
  OBVIOUS
<1>3. "left" \in Sides /\ "right" \in Sides /\ Other("left") = "right" /\ Other("right") = "left"
      /\ "left" # "right" /\ \A f \in Sides : f = "left" \/ f = "right"
  BY DEF Sides, Other
<1>4. /\ child \in M /\ l \in M /\ child # n /\ l # n /\ Par(t, child) = n /\ Par(t, l) = n
      /\ child \in At(sub, n) /\ l \in At(sub, n)
  <2>1. child \in M /\ child # n /\ Par(t, child) = n /\ l \in M /\ l # n /\ Par(t, l) = n
    BY <1>1, <1>2, <1>3, ShapedNode
  <2>2. /\ \A x \in At(sub, Kid(t, n, "right")) : x \in At(sub, n)
        /\ \A x \in At(sub, Kid(t, n, "left")) : x \in At(sub, n)
    BY <1>3, ShapedNode
  <2>3. \A x \in M : x \in At(sub, x)
    BY <1>3, ShapedNode
  <2> QED
    BY <1>1, <1>2, <2>1, <2>2, <2>3
<1>5. /\ s \in At(sub, child) /\ s \in M /\ Kid(t, s, "left") = Nil
      /\ \A x \in At(sub, child) : x = s \/ Less("right", x, s)
  BY <1>1, <1>4, LeftmostIs
<1>6. /\ \A x \in At(sub, child) : x \in At(sub, n) /\ x # n /\ x \notin At(sub, l)
      /\ \A x \in At(sub, l) : x \in At(sub, n) /\ x # n
  BY <1>1, <1>2, <1>3, ShapedNode
<1>7. PICK o : o = Kid(t, s, "right")
  OBVIOUS
<1>8. PICK above : above = Par(t, s)
  OBVIOUS
<1>9. \A x \in M : x # Nil /\ x \in Nodes /\ x \in At(sub, x)
  BY <1>3, ShapedNode
<1>10. o \in M \cup {Nil} /\ o # s /\ (o # Nil => o \in M /\ Par(t, o) = s /\ o \in At(sub, s))
  <2>1. o \in M \cup {Nil} /\ o # s /\ (o # Nil => Par(t, o) = s)
    BY <1>3, <1>5, <1>7, ShapedNode
  <2>2. \A x \in At(sub, Kid(t, s, "right")) : x \in At(sub, s)
    BY <1>3, <1>5, ShapedNode
  <2> QED
    BY <1>7, <1>9, <2>1, <2>2
<1>11. \A x \in At(sub, s) : x \in At(sub, child)
  BY <1>4, <1>5, Nested
<1>12. s # n /\ l # s /\ l # child /\ o \notin {n, s, l, child}
  <2>1. s # n /\ l # s
    BY <1>4, <1>5, <1>6, <1>9
  <2>2. l # child
    BY <1>4, <1>6, <1>9
  <2>3. o # Nil => o # n /\ o # l
    BY <1>4, <1>6, <1>9, <1>10, <1>11
  <2>4. o # Nil => o # child
    BY <1>4, <1>10, <2>1
  <2>5. o = Nil => o \notin {n, s, l, child}
    BY <1>4, <1>5, <1>9
  <2> QED
    BY <1>10, <2>1, <2>2, <2>3, <2>4, <2>5
<1>13. s = child => above = n
  BY <1>4, <1>8
<1>14. ASSUME s # child PROVE above \in At(sub, child) /\ above \in M /\ above \notin {n, s, l, o} /\ Kid(t, above, "left") = s
  <2>1. above \in At(sub, child) /\ above \in M /\ \E f \in Sides : Kid(t, above, f) = s
    BY <1>4, <1>5, <1>8, <1>14, Nested
  <2>2. PICK f \in Sides : Kid(t, above, f) = s
    BY <2>1
  <2>3. above # s
    BY <2>1, <2>2, ShapedNode
  <2>4. above # n /\ above # l
    BY <1>4, <1>6, <1>9, <2>1
  <2>5. above # o
    <3> SUFFICES ASSUME above = o PROVE FALSE
      OBVIOUS
    <3>1. o # Nil
      BY <1>9, <2>1
    <3>2. s \notin At(sub, o)
      BY <1>3, <1>5, <1>7, ShapedNode
    <3>3. \A x \in At(sub, Kid(t, above, f)) : x \in At(sub, above)
      BY <2>1, ShapedNode
    <3>4. s \in At(sub, above)
      BY <1>5, <1>9, <2>2, <3>3
    <3> QED
      BY <3>2, <3>4
  <2>6. Less(f, s, above)
    <3>1. \A x \in At(sub, Kid(t, above, f)) : Less(f, x, above)
      BY <2>1, ShapedNode
    <3> QED
      BY <1>5, <1>9, <2>2, <3>1
  <2>7. Less("right", above, s)
    BY <1>5, <2>1, <2>3
  <2>8. f = "left"
    <3>1. s \in Nodes /\ above \in Nodes
      BY <1>5, <1>9, <2>1
    <3>2. Less("left", s, above)
      BY <1>3, <2>7, <3>1, LessOrder
    <3>3. ~Less("right", s, above)
      BY <1>3, <3>1, <3>2, LessOrder
    <3> QED
      BY <1>3, <2>6, <3>3
  <2> QED
    BY <2>1, <2>2, <2>3, <2>4, <2>5, <2>8
<1>15. above \in M
  BY <1>13, <1>14
<1>16. Par(t, n) \notin {n, s, l, child, o, above} \ {Nil}
  <2>1. \A x \in {n, s, l, child, o, above} \ {Nil} : x \in At(sub, n)
    BY <1>4, <1>5, <1>6, <1>9, <1>10, <1>11, <1>13, <1>14
  <2>2. ASSUME Par(t, n) # Nil PROVE Par(t, n) \notin At(sub, n)
    <3>1. PICK p \in M : p = Par(t, n) /\ \E g \in Sides : Kid(t, p, g) = n
      BY <2>2, Upward
    <3>2. PICK g \in Sides : Kid(t, p, g) = n
      BY <3>1
    <3>3. p \notin At(sub, Kid(t, p, g))
      BY ShapedNode
    <3> QED
      BY <3>1, <3>2, <3>3
  <2> QED
    BY <2>1, <2>2
<1>17. Heir(t, M, n, s, child, l, o, above)
  BY <1>1, <1>2, <1>4, <1>5, <1>7, <1>8, <1>10, <1>12, <1>13, <1>14, <1>15, <1>16 DEF Heir
<1> QED
  BY <1>1, <1>2, <1>5, <1>7, <1>8, <1>17

\* t2 is t without n, whose place its successor s has, and o that of s.
Succeeded(t, t2, n, s, child, l, o, above) ==
    /\ t2 \in Trees /\ Root(t2) = IF Par(t, n) = Nil THEN s ELSE Root(t)
    /\ Kid(t2, s, "left") = l /\ Kid(t2, s, "right") = IF s = child THEN o ELSE child
    /\ \A x \in Nodes \ {n, s} : \A f \in Sides :
          Kid(t2, x, f) = IF Kid(t, x, f) = n THEN s
                          ELSE IF Kid(t, x, f) = s THEN o ELSE Kid(t, x, f)
    /\ Par(t2, s) = Par(t, n) /\ Par(t2, l) = s /\ (s # child => Par(t2, child) = s)
    /\ o # Nil => Par(t2, o) = (IF s = child THEN s ELSE above) /\ ~IsRed(t2, o)
    /\ \A x \in Nodes \ {s, l, child, o} : Par(t2, x) = Par(t, x)
    /\ \A x \in Nodes \ {s, o} : IsRed(t2, x) <=> IsRed(t, x)
    /\ IsRed(t2, s) <=> IsRed(t, n)

\* The parameters in the types the pointer operators want.
LEMMA HeirTypes ==
    ASSUME NEW t, NEW M, NEW sub, Shaped(t, M, sub), NEW n, NEW s, NEW child, NEW l, NEW o, NEW above,
           Heir(t, M, n, s, child, l, o, above)
    PROVE  /\ t \in Trees /\ n \in Nodes /\ s \in Nodes /\ child \in Nodes /\ l \in Nodes
           /\ above \in Nodes /\ o \in Pointers /\ (o # Nil => o \in Nodes)
           /\ n # Nil /\ s # Nil /\ child # Nil /\ l # Nil /\ above # Nil /\ Nil \in Pointers
           /\ \A x \in Nodes : x \in Pointers
           /\ "left" \in Sides /\ "right" \in Sides /\ "left" # "right"
           /\ Other("left") = "right" /\ Other("right") = "left"
           /\ \A f \in Sides : f = "left" \/ f = "right"
<1>1. /\ n \in M /\ s \in M /\ child \in M /\ l \in M /\ o \in M \cup {Nil} /\ above \in M
  BY DEF Heir
<1>2. M \subseteq Nodes /\ t \in Trees
  BY SubType
<1>3. Nil \notin Nodes /\ Nil \in Pointers /\ \A x \in Nodes : x \in Pointers
  BY NodePointers
<1> QED
  BY <1>1, <1>2, <1>3 DEF Sides, Other

\* Promote, and the left child of n.
LEMMA PromoteIs ==
    ASSUME NEW t, NEW M, NEW sub, Shaped(t, M, sub), Leafy(t, M),
           NEW n, NEW s, NEW child, NEW l, NEW o, NEW above,
           Heir(t, M, n, s, child, l, o, above),
           NEW u, u = Promote(t, n, s), NEW v, v = SetKid(u, s, "left", l),
           NEW w, w = SetParent(v, l, s)
    PROVE  /\ w \in Trees /\ Root(w) = Root(t)
           /\ Kid(w, s, "left") = l /\ Kid(w, s, "right") = (IF s = child THEN o ELSE child)
           /\ \A f \in Sides : Kid(w, n, f) = Kid(t, n, f)
           /\ \A x \in Nodes \ {n, s} : \A f \in Sides :
                 Kid(w, x, f) = IF Kid(t, x, f) = s THEN o ELSE Kid(t, x, f)
           /\ Par(w, l) = s /\ (s # child => Par(w, child) = s)
           /\ \A x \in Nodes \ {l, child} : Par(w, x) = Par(t, x)
           /\ s = child => Par(w, child) = Par(t, child)
           /\ \A x \in Nodes : IsRed(w, x) <=> IsRed(t, x)
<1>1. /\ n \in M /\ s \in M /\ child \in M /\ l \in M /\ o \in M \cup {Nil} /\ above \in M
      /\ child = Kid(t, n, "right") /\ l = Kid(t, n, "left") /\ o = Kid(t, s, "right")
      /\ Kid(t, s, "left") = Nil /\ above = Par(t, s)
      /\ s # n /\ l # n /\ l # s /\ l # child /\ child # n /\ o \notin {n, s, l, child}
      /\ s = child => above = n
      /\ s # child => above \notin {n, s, l, o} /\ Kid(t, above, "left") = s
  BY DEF Heir
<1>2. /\ t \in Trees /\ n \in Nodes /\ s \in Nodes /\ child \in Nodes /\ l \in Nodes
      /\ above \in Nodes /\ o \in Pointers
      /\ n # Nil /\ s # Nil /\ child # Nil /\ l # Nil /\ above # Nil
      /\ \A x \in Nodes : x \in Pointers
      /\ "left" \in Sides /\ "right" \in Sides /\ "left" # "right"
      /\ Other("left") = "right" /\ Other("right") = "left"
      /\ \A f \in Sides : f = "left" \/ f = "right"
  BY HeirTypes
<1>3. PICK g \in Sides : \A x \in Nodes : \A f \in Sides : Kid(t, x, f) = s <=> x = above /\ f = g
  BY <1>1, <1>2, OnlyKid
<1>4. /\ u \in Trees /\ Root(u) = Root(t)
      /\ Kid(u, s, "right") = (IF s = child THEN o ELSE child)
      /\ \A f \in Sides : Kid(u, n, f) = Kid(t, n, f)
      /\ \A x \in Nodes \ {n, s} : \A f \in Sides :
            Kid(u, x, f) = IF Kid(t, x, f) = s THEN o ELSE Kid(t, x, f)
      /\ s # child => Par(u, child) = s
      /\ \A x \in Nodes \ {child} : Par(u, x) = Par(t, x)
      /\ s = child => Par(u, child) = Par(t, child)
      /\ \A x \in Nodes : IsRed(u, x) <=> IsRed(t, x)
  <2>1. CASE s = child
    <3>1. u = t
      BY <1>1, <2>1 DEF Promote, Kid
    <3>2. \A x \in Nodes \ {n, s} : \A f \in Sides : Kid(t, x, f) # s
      BY <1>1, <1>3, <2>1
    <3> QED
      BY <1>1, <1>2, <2>1, <3>1, <3>2
  <2>2. CASE s # child
    <3>1. above \notin {n, s, l, o} /\ Kid(t, above, "left") = s
      BY <1>1, <2>2
    <3>2. PICK a : a = SetKid(t, above, "left", o)
      OBVIOUS
    <3>3. Hung(t, a, above, "left", o) /\ SameColors(t, a, {})
      BY <1>2, <3>2, KidSet
    <3>4. a \in Trees
      BY <3>3 DEF Hung
    <3>5. PICK b : b = SetKid(a, s, "right", child)
      OBVIOUS
    <3>6. Hung(a, b, s, "right", child) /\ SameColors(a, b, {})
      BY <1>2, <3>4, <3>5, KidSet
    <3>7. b \in Trees
      BY <3>6 DEF Hung
    <3>8. u = SetParent(b, child, s)
      <4>1. u = SetParent([t EXCEPT !.kid[above]["left"] = o, !.kid[s]["right"] = child], child, s)
        BY <1>1, <2>2, Zenon DEF Promote, Kid, Par
      <4>2. b = [t EXCEPT !.kid[above]["left"] = o, !.kid[s]["right"] = child]
        BY <3>2, <3>5 DEF SetKid
      <4> QED
        BY <4>1, <4>2
    <3>9. Moved(b, u, child, s) /\ SameColors(b, u, {})
      BY <1>2, <3>7, <3>8, Reparented
    <3>10. \A x \in Nodes : IsRed(u, x) <=> IsRed(t, x)
      BY <3>3, <3>6, <3>9 DEF SameColors
    <3>11. /\ u \in Trees /\ Root(u) = Root(t) /\ Par(u, child) = s
           /\ \A x \in Nodes \ {child} : Par(u, x) = Par(t, x)
      BY <1>2, <3>3, <3>6, <3>9 DEF Hung, Moved
    <3>12. \A x \in Nodes : \A f \in Sides : Kid(u, x, f) = Kid(b, x, f)
      BY <3>9 DEF Moved
    <3>13. Kid(u, s, "right") = child /\ \A x \in Nodes \ {s} : \A f \in Sides : Kid(u, x, f) = Kid(a, x, f)
      BY <1>2, <3>6, <3>12 DEF Hung
    <3>14. /\ Kid(a, above, "left") = o /\ Kid(a, above, "right") = Kid(t, above, "right")
           /\ \A x \in Nodes \ {above} : \A f \in Sides : Kid(a, x, f) = Kid(t, x, f)
      BY <1>2, <3>3 DEF Hung
    <3>15. \A f \in Sides : Kid(u, n, f) = Kid(t, n, f)
      BY <1>1, <1>2, <3>1, <3>13, <3>14
    <3>16. g = "left"
      BY <1>2, <1>3, <3>1
    <3>17. ASSUME NEW x \in Nodes \ {n, s}, NEW f \in Sides
           PROVE  Kid(u, x, f) = IF Kid(t, x, f) = s THEN o ELSE Kid(t, x, f)
      <4>1. Kid(u, x, f) = Kid(a, x, f)
        BY <3>13
      <4>2. Kid(t, x, f) = s <=> x = above /\ f = "left"
        BY <1>3, <3>16
      <4> QED
        BY <1>2, <3>14, <4>1, <4>2
    <3> QED
      BY <2>2, <3>10, <3>11, <3>13, <3>15, <3>17
  <2> QED
    BY <2>1, <2>2
<1>5. Hung(u, v, s, "left", l) /\ SameColors(u, v, {})
  BY <1>2, <1>4, KidSet
<1>6. /\ v \in Trees /\ Root(v) = Root(u) /\ Kid(v, s, "left") = l
      /\ Kid(v, s, "right") = Kid(u, s, "right")
      /\ \A x \in Nodes \ {s} : \A f \in Sides : Kid(v, x, f) = Kid(u, x, f)
      /\ \A x \in Nodes : Par(v, x) = Par(u, x) /\ (IsRed(v, x) <=> IsRed(u, x))
  BY <1>2, <1>5 DEF Hung, SameColors
<1>7. Moved(v, w, l, s) /\ SameColors(v, w, {})
  BY <1>2, <1>6, Reparented
<1>8. /\ w \in Trees /\ Root(w) = Root(v) /\ Par(w, l) = s
      /\ \A x \in Nodes : \A f \in Sides : Kid(w, x, f) = Kid(v, x, f)
      /\ \A x \in Nodes \ {l} : Par(w, x) = Par(v, x)
      /\ \A x \in Nodes : IsRed(w, x) <=> IsRed(v, x)
  BY <1>7 DEF Moved, SameColors
<1> QED
  BY <1>1, <1>2, <1>4, <1>6, <1>8

\* Cases 2 and 3 of __rb_erase_augmented.
LEMMA UnlinkInnerTree ==
    ASSUME NEW t, NEW M, NEW sub, Shaped(t, M, sub), Leafy(t, M),
           NEW n, NEW s, NEW child, NEW l, NEW o, NEW above,
           Heir(t, M, n, s, child, l, o, above),
           NEW w, w = SetParent(SetKid(Promote(t, n, s), s, "left", l), l, s),
           NEW t2, t2 = Blackened(Inherit(ChangeChild(w, n, s, Par(t, n)), s, n), o,
                                  IF s = child THEN s ELSE above)
    PROVE  Succeeded(t, t2, n, s, child, l, o, above)
<1>1. /\ n \in M /\ child = Kid(t, n, "right") /\ l = Kid(t, n, "left")
      /\ s # n /\ l # n /\ l # s /\ l # child /\ child # n /\ o \notin {n, s, l, child}
      /\ Kid(t, s, "left") = Nil /\ o = Kid(t, s, "right")
  BY DEF Heir
<1>2. /\ t \in Trees /\ n \in Nodes /\ s \in Nodes /\ child \in Nodes /\ l \in Nodes
      /\ above \in Nodes /\ o \in Pointers /\ (o # Nil => o \in Nodes)
      /\ n # Nil /\ s # Nil /\ child # Nil /\ l # Nil
      /\ \A x \in Nodes : x \in Pointers
      /\ "left" \in Sides /\ "right" \in Sides
      /\ \A f \in Sides : f = "left" \/ f = "right"
  BY HeirTypes
<1>3. /\ w \in Trees /\ Root(w) = Root(t)
      /\ Kid(w, s, "left") = l /\ Kid(w, s, "right") = (IF s = child THEN o ELSE child)
      /\ \A f \in Sides : Kid(w, n, f) = Kid(t, n, f)
      /\ \A x \in Nodes \ {n, s} : \A f \in Sides :
            Kid(w, x, f) = IF Kid(t, x, f) = s THEN o ELSE Kid(t, x, f)
      /\ Par(w, l) = s /\ (s # child => Par(w, child) = s)
      /\ \A x \in Nodes \ {l, child} : Par(w, x) = Par(t, x)
      /\ s = child => Par(w, child) = Par(t, child)
      /\ \A x \in Nodes : IsRed(w, x) <=> IsRed(t, x)
  BY PromoteIs
<1>4. PICK p \in Pointers : p = Par(t, n)
  BY <1>2, Typed
<1>5. /\ p = Nil => \A x \in Nodes : \A f \in Sides : Kid(t, x, f) # n
      /\ p # Nil => \E g \in Sides : \A x \in Nodes : \A f \in Sides :
                        Kid(t, x, f) = n <=> x = p /\ f = g
  BY <1>1, <1>4, OnlyKid
<1>6. \A x \in Nodes : \A f \in Sides : Kid(w, x, f) = n <=> Kid(t, x, f) = n
  <2>1. \A f \in Sides : Kid(t, s, f) # n /\ Kid(w, s, f) # n
    BY <1>1, <1>2, <1>3
  <2>2. \A x \in Nodes \ {n, s} : \A f \in Sides : Kid(w, x, f) = n <=> Kid(t, x, f) = n
    BY <1>1, <1>2, <1>3
  <2> QED
    BY <1>3, <2>1, <2>2
<1>7. /\ p = Nil => \A x \in Nodes : \A f \in Sides : Kid(w, x, f) # n
      /\ p # Nil => \E g \in Sides : \A x \in Nodes : \A f \in Sides :
                        Kid(w, x, f) = n <=> x = p /\ f = g
  BY <1>5, <1>6
<1>8. PICK a : a = ChangeChild(w, n, s, p)
  OBVIOUS
<1>9. /\ a \in Trees /\ Root(a) = (IF p = Nil THEN s ELSE Root(w))
      /\ \A x \in Nodes : \A f \in Sides :
            Kid(a, x, f) = IF Kid(w, x, f) = n THEN s ELSE Kid(w, x, f)
      /\ \A x \in Nodes : Par(a, x) = Par(w, x) /\ (IsRed(a, x) <=> IsRed(w, x))
  <2>1. PICK q \in Pointers : q = s
    BY <1>2
  <2>2. n \in Nodes /\ w \in Trees /\ p \in Pointers /\ a = ChangeChild(w, n, q, p)
    BY <1>2, <1>3, <1>8, <2>1
  <2>3. /\ a \in Trees /\ Root(a) = (IF p = Nil THEN q ELSE Root(w))
        /\ \A x \in Nodes : \A f \in Sides :
              Kid(a, x, f) = IF Kid(w, x, f) = n THEN q ELSE Kid(w, x, f)
        /\ \A x \in Nodes : Par(a, x) = Par(w, x) /\ (IsRed(a, x) <=> IsRed(w, x))
    BY <1>7, <2>2, ChildTold
  <2> QED
    BY <2>1, <2>3
<1>10. PICK b : b = Inherit(a, s, n)
  OBVIOUS
<1>11. Par(a, n) = p
  BY <1>1, <1>2, <1>3, <1>4, <1>9
<1>12. Moved(a, b, s, p) /\ SameColors(a, b, {s}) /\ (IsRed(b, s) <=> IsRed(a, n))
  BY <1>2, <1>9, <1>10, <1>11, Inherited
<1>13. /\ b \in Trees /\ Root(b) = Root(a) /\ Par(b, s) = p
       /\ \A x \in Nodes : \A f \in Sides : Kid(b, x, f) = Kid(a, x, f)
       /\ \A x \in Nodes \ {s} : Par(b, x) = Par(a, x) /\ (IsRed(b, x) <=> IsRed(a, x))
       /\ IsRed(b, s) <=> IsRed(t, n)
  BY <1>2, <1>3, <1>9, <1>12 DEF Moved, SameColors
<1>14. PICK up \in Nodes : up = IF s = child THEN s ELSE above
  BY <1>2
<1>15. t2 = Blackened(b, o, up)
  BY <1>4, <1>8, <1>10, <1>14
<1>16. /\ t2 \in Trees /\ Root(t2) = Root(b)
       /\ \A x \in Nodes : \A f \in Sides : Kid(t2, x, f) = Kid(b, x, f)
       /\ \A x \in Nodes \ {o} : Par(t2, x) = Par(b, x) /\ (IsRed(t2, x) <=> IsRed(b, x))
       /\ o # Nil => Par(t2, o) = up /\ ~IsRed(t2, o)
  <2>1. CASE o = Nil
    <3>1. t2 = b
      BY <1>15, <2>1 DEF Blackened, SetParentColor
    <3> QED
      BY <1>13, <2>1, <3>1
  <2>2. CASE o # Nil
    <3>1. up \in Pointers /\ o \in Nodes
      BY <1>2, <2>2
    <3>2. Moved(b, t2, o, up) /\ SameColors(b, t2, {o}) /\ ~IsRed(t2, o)
      BY <1>13, <1>15, <3>1, BlackenedIs
    <3> QED
      BY <3>2 DEF Moved, SameColors
  <2> QED
    BY <2>1, <2>2
<1>17. Kid(t2, s, "left") = l /\ Kid(t2, s, "right") = IF s = child THEN o ELSE child
  BY <1>1, <1>2, <1>3, <1>9, <1>13, <1>16
<1>18. ASSUME NEW x \in Nodes \ {n, s}, NEW f \in Sides
       PROVE  Kid(t2, x, f) = IF Kid(t, x, f) = n THEN s
                              ELSE IF Kid(t, x, f) = s THEN o ELSE Kid(t, x, f)
  BY <1>1, <1>3, <1>9, <1>13, <1>16
<1>19. /\ Par(t2, s) = p /\ Par(t2, l) = s /\ (s # child => Par(t2, child) = s)
       /\ \A x \in Nodes \ {s, l, child, o} : Par(t2, x) = Par(t, x)
  <2>1. s \notin {o} /\ l \notin {s, o} /\ child # o
    BY <1>1
  <2>2. \A x \in Nodes \ {s, o} : Par(t2, x) = Par(w, x)
    BY <1>9, <1>13, <1>16
  <2>3. Par(t2, s) = p
    BY <1>2, <1>13, <1>16, <2>1
  <2> QED
    BY <1>2, <1>3, <2>1, <2>2, <2>3
<1>20. /\ \A x \in Nodes \ {s, o} : IsRed(t2, x) <=> IsRed(t, x)
       /\ IsRed(t2, s) <=> IsRed(t, n)
  BY <1>1, <1>2, <1>3, <1>9, <1>13, <1>16
<1>21. Root(t2) = IF p = Nil THEN s ELSE Root(t)
  BY <1>3, <1>9, <1>13, <1>16
<1> QED
  BY <1>4, <1>14, <1>16, <1>17, <1>18, <1>19, <1>20, <1>21 DEF Succeeded

\* What is below each node when s has the place of n.
Ceded(sub, sub2, n, s) ==
    /\ sub2 \in [Pointers -> SUBSET Nodes]
    /\ \A x \in Pointers : \A y :
          y \in At(sub2, x) <=> IF x = s THEN y \in At(sub, n) /\ y # n
                                ELSE IF n \in At(sub, x) THEN y \in At(sub, x) /\ y # n
                                ELSE y \in At(sub, x) /\ y # s

\* There is a function that gives what is below each node when s has the place.
LEMMA HasCeded ==
    ASSUME NEW sub \in [Pointers -> SUBSET Nodes], NEW n \in Pointers, NEW s
    PROVE  \E sub2 : Ceded(sub, sub2, n, s)
<1>1. PICK sub2 : sub2 = [x \in Pointers |-> IF x = s THEN sub[n] \ {n}
                             ELSE IF n \in sub[x] THEN sub[x] \ {n} ELSE sub[x] \ {s}]
  OBVIOUS
<1>2. sub2 \in [Pointers -> SUBSET Nodes]
  BY <1>1
<1>3. ASSUME NEW x \in Pointers, NEW y
      PROVE  y \in At(sub2, x) <=> IF x = s THEN y \in At(sub, n) /\ y # n
                                ELSE IF n \in At(sub, x) THEN y \in At(sub, x) /\ y # n
                                ELSE y \in At(sub, x) /\ y # s
  BY <1>1 DEF At
<1> QED
  BY <1>2, <1>3 DEF Ceded

\* The nodes below the pieces around n and s.
HeirBelow(t, M, sub, n, s, child, l, o) ==
    /\ s \in At(sub, n) /\ s \in At(sub, child) /\ n \in At(sub, n)
    /\ n \notin At(sub, s) /\ n \notin At(sub, child) /\ n \notin At(sub, l) /\ n \notin At(sub, o)
    /\ s \notin At(sub, l) /\ s \notin At(sub, o)
    /\ \A y : y \in At(sub, s) <=> y = s \/ y \in At(sub, o)
    /\ \A y : y \in At(sub, n) <=> y = n \/ y \in At(sub, l) \/ y \in At(sub, child)
    /\ \A y \in At(sub, l) : Less("left", y, s)
    /\ \A x \in M : n \in At(sub, x) => s \in At(sub, x)
    /\ Par(t, l) = n /\ Par(t, child) = n /\ (o # Nil => Par(t, o) = s)

\* What is below the pieces.
LEMMA HasHeirBelow ==
    ASSUME NEW t, NEW M, NEW sub, Shaped(t, M, sub),
           NEW n, NEW s, NEW child, NEW l, NEW o, NEW above,
           Heir(t, M, n, s, child, l, o, above), s \in At(sub, child)
    PROVE  HeirBelow(t, M, sub, n, s, child, l, o)
<1>1. /\ n \in M /\ s \in M /\ child \in M /\ l \in M /\ o \in M \cup {Nil}
      /\ child = Kid(t, n, "right") /\ l = Kid(t, n, "left") /\ o = Kid(t, s, "right")
      /\ Kid(t, s, "left") = Nil
  BY DEF Heir
<1>2. /\ n \in Nodes /\ s \in Nodes /\ l # Nil /\ child # Nil
      /\ "left" \in Sides /\ "right" \in Sides /\ Other("left") = "right" /\ Other("right") = "left"
      /\ \A f \in Sides : f = "left" \/ f = "right"
  BY HeirTypes
<1>3. At(sub, Nil) = {}
  BY SubType
<1>4. /\ \A y : y \in At(sub, n) <=> y = n \/ y \in At(sub, l) \/ y \in At(sub, child)
      /\ n \notin At(sub, l) /\ \A y \in At(sub, l) : Less("left", y, n) /\ y \notin At(sub, child)
      /\ Par(t, l) = n
  BY <1>1, <1>2, ShapedNode
<1>5. n \notin At(sub, child) /\ (\A y \in At(sub, child) : Less("right", y, n)) /\ Par(t, child) = n
  BY <1>1, <1>2, ShapedNode
<1>6. /\ \A y : y \in At(sub, s) <=> y = s \/ y \in At(sub, Kid(t, s, "right")) \/ y \in At(sub, Kid(t, s, "left"))
      /\ s \notin At(sub, Kid(t, s, "right"))
      /\ Kid(t, s, "right") # Nil => Par(t, Kid(t, s, "right")) = s
  BY <1>1, <1>2, ShapedNode
<1>7. /\ \A y : y \in At(sub, s) <=> y = s \/ y \in At(sub, o)
      /\ s \notin At(sub, o) /\ (o # Nil => Par(t, o) = s)
  BY <1>1, <1>3, <1>6
<1>8. At(sub, s) \subseteq At(sub, child)
  BY <1>1, Nested
<1>9. \A y \in At(sub, l) : y \in Nodes
  BY <1>1, <1>2, ShapedNode
<1>10. \A y \in At(sub, l) : Less("left", y, s)
  <2>1. Less("left", n, s)
    BY <1>2, <1>5, LessOrder
  <2> QED
    BY <1>2, <1>4, <1>9, <2>1, LessOrder
<1>11. \A x \in M : n \in At(sub, x) => s \in At(sub, x)
  <2>1. s \in At(sub, n)
    BY <1>4
  <2> QED
    BY <2>1, Nested
<1> QED
  BY <1>4, <1>5, <1>7, <1>8, <1>10, <1>11 DEF HeirBelow

\* Cases 2 and 3 of the removal leave the other nodes, in order.
LEMMA SucceededShape ==
    ASSUME NEW t, NEW M, NEW sub, Shaped(t, M, sub),
           NEW n, NEW s, NEW child, NEW l, NEW o, NEW above,
           Heir(t, M, n, s, child, l, o, above), HeirBelow(t, M, sub, n, s, child, l, o),
           \A x \in At(sub, child) : x = s \/ Less("right", x, s),
           NEW t2, Succeeded(t, t2, n, s, child, l, o, above),
           NEW sub2, Ceded(sub, sub2, n, s)
    PROVE  Shaped(t2, M \ {n}, sub2)
<1>1. /\ n \in M /\ s \in M /\ child \in M /\ l \in M /\ o \in M \cup {Nil} /\ above \in M
      /\ s # n /\ l # n /\ l # s /\ l # child /\ child # n /\ o \notin {n, s, l, child}
      /\ above = Par(t, s)
      /\ s = child => above = n
      /\ s # child => above \notin {n, s, l, o} /\ Kid(t, above, "left") = s
  BY DEF Heir
<1>2. /\ s \in At(sub, n) /\ s \in At(sub, child) /\ n \in At(sub, n)
      /\ n \notin At(sub, s) /\ n \notin At(sub, child) /\ n \notin At(sub, l) /\ n \notin At(sub, o)
      /\ s \notin At(sub, l) /\ s \notin At(sub, o)
      /\ \A y : y \in At(sub, s) <=> y = s \/ y \in At(sub, o)
      /\ \A y : y \in At(sub, n) <=> y = n \/ y \in At(sub, l) \/ y \in At(sub, child)
      /\ \A y \in At(sub, l) : Less("left", y, s)
      /\ \A x \in M : n \in At(sub, x) => s \in At(sub, x)
      /\ Par(t, l) = n /\ Par(t, child) = n /\ (o # Nil => Par(t, o) = s)
  BY DEF HeirBelow
<1>3. /\ t2 \in Trees /\ Root(t2) = IF Par(t, n) = Nil THEN s ELSE Root(t)
      /\ Kid(t2, s, "left") = l /\ Kid(t2, s, "right") = IF s = child THEN o ELSE child
      /\ \A x \in Nodes \ {n, s} : \A f \in Sides :
            Kid(t2, x, f) = IF Kid(t, x, f) = n THEN s
                            ELSE IF Kid(t, x, f) = s THEN o ELSE Kid(t, x, f)
      /\ Par(t2, s) = Par(t, n) /\ Par(t2, l) = s /\ (s # child => Par(t2, child) = s)
      /\ o # Nil => Par(t2, o) = (IF s = child THEN s ELSE above)
      /\ \A x \in Nodes \ {s, l, child, o} : Par(t2, x) = Par(t, x)
  BY DEF Succeeded
<1>4. /\ sub2 \in [Pointers -> SUBSET Nodes]
      /\ \A x \in Pointers : \A y :
          y \in At(sub2, x) <=> IF x = s THEN y \in At(sub, n) /\ y # n
                                ELSE IF n \in At(sub, x) THEN y \in At(sub, x) /\ y # n
                                ELSE y \in At(sub, x) /\ y # s
  BY DEF Ceded
<1>5. /\ M \subseteq Nodes /\ Root(t) \in M \cup {Nil} /\ At(sub, Root(t)) = M /\ At(sub, Nil) = {}
      /\ Nil \in Pointers /\ Nil \notin M /\ \A x \in M : x \in Nodes /\ x \in Pointers /\ x # Nil
  BY SubType, NodePointers
<1>6. /\ "left" \in Sides /\ "right" \in Sides /\ "left" # "right"
      /\ Other("left") = "right" /\ Other("right") = "left"
      /\ \A f \in Sides : f = "left" \/ f = "right"
  BY HeirTypes
<1>7. o \in Pointers /\ s \in Pointers /\ l \in Pointers /\ child \in Pointers /\ n \in Pointers
  BY <1>1, <1>5
<1>8. /\ \A y : y \in At(sub2, s) <=> y \in At(sub, n) /\ y # n
      /\ \A y : y \in At(sub2, o) <=> y \in At(sub, o)
      /\ \A y : y \in At(sub2, l) <=> y \in At(sub, l)
      /\ s # child => \A y : y \in At(sub2, child) <=> y \in At(sub, child) /\ y # s
  <2>1. \A y : y \in At(sub2, s) <=> y \in At(sub, n) /\ y # n
    BY <1>4, <1>7
  <2>2. \A y : y \in At(sub2, o) <=> y \in At(sub, o) /\ y # s
    BY <1>1, <1>2, <1>4, <1>7
  <2>3. \A y : y \in At(sub2, l) <=> y \in At(sub, l) /\ y # s
    BY <1>1, <1>2, <1>4, <1>7
  <2>4. s # child => \A y : y \in At(sub2, child) <=> y \in At(sub, child) /\ y # s
    BY <1>1, <1>2, <1>4, <1>7
  <2> QED
    BY <1>2, <2>1, <2>2, <2>3, <2>4
<1>9. /\ Root(t2) \in M \ {n} /\ (\A y : y \in At(sub2, Root(t2)) <=> y \in M /\ y # n)
      /\ Par(t2, Root(t2)) = Nil
  <2>1. CASE Par(t, n) = Nil
    <3>1. n = Root(t)
      BY <1>1, <1>5, <2>1, Upward
    <3> QED
      BY <1>1, <1>3, <1>5, <1>8, <2>1, <3>1
  <2>2. CASE Par(t, n) # Nil
    <3>1. Root(t2) = Root(t) /\ n # Root(t)
      BY <1>1, <1>3, <2>2, Upward
    <3>2. PICK r \in M : r = Root(t)
      BY <1>1, <1>5
    <3>3. Par(t, r) = Nil
      BY <3>2, Upward
    <3>4. r \notin {s, l, child, o}
      BY <1>1, <1>2, <1>5, <3>3
    <3>5. Par(t2, r) = Nil
      BY <1>3, <1>5, <3>3, <3>4
    <3>6. \A y : y \in At(sub2, r) <=> y \in M /\ y # n
      BY <1>1, <1>4, <1>5, <3>2, <3>4
    <3> QED
      BY <3>1, <3>2, <3>5, <3>6
  <2> QED
    BY <2>1, <2>2
<1>10. ASSUME NEW x \in M \ {n, s}, NEW f \in Sides
       PROVE  /\ \A y : y \in At(sub2, Kid(t2, x, f)) <=>
                     /\ y \in At(sub, Kid(t, x, f))
                     /\ IF n \in At(sub, Kid(t, x, f)) THEN y # n ELSE y # s
              /\ Kid(t2, x, f) \in (M \ {n}) \cup {Nil}
              /\ Kid(t2, x, f) # Nil => Par(t2, Kid(t2, x, f)) = x
  <2>1. PICK k : k = Kid(t, x, f)
    OBVIOUS
  <2>2. k \in M \cup {Nil} /\ (k # Nil => Par(t, k) = x) /\ k \in Pointers
    BY <1>5, <2>1, ShapedNode
  <2>3. Kid(t2, x, f) = IF k = n THEN s ELSE IF k = s THEN o ELSE k
    BY <1>3, <1>5, <2>1
  <2>4. CASE k = n
    <3>1. Kid(t2, x, f) = s
      BY <2>3, <2>4
    <3>2. Par(t2, s) = x
      BY <1>1, <1>3, <1>5, <2>2, <2>4
    <3> QED
      BY <1>1, <1>2, <1>8, <2>1, <2>4, <3>1, <3>2
  <2>5. CASE k = s
    <3>1. Kid(t2, x, f) = o /\ x = above
      BY <1>1, <1>5, <2>2, <2>3, <2>5
    <3>2. s # child
      BY <1>1, <3>1
    <3>3. o # Nil => Par(t2, o) = x
      BY <1>3, <3>1, <3>2
    <3>4. \A y : y \in At(sub2, o) <=> y \in At(sub, s) /\ y # s
      BY <1>2, <1>8
    <3> QED
      BY <1>1, <1>2, <2>1, <2>5, <3>1, <3>3, <3>4
  <2>6. CASE k # n /\ k # s
    <3>1. Kid(t2, x, f) = k
      BY <2>3, <2>6
    <3>2. k # Nil => k \notin {s, l, child, o}
      BY <1>2, <2>2, <2>6
    <3>3. k # Nil => Par(t2, k) = x
      BY <1>3, <1>5, <2>2, <3>2
    <3>4. \A y : y \in At(sub2, k) <=> /\ y \in At(sub, k)
                                       /\ IF n \in At(sub, k) THEN y # n ELSE y # s
      BY <1>4, <2>2, <2>6
    <3> QED
      BY <2>1, <2>2, <2>6, <3>1, <3>3, <3>4
  <2> QED
    BY <2>4, <2>5, <2>6
<1>11. ASSUME NEW x \in M \ {n, s}, NEW f \in Sides
       PROVE  /\ \A y : y \in At(sub2, x) <=> \/ y = x \/ y \in At(sub2, Kid(t2, x, f))
                                              \/ y \in At(sub2, Kid(t2, x, Other(f)))
              /\ \A y \in At(sub2, Kid(t2, x, f)) : Less(f, y, x)
  <2>1. PICK k : k = Kid(t, x, f)
    OBVIOUS
  <2>2. PICK g \in Sides : g = Other(f)
    BY OtherSide
  <2>3. PICK j : j = Kid(t, x, g)
    OBVIOUS
  <2>4. /\ \A y : y \in At(sub, x) <=> y = x \/ y \in At(sub, k) \/ y \in At(sub, j)
        /\ \A y \in At(sub, k) : Less(f, y, x) /\ y \notin At(sub, j)
    BY <2>1, <2>2, <2>3, ShapedNode
  <2>5. k \in M \cup {Nil} /\ j \in M \cup {Nil}
    BY <2>1, <2>3, ShapedNode
  <2>6. /\ n \in At(sub, k) => s \in At(sub, k)
        /\ n \in At(sub, j) => s \in At(sub, j)
    BY <1>2, <1>5, <2>5
  <2>7. \A y : y \in At(sub2, x) <=> /\ y \in At(sub, x)
                                     /\ IF n \in At(sub, x) THEN y # n ELSE y # s
    BY <1>4, <1>5
  <2>8. PICK K : K = At(sub2, Kid(t2, x, f))
    OBVIOUS
  <2>9. PICK J : J = At(sub2, Kid(t2, x, g))
    OBVIOUS
  <2>10. /\ \A y : y \in K <=> y \in At(sub, k) /\ (IF n \in At(sub, k) THEN y # n ELSE y # s)
         /\ \A y : y \in J <=> y \in At(sub, j) /\ (IF n \in At(sub, j) THEN y # n ELSE y # s)
    BY <1>10, <2>1, <2>3, <2>8, <2>9
  <2>11. \A y : y \in At(sub2, x) <=> y = x \/ y \in K \/ y \in J
    BY <2>4, <2>6, <2>7, <2>10
  <2>12. \A y \in K : Less(f, y, x)
    BY <2>4, <2>10
  <2> QED
    BY <2>2, <2>8, <2>9, <2>11, <2>12
<1>12. PICK R : R = Kid(t2, s, "right")
  OBVIOUS
<1>13. /\ R \in (M \ {n}) \cup {Nil} /\ (R # Nil => Par(t2, R) = s)
       /\ \A y : y \in At(sub2, R) <=> y \in At(sub, child) /\ y # s
  BY <1>1, <1>2, <1>3, <1>8, <1>12
<1>14. \A y : y \in At(sub2, s) <=> y = s \/ y \in At(sub2, l) \/ y \in At(sub2, R)
  BY <1>1, <1>2, <1>8, <1>13
<1>15. (\A y \in At(sub2, l) : Less("left", y, s)) /\ (\A y \in At(sub2, R) : Less("right", y, s))
  BY <1>2, <1>8, <1>13
<1>16. ASSUME NEW f \in Sides
       PROVE  /\ Kid(t2, s, f) \in (M \ {n}) \cup {Nil}
              /\ Kid(t2, s, f) # Nil => Par(t2, Kid(t2, s, f)) = s
              /\ \A y : y \in At(sub2, s) <=> \/ y = s \/ y \in At(sub2, Kid(t2, s, f))
                                              \/ y \in At(sub2, Kid(t2, s, Other(f)))
              /\ \A y \in At(sub2, Kid(t2, s, f)) : Less(f, y, s)
  <2>1. CASE f = "left"
    BY <1>1, <1>3, <1>6, <1>12, <1>14, <1>15, <2>1
  <2>2. CASE f = "right"
    BY <1>3, <1>6, <1>12, <1>13, <1>14, <1>15, <2>2
  <2> QED
    BY <1>6, <2>1, <2>2
<1>17. At(sub2, Nil) = {} /\ At(sub2, Root(t2)) = M \ {n}
  <2>1. \A y : y \notin At(sub2, Nil)
    BY <1>1, <1>4, <1>5
  <2> QED
    BY <1>9, <2>1
<1>18. ASSUME NEW x \in M \ {n}, NEW f \in Sides
       PROVE  /\ Kid(t2, x, f) \in (M \ {n}) \cup {Nil}
              /\ Kid(t2, x, f) # Nil => Par(t2, Kid(t2, x, f)) = x
              /\ \A y : y \in At(sub2, x) <=> \/ y = x \/ y \in At(sub2, Kid(t2, x, f))
                                              \/ y \in At(sub2, Kid(t2, x, Other(f)))
              /\ \A y \in At(sub2, Kid(t2, x, f)) : Less(f, y, x)
  BY <1>10, <1>11, <1>16
<1> QED
  BY <1>3, <1>4, <1>9, <1>17, <1>18 DEF Shaped

\* Where a black node lacks when s has left its place.
Vacated(t, s, child, o, above, rebalance) ==
    rebalance = IF o = Nil /\ ~IsRed(t, s) THEN (IF s = child THEN s ELSE above) ELSE Nil

\* Then a black node lacks where s was, if s was black and had no child.
LEMMA SucceededSettles ==
    ASSUME NEW t, NEW M, NEW sub, Shaped(t, M, sub), NEW h, Balanced(t, M, h, Nil, "left"),
           Colored(t, M, Nil), ~IsRed(t, Root(t)), Leafy(t, M),
           NEW n, NEW s, NEW child, NEW l, NEW o, NEW above,
           Heir(t, M, n, s, child, l, o, above), HeirBelow(t, M, sub, n, s, child, l, o),
           \A x \in At(sub, child) : x = s \/ Less("right", x, s),
           NEW t2, Succeeded(t, t2, n, s, child, l, o, above),
           NEW rebalance, Vacated(t, s, child, o, above, rebalance)
    PROVE  Settles(t2, rebalance, M \ {n}, M)
<1> USE DEF Vacated
<1>1. /\ n \in M /\ s \in M /\ child \in M /\ l \in M /\ o \in M \cup {Nil} /\ above \in M
      /\ child = Kid(t, n, "right") /\ l = Kid(t, n, "left") /\ o = Kid(t, s, "right")
      /\ s # n /\ l # n /\ l # s /\ l # child /\ child # n /\ o \notin {n, s, l, child}
      /\ Kid(t, s, "left") = Nil /\ above = Par(t, s)
      /\ s = child => above = n
      /\ s # child => above \notin {n, s, l, o} /\ Kid(t, above, "left") = s
      /\ Par(t, n) \notin {n, s, l, child, o, above} \ {Nil}
  BY DEF Heir
<1>2. Par(t, l) = n /\ Par(t, child) = n /\ (o # Nil => Par(t, o) = s)
  BY DEF HeirBelow
<1>3. /\ t2 \in Trees /\ Root(t2) = IF Par(t, n) = Nil THEN s ELSE Root(t)
      /\ Kid(t2, s, "left") = l /\ Kid(t2, s, "right") = IF s = child THEN o ELSE child
      /\ \A x \in Nodes \ {n, s} : \A f \in Sides :
            Kid(t2, x, f) = IF Kid(t, x, f) = n THEN s
                            ELSE IF Kid(t, x, f) = s THEN o ELSE Kid(t, x, f)
      /\ o # Nil => ~IsRed(t2, o)
      /\ \A x \in Nodes \ {s, o} : IsRed(t2, x) <=> IsRed(t, x)
      /\ IsRed(t2, s) <=> IsRed(t, n)
  BY DEF Succeeded
<1>4. /\ M \subseteq Nodes /\ Root(t) \in M \cup {Nil}
      /\ Nil \in Pointers /\ Nil \notin M /\ \A x \in M : x \in Nodes /\ x \in Pointers /\ x # Nil
  BY SubType, NodePointers
<1>5. /\ "left" \in Sides /\ "right" \in Sides /\ "left" # "right"
      /\ \A f \in Sides : f = "left" \/ f = "right"
  BY HeirTypes
<1>6. PICK sub2 : Ceded(sub, sub2, n, s)
  <2>1. sub \in [Pointers -> SUBSET Nodes]
    BY DEF Shaped
  <2> QED
    BY <1>1, <1>4, <2>1, HasCeded
<1>7. Shaped(t2, M \ {n}, sub2)
  BY <1>6, SucceededShape
<1>8. /\ At(h, Nil) = 0 /\ h \in [Pointers -> Nat]
      /\ \A x \in M : \A f \in Sides : At(h, x) = At(h, Kid(t, x, f)) + Weight(t, x) + Lack(x, f, Nil, "left")
  BY DEF Balanced
<1>9. \A x \in Pointers : At(h, x) \in Nat
  BY HeightType
<1>10. \A x \in M : \A f \in Sides : Kid(t, x, f) \in Pointers
  BY <1>4, ShapedNode
<1>11. /\ \A x : Weight(t, x) = IF IsRed(t, x) THEN 0 ELSE 1
       /\ \A x : Weight(t2, x) = IF IsRed(t2, x) THEN 0 ELSE 1
  BY DEF Weight
<1>12. ASSUME NEW x \in M, NEW f \in Sides PROVE At(h, x) = At(h, Kid(t, x, f)) + Weight(t, x)
  <2>1. At(h, x) = At(h, Kid(t, x, f)) + Weight(t, x) + Lack(x, f, Nil, "left")
    BY <1>8
  <2>2. Lack(x, f, Nil, "left") = 0
    BY <1>4 DEF Lack
  <2>3. PICK a \in Nat : a = At(h, Kid(t, x, f))
    BY <1>9, <1>10
  <2>4. PICK b \in Nat : b = Weight(t, x)
    BY <1>11
  <2> QED
    BY <2>1, <2>2, <2>3, <2>4
<1>13. /\ At(h, s) = (IF IsRed(t, s) THEN 0 ELSE 1)
       /\ o # Nil => IsRed(t, o) /\ ~IsRed(t, s) /\ At(h, o) = 0
  <2>1. At(h, s) = 0 + Weight(t, s)
    BY <1>1, <1>5, <1>8, <1>12
  <2>2. At(h, s) = At(h, o) + Weight(t, s)
    BY <1>1, <1>5, <1>12
  <2>3. At(h, o) = 0 /\ At(h, s) = Weight(t, s)
    <3>1. At(h, o) \in Nat
      BY <1>1, <1>4, <1>9
    <3> QED
      BY <1>11, <2>1, <2>2, <3>1
  <2>4. ASSUME o # Nil PROVE IsRed(t, o)
    <3>1. o \in M
      BY <1>1, <2>4
    <3>2. At(h, o) = At(h, Kid(t, o, "left")) + Weight(t, o)
      BY <1>5, <1>12, <3>1
    <3>3. At(h, Kid(t, o, "left")) \in Nat
      BY <1>5, <1>9, <1>10, <3>1
    <3> QED
      BY <1>11, <2>3, <3>2, <3>3
  <2>5. o # Nil => ~IsRed(t, s)
    BY <1>1, <1>5, <2>4 DEF Colored
  <2> QED
    BY <1>11, <2>3, <2>4, <2>5
<1>14. PICK h2 : h2 = [x \in Pointers |-> IF x = s THEN h[n] ELSE IF x = o /\ o # Nil THEN 1 ELSE h[x]]
  OBVIOUS
<1>15. /\ h2 \in [Pointers -> Nat]
       /\ \A x \in Pointers : At(h2, x) = IF x = s THEN At(h, n)
                                          ELSE IF x = o /\ o # Nil THEN 1 ELSE At(h, x)
  <2>1. h[n] \in Nat /\ 1 \in Nat
    BY <1>1, <1>4, <1>8
  <2> QED
    BY <1>8, <1>14, <2>1 DEF At
<1>16. PICK g \in Sides : g = IF s = child THEN "right" ELSE "left"
  BY <1>5
<1>17. At(h2, Nil) = 0 /\ At(h2, s) = At(h, n) /\ (o # Nil => At(h2, o) = 1)
       /\ \A x \in Pointers \ {s, o} : At(h2, x) = At(h, x)
  BY <1>1, <1>4, <1>8, <1>15
<1>18. ASSUME NEW x \in M \ {n, s}, NEW f \in Sides
       PROVE  /\ At(h2, x) = At(h2, Kid(t2, x, f)) + Weight(t2, x) + Lack(x, f, rebalance, g)
              /\ IsRed(t2, x) /\ IsRed(t2, Kid(t2, x, f)) => Kid(t2, x, f) = Nil
  <2>1. PICK k : k = Kid(t, x, f)
    OBVIOUS
  <2>2. k \in M \cup {Nil} /\ k # x /\ k \in Pointers /\ (k # Nil => Par(t, k) = x)
    BY <1>4, <2>1, ShapedNode
  <2>3. Kid(t2, x, f) = IF k = n THEN s ELSE IF k = s THEN o ELSE k
    BY <1>3, <1>4, <2>1
  <2>4. At(h, x) = At(h, k) + Weight(t, x)
    BY <1>12, <2>1
  <2>5. IsRed(t, x) /\ IsRed(t, k) => k = Nil
    BY <2>1 DEF Colored
  <2>6. x # o => At(h2, x) = At(h, x) /\ (IsRed(t2, x) <=> IsRed(t, x)) /\ Weight(t2, x) = Weight(t, x)
    BY <1>3, <1>4, <1>11, <1>17
  <2>7. CASE k = n
    <3>1. Kid(t2, x, f) = s
      BY <2>3, <2>7
    <3>2. x = Par(t, n) /\ x # o /\ x # above
      BY <1>1, <1>4, <2>2, <2>7
    <3>3. Lack(x, f, rebalance, g) = 0
      BY <1>4, <3>2 DEF Lack
    <3>4. At(h2, x) = At(h2, s) + Weight(t2, x)
      BY <1>17, <2>4, <2>6, <2>7, <3>2
    <3>5. At(h2, s) \in Nat /\ Weight(t2, x) \in Nat
      BY <1>1, <1>4, <1>9, <1>11, <1>17
    <3>6. At(h2, x) = At(h2, s) + Weight(t2, x) + Lack(x, f, rebalance, g)
      BY <3>3, <3>4, <3>5
    <3>7. ~(IsRed(t2, x) /\ IsRed(t2, s))
      BY <1>1, <1>3, <1>4, <2>5, <2>6, <2>7, <3>2
    <3> QED
      BY <3>1, <3>6, <3>7
  <2>8. CASE k = s
    <3>1. Kid(t2, x, f) = o /\ x = above
      BY <1>1, <1>4, <2>2, <2>3, <2>8
    <3>2. s # child /\ x # o
      BY <1>1, <3>1
    <3>3. f = "left"
      <4>1. Kid(t, x, f) # Nil /\ Kid(t, x, "left") = Kid(t, x, f)
        BY <1>1, <1>4, <2>1, <2>8, <3>1, <3>2
      <4>2. \A z \in M : \A q \in Sides : Kid(t, z, q) = Kid(t, x, f) => z = x /\ q = f
        BY <4>1, OneParent
      <4> QED
        BY <1>5, <4>1, <4>2
    <3>4. Lack(x, f, rebalance, g) = IF o = Nil /\ ~IsRed(t, s) THEN 1 ELSE 0
      BY <1>4, <1>16, <3>1, <3>2, <3>3 DEF Lack
    <3>5. At(h, s) = At(h2, o) + Lack(x, f, rebalance, g)
      BY <1>13, <1>17, <3>4
    <3>6. At(h2, o) \in Nat /\ Weight(t, x) \in Nat /\ Lack(x, f, rebalance, g) \in Nat
      BY <1>11, <1>17, <3>4
    <3>7. At(h2, x) = At(h2, o) + Weight(t2, x) + Lack(x, f, rebalance, g)
      BY <2>4, <2>6, <2>8, <3>2, <3>5, <3>6
    <3>8. IsRed(t2, o) => o = Nil
      BY <1>3
    <3> QED
      BY <3>1, <3>7, <3>8
  <2>9. CASE k # n /\ k # s
    <3>1. Kid(t2, x, f) = k
      BY <2>3, <2>9
    <3>2. k # Nil => k # o
      BY <1>2, <2>2
    <3>3. Lack(x, f, rebalance, g) = 0
      <4> SUFFICES ASSUME x = rebalance, f = g PROVE FALSE
        BY DEF Lack
      <4>1. x = above /\ s # child
        BY <1>4
      <4>2. f = "left" /\ Kid(t, above, "left") = s
        BY <1>1, <1>16, <4>1
      <4> QED
        BY <2>1, <2>9, <4>1, <4>2
    <3>4. At(h2, k) = At(h, k)
      BY <1>8, <1>17, <2>2, <2>9, <3>2
    <3>5. At(h2, x) = At(h2, k) + Weight(t2, x)
      <4>1. CASE x = o
        <5>1. o # Nil /\ Weight(t2, x) = 1 /\ Weight(t, x) = 0
          BY <1>3, <1>4, <1>11, <1>13, <4>1
        <5>2. At(h, x) = 0 /\ At(h2, x) = 1
          BY <1>13, <1>17, <4>1, <5>1
        <5>3. At(h, k) \in Nat
          BY <1>9, <2>2
        <5> QED
          BY <2>4, <3>4, <5>1, <5>2, <5>3
      <4>2. CASE x # o
        BY <2>4, <2>6, <3>4, <4>2
      <4> QED
        BY <4>1, <4>2
    <3>6. At(h2, k) \in Nat /\ Weight(t2, x) \in Nat
      BY <1>9, <1>11, <2>2, <3>4
    <3>7. At(h2, x) = At(h2, k) + Weight(t2, x) + Lack(x, f, rebalance, g)
      BY <3>3, <3>5, <3>6
    <3>8. ASSUME IsRed(t2, x), IsRed(t2, k), k # Nil PROVE FALSE
      <4>1. IsRed(t, k)
        BY <1>3, <1>4, <2>2, <2>9, <3>2, <3>8
      <4>2. x # o
        BY <1>3, <1>4, <3>8
      <4> QED
        BY <2>5, <2>6, <3>8, <4>1, <4>2
    <3> QED
      BY <3>1, <3>7, <3>8
  <2> QED
    BY <2>7, <2>8, <2>9
<1>19. /\ At(h, n) = At(h, l) + Weight(t, n) /\ At(h, n) = At(h, child) + Weight(t, n)
       /\ IsRed(t, n) => ~IsRed(t, l) /\ ~IsRed(t, child)
       /\ Weight(t2, s) = Weight(t, n)
  <2>1. At(h, n) = At(h, l) + Weight(t, n) /\ At(h, n) = At(h, child) + Weight(t, n)
    BY <1>1, <1>5, <1>12
  <2>2. ASSUME NEW f \in Sides, IsRed(t, n), IsRed(t, Kid(t, n, f)) PROVE Kid(t, n, f) = Nil
    BY <1>1, <2>2 DEF Colored
  <2>3. IsRed(t, n) => ~IsRed(t, l) /\ ~IsRed(t, child)
    BY <1>1, <1>4, <1>5, <2>2
  <2> QED
    BY <1>3, <1>11, <2>1, <2>3
<1>20. ASSUME NEW f \in Sides
       PROVE  /\ At(h2, s) = At(h2, Kid(t2, s, f)) + Weight(t2, s) + Lack(s, f, rebalance, g)
              /\ IsRed(t2, s) /\ IsRed(t2, Kid(t2, s, f)) => Kid(t2, s, f) = Nil
  <2>1. At(h2, s) = At(h, n) /\ (IsRed(t2, s) <=> IsRed(t, n))
    BY <1>3, <1>17
  <2>2. CASE f = "left"
    <3>1. Kid(t2, s, f) = l
      BY <1>3, <2>2
    <3>2. At(h2, l) = At(h, l) /\ (IsRed(t2, l) <=> IsRed(t, l))
      BY <1>1, <1>3, <1>4, <1>17
    <3>3. Lack(s, f, rebalance, g) = 0
      BY <1>1, <1>4, <1>5, <1>16, <2>2 DEF Lack
    <3>4. At(h, l) \in Nat /\ Weight(t, n) \in Nat
      BY <1>1, <1>4, <1>9, <1>11
    <3> QED
      BY <1>19, <2>1, <3>1, <3>2, <3>3, <3>4
  <2>3. CASE f = "right" /\ s # child
    <3>1. Kid(t2, s, f) = child
      BY <1>3, <2>3
    <3>2. At(h2, child) = At(h, child) /\ (IsRed(t2, child) <=> IsRed(t, child))
      BY <1>1, <1>3, <1>4, <1>17, <2>3
    <3>3. Lack(s, f, rebalance, g) = 0
      BY <1>1, <1>4, <2>3 DEF Lack
    <3>4. At(h, child) \in Nat /\ Weight(t, n) \in Nat
      BY <1>1, <1>4, <1>9, <1>11
    <3> QED
      BY <1>19, <2>1, <3>1, <3>2, <3>3, <3>4
  <2>4. CASE f = "right" /\ s = child
    <3>1. Kid(t2, s, f) = o
      BY <1>3, <2>4
    <3>2. Lack(s, f, rebalance, g) = IF o = Nil /\ ~IsRed(t, s) THEN 1 ELSE 0
      BY <1>1, <1>4, <1>16, <2>4 DEF Lack
    <3>3. At(h, s) = At(h2, o) + Lack(s, f, rebalance, g)
      BY <1>13, <1>17, <3>2
    <3>4. At(h2, o) \in Nat /\ Weight(t, n) \in Nat /\ Lack(s, f, rebalance, g) \in Nat
      BY <1>11, <1>17, <3>2
    <3>5. At(h2, s) = At(h2, o) + Weight(t2, s) + Lack(s, f, rebalance, g)
      BY <1>19, <2>1, <2>4, <3>3, <3>4
    <3>6. IsRed(t2, o) => o = Nil
      BY <1>3
    <3> QED
      BY <3>1, <3>5, <3>6
  <2> QED
    BY <1>5, <2>2, <2>3, <2>4
<1>21. Balanced(t2, M \ {n}, h2, rebalance, g)
  <2>1. ASSUME NEW x \in M \ {n}, NEW f \in Sides
        PROVE  At(h2, x) = At(h2, Kid(t2, x, f)) + Weight(t2, x) + Lack(x, f, rebalance, g)
    BY <1>18, <1>20
  <2> QED
    BY <1>15, <1>17, <2>1 DEF Balanced
<1>22. Colored(t2, M \ {n}, Nil)
  <2>1. ASSUME NEW x \in M \ {n}, NEW f \in Sides, IsRed(t2, x), IsRed(t2, Kid(t2, x, f))
        PROVE  Kid(t2, x, f) = Nil
    BY <1>18, <1>20, <2>1
  <2> QED
    BY <2>1 DEF Colored
<1>23. ~IsRed(t2, Root(t2))
  <2>1. CASE Par(t, n) = Nil
    <3>1. n = Root(t)
      BY <1>1, <1>4, <2>1, Upward
    <3> QED
      BY <1>3, <2>1, <3>1
  <2>2. CASE Par(t, n) # Nil
    <3>1. PICK r \in M : r = Root(t)
      BY <1>1, <1>4, SubType
    <3>2. Par(t, r) = Nil /\ Root(t2) = r
      BY <1>3, <2>2, <3>1, Upward
    <3>3. r # s /\ r # o
      BY <1>1, <1>2, <1>4, <3>2
    <3> QED
      BY <1>3, <1>4, <3>1, <3>2, <3>3
  <2> QED
    BY <2>1, <2>2
<1>24. Leafy(t2, M)
  <2>1. ASSUME NEW x \in Nodes \ M, NEW f \in Sides PROVE Kid(t2, x, f) = Nil
    <3>1. Kid(t, x, f) = Nil
      BY <2>1 DEF Leafy
    <3> QED
      BY <1>1, <1>3, <1>4, <2>1, <3>1
  <2> QED
    BY <2>1 DEF Leafy
<1>25. rebalance # Nil => rebalance \in M \ {n} /\ Kid(t2, rebalance, g) = Nil
  <2>1. s # child => Kid(t2, above, "left") = o
    BY <1>1, <1>3, <1>4, <1>5
  <2> QED
    BY <1>1, <1>3, <1>4, <1>16, <2>1
<1> QED
  BY <1>7, <1>21, <1>22, <1>23, <1>24, <1>25, Settling

-----------------------------------------------------------------------------
(* rb_erase.                                                               *)

\* What __rb_erase_augmented does to a valid tree in case 1,
LEMMA UnlinkOuterIs ==
    ASSUME NEW t, NEW M, Valid(t, M, M), NEW n \in M, Nil \in {t.kid[n][d] : d \in Sides}
    PROVE  Settles(UnlinkOuter(t, n).tree, UnlinkOuter(t, n).rebalance, M \ {n}, M)
<1>1. PICK sub, h : /\ Shaped(t, M, sub) /\ Balanced(t, M, h, Nil, "left") /\ Colored(t, M, Nil)
                    /\ ~IsRed(t, Root(t)) /\ Leafy(t, M)
  BY DEF Valid
<1>2. PICK e : e = IF Kid(t, n, "left") = Nil THEN "right" ELSE "left"
  OBVIOUS
<1>3. PICK child : child = Kid(t, n, e)
  OBVIOUS
<1>4. e \in Sides /\ Kid(t, n, Other(e)) = Nil
  <2>1. Kid(t, n, "left") = Nil \/ Kid(t, n, "right") = Nil
    BY DEF Sides, Kid
  <2> QED
    BY <1>2, <2>1 DEF Sides, Other
<1>5. PICK t2 : t2 = ChangeChild(Inherit(t, child, n), n, child, Par(t, n))
  OBVIOUS
<1>6. PICK rebalance : rebalance = IF child = Nil /\ ~IsRed(t, n) THEN Par(t, n) ELSE Nil
  OBVIOUS
<1>7. Replaced(t, t2, n, child)
  BY <1>1, <1>3, <1>4, <1>5, UnlinkOuterTree
<1>8. Settles(t2, rebalance, M \ {n}, M)
  BY <1>1, <1>3, <1>4, <1>6, <1>7, ReplacedSettles
<1>9. UnlinkOuter(t, n).tree = t2
  BY <1>2, <1>3, <1>5 DEF UnlinkOuter, Kid, Par
<1>10. UnlinkOuter(t, n).rebalance = rebalance
  <2>1. t.red[n] <=> IsRed(t, n)
    BY <1>1, SubType, NodePointers DEF IsRed
  <2>2. UnlinkOuter(t, n).rebalance = IF child = Nil /\ ~t.red[n] THEN Par(t, n) ELSE Nil
    BY <1>2, <1>3 DEF UnlinkOuter, Kid, Par
  <2> QED
    BY <1>6, <2>1, <2>2
<1> QED
  BY <1>8, <1>9, <1>10

\* and in cases 2 and 3.
LEMMA UnlinkInnerIs ==
    ASSUME NEW t, NEW M, Valid(t, M, M), NEW n \in M, Nil \notin {t.kid[n][d] : d \in Sides}
    PROVE  Settles(UnlinkInner(t, n).tree, UnlinkInner(t, n).rebalance, M \ {n}, M)
<1>1. PICK sub, h : /\ Shaped(t, M, sub) /\ Balanced(t, M, h, Nil, "left") /\ Colored(t, M, Nil)
                    /\ ~IsRed(t, Root(t)) /\ Leafy(t, M)
  BY DEF Valid
<1>2. Kid(t, n, "left") # Nil /\ Kid(t, n, "right") # Nil
  BY DEF Sides, Kid
<1>3. PICK child : child = Kid(t, n, "right")
  OBVIOUS
<1>4. PICK l : l = Kid(t, n, "left")
  OBVIOUS
<1>5. PICK s : s = Leftmost(t, child)
  OBVIOUS
<1>6. PICK o : o = Kid(t, s, "right")
  OBVIOUS
<1>7. PICK above : above = Par(t, s)
  OBVIOUS
<1>8. /\ Heir(t, M, n, s, child, l, o, above) /\ s \in At(sub, child)
      /\ \A x \in At(sub, child) : x = s \/ Less("right", x, s)
  BY <1>1, <1>2, <1>3, <1>4, <1>5, <1>6, <1>7, HasHeir
<1>9. HeirBelow(t, M, sub, n, s, child, l, o)
  BY <1>1, <1>8, HasHeirBelow
<1>10. PICK w : w = SetParent(SetKid(Promote(t, n, s), s, "left", l), l, s)
  OBVIOUS
<1>11. PICK t2 : t2 = Blackened(Inherit(ChangeChild(w, n, s, Par(t, n)), s, n), o,
                                IF s = child THEN s ELSE above)
  OBVIOUS
<1>12. Succeeded(t, t2, n, s, child, l, o, above)
  BY <1>1, <1>8, <1>10, <1>11, UnlinkInnerTree
<1>13. PICK rebalance : rebalance = IF o = Nil /\ ~IsRed(t, s)
                                      THEN (IF s = child THEN s ELSE above) ELSE Nil
  OBVIOUS
<1>14. Settles(t2, rebalance, M \ {n}, M)
  <2>1. Vacated(t, s, child, o, above, rebalance)
    BY <1>13 DEF Vacated
  <2> QED
    BY <1>1, <1>8, <1>9, <1>12, <2>1, SucceededSettles
<1>15. t.red[s] <=> IsRed(t, s)
  BY <1>1, <1>8, SubType, NodePointers DEF IsRed, Heir
<1>16. PICK big : big = SetParentColor(
                            Inherit(ChangeChild(
                                SetParent([Promote(t, n, s) EXCEPT !.kid[s]["left"] = l], l, s),
                                n, s, Par(t, n)), s, n),
                            o, IF s = child THEN s ELSE above, FALSE)
  OBVIOUS
<1>17. PICK reb : reb = IF o = Nil /\ ~t.red[s] THEN (IF s = child THEN s ELSE above) ELSE Nil
  OBVIOUS
<1>18. UnlinkInner(t, n) = [tree |-> big, rebalance |-> reb]
  BY <1>3, <1>4, <1>5, <1>6, <1>7, <1>16, <1>17, Zenon DEF UnlinkInner, Kid, Par
<1>19. UnlinkInner(t, n).tree = big /\ UnlinkInner(t, n).rebalance = reb
  BY <1>18
<1>20. big = t2
  BY <1>10, <1>11, <1>16, Zenon DEF Blackened, SetKid
<1>21. reb = rebalance
  BY <1>13, <1>15, <1>17
<1> QED
  BY <1>14, <1>19, <1>20, <1>21

\* A freed node's fields are not those of a node of the tree.
LEMMA Forgotten ==
    ASSUME NEW t, NEW M, NEW S, Valid(t, M, S), NEW n \in Nodes, n \notin M,
           NEW t2, t2 = [t EXCEPT !.parent[n] = Nil, !.red[n] = FALSE, !.kid[n] = Leaf]
    PROVE  Valid(t2, M, S \ {n})
<1>1. PICK sub, h : /\ Shaped(t, M, sub) /\ Balanced(t, M, h, Nil, "left") /\ Colored(t, M, Nil)
                    /\ ~IsRed(t, Root(t)) /\ Leafy(t, S)
  BY DEF Valid
<1>2. /\ t \in Trees /\ M \subseteq Nodes /\ Root(t) \in M \cup {Nil}
      /\ \A x \in M : \A d \in Sides : Kid(t, x, d) \in M \cup {Nil}
  BY <1>1, SubType, ShapedNode
<1>3. Leaf \in [Sides -> Pointers] /\ \A d \in Sides : Leaf[d] = Nil
  BY NodePointers DEF Leaf
<1>4. t2 \in Trees
  BY <1>2, <1>3, NodePointers DEF Trees
<1>5. /\ t2.root = t.root /\ t2.kid[n] = Leaf
      /\ \A x \in Nodes \ {n} : /\ t2.parent[x] = t.parent[x] /\ t2.red[x] = t.red[x]
                                /\ t2.kid[x] = t.kid[x]
  BY <1>2 DEF Trees
<1>6. /\ Root(t2) = Root(t) /\ \A d \in Sides : Kid(t2, n, d) = Nil
      /\ \A x \in Nodes \ {n} : /\ Par(t2, x) = Par(t, x) /\ (IsRed(t2, x) <=> IsRed(t, x))
                                /\ \A d \in Sides : Kid(t2, x, d) = Kid(t, x, d)
  BY <1>3, <1>5 DEF Root, Par, Kid, IsRed
<1>7. \A x \in M : x \in Nodes \ {n} /\ x # Nil
  BY <1>2, NodePointers
<1>8. \A x \in M \cup {Nil} : IsRed(t2, x) <=> IsRed(t, x)
  BY <1>6, <1>7 DEF IsRed
<1>9. Shaped(t2, M, sub)
  <2>1. /\ sub \in [Pointers -> SUBSET Nodes]
        /\ At(sub, Nil) = {} /\ At(sub, Root(t)) = M
        /\ Root(t) # Nil => Root(t) \in M /\ Par(t, Root(t)) = Nil
        /\ \A x \in M : \A d \in Sides :
              /\ Kid(t, x, d) \in M \cup {Nil}
              /\ Kid(t, x, d) # Nil => Par(t, Kid(t, x, d)) = x
              /\ \A y : y \in At(sub, x) <=> \/ y = x \/ y \in At(sub, Kid(t, x, d))
                                             \/ y \in At(sub, Kid(t, x, Other(d)))
              /\ \A y \in At(sub, Kid(t, x, d)) : Less(d, y, x)
    BY <1>1 DEF Shaped
  <2>2. ASSUME NEW x \in M, NEW d \in Sides
        PROVE  Kid(t2, x, d) = Kid(t, x, d) /\ Kid(t2, x, Other(d)) = Kid(t, x, Other(d))
    BY <1>6, <1>7, OtherSide
  <2>3. \A x \in M : Par(t2, x) = Par(t, x)
    BY <1>6, <1>7
  <2> QED
    BY <1>4, <1>6, <2>1, <2>2, <2>3 DEF Shaped
<1>10. Balanced(t2, M, h, Nil, "left")
  <2>1. \A x \in M : Weight(t2, x) = Weight(t, x)
    BY <1>8 DEF Weight
  <2>2. \A x \in M : \A d \in Sides : Kid(t2, x, d) = Kid(t, x, d)
    BY <1>6, <1>7
  <2> QED
    BY <1>1, <2>1, <2>2 DEF Balanced
<1>11. Colored(t2, M, Nil)
  <2>1. \A x \in M : \A d \in Sides : Kid(t2, x, d) = Kid(t, x, d)
    BY <1>6, <1>7
  <2> QED
    BY <1>1, <1>2, <1>8, <2>1 DEF Colored
<1>12. Leafy(t2, S \ {n})
  BY <1>1, <1>6 DEF Leafy
<1>13. ~IsRed(t2, Root(t2))
  BY <1>1, <1>2, <1>6, <1>8
<1> QED
  BY <1>9, <1>10, <1>11, <1>12, <1>13, Founded

\* rb_erase of a node of a valid tree, of any shape, gives a valid tree of the
\* others, and the node keeps no children.
THEOREM EraseIs ==
    ASSUME NEW t, NEW M, Valid(t, M, M), NEW n \in M
    PROVE  Valid(Erase(t, n), M \ {n}, M \ {n})
<1>1. n \in Nodes
  BY SubType DEF Valid
<1>2. PICK cut : cut = IF Nil \in {t.kid[n][d] : d \in Sides} THEN UnlinkOuter(t, n)
                       ELSE UnlinkInner(t, n)
  OBVIOUS
<1>3. Settles(cut.tree, cut.rebalance, M \ {n}, M)
  BY <1>2, UnlinkOuterIs, UnlinkInnerIs
<1>4. PICK u : u = EraseColor(cut.tree, cut.rebalance)
  OBVIOUS
<1>5. Valid(u, M \ {n}, M)
  BY <1>3, <1>4, Settled
<1>6. PICK t2 : t2 = [u EXCEPT !.parent[n] = Nil, !.red[n] = FALSE, !.kid[n] = Leaf]
  OBVIOUS
<1>7. Valid(t2, M \ {n}, M \ {n})
  BY <1>1, <1>5, <1>6, Forgotten
<1>8. Erase(t, n) = t2
  BY <1>2, <1>4, <1>6, Zenon DEF Erase
<1> QED
  BY <1>7, <1>8

-----------------------------------------------------------------------------
(* Valid trees are what RbTree calls red-black and ordered.                *)

\* What defines the functions of Below and of BlackHeights.
BelowRule(t, below) ==
    below = [m \in Pointers |->
                IF m = Nil THEN {} ELSE {m} \cup UNION {below[t.kid[m][d]] : d \in Sides}]
Under(t, f, m) == UNION {f[t.kid[m][d]] : d \in Sides}
OneMore(S) == {h + 1 : h \in S}
HeightsRule(t, heights) ==
    heights = [m \in Pointers |->
                IF m = Nil THEN {0}
                ELSE IF t.red[m] THEN Under(t, heights, m) ELSE OneMore(Under(t, heights, m))]

\* Below gives the nodes that the shape of the tree has there.
LEMMA BelowIs ==
    ASSUME NEW t, NEW M, NEW sub, Shaped(t, M, sub), Leafy(t, M), NEW m \in M \cup {Nil}
    PROVE  Below(t, m) = At(sub, m)
<1>1. /\ t \in Trees /\ M \subseteq Nodes /\ At(sub, Nil) = {} /\ Nil \in Pointers
      /\ \A x \in M : x \in Pointers /\ x # Nil
      /\ \A x \in Nodes : x \in Pointers /\ x # Nil
      /\ \A x \in Pointers : x = Nil \/ x \in Nodes
  BY SubType, NodePointers
<1>2. PICK g : g = [x \in Pointers |-> IF x \in M THEN At(sub, x) ELSE IF x = Nil THEN {} ELSE {x}]
  OBVIOUS
<1>3. \A x \in M \cup {Nil} : g[x] = At(sub, x)
  BY <1>1, <1>2
<1>4. \A f, x : UNION {f[t.kid[x][d]] : d \in Sides} = f[Kid(t, x, "left")] \cup f[Kid(t, x, "right")]
  BY DEF Sides, Kid
<1>5. "left" \in Sides /\ "right" \in Sides /\ Other("left") = "right"
  BY DEF Sides, Other
<1>6. \A x \in M : /\ Kid(t, x, "left") \in M \cup {Nil} /\ Kid(t, x, "right") \in M \cup {Nil}
                   /\ At(sub, x) = {x} \cup (At(sub, Kid(t, x, "left")) \cup At(sub, Kid(t, x, "right")))
  <2>1. ASSUME NEW x \in M
        PROVE  /\ Kid(t, x, "left") \in M \cup {Nil} /\ Kid(t, x, "right") \in M \cup {Nil}
               /\ \A y : y \in At(sub, x) <=> \/ y = x \/ y \in At(sub, Kid(t, x, "left"))
                                              \/ y \in At(sub, Kid(t, x, "right"))
    BY <1>5, ShapedNode
  <2>2. ASSUME NEW x \in M
        PROVE  At(sub, x) = {x} \cup (At(sub, Kid(t, x, "left")) \cup At(sub, Kid(t, x, "right")))
    BY <2>1
  <2> QED
    BY <2>1, <2>2
<1>7. ASSUME NEW x \in Pointers
      PROVE  g[x] = IF x = Nil THEN {} ELSE {x} \cup UNION {g[t.kid[x][d]] : d \in Sides}
  <2>1. CASE x \in M
    <3>1. /\ g[Kid(t, x, "left")] = At(sub, Kid(t, x, "left"))
          /\ g[Kid(t, x, "right")] = At(sub, Kid(t, x, "right"))
      BY <1>3, <1>6, <2>1
    <3>2. g[x] = {x} \cup (g[Kid(t, x, "left")] \cup g[Kid(t, x, "right")])
      BY <1>3, <1>6, <2>1, <3>1
    <3> QED
      BY <1>1, <1>4, <2>1, <3>2
  <2>2. CASE x \notin M /\ x # Nil
    <3>1. Kid(t, x, "left") = Nil /\ Kid(t, x, "right") = Nil
      BY <1>1, <1>5, <2>2 DEF Leafy
    <3>2. g[Nil] = {} /\ g[x] = {x}
      BY <1>1, <1>2, <1>3, <2>2
    <3>3. g[x] = {x} \cup (g[Kid(t, x, "left")] \cup g[Kid(t, x, "right")])
      BY <3>1, <3>2
    <3> QED
      BY <1>4, <2>2, <3>3
  <2>3. CASE x = Nil
    BY <1>1, <1>3, <2>3
  <2> QED
    BY <2>1, <2>2, <2>3
<1>8. BelowRule(t, g)
  <2>1. g = [x \in Pointers |-> g[x]]
    BY <1>2
  <2>2. [x \in Pointers |-> g[x]] =
            [x \in Pointers |-> IF x = Nil THEN {} ELSE {x} \cup UNION {g[t.kid[x][d]] : d \in Sides}]
    BY <1>7
  <2> QED
    BY <2>1, <2>2, Zenon DEF BelowRule
<1>9. PICK f : f = CHOOSE below : BelowRule(t, below)
  OBVIOUS
<1>10. BelowRule(t, f)
  BY <1>8, <1>9, Zenon
<1>11. Below(t, m) = f[m]
  BY <1>9, Zenon DEF Below, BelowRule
<1>12. \A x \in Pointers : f[x] = IF x = Nil THEN {} ELSE {x} \cup UNION {f[t.kid[x][d]] : d \in Sides}
  <2>1. PICK F : F = [x \in Pointers |->
                        IF x = Nil THEN {} ELSE {x} \cup UNION {f[t.kid[x][d]] : d \in Sides}]
    OBVIOUS
  <2>2. f = F
    BY <1>10, <2>1, Zenon DEF BelowRule
  <2> QED
    BY <2>1, <2>2
<1>13. PICK T : T = {x \in Pointers : f[x] = At(sub, x)}
  OBVIOUS
<1>14. Nil \in T
  BY <1>1, <1>12, <1>13
<1>15. ASSUME NEW x \in M, \A d \in Sides : Kid(t, x, d) \in T PROVE x \in T
  <2>1. /\ f[Kid(t, x, "left")] = At(sub, Kid(t, x, "left"))
        /\ f[Kid(t, x, "right")] = At(sub, Kid(t, x, "right"))
    BY <1>5, <1>13, <1>15
  <2>2. f[x] = {x} \cup (f[Kid(t, x, "left")] \cup f[Kid(t, x, "right")])
    BY <1>1, <1>4, <1>12
  <2> QED
    BY <1>1, <1>6, <1>13, <2>1, <2>2
<1>16. M \subseteq T
  BY <1>14, <1>15, TreeInduction
<1> QED
  BY <1>11, <1>13, <1>14, <1>16

BothGive(t, f, n, a) == f[Kid(t, n, "left")] = {a} /\ f[Kid(t, n, "right")] = {a}

\* Both children have one and the same height.
LEMMA OneUnder ==
    ASSUME NEW t, NEW f, NEW x, NEW a, BothGive(t, f, x, a)
    PROVE  /\ Under(t, f, x) = {a}
           /\ OneMore(Under(t, f, x)) = {a + 1}
<1>1. PICK U : U = Under(t, f, x)
  OBVIOUS
<1>2. BothGive(t, f, x, a) <=> f[Kid(t, x, "left")] = {a} /\ f[Kid(t, x, "right")] = {a}
  BY DEF BothGive
<1>2a. U = f[Kid(t, x, "left")] \cup f[Kid(t, x, "right")]
  BY <1>1 DEF Under, Sides, Kid
<1>3. U = {a}
  BY <1>2, <1>2a
<1>4. OneMore(U) = {a + 1}
  BY <1>3 DEF OneMore
<1> QED
  BY <1>1, <1>3, <1>4

\* BlackHeights gives one number.
LEMMA BlackHeightsIs ==
    ASSUME NEW t, NEW M, NEW sub, Shaped(t, M, sub), Leafy(t, M),
           NEW h, Balanced(t, M, h, Nil, "left"), NEW m \in M \cup {Nil}
    PROVE  BlackHeights(t, m) = {At(h, m)}
<1>1. /\ t \in Trees /\ M \subseteq Nodes /\ Nil \in Pointers /\ At(h, Nil) = 0
      /\ \A x \in M : x \in Pointers /\ x # Nil /\ x \in Nodes
      /\ \A x \in Nodes : x \in Pointers /\ x # Nil
      /\ \A x \in Pointers : x = Nil \/ x \in Nodes
  BY SubType, NodePointers DEF Balanced
<1>2. PICK g : g = [x \in Pointers |-> IF x \in M \/ x = Nil THEN {At(h, x)}
                                       ELSE IF t.red[x] THEN {0} ELSE {1}]
  OBVIOUS
<1>3. \A x \in M \cup {Nil} : g[x] = {At(h, x)}
  BY <1>1, <1>2
<1>5. "left" \in Sides /\ "right" \in Sides
  BY DEF Sides
<1>6. ASSUME NEW x \in M
      PROVE  /\ Kid(t, x, "left") \in M \cup {Nil} /\ Kid(t, x, "right") \in M \cup {Nil}
             /\ At(h, Kid(t, x, "left")) = At(h, Kid(t, x, "right"))
             /\ At(h, x) = IF t.red[x] THEN At(h, Kid(t, x, "left")) ELSE At(h, Kid(t, x, "left")) + 1
  <2>1. Kid(t, x, "left") \in M \cup {Nil} /\ Kid(t, x, "right") \in M \cup {Nil}
    BY <1>5, ShapedNode
  <2>2. PICK a \in Nat : a = At(h, Kid(t, x, "left"))
    BY <1>1, <2>1, HeightType
  <2>3. PICK b \in Nat : b = At(h, Kid(t, x, "right"))
    BY <1>1, <2>1, HeightType
  <2>4. At(h, x) = a + Weight(t, x) + 0 /\ At(h, x) = b + Weight(t, x) + 0
    <3>1. \A d \in Sides : /\ At(h, x) = At(h, Kid(t, x, d)) + Weight(t, x) + Lack(x, d, Nil, "left")
                           /\ Lack(x, d, Nil, "left") = 0
      BY <1>1 DEF Balanced, Lack
    <3> QED
      BY <1>5, <2>2, <2>3, <3>1
  <2>5. Weight(t, x) = IF t.red[x] THEN 0 ELSE 1
    BY <1>1 DEF Weight, IsRed
  <2> QED
    BY <2>1, <2>2, <2>3, <2>4, <2>5
<1>7. ASSUME NEW x \in Pointers
      PROVE  g[x] = IF x = Nil THEN {0}
                    ELSE IF t.red[x] THEN Under(t, g, x)
                    ELSE OneMore(Under(t, g, x))
  <2>1. CASE x \in M
    <3>1. PICK a : a = At(h, Kid(t, x, "left"))
      OBVIOUS
    <3>2. BothGive(t, g, x, a)
      BY <1>3, <1>6, <2>1, <3>1 DEF BothGive
    <3>3. /\ Under(t, g, x) = {a}
          /\ OneMore(Under(t, g, x)) = {a + 1}
      BY <3>2, OneUnder
    <3>4. At(h, x) = IF t.red[x] THEN a ELSE a + 1
      BY <1>6, <2>1, <3>1
    <3>5. g[x] = IF t.red[x] THEN {a} ELSE {a + 1}
      BY <1>3, <2>1, <3>4
    <3> QED
      BY <1>1, <2>1, <3>3, <3>5
  <2>2. CASE x \notin M /\ x # Nil
    <3>1. Kid(t, x, "left") = Nil /\ Kid(t, x, "right") = Nil
      BY <1>1, <1>5, <2>2 DEF Leafy
    <3>2. BothGive(t, g, x, 0)
      BY <1>1, <1>3, <3>1 DEF BothGive
    <3>3. /\ Under(t, g, x) = {0}
          /\ OneMore(Under(t, g, x)) = {0 + 1}
      BY <3>2, OneUnder
    <3>4. g[x] = IF t.red[x] THEN {0} ELSE {0 + 1}
      BY <1>2, <2>2
    <3> QED
      BY <2>2, <3>3, <3>4
  <2>3. CASE x = Nil
    BY <1>1, <1>3, <2>3
  <2> QED
    BY <2>1, <2>2, <2>3
<1>8. HeightsRule(t, g)
  <2>1. g = [x \in Pointers |-> g[x]]
    BY <1>2
  <2>2. [x \in Pointers |-> g[x]] =
            [x \in Pointers |-> IF x = Nil THEN {0}
                    ELSE IF t.red[x] THEN Under(t, g, x)
                    ELSE OneMore(Under(t, g, x))]
    BY <1>7
  <2> QED
    BY <2>1, <2>2, Zenon DEF HeightsRule
<1>9. PICK f : f = CHOOSE heights : HeightsRule(t, heights)
  OBVIOUS
<1>10. HeightsRule(t, f)
  BY <1>8, <1>9, Zenon
<1>11. BlackHeights(t, m) = f[m]
  BY <1>9, Zenon DEF BlackHeights, HeightsRule, Under, OneMore
<1>12. \A x \in Pointers : f[x] = IF x = Nil THEN {0}
                    ELSE IF t.red[x] THEN Under(t, f, x)
                    ELSE OneMore(Under(t, f, x))
  <2>1. PICK F : F = [x \in Pointers |-> IF x = Nil THEN {0}
                    ELSE IF t.red[x] THEN Under(t, f, x)
                    ELSE OneMore(Under(t, f, x))]
    OBVIOUS
  <2>2. f = F
    BY <1>10, <2>1, Zenon DEF HeightsRule
  <2> QED
    BY <2>1, <2>2
<1>13. PICK T : T = {x \in Pointers : f[x] = {At(h, x)}}
  OBVIOUS
<1>14. Nil \in T
  BY <1>1, <1>12, <1>13
<1>15. ASSUME NEW x \in M, \A d \in Sides : Kid(t, x, d) \in T PROVE x \in T
  <2>1. PICK a : a = At(h, Kid(t, x, "left"))
    OBVIOUS
  <2>2. BothGive(t, f, x, a)
    BY <1>5, <1>6, <1>13, <1>15, <2>1 DEF BothGive
  <2>3. /\ Under(t, f, x) = {a}
        /\ OneMore(Under(t, f, x)) = {a + 1}
    BY <2>2, OneUnder
  <2>4. f[x] = IF t.red[x] THEN {a} ELSE {a + 1}
    BY <1>1, <1>12, <2>3
  <2>5. At(h, x) = IF t.red[x] THEN a ELSE a + 1
    BY <1>6, <2>1
  <2> QED
    BY <1>1, <1>13, <2>4, <2>5
<1>16. M \subseteq T
  BY <1>14, <1>15, TreeInduction
<1> QED
  BY <1>11, <1>13, <1>14, <1>16

\* A valid tree is what rbtree.c says it has to be.
LEMMA ValidIs ==
    ASSUME NEW t, NEW M, Valid(t, M, M)
    PROVE  t \in Trees /\ IsRedBlack(t) /\ IsOrdered(t)
<1>1. PICK sub, h : /\ Shaped(t, M, sub) /\ Balanced(t, M, h, Nil, "left") /\ Colored(t, M, Nil)
                    /\ ~IsRed(t, Root(t)) /\ Leafy(t, M)
  BY DEF Valid
<1>2. /\ t \in Trees /\ M \subseteq Nodes /\ Root(t) \in M \cup {Nil} /\ At(sub, Root(t)) = M
      /\ At(sub, Nil) = {} /\ Nil \notin M
  BY <1>1, SubType, NodePointers
<1>3. Below(t, t.root) = M
  BY <1>1, <1>2, BelowIs DEF Root
<1>4. Cardinality(BlackHeights(t, t.root)) = 1
  <2>1. BlackHeights(t, t.root) = {At(h, Root(t))}
    BY <1>1, <1>2, BlackHeightsIs DEF Root
  <2> QED
    BY <2>1, FS_Singleton
<1>5. ASSUME NEW n \in M, t.red[n], NEW d \in Sides PROVE ~IsRed(t, t.kid[n][d])
  <2>1. IsRed(t, n)
    BY <1>2, <1>5 DEF IsRed
  <2>2. IsRed(t, Kid(t, n, d)) => Kid(t, n, d) = Nil
    BY <1>1, <2>1 DEF Colored
  <2> QED
    BY <2>2 DEF IsRed, Kid
<1>6. IsRedBlack(t)
  BY <1>1, <1>3, <1>4, <1>5 DEF IsRedBlack, Root
<1>7. t.root # Nil => t.parent[t.root] = Nil
  BY <1>1 DEF Shaped, Root, Par
<1>8. ASSUME NEW n \in M
      PROVE  /\ \A m \in Below(t, t.kid[n]["left"])  : m < n
             /\ \A m \in Below(t, t.kid[n]["right"]) : m > n
             /\ \A d \in Sides : t.kid[n][d] # Nil => t.parent[t.kid[n][d]] = n
  <2>1. \A d \in Sides : /\ Kid(t, n, d) \in M \cup {Nil}
                         /\ Kid(t, n, d) # Nil => Par(t, Kid(t, n, d)) = n
                         /\ \A m \in At(sub, Kid(t, n, d)) : Less(d, m, n)
    BY <1>1, ShapedNode
  <2>2. \A d \in Sides : Below(t, Kid(t, n, d)) = At(sub, Kid(t, n, d))
    BY <1>1, <2>1, BelowIs
  <2>3. "left" \in Sides /\ "right" \in Sides /\ "left" # "right"
    BY DEF Sides
  <2>4. /\ \A m \in Below(t, Kid(t, n, "left"))  : Less("left", m, n)
        /\ \A m \in Below(t, Kid(t, n, "right")) : Less("right", m, n)
    BY <2>1, <2>2, <2>3
  <2> QED
    BY <2>1, <2>4 DEF Kid, Par, Less
<1>9. IsOrdered(t)
  BY <1>3, <1>7, <1>8 DEF IsOrdered
<1> QED
  BY <1>2, <1>6, <1>9

\* The empty tree.
LEMMA ValidEmpty == Valid(Empty, {}, {})
<1>1. Leaf \in [Sides -> Pointers] /\ \A d \in Sides : Leaf[d] = Nil
  BY NodePointers DEF Leaf
<1>2. PICK e : e = Empty
  OBVIOUS
<1>3. e \in Trees
  BY <1>1, <1>2, NodePointers DEF Empty, Trees
<1>4. Root(e) = Nil /\ \A n \in Nodes : \A d \in Sides : Kid(e, n, d) = Nil
  BY <1>1, <1>2 DEF Empty, Root, Kid
<1>5. PICK sub : sub = [x \in Pointers |-> {}]
  OBVIOUS
<1>6. At(sub, Nil) = {} /\ sub \in [Pointers -> SUBSET Nodes]
  BY <1>5, NodePointers DEF At
<1>7. Shaped(e, {}, sub)
  BY <1>3, <1>4, <1>6 DEF Shaped
<1>8. PICK h : h = [x \in Pointers |-> 0]
  OBVIOUS
<1>9. At(h, Nil) = 0 /\ h \in [Pointers -> Nat]
  BY <1>8, NodePointers DEF At
<1>10. Balanced(e, {}, h, Nil, "left") /\ Colored(e, {}, Nil) /\ Leafy(e, {})
  BY <1>4, <1>9 DEF Balanced, Colored, Leafy
<1>11. ~IsRed(e, Root(e))
  BY <1>4 DEF IsRed
<1> QED
  BY <1>2, <1>7, <1>10, <1>11, Founded
=============================================================================
