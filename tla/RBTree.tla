------------------------------- MODULE RBTree -------------------------------
(***************************************************************************)
(* src/rbtree.c: the red-black tree that finds a descriptor's node.  Each  *)
(* function is an operator from tree to tree; the assignments of one       *)
(* EXCEPT are made in the order of the code.                               *)
(*                                                                         *)
(* A node is named by its descriptor and Nil stands for NULL.  A tree is a *)
(* record: root is *root_ref, kid[n] is child[2], and par[n], red[n] are   *)
(* the pointer and the bit packed in meta.  An rb_place, an address, names *)
(* the pointer it points to: child dir of node at, or the root pointer     *)
(* when at is Nil.  The parent that the code passes along with a place is  *)
(* always that at.                                                         *)
(***************************************************************************)
EXTENDS Integers, FiniteSets, TLC

CONSTANT Fds    \* the descriptors that may be scheduled

ASSUME FdsAssumption == Fds \subseteq Nat /\ IsFiniteSet(Fds)

Nil   == -1
LEFT  == 0
RIGHT == 1

EmptyTree == [root |-> Nil,
              kid  |-> [n \in Fds |-> [d \in {LEFT, RIGHT} |-> Nil]],
              par  |-> [n \in Fds |-> Nil],
              red  |-> [n \in Fds |-> FALSE]]

RootPlace == [at |-> Nil, dir |-> LEFT]

\* *place, and *place = n.
At(t, p)     == IF p.at = Nil THEN t.root ELSE t.kid[p.at][p.dir]
Put(t, p, n) == IF p.at = Nil THEN [t EXCEPT !.root = n]
                              ELSE [t EXCEPT !.kid[p.at][p.dir] = n]

is_red(t, n) == n # Nil /\ t.red[n]

set_parent(t, n, p) == IF n = Nil THEN t ELSE [t EXCEPT !.par[n] = p]

swap_colors(t, a, b) == [t EXCEPT !.red[a] = t.red[b], !.red[b] = t.red[a]]

\* A loop of the code: Body is applied until it leaves its argument alone.
\* More than Cardinality(Fds) + 1 rounds mean the loop does not end.  (CHOOSE
\* from a singleton makes TLC compute each round once.)
Loop(Body(_), s) ==
    LET round[k \in 0..(Cardinality(Fds) + 1)] ==
            IF k = 0 THEN s ELSE CHOOSE r \in {Body(x) : x \in {round[k - 1]}} : TRUE
    IN  round[Cardinality(Fds) + 1]

-----------------------------------------------------------------------------
\* The place of node n according to its parent pointer.
rb_ref_to_this(t, n) ==
    IF t.par[n] = Nil THEN RootPlace
    ELSE [at |-> t.par[n], dir |-> IF t.kid[t.par[n]][RIGHT] = n THEN RIGHT ELSE LEFT]

\* From place p, the place where fd is, or where it belongs.
ProbeStep(t, q, fd) == IF At(t, q) \in {Nil, fd} THEN q
                       ELSE [at  |-> At(t, q),
                             dir |-> IF fd > At(t, q) THEN RIGHT ELSE LEFT]

rb_probe(t, p, fd) == Loop(LAMBDA q : ProbeStep(t, q, fd), p)

\* Mutants of Rotated: the grandchild is not handed over; child is not given its
\* new parent.
RotatedWithoutGrandchild(t, node, dir, link, child, grandchild) ==
    [Put(set_parent(t, child, t.par[node]), link, child)
     EXCEPT !.kid[node][1 - dir] = Nil,
            !.kid[child][dir] = node,
            !.par[node] = child]

RotatedKeepsParent(t, node, dir, link, child, grandchild) ==
    [Put(set_parent(t, grandchild, node), link, child)
     EXCEPT !.kid[node][1 - dir] = grandchild,
            !.kid[child][dir] = node,
            !.par[node] = child]

\* The rotation proper, with node's child on the other side and the grandchild
\* that changes sides; link is the place that held node.
Rotated(t, node, dir, link, child, grandchild) ==
    [Put(set_parent(set_parent(t, child, t.par[node]), grandchild, node),
         link, child)
     EXCEPT !.kid[node][1 - dir] = grandchild,
            !.kid[child][dir] = node,
            !.par[node] = child]

rb_rotate(t, node, dir) ==
    LET child == t.kid[node][1 - dir]
    IN  Rotated(t, node, dir, rb_ref_to_this(t, node), child, t.kid[child][dir])

-----------------------------------------------------------------------------
(* Insertion.                                                              *)

Paint(t, n, isRed) == [t EXCEPT !.red[n] = isRed]

\* The last, simple rotation of fix_insert; top becomes the subtree's root.
RotateTop(t, grandparent, top, pdir) ==
    Paint(Paint(rb_rotate(t, grandparent, 1 - pdir), grandparent, TRUE), top, FALSE)

\* One round of fix_insert below a red parent: an uncle that is red too is
\* recoloured and the conflict moves up, else rotations end it, a mixed one
\* first if node is an inner grandchild.
FixInsertRound(s, grandparent, pdir, uncle) ==
    IF is_red(s.t, uncle)
    THEN [s EXCEPT !.t = Paint(Paint(Paint(@, uncle, FALSE), s.parent, FALSE),
                               grandparent, TRUE),
                   !.node = grandparent,
                   !.parent = s.t.par[grandparent]]
    ELSE IF s.t.kid[s.parent][1 - pdir] = s.node
    THEN [s EXCEPT !.t = RotateTop(rb_rotate(@, s.parent, pdir), grandparent, s.node, pdir),
                   !.parent = Nil]
    ELSE [s EXCEPT !.t = RotateTop(@, grandparent, s.parent, pdir),
                   !.parent = Nil]

SideOf(t, parent, n) == IF t.kid[parent][RIGHT] = n THEN RIGHT ELSE LEFT

\* The loop state is the tree with node and parent, parent being Nil at the end.
fix_insert(t, node, parent) ==
    LET Side(s, g)  == SideOf(s.t, g, s.parent)
        Round(s, g) == FixInsertRound(s, g, Side(s, g), s.t.kid[g][1 - Side(s, g)])
        Body(s)     == IF ~is_red(s.t, s.parent) THEN s
                       ELSE IF s.t.par[s.parent] = Nil THEN s
                       ELSE Round(s, s.t.par[s.parent])
    IN  Loop(Body, [t |-> t, node |-> node, parent |-> parent]).t

\* A node from make_rbnode is red and has no children.
make_rbnode(t, node) == [t EXCEPT !.kid[node] = [d \in {LEFT, RIGHT} |-> Nil],
                                  !.red[node] = TRUE]

SetRootBlack(t) == Paint(t, t.root, FALSE)

\* rb_insert: node put at place p.
rb_insert(t, p, node) ==
    LET put == set_parent(Put(make_rbnode(t, node), p, node), node, p.at)
    IN  SetRootBlack(IF is_red(t, p.at) THEN fix_insert(put, node, p.at) ELSE put)

-----------------------------------------------------------------------------
(* Extraction.                                                             *)

predecessor(t, n) ==
    Loop(LAMBDA q : IF t.kid[At(t, q)][RIGHT] = Nil THEN q
                    ELSE [at |-> At(t, q), dir |-> RIGHT],
         [at |-> n, dir |-> LEFT])

\* The last rotation of fix_delete, about parent; sibling has a red far child.
RotateFar(t, parent, dir, sibling) ==
    rb_rotate(swap_colors(Paint(t, t.kid[sibling][1 - dir], FALSE), parent, sibling),
              parent, dir)

\* The rotation before it, that makes the near red child the sibling.
RotateNear(t, dir, sibling, near) ==
    rb_rotate(Paint(Paint(t, near, FALSE), sibling, TRUE), sibling, 1 - dir)

\* One round of fix_delete: db, below parent on side dir, is black and lacks one
\* black node on its paths.
FixDeleteRound(s, dir, sibling, near, far) ==
    IF is_red(s.t, sibling)
    THEN [s EXCEPT !.t = rb_rotate(Paint(Paint(@, s.parent, TRUE), sibling, FALSE),
                                   s.parent, dir)]
    ELSE IF is_red(s.t, far)
    THEN [s EXCEPT !.t = RotateFar(@, s.parent, dir, sibling), !.done = TRUE]
    ELSE IF is_red(s.t, near)
    THEN [s EXCEPT !.t = RotateFar(RotateNear(@, dir, sibling, near),
                                   s.parent, dir, near),
                   !.done = TRUE]
    ELSE [s EXCEPT !.t = Paint(@, sibling, TRUE),
                   !.db = s.parent,
                   !.parent = s.t.par[s.parent]]

FixDeleteStep(s) ==
    LET Below(dir, sibling) ==
            FixDeleteRound(s, dir, sibling, s.t.kid[sibling][dir], s.t.kid[sibling][1 - dir])
        Round(dir) == Below(dir, s.t.kid[s.parent][1 - dir])
    IN  IF s.done \/ is_red(s.t, s.db) \/ s.parent = Nil THEN s
        ELSE Round(SideOf(s.t, s.parent, s.db))

fix_delete(t, db, parent) ==
    LET End(s) == IF s.done \/ s.db = Nil THEN s.t ELSE Paint(s.t, s.db, FALSE)
    IN  End(Loop(FixDeleteStep, [t |-> t, db |-> db, parent |-> parent, done |-> FALSE]))

\* Mutants of Unlink: the son keeps the freed node as its parent; a black node is
\* taken out like a red one.
UnlinkKeepsParent(t, place, parent, curr, son) ==
    IF is_red(t, curr) THEN Put(t, place, son) ELSE fix_delete(Put(t, place, son), son, parent)

UnlinkUnfixed(t, place, parent, curr, son) == set_parent(Put(t, place, son), son, parent)

\* rb_extract for a node that has at most one child, and is at place.
Unlink(t, place, parent, curr, son) ==
    LET cut == set_parent(Put(t, place, son), son, parent)
    IN  IF is_red(t, curr) THEN cut ELSE fix_delete(cut, son, parent)

OnlyChild(t, n) == IF t.kid[n][LEFT] # Nil THEN t.kid[n][LEFT] ELSE t.kid[n][RIGHT]

\* Its first part for a node with two children: curr, at place p, and its
\* predecessor pred, at place loc, change places and colours.
SwapLinks(t, p, loc, curr, pred, upper) ==
    [Put(IF upper = pred THEN t ELSE Put(t, loc, curr), p, pred) EXCEPT
        !.par[pred] = p.at,
        !.par[curr] = IF upper = pred THEN pred ELSE t.par[pred],
        !.kid[pred] = (LEFT :> IF upper = pred THEN curr ELSE upper) @@
                      (RIGHT :> t.kid[curr][RIGHT]),
        !.kid[curr] = (LEFT :> t.kid[pred][LEFT]) @@ (RIGHT :> Nil)]

SwapWithPredecessor(t, p, loc, curr, pred) ==
    LET upper == t.kid[curr][LEFT]
    IN  set_parent(
          set_parent(
            set_parent(SwapLinks(swap_colors(t, pred, curr), p, loc, curr, pred, upper),
                       t.kid[pred][LEFT], curr),
            t.kid[curr][RIGHT], pred),
          IF upper = pred THEN Nil ELSE upper, pred)

\* Its second part: the node is looked up again below pred.  parent was set to
\* pred, but rb_probe begins by resetting it to NULL and so leaves it NULL when
\* the node is found at once, as pred's left child.
ExtractBelow(t, pred, curr) ==
    LET place == rb_probe(t, [at |-> pred, dir |-> LEFT], curr)
    IN  Unlink(t, place, IF place.at = pred THEN Nil ELSE place.at,
               curr, t.kid[curr][LEFT])

ExtractTwo(t, p, loc, curr) ==
    ExtractBelow(SwapWithPredecessor(t, p, loc, curr, At(t, loc)), At(t, loc), curr)

ExtractAt(t, p, curr) ==
    IF Nil \in {t.kid[curr][LEFT], t.kid[curr][RIGHT]}
    THEN Unlink(t, p, p.at, curr, OnlyChild(t, curr))
    ELSE ExtractTwo(t, p, predecessor(t, curr), curr)

Forget(t, n) == [t EXCEPT !.kid[n] = EmptyTree.kid[n], !.par[n] = Nil, !.red[n] = FALSE]

\* rb_extract: the tree without the node at place p.
rb_extract(t, p) == Forget(ExtractAt(t, p, At(t, p)), At(t, p))
=============================================================================
