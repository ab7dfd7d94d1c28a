----------------------------- MODULE RBTreeLib ------------------------------
(***************************************************************************)
(* Any sequence of the insertions and extractions of src/rbtree.c, at the  *)
(* place that rb_probe finds.  What the service does around them is in     *)
(* IoService: its second write of *place after rb_insert (iosvc_sched.c:116*)
(* and 122) is part of Enqueue there, and no part of rbtree.c.             *)
(*                                                                         *)
(* rb_extract goes wrong on one shape (see Misplaced): it goes on with a   *)
(* NULL parent, and the son that moves up keeps it, so that rb_ref_to_this *)
(* takes that node for the root.  The variable intact records whether the  *)
(* shape was ever extracted; the model takes no step after it, and the     *)
(* properties say nothing of the trees that follow.                        *)
(***************************************************************************)
EXTENDS RBTree

VARIABLES tree,     \* the tree
          keys,     \* the descriptors that a correct set would hold
          intact    \* no node was extracted from the shape Misplaced

vars == <<tree, keys, intact>>

Init == /\ tree = EmptyTree
        /\ keys = {}
        /\ intact = TRUE

Insert(fd) ==
    /\ intact
    /\ fd \notin keys
    /\ tree' = rb_insert(tree, rb_probe(tree, RootPlace, fd), fd)
    /\ keys' = keys \cup {fd}
    /\ UNCHANGED intact

\* The node's predecessor is its left child and black, so that its place needs
\* fixing: rb_extract then goes on with a NULL parent (rbtree.c:238-249).
Misplaced(t, fd) ==
    LET pred == t.kid[fd][LEFT]
    IN  /\ Nil \notin {pred, t.kid[fd][RIGHT]}
        /\ t.kid[pred][RIGHT] = Nil
        /\ ~t.red[pred]

Extract(fd) ==
    /\ intact
    /\ fd \in keys
    /\ tree' = rb_extract(tree, rb_probe(tree, RootPlace, fd))
    /\ keys' = keys \ {fd}
    /\ intact' = ~Misplaced(tree, fd)

Next == \E fd \in Fds : Insert(fd) \/ Extract(fd)

Spec == Init /\ [][Next]_vars

-----------------------------------------------------------------------------
\* The nodes on the search path of fd, the root first, fd included.
PathTo(fd) ==
    LET place[k \in 0..Cardinality(Fds)] ==
          IF k = 0 THEN RootPlace
          ELSE LET p == place[k - 1]
               IN  IF At(tree, p) \in {Nil, fd} THEN p
                   ELSE [at  |-> At(tree, p),
                         dir |-> IF fd > At(tree, p) THEN RIGHT ELSE LEFT]
    IN  {At(tree, place[k]) : k \in 0..Cardinality(Fds)} \ {Nil}

BlackHeight(fd) == Cardinality({n \in PathTo(fd) : ~tree.red[n]})

\* The two rules that bound the height of the tree: a red node has a black
\* parent (and the root is black), and every way down to a NULL child passes
\* the same number of black nodes.
RedBlack ==
    /\ \A fd \in keys : tree.red[fd] => tree.par[fd] # Nil /\ ~tree.red[tree.par[fd]]
    /\ \A a, b \in {fd \in keys : Nil \in {tree.kid[fd][LEFT], tree.kid[fd][RIGHT]}} :
          BlackHeight(a) = BlackHeight(b)

\* No pointer of the tree leads to a freed node: root, child and parent pointers
\* are NULL or lead to a node in the set (rbtree.c:226-251).
TypeOK ==
    /\ keys \subseteq Fds
    /\ intact \in BOOLEAN
    /\ tree.red \in [Fds -> BOOLEAN]
    /\ tree.root \in keys \cup {Nil}
    /\ \A fd \in keys : {tree.kid[fd][LEFT], tree.kid[fd][RIGHT], tree.par[fd]}
                           \subseteq keys \cup {Nil}

\* A search finds every descriptor that is in the set and no other: rotations
\* and the exchange with the predecessor neither lose nor misplace a node.
ProbeFindsKeys ==
    intact => \A fd \in Fds : At(tree, rb_probe(tree, RootPlace, fd)) =
                                IF fd \in keys THEN fd ELSE Nil

\* The parent pointer that rb_ref_to_this, the rotations and the fixing loops
\* follow is the inverse of the child pointers.
ParentsExact ==
    intact => /\ \A fd \in keys : At(tree, rb_ref_to_this(tree, fd)) = fd
              /\ \A fd \in keys : tree.par[fd] = rb_probe(tree, RootPlace, fd).at

\* fix_insert and fix_delete restore both red-black rules.
BalanceKept == intact => RedBlack
=============================================================================
