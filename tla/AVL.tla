--------------------------------- MODULE AVL ---------------------------------
(***************************************************************************)
(* The intrusive AVL tree of ds/avl.cpp.  A forest t maps each node to its *)
(* links and its auxiliary data; NoNode is the null pointer.  The          *)
(* operators that return a subtree give a pair: the forest after it and    *)
(* the node that is now its root.                                          *)
(***************************************************************************)
EXTENDS Integers, Sequences, FiniteSets, SequencesExt

CONSTANT NoNode

avl_init == [parent |-> NoNode, left |-> NoNode, right |-> NoNode, height |-> 1, cnt |-> 1]

avl_height(t, n) == IF n = NoNode THEN 0 ELSE t[n].height

avl_cnt(t, n) == IF n = NoNode THEN 0 ELSE t[n].cnt

Taller(h, k) == IF h < k THEN k ELSE h

avl_update(t, n) ==
    LET l == t[n].left
        r == t[n].right
    IN  [t EXCEPT ![n].height = 1 + Taller(avl_height(t, l), avl_height(t, r)),
                  ![n].cnt = 1 + avl_cnt(t, l) + avl_cnt(t, r)]

SetParent(t, child, p) == IF child = NoNode THEN t ELSE [t EXCEPT ![child].parent = p]

\* The child on side b takes the place of n, and gives n its child on side a
Rotate(t, n, a, b) ==
    LET new   == t[n][b]
        moved == [t EXCEPT ![n][b] = t[new][a],
                           ![n].parent = new,
                           ![new][a] = n,
                           ![new].parent = t[n].parent]
    IN  <<avl_update(avl_update(SetParent(moved, t[new][a], n), n), new), new>>

rot_left(t, n) == Rotate(t, n, "left", "right")
rot_right(t, n) == Rotate(t, n, "right", "left")

\* Mutant: one rotation whichever grandchild is the taller one.
SingleRotation(t, n) == rot_right(t, n)

\* The left (right) subtree is taller by two
avl_fix_left(t, n) ==
    LET l == t[n].left
        Straight(r) == [r[1] EXCEPT ![n].left = r[2]]
    IN  IF avl_height(t, t[l].left) < avl_height(t, t[l].right)
        THEN rot_right(Straight(rot_left(t, l)), n)
        ELSE rot_right(t, n)

avl_fix_right(t, n) ==
    LET r == t[n].right
        Straight(l) == [l[1] EXCEPT ![n].right = l[2]]
    IN  IF avl_height(t, t[r].right) < avl_height(t, t[r].left)
        THEN rot_left(Straight(rot_right(t, r)), n)
        ELSE rot_left(t, n)

\* The link of parent p that points to n points to new
Relink(t, p, n, new) ==
    IF p = NoNode THEN t
    ELSE IF t[p].left = n THEN [t EXCEPT ![p].left = new]
    ELSE [t EXCEPT ![p].right = new]

Balanced(t, n) ==
    LET l == avl_height(t, t[n].left)
        r == avl_height(t, t[n].right)
    IN  IF l = r + 2 THEN avl_fix_left(t, n)
        ELSE IF l + 2 = r THEN avl_fix_right(t, n)
        ELSE <<t, n>>

\* Balance n, then its ancestors
RECURSIVE avl_fix(_, _)
avl_fix(t, n) ==
    LET Climb(f, p) == IF p = NoNode THEN f ELSE avl_fix(Relink(f[1], p, n, f[2]), p)
    IN  Climb(Balanced(avl_update(t, n), n), t[n].parent)

\* Detach a node with at most one child
avl_del_easy(t, n) ==
    LET child  == IF t[n].left # NoNode THEN t[n].left ELSE t[n].right
        p      == t[n].parent
        raised == SetParent(t, child, p)
    IN  IF p = NoNode THEN <<raised, child>> ELSE avl_fix(Relink(raised, p, n, child), p)

RECURSIVE Leftmost(_, _)
Leftmost(t, n) == IF t[n].left = NoNode THEN n ELSE Leftmost(t, t[n].left)

\* The victim, detached with the result d, takes the place of n
Replaced(d, n, victim) ==
    LET old  == d[1][n]
        kids == SetParent(SetParent([d[1] EXCEPT ![victim] = old], old.left, victim),
                          old.right, victim)
    IN  <<Relink(kids, old.parent, n, victim), IF old.parent = NoNode THEN victim ELSE d[2]>>

\* A node with two children is replaced by its successor, which takes over the
\* links and the auxiliary data the node has after the successor is detached
avl_del(t, n) ==
    LET victim == Leftmost(t, t[n].right)
    IN  IF NoNode \in {t[n].left, t[n].right} THEN avl_del_easy(t, n)
        ELSE Replaced(avl_del_easy(t, victim), n, victim)

\* The node offset places after n (before it when negative), walking from n;
\* pos is the distance covered so far
RECURSIVE OffsetFrom(_, _, _, _)
OffsetFrom(t, n, pos, offset) ==
    LET l == t[n].left
        r == t[n].right
        p == t[n].parent
    IN  IF offset = pos THEN n
        ELSE IF pos < offset /\ pos + avl_cnt(t, r) >= offset
        THEN OffsetFrom(t, r, pos + avl_cnt(t, t[r].left) + 1, offset)
        ELSE IF pos > offset /\ pos - avl_cnt(t, l) <= offset
        THEN OffsetFrom(t, l, pos - (avl_cnt(t, t[l].right) + 1), offset)
        ELSE IF p = NoNode THEN NoNode
        ELSE IF t[p].right = n THEN OffsetFrom(t, p, pos - (avl_cnt(t, l) + 1), offset)
        ELSE OffsetFrom(t, p, pos + avl_cnt(t, r) + 1, offset)

avl_offset(t, n, offset) == OffsetFrom(t, n, 0, offset)

\* How many nodes come before n
RECURSIVE RankFrom(_, _, _)
RankFrom(t, n, rank) ==
    LET p == t[n].parent
    IN  IF p = NoNode THEN rank
        ELSE IF t[p].right = n THEN RankFrom(t, p, rank + avl_cnt(t, t[p].left) + 1)
        ELSE RankFrom(t, p, rank)

avl_rank(t, n) == RankFrom(t, n, avl_cnt(t, t[n].left))

-----------------------------------------------------------------------------
RECURSIVE InOrder(_, _)
InOrder(t, n) ==
    IF n = NoNode THEN <<>>
    ELSE InOrder(t, t[n].left) \o <<n>> \o InOrder(t, t[n].right)

\* A tree as avl_fix, avl_offset and avl_rank need it: the links of parents and
\* children agree, the heights and sizes are those of the subtrees, and no node
\* is out of balance by more than one
SoundTree(t, root) ==
    /\ root # NoNode => t[root].parent = NoNode
    /\ \A n \in DOMAIN t :
         LET l == t[n].left
             r == t[n].right
             hl == avl_height(t, l)
             hr == avl_height(t, r)
         IN  /\ l # NoNode => t[l].parent = n
             /\ r # NoNode => t[r].parent = n
             /\ t[n].cnt = 1 + avl_cnt(t, l) + avl_cnt(t, r)
             /\ t[n].height = 1 + Taller(hl, hr)
             /\ hl - hr \in -1 .. 1

=============================================================================
