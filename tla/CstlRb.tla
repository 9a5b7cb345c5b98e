------------------------------- MODULE CstlRb -------------------------------
(***************************************************************************)
(* The red-black tree of obfs/cstl_lib.c under the sets that hold the live *)
(* tunnels, the UDP associations and the resolved addresses.               *)
(*                                                                         *)
(* A tree is a record: its root, its nodes by address, and the addresses   *)
(* allocated.  Every C function is an operator on the record, statement by *)
(* statement, because the order of the pointer writes matters: the         *)
(* sentinel is an ordinary node whose parent field is written by a removal *)
(* and read by the fix-up.  A key stands for the pointer a set holds; it   *)
(* moves between nodes when a removal exchanges two of them.               *)
(***************************************************************************)
EXTENDS Integers, Sequences, FiniteSets, SequencesExt

CONSTANT Keys        \* a finite set of positive integers, ordered as compare_fn does

Sentinel == 0

NULL == -1

Addrs == 1..Cardinality(Keys)

Pointers == Addrs \cup {Sentinel, NULL}

NoKey == 0         \* the sentinel has no key

cstl_rb_node == [left : Pointers, right : Pointers, parent : Pointers,
                 color : {"red", "black"}, key : Keys \cup {NoKey}]

Blank == [left |-> Sentinel, right |-> Sentinel, parent |-> NULL,
          color |-> "black", key |-> NoKey]

VARIABLE
    tree      \* struct cstl_rb

cstl_rb_new ==
    [root |-> Sentinel, live |-> {}, n |-> [a \in Addrs \cup {Sentinel} |-> Blank]]

(* x, or nothing when the pointer is the sentinel. *)
SetParent(T, x, p) ==
    IF x = Sentinel THEN T ELSE [T EXCEPT !.n[x].parent = p]

(* The link from x's parent (or the root) to x, redirected to y. *)
Relink(T, x, p, y) ==
    IF p = NULL THEN [T EXCEPT !.root = y]
    ELSE IF x = T.n[p].left THEN [T EXCEPT !.n[p].left = y]
    ELSE [T EXCEPT !.n[p].right = y]

Paint(T, x, c) == [T EXCEPT !.n[x].color = c]

Parent(T, x) == T.n[x].parent

Grand(T, x) == Parent(T, Parent(T, x))

Color(T, x) == T.n[x].color

left_rotate(T, x) ==
    LET y == T.n[x].right
        a == SetParent([T EXCEPT !.n[x].right = T.n[y].left], T.n[y].left, x)
        b == SetParent(a, y, T.n[x].parent)
        c == Relink(b, x, b.n[x].parent, y)
    IN  SetParent([c EXCEPT !.n[y].left = x], x, y)

right_rotate(T, x) ==
    LET y == T.n[x].left
        a == SetParent([T EXCEPT !.n[x].left = T.n[y].right], T.n[y].right, x)
        b == SetParent(a, y, T.n[x].parent)
        c == Relink(b, x, b.n[x].parent, y)
    IN  SetParent([c EXCEPT !.n[y].right = x], x, y)

(***************************************************************************)
(* The two fix-ups treat left and right alike; Near is the side of x (or   *)
(* of its parent), Far the other one, and rotate turns toward a side.      *)
(***************************************************************************)
Far(side) == IF side = "left" THEN "right" ELSE "left"

Child(T, x, side) == IF side = "left" THEN T.n[x].left ELSE T.n[x].right

Side(T, x) == IF x = T.n[Parent(T, x)].left THEN "left" ELSE "right"

rotate(T, x, side) ==
    IF side = "left" THEN left_rotate(T, x) ELSE right_rotate(T, x)

insert_recolor(T, x) ==
    LET y == Child(T, Grand(T, x), Far(Side(T, Parent(T, x))))
    IN  Paint(Paint(Paint(T, Parent(T, x), "black"), y, "black"),
              Grand(T, x), "red")

insert_rotate(T, x) ==
    LET s == Side(T, Parent(T, x))
        inner == Side(T, x) # s
        z == IF inner THEN Parent(T, x) ELSE x
        a == IF inner THEN rotate(T, z, s) ELSE T
        b == Paint(Paint(a, Parent(a, z), "black"), Grand(a, z), "red")
    IN  rotate(b, Grand(b, z), Far(s))

RECURSIVE rb_insert_fixup(_, _)
rb_insert_fixup(T, x) ==
    IF x = T.root \/ Color(T, Parent(T, x)) = "black"
    THEN Paint(T, T.root, "black")
    ELSE LET y == Child(T, Grand(T, x), Far(Side(T, Parent(T, x))))
         IN  IF Color(T, y) = "red"
             THEN rb_insert_fixup(insert_recolor(T, x), Grand(T, x))
             ELSE \* x's parent is black after the rotation: the loop ends
                  LET r == insert_rotate(T, x)
                  IN  Paint(r, r.root, "black")

(* The search of find, insert and remove: the node with the key, or the    *)
(* sentinel, and the last node passed on the way.                          *)
RECURSIVE Descend(_, _, _, _)
Descend(T, y, z, k) ==
    IF y = Sentinel \/ T.n[y].key = k THEN [at |-> y, last |-> z]
    ELSE Descend(T, IF k < T.n[y].key THEN T.n[y].left ELSE T.n[y].right, y, k)

cstl_rb_find(T, k) ==
    LET x == Descend(T, T.root, NULL, k).at
    IN  IF x = Sentinel THEN NULL ELSE x

(* calloc may return any free address; which one is never observed. *)
FreeAddr(T) == CHOOSE a \in Addrs \ T.live : \A b \in Addrs \ T.live : a <= b

cstl_rb_insert(T, k) ==
    LET d == Descend(T, T.root, NULL, k)
        x == FreeAddr(T)
        z == d.last
        a == [T EXCEPT !.live = @ \cup {x},
                       !.n[x] = [Blank EXCEPT !.color = "red", !.key = k,
                                              !.parent = z]]
        b == IF z = NULL THEN [a EXCEPT !.root = x]
             ELSE IF k < T.n[z].key THEN [a EXCEPT !.n[z].left = x]
             ELSE [a EXCEPT !.n[z].right = x]
    IN  IF d.at # Sentinel THEN T ELSE rb_insert_fixup(b, x)

(* w, the sibling of x, made black by a rotation when it is red. *)
remove_red_sibling(T, x, s) ==
    LET w == Child(T, Parent(T, x), Far(s))
        a == Paint(Paint(T, w, "black"), Parent(T, x), "red")
    IN  IF Color(T, w) = "red" THEN rotate(a, Parent(a, x), s) ELSE T

(* The far child of w made red by a rotation of w when it is black. *)
remove_turn_nephew_skip(T, x, s) == T   \* mutant: case left out

remove_turn_nephew(T, x, s) ==
    LET w == Child(T, Parent(T, x), Far(s))
        a == Paint(Paint(T, Child(T, w, s), "black"), w, "red")
    IN  IF Color(T, Child(T, w, Far(s))) = "black"
        THEN rotate(a, w, Far(s)) ELSE T

remove_last_rotate(T, x, s) ==
    LET p == Parent(T, x)
        w == Child(T, p, Far(s))
        a == Paint(Paint(T, w, Color(T, p)), p, "black")
    IN  rotate(Paint(a, Child(a, w, Far(s)), "black"), p, s)

RECURSIVE rb_remove_fixup(_, _)
rb_remove_fixup(T, x) ==
    IF x = T.root \/ Color(T, x) = "red"
    THEN Paint(T, x, "black")
    ELSE LET s == Side(T, x)
             a == remove_red_sibling(T, x, s)
             w == Child(a, Parent(a, x), Far(s))
         IN  IF /\ Color(a, a.n[w].left) = "black"
                /\ Color(a, a.n[w].right) = "black"
             THEN rb_remove_fixup(Paint(a, w, "red"), Parent(a, x))
             ELSE LET r == remove_last_rotate(remove_turn_nephew(a, x, s), x, s)
                  IN  Paint(r, r.root, "black")

RECURSIVE cstl_rb_minimum(_, _)
cstl_rb_minimum(T, x) ==
    IF T.n[x].left = Sentinel THEN x ELSE cstl_rb_minimum(T, T.n[x].left)

RECURSIVE cstl_rb_maximum(_, _)
cstl_rb_maximum(T, x) ==
    IF T.n[x].right = Sentinel THEN x ELSE cstl_rb_maximum(T, T.n[x].right)

(* The node y is unlinked: z itself, or the smallest node above z, which   *)
(* exchanges its key with z first.  The caller frees y.                    *)
Unlinked(T, z) ==
    IF T.n[z].left = Sentinel \/ T.n[z].right = Sentinel THEN z
    ELSE cstl_rb_minimum(T, T.n[z].right)

remove_c_rb(T, z) ==
    LET y == Unlinked(T, z)
        x == IF T.n[y].left # Sentinel THEN T.n[y].left ELSE T.n[y].right
        a == [T EXCEPT !.n[x].parent = T.n[y].parent]
        b == Relink(a, y, T.n[y].parent, x)
        c == IF y = z THEN b
             ELSE [b EXCEPT !.n[z].key = T.n[y].key, !.n[y].key = T.n[z].key]
    IN  IF Color(T, y) = "black" THEN rb_remove_fixup(c, x) ELSE c

Freed_not(T, y) == [T EXCEPT !.n[y] = Blank]   \* mutant: y is not freed

Freed(T, y) == [T EXCEPT !.live = @ \ {y}, !.n[y] = Blank]

cstl_set_remove_found(T, k) ==   \* mutant: frees the node found, not y
    LET z == cstl_rb_find(T, k)
    IN  IF z = NULL THEN T ELSE Freed(remove_c_rb(T, z), z)

cstl_set_remove(T, k) ==
    LET z == cstl_rb_find(T, k)
    IN  IF z = NULL THEN T ELSE Freed(remove_c_rb(T, z), Unlinked(T, z))

(***************************************************************************)
(* The iterator: the minimum first, then the successor of the element it   *)
(* stands on; it ends on NULL or on the sentinel, which has no key.        *)
(***************************************************************************)
RECURSIVE Climb(_, _, _)
Climb(T, x, y) ==
    IF y # Sentinel /\ x = T.n[y].right THEN Climb(T, y, T.n[y].parent) ELSE y

cstl_rb_tree_successor(T, x) ==
    IF T.n[x].right # Sentinel THEN cstl_rb_minimum(T, T.n[x].right)
    ELSE IF x = cstl_rb_maximum(T, T.root) THEN NULL
    ELSE Climb(T, x, T.n[x].parent)

RECURSIVE Walk(_, _, _)
Walk(T, x, fuel) ==
    IF x = NULL \/ T.n[x].key = NoKey \/ fuel = 0 THEN <<>>
    ELSE <<T.n[x].key>> \o Walk(T, cstl_rb_tree_successor(T, x), fuel - 1)

(* The keys fn is called with, in order; the walk is cut after twice the   *)
(* number of keys, more than a walk that ends can make.                    *)
cstl_set_container_traverse(T) ==
    Walk(T, cstl_rb_minimum(T, T.root), 2 * Cardinality(Keys))

(***************************************************************************)
(* cstl_rb_delete: down to a leaf, destroy it, up to its parent, which     *)
(* drops the child it finds first.  It returns the keys destroyed.         *)
(***************************************************************************)
leaf_side(T, p) == IF T.n[p].left # Sentinel THEN "left" ELSE "right"

RECURSIVE delete_from(_, _, _)
delete_from(T, z, gone) ==
    LET p == T.n[z].parent
        g == Append(gone, T.n[z].key)
        U == IF leaf_side(T, p) = "left"
             THEN [T EXCEPT !.n[p].left = Sentinel, !.live = @ \ {T.n[p].left}]
             ELSE [T EXCEPT !.n[p].right = Sentinel, !.live = @ \ {T.n[p].right}]
    IN  IF z = Sentinel THEN [live |-> T.live, gone |-> gone]
        ELSE IF T.n[z].left # Sentinel THEN delete_from(T, T.n[z].left, gone)
        ELSE IF T.n[z].right # Sentinel THEN delete_from(T, T.n[z].right, gone)
        ELSE IF p = NULL THEN [live |-> T.live \ {z}, gone |-> g]
        ELSE delete_from(U, p, g)

cstl_rb_delete(T) == delete_from(T, T.root, <<>>)

RbInit == tree = cstl_rb_new

AddKey(k) == tree' = cstl_rb_insert(tree, k)

RemoveKey(k) == tree' = cstl_set_remove(tree, k)

RbNext == \E k \in Keys : AddKey(k) \/ RemoveKey(k)

RbSpec == RbInit /\ [][RbNext]_tree
-----------------------------------------------------------------------------
KeysOf(T) == {T.n[a].key : a \in T.live}

Held == KeysOf(tree)

(* The pointers of a tree are of nodes, the sentinel or NULL, and the      *)
(* nodes cstl_rb_insert allocates and cstl_set_remove frees have a key.    *)
RbTypeOK ==
    /\ tree.root \in Addrs \cup {Sentinel}
    /\ tree.live \subseteq Addrs
    /\ tree.n \in [Addrs \cup {Sentinel} -> cstl_rb_node]
    /\ \A a \in tree.live : tree.n[a].key # NoKey

RECURSIVE BlackCounts(_, _)
BlackCounts(T, x) ==
    LET here == IF Color(T, x) = "black" THEN 1 ELSE 0
    IN  IF x = Sentinel THEN {1}
        ELSE {here + c : c \in BlackCounts(T, T.n[x].left)
                               \cup BlackCounts(T, T.n[x].right)}

(* What debug_verify_properties asserts after every insert and removal: a  *)
(* black root, no red node with a red child or a red parent, and as many   *)
(* black nodes on every path from the root to a leaf.                      *)
RedBlack ==
    /\ Color(tree, tree.root) = "black"
    /\ \A a \in tree.live : Color(tree, a) = "red" =>
          /\ Color(tree, tree.n[a].left) = "black"
          /\ Color(tree, tree.n[a].right) = "black"
          /\ Color(tree, Parent(tree, a)) = "black"
    /\ Cardinality(BlackCounts(tree, tree.root)) = 1

(* Every link has its back link, so that a climb from any node reaches the *)
(* root; nothing hangs below the sentinel, which every search stops at.    *)
LinksAgree ==
    /\ tree.n[Sentinel].left = Sentinel /\ tree.n[Sentinel].right = Sentinel
    /\ tree.root # Sentinel => Parent(tree, tree.root) = NULL
    /\ \A a \in tree.live : \A c \in {tree.n[a].left, tree.n[a].right} :
          c # Sentinel => c \in tree.live /\ Parent(tree, c) = a

(* The tree cstl_rb_insert and cstl_rb_remove leave is a red-black tree    *)
(* whose links agree.                                                      *)
WellFormed == RedBlack /\ LinksAgree

(* A traversal of the set calls fn once for every key held, in order, also *)
(* when removals have exchanged nodes and left the sentinel a parent:      *)
(* shutting down "all tunnels" reaches all of them.                        *)
TraverseVisitsAll ==
    LET s == cstl_set_container_traverse(tree)
    IN  /\ ToSet(s) = Held
        /\ \A i, j \in 1..Len(s) : i < j => s[i] < s[j]

(* Destroying the set destroys every key once and frees every node. *)
DeleteFreesAll ==
    LET d == cstl_rb_delete(tree)
    IN  /\ d.live = {}
        /\ IsInjective(d.gone) /\ ToSet(d.gone) = Held

(* Insert, remove and find are those of a set, whatever nodes move, and a  *)
(* walk (cstl_set_container_traverse, cstl_rb_delete) meets every key.     *)
SetSemantics ==
    /\ TraverseVisitsAll /\ DeleteFreesAll
    /\ \A k \in Keys :
          /\ KeysOf(cstl_rb_insert(tree, k)) = Held \cup {k}
          /\ KeysOf(cstl_set_remove(tree, k)) = Held \ {k}
          /\ (cstl_rb_find(tree, k) # NULL) <=> k \in Held
=============================================================================
