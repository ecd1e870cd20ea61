-------------------------------- MODULE Avl --------------------------------
(* The balanced trees behind every attribute set of a rule (library/avl.c)    *)
(* and their use in library/attr-sets.c.  A tree is Nil or a record of its    *)
(* item, balance factor and two links; the code's loops with their cached     *)
(* directions become recursion, its pointer surgery new records.              *)
EXTENDS Integers, Sequences, FiniteSets, SequencesExt

CONSTANT Items

VARIABLES
    tree,
    inserted            \* the items the callers believe to be in the tree

vars == <<tree, inserted>>

Nil == [item |-> 0, bal |-> 0]
Node(i, b, l, r) == [item |-> i, bal |-> b, l |-> l, r |-> r]

avl_init == Nil

RECURSIVE avl_search(_, _)
avl_search(t, i) ==
    t # Nil /\ (i = t.item \/ avl_search(IF i < t.item THEN t.l ELSE t.r, i))

-----------------------------------------------------------------------------
(* The rotations.  y is the node whose balance has just become -2 or +2.      *)

Bal(t, b) == [t EXCEPT !.bal = b]

\* x is y's heavy child and leans the same way.
RotateRight(y) ==
    LET x == y.l IN Node(x.item, 0, x.l, Node(y.item, 0, x.r, y.r))
RotateLeft(y) ==
    LET x == y.r IN Node(x.item, 0, Node(y.item, 0, y.l, x.l), x.r)

\* x leans the other way: its child w becomes the root of the subtree.
DoubleRight(y) ==
    LET x == y.l
        w == x.r
    IN  Node(w.item, 0, Node(x.item, IF w.bal = 1 THEN -1 ELSE 0, x.l, w.l),
                        Node(y.item, IF w.bal = -1 THEN 1 ELSE 0, w.r, y.r))
DoubleLeft(y) ==
    LET x == y.r
        w == x.l
    IN  Node(w.item, 0, Node(y.item, IF w.bal = 1 THEN -1 ELSE 0, y.l, w.l),
                        Node(x.item, IF w.bal = -1 THEN 1 ELSE 0, w.r, x.r))

-----------------------------------------------------------------------------
(* avl_insert(): grown tells whether the subtree became higher, which is      *)
(* where the code stops at the lowest node with a non-zero balance.           *)

Grown(t, g) == [t |-> t, grown |-> g]

RebalanceInsert(y) ==
    CASE y.bal = -2 /\ y.l.bal = -1 -> RotateRight(y)
      [] y.bal = -2 /\ y.l.bal # -1 -> DoubleRight(y)
      [] y.bal = 2 /\ y.r.bal = 1   -> RotateLeft(y)
      [] y.bal = 2 /\ y.r.bal # 1   -> DoubleLeft(y)

RECURSIVE avl_insert(_, _)
avl_insert(t, i) ==
    IF t = Nil THEN Grown(Node(i, 0, Nil, Nil), TRUE)
    ELSE IF i = t.item THEN Grown(t, FALSE)
    ELSE LET sub == avl_insert(IF i < t.item THEN t.l ELSE t.r, i)
             b == t.bal + (IF ~sub.grown THEN 0 ELSE IF i < t.item THEN -1 ELSE 1)
             y == IF i < t.item THEN Node(t.item, b, sub.t, t.r)
                                ELSE Node(t.item, b, t.l, sub.t)
         IN  IF b \in {-2, 2} THEN Grown(RebalanceInsert(y), FALSE)
             ELSE Grown(y, sub.grown /\ b # 0)

-----------------------------------------------------------------------------
(* avl_remove(): shrunk tells whether the loop over the stack goes on.        *)

Shrunk(t, s) == [t |-> t, shrunk |-> s]

\* The left side of y lost a level.
LeftLost(y0) ==
    LET y == Bal(y0, y0.bal + 1) IN
    CASE y.bal = 1 -> Shrunk(y, FALSE)
      [] y.bal = 0 -> Shrunk(y, TRUE)
      [] y.bal = 2 /\ y.r.bal = -1 -> Shrunk(DoubleLeft(y), TRUE)
      [] y.bal = 2 /\ y.r.bal = 0 ->
            Shrunk(Node(y.r.item, -1, Node(y.item, 1, y.l, y.r.l), y.r.r), FALSE)
      [] y.bal = 2 /\ y.r.bal = 1 -> Shrunk(RotateLeft(y), TRUE)

RightLost(y0) ==
    LET y == Bal(y0, y0.bal - 1) IN
    CASE y.bal = -1 -> Shrunk(y, FALSE)
      [] y.bal = 0 -> Shrunk(y, TRUE)
      [] y.bal = -2 /\ y.l.bal = 1 -> Shrunk(DoubleRight(y), TRUE)
      [] y.bal = -2 /\ y.l.bal = 0 ->
            Shrunk(Node(y.l.item, 1, y.l.l, Node(y.item, -1, y.l.r, y.r)), FALSE)
      [] y.bal = -2 /\ y.l.bal = -1 -> Shrunk(RotateRight(y), TRUE)

RECURSIVE Leftmost(_)
Leftmost(t) == IF t.l = Nil THEN t.item ELSE Leftmost(t.l)

RECURSIVE RemoveLeftmost(_)
RemoveLeftmost(t) ==
    IF t.l = Nil THEN Shrunk(t.r, TRUE)
    ELSE LET sub == RemoveLeftmost(t.l)
             y == [t EXCEPT !.l = sub.t]
         IN  IF sub.shrunk THEN LeftLost(y) ELSE Shrunk(y, FALSE)

RECURSIVE avl_remove(_, _)
avl_remove(t, i) ==
    IF t = Nil THEN Shrunk(Nil, FALSE)
    ELSE IF i < t.item THEN
        LET sub == avl_remove(t.l, i)
            y == [t EXCEPT !.l = sub.t]
        IN  IF sub.shrunk THEN LeftLost(y) ELSE Shrunk(y, FALSE)
    ELSE IF i > t.item THEN
        LET sub == avl_remove(t.r, i)
            y == [t EXCEPT !.r = sub.t]
        IN  IF sub.shrunk THEN RightLost(y) ELSE Shrunk(y, FALSE)
    ELSE IF t.r = Nil THEN Shrunk(t.l, TRUE)
    ELSE \* the in-order successor takes the place and the balance of the node
        LET sub == RemoveLeftmost(t.r)
            y == Node(Leftmost(t.r), t.bal, t.l, sub.t)
        IN  IF sub.shrunk THEN RightLost(y) ELSE Shrunk(y, FALSE)

-----------------------------------------------------------------------------
(* The iterator: the current node and the stack of its pending ancestors.     *)

RECURSIVE Descend(_, _)
Descend(t, stack) ==
    IF t.l = Nil THEN [current |-> t, stack |-> stack]
    ELSE Descend(t.l, Append(stack, t))

NoNode == [current |-> Nil, stack |-> <<>>]
avl_first(t) == IF t = Nil THEN NoNode ELSE Descend(t, <<>>)

\* Up to the first ancestor whose right link is not where the climb came from.
RECURSIVE Climb(_, _)
Climb(t, stack) ==
    IF stack = <<>> THEN NoNode
    ELSE IF Last(stack).r = t THEN Climb(Last(stack), Front(stack))
    ELSE [current |-> Last(stack), stack |-> Front(stack)]

avl_next(it) ==
    IF it.current.r # Nil
    THEN Descend(it.current.r, Append(it.stack, it.current))
    ELSE Climb(it.current, it.stack)

RECURSIVE IterateFrom(_)
IterateFrom(it) ==
    IF it.current = Nil THEN <<>> ELSE <<it.current.item>> \o IterateFrom(avl_next(it))
Iterate(t) == IterateFrom(avl_first(t))

\* avl_walker(): in order, until the callback accepts an item.
RECURSIVE avl_traverse(_, _)
avl_traverse(t, accepted) ==
    t # Nil /\ \/ avl_traverse(t.l, accepted)
               \/ t.item \in accepted
               \/ avl_traverse(t.r, accepted)

RECURSIVE avl_walker2(_, _)
avl_walker2(t, haystack) ==
    t # Nil /\ \/ avl_walker2(t.l, haystack)
               \/ avl_search(haystack, t.item)
               \/ avl_walker2(t.r, haystack)

avl_intersection(needle, haystack) ==
    needle # Nil /\ haystack # Nil /\ avl_walker2(needle, haystack)

-----------------------------------------------------------------------------
(* attr-sets.c: appending an item that is there already is an error, and a    *)
(* set is destroyed by removing its root until nothing is left.               *)

Init == tree = avl_init /\ inserted = {}

attr_set_append(i) ==
    /\ tree' = avl_insert(tree, i).t
    /\ inserted' = inserted \cup {i}

RemoveItem(i) ==
    /\ tree' = avl_remove(tree, i).t
    /\ inserted' = inserted \ {i}

attr_set_destroy_step ==
    /\ tree # Nil
    /\ tree' = avl_remove(tree, tree.item).t
    /\ inserted' = inserted \ {tree.item}

Next == (\E i \in Items : attr_set_append(i) \/ RemoveItem(i)) \/ attr_set_destroy_step

Spec == Init /\ [][Next]_vars

RECURSIVE Height(_)
Height(t) ==
    IF t = Nil THEN 0
    ELSE 1 + (IF Height(t.l) > Height(t.r) THEN Height(t.l) ELSE Height(t.r))

RECURSIVE Balanced(_)
Balanced(t) ==
    t # Nil => /\ t.bal = Height(t.r) - Height(t.l) /\ t.bal \in {-1, 0, 1}
               /\ Balanced(t.l) /\ Balanced(t.r)

Increasing(s) == \A i \in 1 .. Len(s) - 1 : s[i] < s[i + 1]

\* After any history of insertions and removals the tree is a balanced search
\* tree whose stored balance factors are the real ones, the iterator visits
\* exactly the items in order, search and intersection agree with the set of
\* items: no rotation loses a subtree or leaves a factor that makes a later
\* rotation follow a null link.
SortedSet ==
    /\ Balanced(tree)
    /\ ToSet(Iterate(tree)) = inserted /\ Increasing(Iterate(tree))
    /\ \A i \in Items : avl_search(tree, i) <=> i \in inserted
    /\ \A i \in Items :
          LET single == Node(i, 0, Nil, Nil) IN
          /\ avl_intersection(single, tree) <=> i \in inserted
          /\ avl_traverse(tree, {i}) <=> i \in inserted

=============================================================================
