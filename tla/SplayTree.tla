----------------------------- MODULE SplayTree -----------------------------
(***************************************************************************)
(* The splay trees of src/utils/alloc_metric/SCOREP_AllocMetric.c, which   *)
(* are the values of the constants of AllocMetric.  A tree is a record, or *)
(* Empty.                                                                  *)
(***************************************************************************)
EXTENDS AllocMetric

Tree(item, left, right) ==
  [address |-> item.address, size |-> item.size, left |-> left, right |-> right]

RotateRight(tree) == [tree.left EXCEPT !.right = [tree EXCEPT !.left = tree.left.right]]
RotateLeft(tree) == [tree.right EXCEPT !.left = [tree EXCEPT !.right = tree.right.left]]

(* The loop of splay: it stops at a root and has linked the smaller items  *)
(* it left behind to one tree, the larger ones to another.                 *)
RECURSIVE Splayed(_, _)
Splayed(tree, key) ==
  LET stop(root) == [root |-> root, smaller |-> root.left, larger |-> root.right]
  IN  IF key < tree.address /\ ~IsEmpty(tree.left)
      THEN LET root == IF key < tree.left.address THEN RotateRight(tree) ELSE tree
           IN  IF IsEmpty(root.left) THEN stop(root)
               ELSE LET below == Splayed(root.left, key)
                    IN  [below EXCEPT !.larger = [root EXCEPT !.left = below.larger]]
      ELSE IF key > tree.address /\ ~IsEmpty(tree.right)
      THEN LET root == IF key > tree.right.address THEN RotateLeft(tree) ELSE tree
           IN  IF IsEmpty(root.right) THEN stop(root)
               ELSE LET below == Splayed(root.right, key)
                    IN  [below EXCEPT !.smaller = [root EXCEPT !.right = below.smaller]]
      ELSE stop(tree)

splay(tree, key) ==
  IF IsEmpty(tree) THEN tree
  ELSE LET s == Splayed(tree, key) IN Tree(s.root, s.smaller, s.larger)

(* insert_memory_allocation.  If the address is known already, the warning *)
(* is all that happens to the item known, and the new one, which has no    *)
(* subtrees, becomes the tree.                                             *)
insert_memory_allocation(tree, item) ==
  LET root == splay(tree, item.address)
  IN  IF IsEmpty(tree) \/ root.address = item.address THEN Tree(item, Empty, Empty)
      ELSE IF item.address < root.address
      THEN Tree(item, root.left, [root EXCEPT !.left = Empty])
      ELSE Tree(item, [root EXCEPT !.right = Empty], root.right)

(* remove_memory_allocation of the root, after find_memory_allocation.     *)
remove_memory_allocation(tree) ==
  IF IsEmpty(tree.left) THEN tree.right
  ELSE [splay(tree.left, tree.address) EXCEPT !.right = tree.right]

(* The items of a tree, their order, and all the trees over some addresses *)
(* that have it.                                                           *)
RECURSIVE ItemsBelow(_)
ItemsBelow(tree) ==
  IF IsEmpty(tree) THEN {}
  ELSE {ItemAt(tree)} \cup ItemsBelow(tree.left) \cup ItemsBelow(tree.right)

RECURSIVE IsOrdered(_)
IsOrdered(tree) ==
  IsEmpty(tree) \/
    /\ IsOrdered(tree.left) /\ IsOrdered(tree.right)
    /\ \A item \in ItemsBelow(tree.left) : item.address < tree.address
    /\ \A item \in ItemsBelow(tree.right) : item.address > tree.address

RECURSIVE TreesOver(_)
TreesOver(addresses) ==
  {Empty} \cup
    UNION {{Tree(Item(a, size), left, right) :
              size \in Sizes, left \in TreesOver({b \in addresses : b < a}),
              right \in TreesOver({b \in addresses : b > a})} : a \in addresses}

SearchTrees == TreesOver(Addresses)
=============================================================================
