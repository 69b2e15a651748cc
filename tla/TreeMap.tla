------------------------------ MODULE TreeMap ------------------------------
(***************************************************************************)
(* Anul I/Semestrul II/SDA/Teme/Tema 2/TreeMap.c: a dictionary with equal  *)
(* keys.  The first node of each key is in an AVL tree with parent links;  *)
(* all nodes are in a list threaded through the tree, a key's duplicates   *)
(* after it, the last of them at its end link.                             *)
(***************************************************************************)
EXTENDS Integers, Sequences, FiniteSets, SequencesExt, FiniteSetsExt

CONSTANTS
  MaxKey,    \* keys are 1 .. MaxKey
  Copies,    \* bound on the nodes of a key that are allocated at once
  Deletions  \* bound on the deletions

Null == 0
Keys == 1 .. MaxKey
Nodes == 1 .. MaxKey * Copies
Key(n) == ((n - 1) % MaxKey) + 1

VARIABLES
  t,          \* the tree: its root and its nodes' links and heights
  live,       \* the allocated nodes
  size,
  undefined,  \* the program has used a freed node or followed a null link
  kept,       \* history: keys that were inserted and not deleted since
  deletions,  \* history: how many deletions there were
  cutOff      \* history: a node with two children was deleted

treeVars == <<t, live, size, undefined, kept, deletions, cutOff>>

Blank == [n \in Nodes |-> Null]

TreeInit ==
  /\ t = [root |-> Null, left |-> Blank, right |-> Blank, parent |-> Blank, height |-> Blank,
          next |-> Blank, prev |-> Blank, end |-> Blank]
  /\ live = {} /\ size = 0 /\ undefined = FALSE
  /\ kept = {} /\ deletions = 0 /\ cutOff = FALSE

RECURSIVE search(_, _, _), minimum(_, _), maximum(_, _), Rise(_, _, _), Place(_, _, _, _)

search(h, x, k) ==
  IF x = Null \/ Key(x) = k THEN x
  ELSE search(h, IF k > Key(x) THEN h.right[x] ELSE h.left[x], k)

minimum(h, x) == IF x = Null \/ h.left[x] = Null THEN x ELSE minimum(h, h.left[x])
maximum(h, x) == IF x = Null \/ h.right[x] = Null THEN x ELSE maximum(h, h.right[x])

(* The first node above x that x is not on the given side of.              *)
Rise(h, x, side) ==
  LET p == h.parent[x] IN IF p # Null /\ side[p] = x THEN Rise(h, p, side) ELSE p

successor(h, x) == IF h.right[x] # Null THEN minimum(h, h.right[x]) ELSE Rise(h, x, h.right)
predecessor(h, x) == IF h.left[x] # Null THEN maximum(h, h.left[x]) ELSE Rise(h, x, h.left)

Height(h, x) == IF x = Null THEN 0 ELSE h.height[x]
updateHeight(h, x) ==
  [h EXCEPT !.height[x] = Max({Height(h, h.left[x]), Height(h, h.right[x])}) + 1]
avlGetBalance(h, x) ==
  IF x = Null THEN 0 ELSE Height(h, h.left[x]) - Height(h, h.right[x])

SetParent(h, x, p) == IF x = Null THEN h ELSE [h EXCEPT !.parent[x] = p]

(* y takes the place of x under x's parent, as its parent or the root.     *)
Replace(h, x, y) ==
  LET p == h.parent[x]
      g == SetParent(h, y, p)
  IN IF p = Null THEN [g EXCEPT !.root = y]
     ELSE IF g.left[p] = x THEN [g EXCEPT !.left[p] = y] ELSE [g EXCEPT !.right[p] = y]

avlRotateLeft(h, x) ==
  LET y == h.right[x]
      a == SetParent([h EXCEPT !.right[x] = h.left[y]], h.left[y], x)
      b == [Replace(a, x, y) EXCEPT !.parent[x] = y, !.left[y] = x]
  IN IF y = Null THEN h ELSE updateHeight(updateHeight(b, x), y)

(* The heights are updated from the top down here.  Mutant: the subtree    *)
(* that changes sides keeps its parent.                                    *)
RotateRightOrphan(h, y) ==
  LET x == h.left[y]
      a == [h EXCEPT !.left[y] = h.right[x]]
      b == [Replace(a, y, x) EXCEPT !.parent[y] = x, !.right[x] = y]
  IN IF x = Null THEN h ELSE updateHeight(updateHeight(b, x), y)

avlRotateRight(h, y) ==
  LET x == h.left[y]
      a == SetParent([h EXCEPT !.left[y] = h.right[x]], h.right[x], y)
      b == [Replace(a, y, x) EXCEPT !.parent[y] = x, !.right[x] = y]
  IN IF x = Null THEN h ELSE updateHeight(updateHeight(b, x), y)

(* From a node to the root: heights, and a single or a double rotation.    *)
RECURSIVE avlFixUp(_, _)
avlFixUp(h, y) ==
  IF y = Null THEN h
  ELSE LET a == updateHeight(h, y)
           b == IF avlGetBalance(a, y) # 2 THEN a
                ELSE avlRotateRight(IF avlGetBalance(a, a.left[y]) = -1
                                    THEN avlRotateLeft(a, a.left[y]) ELSE a, y)
           c == IF avlGetBalance(b, y) # -2 THEN b
                ELSE avlRotateLeft(IF avlGetBalance(b, b.right[y]) = 1
                                   THEN avlRotateRight(b, b.right[y]) ELSE b, y)
       IN avlFixUp(c, c.parent[y])

createTreeNode(n) == [t EXCEPT !.height[n] = 1, !.end[n] = n]

(* A duplicate goes after the last of its key.                             *)
InsertDuplicate(h, n, first) ==
  LET last == h.end[first]
      g == [h EXCEPT !.prev[n] = last, !.next[n] = h.next[last]]
      e == IF h.next[last] = Null THEN g ELSE [g EXCEPT !.prev[h.next[last]] = n]
  IN [e EXCEPT !.next[last] = n, !.end[first] = n]

(* The leaf's parent, from node x down.                                    *)
Place(h, x, y, k) ==
  IF x = Null THEN y ELSE Place(h, IF Key(x) < k THEN h.right[x] ELSE h.left[x], x, k)

(* The new leaf goes between its neighbours in the list: after the first   *)
(* node of the key before, not after its last.                             *)
Thread(h, n) ==
  LET p == predecessor(h, n)
      s == successor(h, n)
      g == [h EXCEPT !.prev[n] = p, !.next[n] = s]
      e == IF p = Null THEN g ELSE [g EXCEPT !.next[p] = n]
  IN IF s = Null THEN e ELSE [e EXCEPT !.prev[s] = n]

InsertLeaf(h, n) ==
  IF h.root = Null THEN [h EXCEPT !.root = n]
  ELSE LET y == Place(h, h.root, Null, Key(n))
           g == [h EXCEPT !.parent[n] = y]
           e == IF Key(n) < Key(y) THEN [g EXCEPT !.left[y] = n] ELSE [g EXCEPT !.right[y] = n]
       IN avlFixUp(Thread(e, n), y)

(* size grows at the start and, but for the first node, again at the end.  *)
insert(k) ==
  LET free == {n \in Nodes \ live : Key(n) = k}
      n == Min(free)
      first == search(t, t.root, k)
      h == createTreeNode(n)
      uses == IF first = Null THEN {} ELSE {t.end[first], t.next[t.end[first]]} \ {Null}
  IN
  /\ ~undefined /\ free # {}
  /\ live' = live \cup {n}
  /\ IF uses \subseteq live
     THEN /\ t' = IF first # Null THEN InsertDuplicate(h, n, first) ELSE InsertLeaf(h, n)
          /\ undefined' = FALSE
     ELSE undefined' = TRUE /\ UNCHANGED t
  /\ size' = size + (IF t.root = Null THEN 1 ELSE 2)
  /\ kept' = kept \cup {k}
  /\ UNCHANGED <<deletions, cutOff>>

(* destroyTreeNode: what the node held is forgotten.                       *)
Wipe(h, n) ==
  [h EXCEPT !.left[n] = Null, !.right[n] = Null, !.parent[n] = Null, !.height[n] = 0,
            !.next[n] = Null, !.prev[n] = Null, !.end[n] = Null]

(* The last duplicate of z leaves the list.                                *)
DeleteDuplicate(z) ==
  LET last == t.end[z]
      p == t.prev[last]
      s == t.next[last]
      a == [t EXCEPT !.next[p] = s]
      b == IF s = Null THEN a ELSE [a EXCEPT !.prev[s] = p]
  IN Wipe([b EXCEPT !.end[z] = p], last)

(* z leaves the list, unless it is the last of it.                         *)
Unthread(z) ==
  LET p == t.prev[z]
      s == t.next[z]
      a == IF p = Null THEN t ELSE [t EXCEPT !.next[p] = s]
  IN IF s = Null THEN t ELSE [a EXCEPT !.prev[s] = p]

(* The least node to the right of z takes its place, without the subtree   *)
(* it had to its right; heights are updated from z's parent up.            *)
DeleteInner(h, z) ==
  LET x == minimum(h, h.right[z])
      p == h.parent[x]
      a == IF p # z /\ h.left[p] = x THEN [h EXCEPT !.left[p] = Null]
           ELSE [h EXCEPT !.right[p] = Null]
      b == [a EXCEPT !.left[x] = a.left[z], !.right[x] = a.right[z]]
      c == SetParent(SetParent(b, b.right[x], x), b.left[x], x)
  IN Replace(c, z, x)

DeleteOuter(h, z) == Replace(h, z, IF h.left[z] # Null THEN h.left[z] ELSE h.right[z])

DeleteNode(h, z) ==
  LET y == h.parent[z]
      inner == h.left[z] # Null /\ h.right[z] # Null
      g == IF inner THEN DeleteInner(h, z) ELSE DeleteOuter(h, z)
  IN avlFixUp(Wipe(g, z), y)

(* Comparing with z's next node reads it, and its neighbours are written.  *)
delete(k) ==
  LET z == search(t, t.root, k)
      s == t.next[z]
      same == s # Null /\ Key(s) = k
      last == t.end[z]
      reads == IF same THEN {s, last, t.prev[last]} \cup ({t.next[last]} \ {Null})
               ELSE ({s} \ {Null}) \cup (IF s = Null THEN {} ELSE {t.prev[z]} \ {Null})
  IN
  /\ ~undefined /\ z # Null /\ deletions < Deletions
  /\ deletions' = deletions + 1
  /\ kept' = kept \ {k}
  /\ IF ~(reads \subseteq live)
     THEN undefined' = TRUE /\ UNCHANGED <<t, live, size, cutOff>>
     ELSE /\ UNCHANGED undefined
          /\ live' = live \ {IF same THEN last ELSE z}
          /\ t' = IF same THEN DeleteDuplicate(z) ELSE DeleteNode(Unthread(z), z)
          /\ size' = IF ~same /\ t.root = z /\ t.left[z] = Null /\ t.right[z] = Null
                     THEN 0 ELSE size - 1
          /\ cutOff' = (cutOff \/ (~same /\ t.left[z] # Null /\ t.right[z] # Null))

(* The nodes the list visits from the first key, as far as they are live.  *)
RECURSIVE ListFrom(_, _)
ListFrom(h, x) ==
  IF x = Null \/ x \notin live THEN <<x>> ELSE <<x>> \o ListFrom(h, h.next[x])
Visited == Front(ListFrom(t, minimum(t, t.root)))
Ends == Last(ListFrom(t, minimum(t, t.root)))

(* The tree is destroyed along the list and another is created.            *)
destroyTree ==
  /\ ~undefined /\ t.root # Null
  /\ undefined' = (Ends # Null)
  /\ live' = live \ ToSet(Visited)
  /\ t' = [n \in DOMAIN t |-> IF n = "root" THEN Null ELSE Blank]
  /\ size' = 0 /\ kept' = {}
  /\ cutOff' = FALSE /\ UNCHANGED deletions

TreeNext ==
  \/ \E k \in Keys : insert(k)
  \/ \E k \in Keys : delete(k)
  \/ destroyTree

TreeSpec == TreeInit /\ [][TreeNext]_treeVars
---------------------------------------------------------------------------
RECURSIVE Inorder(_, _), Depth(_)
Inorder(h, x) ==
  IF x = Null THEN <<>> ELSE Inorder(h, h.left[x]) \o <<x>> \o Inorder(h, h.right[x])
Depth(x) == IF x = Null THEN 0 ELSE Max({Depth(t.left[x]), Depth(t.right[x])}) + 1

InTree == ToSet(Inorder(t, t.root))
Ascending(s) == \A i \in 1 .. Len(s) - 1 : Key(s[i]) < Key(s[i + 1])

(* Whatever was inserted and deleted, the tree is a search tree of live    *)
(* nodes whose parent links agree with the child links.                    *)
SearchTree ==
  /\ InTree \subseteq live /\ Ascending(Inorder(t, t.root))
  /\ \A x \in InTree :
       IF t.parent[x] = Null THEN t.root = x
       ELSE t.parent[x] \in InTree /\ x \in {t.left[t.parent[x]], t.right[t.parent[x]]}

(* Until a node with two children is deleted, heights are true, the tree   *)
(* is balanced; and until any is, every key is found in the tree.          *)
Balanced ==
  ~cutOff =>
    /\ \A x \in InTree : t.height[x] = Depth(x) /\ avlGetBalance(t, x) \in -1 .. 1
    /\ ~undefined => kept \subseteq {Key(x) : x \in InTree}

(* With no deletion, the list visits every node of the tree, in order.     *)
ListInOrder ==
  deletions = 0 =>
    /\ Ends = Null
    /\ \A i \in 1 .. Len(Visited) - 1 : Key(Visited[i]) <= Key(Visited[i + 1])
    /\ InTree \subseteq ToSet(Visited)

(* TreeMap.h: size is "numarul de noduri din arbore".                      *)
SizeIsNodes == size = Cardinality(live)

(* No operation uses a freed node.                                         *)
NoFreedUse == ~undefined

(* The list visits every node, duplicates included.                        *)
ListVisitsAll == deletions = 0 => live \subseteq ToSet(Visited)
=============================================================================
