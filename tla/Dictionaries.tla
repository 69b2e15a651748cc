---------------------------- MODULE Dictionaries ----------------------------
(***************************************************************************)
(* Anul II/Semestrul I/AA: AVL.c and Hash.c, two programs that read the    *)
(* same commands (insert, delete, search, replace, print) and are compared *)
(* with each other.  Here both run side by side on one sequence of them.   *)
(***************************************************************************)
EXTENDS Integers, Sequences, FiniteSets, SequencesExt, FiniteSetsExt

CONSTANTS
  Keys,      \* positive, as rand_generator.c writes them
  CAPACITY   \* buckets of the hash table; 1000000 in the code

VARIABLES
  keys,       \* history: the keys the commands leave in a dictionary
  root,       \* AVL.c: the tree
  misled,     \* history: a search of the empty tree answered "found"
  items,      \* Hash.c: the item of each bucket, or None
  chain,      \* its overflow bucket: a sequence of items
  wild,       \* whether the last link of the chain was left uninitialised
  count,
  undefined,  \* Hash.c has followed a wild link, or worse
  revived     \* history: a bucket's item was deleted before its chain

avlVars == <<root, misled>>
hashVars == <<items, chain, wild, count, undefined, revived>>
dictVars == <<keys, avlVars, hashVars>>

NULL == <<>>
None == 0
Buckets == 0 .. CAPACITY - 1

DictInit ==
  /\ keys = {} /\ root = NULL /\ misled = FALSE
  /\ items = [b \in Buckets |-> None]
  /\ chain = [b \in Buckets |-> <<>>] /\ wild = [b \in Buckets |-> FALSE]
  /\ count = 0 /\ undefined = FALSE /\ revived = FALSE
---------------------------------------------------------------------------
(* AVL.c.  A subtree is only ever reached from its parent: it is a value.  *)
height(n) == IF n = NULL THEN 0 ELSE n.height
Node(k, l, r) == [key |-> k, left |-> l, right |-> r, height |-> 1 + Max({height(l), height(r)})]
getBalance(n) == IF n = NULL THEN 0 ELSE height(n.left) - height(n.right)

rightRotate(y) == Node(y.left.key, y.left.left, Node(y.key, y.left.right, y.right))
leftRotate(x) == Node(x.right.key, Node(x.key, x.left, x.right.left), x.right.right)

(* The four cases, by how the heavy child leans.  Mutant: a child that     *)
(* leans the other way is not turned first.                                *)
RebalanceOnce(n, leftLeans, rightLeans) ==
  IF getBalance(n) > 1 THEN rightRotate(n)
  ELSE IF getBalance(n) < -1 THEN leftRotate(n) ELSE n

Rebalance(n, leftLeans, rightLeans) ==
  IF getBalance(n) > 1
  THEN rightRotate(IF leftLeans THEN n ELSE Node(n.key, leftRotate(n.left), n.right))
  ELSE IF getBalance(n) < -1
  THEN leftRotate(IF rightLeans THEN n ELSE Node(n.key, n.left, rightRotate(n.right)))
  ELSE n

RECURSIVE insert(_, _), deleteNode(_, _), minValueNode(_), verifIfContains(_, _)

insert(n, k) ==
  IF n = NULL THEN Node(k, NULL, NULL)
  ELSE IF k = n.key THEN n
  ELSE LET m == IF k < n.key THEN Node(n.key, insert(n.left, k), n.right)
                ELSE Node(n.key, n.left, insert(n.right, k))
       IN Rebalance(m, m.left # NULL /\ k < m.left.key, m.right # NULL /\ k > m.right.key)

minValueNode(n) == IF n.left = NULL THEN n ELSE minValueNode(n.left)

deleteNode(n, k) ==
  IF n = NULL THEN n
  ELSE LET next == minValueNode(n.right).key
           m == IF k < n.key THEN Node(n.key, deleteNode(n.left, k), n.right)
                ELSE IF k > n.key THEN Node(n.key, n.left, deleteNode(n.right, k))
                ELSE IF n.left = NULL THEN n.right
                ELSE IF n.right = NULL THEN n.left
                ELSE Node(next, n.left, deleteNode(n.right, next))
       IN IF m = NULL THEN m
          ELSE Rebalance(m, getBalance(m.left) >= 0, getBalance(m.right) <= 0)

verifIfContains(n, k) ==
  n # NULL /\ (k = n.key \/ verifIfContains(IF k < n.key THEN n.left ELSE n.right, k))
---------------------------------------------------------------------------
(* Hash.c, on the state of one table.                                      *)
Table == [items |-> items, chain |-> chain, wild |-> wild, count |-> count,
          undefined |-> undefined, revived |-> revived]
hash_function(k) == k % CAPACITY

Chained(h, b, k) == \E i \in 1 .. Len(h.chain[b]) : h.chain[b][i] = k

(* The first collision starts a chain whose link is not set; a second one  *)
(* passes the chain to ht_insert in place of a table.                      *)
handle_collision(h, b, k, w) ==
  IF h.chain[b] = <<>> THEN [h EXCEPT !.chain[b] = <<k>>, !.wild[b] = w]
  ELSE IF Chained(h, b, k) THEN h
  ELSE [h EXCEPT !.undefined = TRUE]

ht_insert(h, k, w) ==
  LET b == hash_function(k) IN
  IF h.undefined \/ h.items[b] = k THEN h
  ELSE IF h.items[b] # None THEN handle_collision(h, b, k, w)
  ELSE IF h.count >= CAPACITY THEN h
  ELSE [h EXCEPT !.items[b] = k, !.count = @ + 1]

ht_search(h, k) ==
  LET b == hash_function(k) IN h.items[b] # None /\ (h.items[b] = k \/ Chained(h, b, k))

(* Whether a walk along the chain for a key it may not hold meets a wild   *)
(* link.                                                                   *)
Strays(h, k) ==
  LET b == hash_function(k) IN
  h.items[b] \notin {None, k} /\ h.wild[b] /\ ~Chained(h, b, k)

(* Deleting a bucket's item before a chain frees the chain's first item    *)
(* and keeps the deleted key; deleting the chain's first frees the chain.  *)
ht_delete(h, k) ==
  LET b == hash_function(k) IN
  IF h.undefined \/ h.items[b] = None THEN h
  ELSE IF h.chain[b] = <<>>
  THEN IF h.items[b] = k THEN [h EXCEPT !.items[b] = None, !.count = @ - 1] ELSE h
  ELSE IF h.items[b] = k
  THEN [h EXCEPT !.chain[b] = Tail(@), !.wild[b] = FALSE, !.revived = TRUE, !.undefined = h.wild[b]]
  ELSE IF h.chain[b][1] = k
  THEN [h EXCEPT !.chain[b] = <<>>, !.wild[b] = FALSE, !.undefined = h.wild[b]]
  ELSE [h EXCEPT !.undefined = h.wild[b]]

HashBecomes(h) ==
  /\ items' = h.items /\ chain' = h.chain /\ wild' = h.wild
  /\ count' = h.count /\ undefined' = h.undefined /\ revived' = h.revived
---------------------------------------------------------------------------
(* The commands.                                                           *)
Insert(k) ==
  /\ keys' = keys \cup {k}
  /\ root' = insert(root, k) /\ UNCHANGED misled
  /\ \E w \in BOOLEAN : HashBecomes(ht_insert(Table, k, w))

Delete(k) ==
  /\ keys' = keys \ {k}
  /\ root' = deleteNode(root, k) /\ UNCHANGED misled
  /\ HashBecomes(ht_delete(Table, k))

Search(k) ==
  /\ undefined' = (undefined \/ Strays(Table, k))
  /\ UNCHANGED <<keys, avlVars, items, chain, wild, count, revived>>

(* verifIfContains returns nothing for an empty tree: any value may come.  *)
Replace(k, l) ==
  /\ keys' = IF k \in keys THEN (keys \ {k}) \cup {l} ELSE keys
  /\ \E found \in IF root = NULL THEN BOOLEAN ELSE {verifIfContains(root, k)} :
       /\ root' = IF found THEN insert(deleteNode(root, k), l) ELSE root
       /\ misled' = (misled \/ (root = NULL /\ found))
  /\ \E w \in BOOLEAN :
       HashBecomes(IF Strays(Table, k) THEN [Table EXCEPT !.undefined = TRUE]
                   ELSE IF ~undefined /\ ht_search(Table, k)
                   THEN ht_insert(ht_delete(Table, k), l, w) ELSE Table)

DictNext ==
  \/ \E k \in Keys : Insert(k)
  \/ \E k \in Keys : Delete(k)
  \/ \E k \in Keys : Search(k)
  \/ \E k, l \in Keys : Replace(k, l)

DictSpec == DictInit /\ [][DictNext]_dictVars
---------------------------------------------------------------------------
RECURSIVE Inorder(_), Depth(_), Even(_)
Inorder(n) == IF n = NULL THEN <<>> ELSE Inorder(n.left) \o <<n.key>> \o Inorder(n.right)
Depth(n) == IF n = NULL THEN 0 ELSE 1 + Max({Depth(n.left), Depth(n.right)})
Even(n) ==
  n = NULL \/ (/\ Depth(n.left) - Depth(n.right) \in -1 .. 1 /\ n.height = Depth(n)
               /\ Even(n.left) /\ Even(n.right))

(* AVL.c: after any commands the tree is balanced and holds, in order, the *)
(* keys they leave, unless an empty tree was asked for a key.              *)
TreeExact ==
  /\ Even(root)
  /\ ~misled => Inorder(root) = SetToSortSeq(keys, <)

(* Hash.c: while no item was deleted before its chain and no wild link was *)
(* followed, the table finds exactly the keys the commands leave, as the   *)
(* tree does; count is the number of buckets in use and within CAPACITY.   *)
SameAnswers ==
  /\ count = Cardinality({b \in Buckets : items[b] # None})
  /\ ~undefined /\ ~revived => {k \in Keys : ht_search(Table, k)} = keys

(* "Remove this item and set the head of the list as the new item": the    *)
(* table no longer finds a key it has deleted.                             *)
DeletedIsGone ==
  ~undefined => \A k \in Keys \ keys : ~ht_search(Table, k)
=============================================================================
