------------------------------- MODULE Cipher -------------------------------
(***************************************************************************)
(* Anul I/Semestrul II/SDA/Teme/Tema 2/Cipher.c: the words of a text are   *)
(* the keys of a TreeMap, each with the position it was read at; queries   *)
(* over the map make keys, lists of offsets, to encrypt messages with.     *)
(***************************************************************************)
EXTENDS TreeMap, CipherText

CONSTANTS
  MaxText,  \* bound on the words of the text
  Messages  \* that are encrypted: sequences of letters and Spaces

VARIABLES
  text,     \* history: the words read
  idx,      \* the letters of the words read
  info      \* by node: the position of its word

cipherVars == <<treeVars, text, idx, info>>

WordLen(k) == k \* words of different lengths
Crash == -2 \* no level, and no garbage the model considers

CipherInit == TreeInit /\ text = <<>> /\ idx = 0 /\ info = Blank

(* buildTreeFromFile, one word.                                            *)
ReadWord(k) ==
  /\ Len(text) < MaxText /\ insert(k)
  /\ info' = [n \in Nodes |-> IF n \in live' \ live THEN idx ELSE info[n]]
  /\ idx' = idx + WordLen(k) /\ text' = Append(text, k)

CipherNext == \E k \in Keys : ReadWord(k)
CipherSpec == CipherInit /\ [][CipherNext]_cipherVars
---------------------------------------------------------------------------
Offsets(ns) == [i \in 1 .. Len(ns) |-> info[ns[i]]]

inorderKeyQuery == Offsets(Visited)

rangeKeyQuery(q, p) == Offsets(SelectSeq(Visited, LAMBDA n : q < Key(n) /\ Key(n) < p))

(* The level of the node with key k, searched for from node x on level l,  *)
(* right of a greater key and left of a smaller one.  A search that goes   *)
(* left to a null link ends without a return: its value is garbage.  One   *)
(* that goes right still looks at the node it comes to in the same turn of *)
(* the loop: a null link crashes the program.                              *)
RECURSIVE lvl(_, _, _, _)
lvl(x, k, l, garbage) ==
  LET right == t.right[x]
  IN CASE x = Null -> garbage
       [] Key(x) = k -> l
       [] Key(x) < k -> lvl(t.left[x], k, l + 1, garbage)
       [] right = Null -> Crash
       [] Key(right) < k -> lvl(t.left[right], k, l + 2, garbage)
       [] OTHER -> lvl(right, k, l + 1, garbage)

(* The level of the word that is repeated most, as the loop counts: the    *)
(* last word of the list is left out, and the count goes on from one word  *)
(* to the next when it is no new maximum.                                  *)
nivel(garbage) ==
  LET Scan(s, n) ==
        LET next == t.next[n]
        IN IF next = Null THEN s
           ELSE IF Key(next) = Key(n) THEN [s EXCEPT !.l = @ + 1]
           ELSE IF s.l > s.lmax
                THEN [lmax |-> s.l, l |-> 0, nivel |-> lvl(t.root, Key(n), 0, garbage)]
                ELSE s
  IN FoldLeft(Scan, [lmax |-> 0, l |-> 0, nivel |-> 0], Visited).nivel

(* Both loops of levelKeyQuery call lvl, the second for every node.        *)
LevelCrashes == \E i \in 1 .. Len(Visited) : lvl(t.root, Key(Visited[i]), 0, 0) = Crash

(* The key, when the query returns.                                        *)
levelKeyQuery(garbage) ==
  Offsets(SelectSeq(Visited, LAMBDA n : lvl(t.root, Key(n), 0, garbage) = nivel(garbage)))
---------------------------------------------------------------------------
Position(i) == FoldLeft(LAMBDA a, k : a + WordLen(k), 0, SubSeq(text, 1, i - 1))
Between(q, p) == {i \in 1 .. Len(text) : q < text[i] /\ text[i] < p}

(* The key of a range has the positions of words strictly between its      *)
(* bounds, no other, and for each such word the first.                     *)
RangeExact ==
  \A q, p \in Keys :
    LET offsets == ToSet(rangeKeyQuery(q, p))
    IN /\ offsets \subseteq {Position(i) : i \in Between(q, p)}
       /\ \A k \in {text[i] : i \in Between(q, p)} :
            Position(Min({i \in 1 .. Len(text) : text[i] = k})) \in offsets

(* The keys the queries make; a level query that crashes makes none.       *)
MadeKeys ==
  {inorderKeyQuery} \cup {rangeKeyQuery(q, p) : q, p \in Keys}
    \cup {levelKeyQuery(garbage) : garbage \in IF LevelCrashes THEN {} ELSE -1 .. 2}

(* A message comes back from decrypt, whichever query made the key, and    *)
(* the key as it is printed does the same.                                 *)
DecryptUndoes ==
  \A key \in MadeKeys :
    key # <<>> =>
      \A m \in Messages :
        /\ decrypt(encrypt(m, key), key) = m
        /\ encrypt(m, printKey(key)) = encrypt(m, key)

(* The level query of a text ends with a key.                              *)
LevelQueryReturns == text # <<>> => ~LevelCrashes

(* The level key comes from the level of the most frequent word, when the  *)
(* query returns.                                                          *)
LevelOfMostFrequent ==
  text # <<>> /\ ~LevelCrashes =>
    LET Count(k) == Cardinality({i \in 1 .. Len(text) : text[i] = k})
        RECURSIVE Level(_, _, _)
        Level(x, k, l) ==
          IF x = Null \/ Key(x) = k THEN l
          ELSE Level(IF k > Key(x) THEN t.right[x] ELSE t.left[x], k, l + 1)
        frequent == {k \in Keys : \A j \in Keys : Count(j) <= Count(k)}
    IN \A garbage \in -1 .. 2 : nivel(garbage) = Level(t.root, Min(frequent), 0)
=============================================================================
