---------------------------- MODULE PackedArray ----------------------------
(***************************************************************************)
(* Anul I/Semestrul II/PCLP 2 - IOCLA/Tema 1/main.c: records of sensors of *)
(* three types, one after the other in a block of bytes.  A record is a    *)
(* byte with its type, four with the length of its data, and the data; the *)
(* commands find a record by walking over the lengths of those before it.  *)
(***************************************************************************)
EXTENDS Integers, Sequences, SequencesExt

CONSTANTS
  Sensors,  \* [type, nume1, nume2]: what insert is given, the names by length
  Indexes,  \* that insert_at, delete_at and find are given
  MaxLen,   \* bound on the records in the array
  Copy      \* how memcpy copies: "whole", or byte by byte "forward"

ASSUME PackedConstants ==
  \A s \in Sensors : s.type \in 1 .. 3 /\ s.nume1 \in Nat /\ s.nume2 \in Nat

VARIABLES
  arr,      \* the allocated block
  len,
  list      \* history: the list the commands asked for

packedVars == <<arr, len, list>>

PackedInit == arr = <<>> /\ len = 0 /\ list = <<>>

(* The k-th byte of a record is <<record, k>>; realloc adds bytes of none. *)
Sums == <<2, 6, 8>>
Total(s) == 5 + (s.nume1 + 1) + Sums[s.type] + (s.nume2 + 1)
Bytes(s) == [k \in 1 .. Total(s) |-> <<s, k>>]
Junk == <<[type |-> 0, nume1 |-> 0, nume2 |-> 0], 0>>
realloc(m, n) ==
  IF n <= Len(m) THEN SubSeq(m, 1, n) ELSE m \o [i \in 1 .. n - Len(m) |-> Junk]

(* The record whose length is stored at offset i, and the one that is      *)
(* stored there as a whole.                                                *)
Holds(m, i, s, ks) == \A k \in ks : i + k \in DOMAIN m /\ m[i + k] = <<s, k>>
Measured(m, i) == {s \in Sensors : Holds(m, i, s, 2 .. 5)}
Stored(m, i) == {s \in Sensors : Holds(m, i, s, 1 .. Total(s))}

(* Where the record after the first n begins; Nowhere when a length on the *)
(* way is none.                                                            *)
Nowhere == -1
nrb(n) ==
  LET at[k \in 0 .. n] ==
        IF k = 0 THEN 0
        ELSE LET s == Measured(arr, at[k - 1])
             IN IF at[k - 1] = Nowhere \/ s = {} THEN Nowhere
                ELSE at[k - 1] + Total(CHOOSE r \in s : TRUE)
  IN at[n]

(* memcpy on areas that may overlap, as the library at hand does it.       *)
memcpy(m, to, from, n) ==
  IF Copy = "whole"
  THEN SubSeq(m, 1, to) \o SubSeq(m, from + 1, from + n) \o SubSeq(m, to + n + 1, Len(m))
  ELSE LET copied[k \in 0 .. n] ==
             IF k = 0 THEN m ELSE [copied[k - 1] EXCEPT ![to + k] = copied[k - 1][from + k]]
       IN copied[n]
Store(m, i, s) == SubSeq(m, 1, i) \o Bytes(s) \o SubSeq(m, i + Total(s) + 1, Len(m))

(* Both inserts walk to the end first, and so does a deletion that moves   *)
(* records: the model stops where one would read a length that is none.    *)
Walked == nrb(len) # Nowhere

add_last(s) ==
  /\ Walked
  /\ arr' = Store(realloc(arr, nrb(len) + Total(s)), nrb(len), s)
  /\ len' = len + 1 /\ list' = Append(list, s)

add_at(s, index) ==
  \/ index >= len /\ add_last(s)
  \/ /\ index < len /\ Walked
     /\ LET prev == nrb(IF index < 0 THEN 0 ELSE index)
            room == realloc(arr, nrb(len) + Total(s))
        IN arr' = Store(memcpy(room, prev + Total(s), prev, nrb(len) - prev), prev, s)
     /\ len' = len + 1 /\ list' = InsertAt(list, (IF index < 0 THEN 0 ELSE index) + 1, s)

(* The last record is only forgotten; the others are moved over the one    *)
(* that goes.  Mutant: over the one after it, < for <= in the walk.        *)
Forgotten(index, moved) ==
  /\ index < len /\ arr # <<>>
  /\ \/ index = len - 1 /\ UNCHANGED arr
     \/ index # len - 1 /\ Walked /\ arr' = moved
  /\ len' = len - 1
  /\ list' = IF index < 0 THEN list ELSE RemoveAt(list, index + 1)
DeleteBefore(index) ==
  LET after == nrb(IF index < 0 THEN 0 ELSE index)
      data == IF index <= 0 THEN 0 ELSE after - nrb(index - 1)
  IN Forgotten(index, memcpy(arr, after - data, after, nrb(len) - after))

delete_at(index) ==
  LET after == nrb(IF index < 0 THEN 0 ELSE index + 1)
      data == IF index < 0 THEN 0 ELSE after - nrb(index)
  IN Forgotten(index, memcpy(arr, after - data, after, nrb(len) - after))

(* What find and print show.                                               *)
find(index) ==
  IF index \notin 0 .. len - 1 THEN {} ELSE Stored(arr, nrb(index))
PrintAll == [i \in 1 .. len |-> find(i - 1)]

PackedNext ==
  \/ \E s \in Sensors : len < MaxLen /\ add_last(s)
  \/ \E s \in Sensors, index \in Indexes : len < MaxLen /\ add_at(s, index)
  \/ \E index \in Indexes : delete_at(index)

PackedSpec == PackedInit /\ [][PackedNext]_packedVars
---------------------------------------------------------------------------
(* The block is a list of records: whatever is inserted and deleted where, *)
(* print shows the list the commands asked for, every record whole.        *)
PackedIsList == PrintAll = [i \in 1 .. Len(list) |-> {list[i]}]
=============================================================================
