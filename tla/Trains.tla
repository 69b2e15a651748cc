------------------------------- MODULE Trains -------------------------------
(***************************************************************************)
(* What a station promises: on each platform a locomotive, or none, and    *)
(* the weights of its cars in order.  Module Station implements it with    *)
(* lists of cars that the operations relink.                               *)
(***************************************************************************)
EXTENDS Integers, Sequences, FiniteSets, SequencesExt

CONSTANTS Platforms, Powers, Weights

VARIABLES power, train

vars == <<power, train>>

Empty == -1

Init ==
  /\ power = [p \in Platforms |-> Empty]
  /\ train = [p \in Platforms |-> <<>>]

Arrive(p, l) ==
  /\ power[p] = Empty
  /\ power' = [power EXCEPT ![p] = l]
  /\ train' = [train EXCEPT ![p] = <<>>]

Leave(p) ==
  /\ power' = [power EXCEPT ![p] = Empty]
  /\ train' = [train EXCEPT ![p] = <<>>]

Close ==
  /\ power' = [p \in Platforms |-> Empty]
  /\ train' = [p \in Platforms |-> <<>>]

Add(p, w) ==
  /\ power[p] # Empty
  /\ train' = [train EXCEPT ![p] = Append(@, w)]
  /\ UNCHANGED power

Without(s, w) ==
  LET rest[k \in 0 .. Len(s)] ==
        IF k = 0 THEN <<>> ELSE IF s[k] = w THEN rest[k - 1] ELSE Append(rest[k - 1], s[k])
  IN rest[Len(s)]

Uncouple(p, w) ==
  /\ train' = [train EXCEPT ![p] = Without(@, w)]
  /\ UNCHANGED power

(* n cars of a, from position i, are put before position j of b.           *)
Move(a, i, n, b, j) ==
  /\ a # b /\ n > 0 /\ i + n - 1 <= Len(train[a]) /\ j - 1 <= Len(train[b])
  /\ train' = [p \in Platforms |->
       IF p = a THEN SubSeq(train[a], 1, i - 1) \o SubSeq(train[a], i + n, Len(train[a]))
       ELSE IF p = b THEN SubSeq(train[b], 1, j - 1) \o SubSeq(train[a], i, i + n - 1)
                            \o SubSeq(train[b], j, Len(train[b]))
       ELSE train[p]]
  /\ UNCHANGED power

(* The cars are arranged so that none is heavier than one before it.       *)
Order(p) ==
  /\ \E a \in [DOMAIN train[p] -> DOMAIN train[p]] :
       LET cars == [i \in DOMAIN a |-> train[p][a[i]]] IN
       /\ \A i, j \in DOMAIN a : i # j => a[i] # a[j]
       /\ \A i, j \in DOMAIN a : i < j => cars[i] >= cars[j]
       /\ train' = [train EXCEPT ![p] = cars]
  /\ UNCHANGED power

(* A car leaves an overloaded train, and its locomotive can pull the rest. *)
Fix(p) ==
  /\ \E i \in 1 .. Len(train[p]) :
       train' = [train EXCEPT ![p] = RemoveAt(@, i)]
  /\ FoldSeq(+, 0, train[p]) > power[p]
  /\ FoldSeq(+, 0, train'[p]) <= power[p]
  /\ UNCHANGED power

Next ==
  \/ Close
  \/ \E p \in Platforms, l \in Powers : Arrive(p, l)
  \/ \E p \in Platforms : Leave(p) \/ Order(p) \/ Fix(p)
  \/ \E p \in Platforms, w \in Weights : Add(p, w) \/ Uncouple(p, w)
  \/ \E a, b \in Platforms :
       \E i \in 1 .. Len(train[a]), n \in 1 .. Len(train[a]), j \in 1 .. Len(train[b]) + 1 :
         Move(a, i, n, b, j)

Spec == Init /\ [][Next]_vars
=============================================================================
