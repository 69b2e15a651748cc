------------------------------ MODULE Station ------------------------------
(***************************************************************************)
(* Anul I/Semestrul II/SDA/Teme/Tema 1/station.c: the platforms of a train *)
(* station, the cars on each a singly linked list that the operations      *)
(* relink in place.                                                        *)
(***************************************************************************)
EXTENDS Integers, Sequences, FiniteSets, SequencesExt, FiniteSetsExt

CONSTANTS
  platforms_no,
  Powers,         \* of locomotives
  Weights,        \* of cars
  MaxCars,        \* bound on the cars allocated at once
  SamePlatform    \* whether move_train_cars may be given one platform twice

(* order_train looks for a weight below 10000, and drops cars of weight 0. *)
ASSUME StationConstants ==
  /\ platforms_no \in Nat /\ MaxCars \in Nat
  /\ Weights \subseteq 1 .. 9999 /\ Weights # {}
  /\ Powers \subseteq Nat

Platforms == 0 .. platforms_no - 1
Null == 0
Empty == -1       \* locomotive_power of a platform without a locomotive
Cars == 1 .. MaxCars

VARIABLES
  live,           \* the allocated cars
  weight, next,   \* of each car
  power, first    \* of each platform: locomotive_power and train_cars

stationVars == <<live, weight, next, power, first>>

(* Where the list of a platform is after k cars, and its cars; a list that *)
(* runs in a circle shows as one of more than MaxCars.                     *)
At(f, n, p) ==
  LET at[k \in 0 .. MaxCars] ==
        IF k = 0 THEN f[p] ELSE IF at[k - 1] = Null THEN Null ELSE n[at[k - 1]]
  IN at
List(f, n, p) ==
  [i \in 1 .. Cardinality({k \in 0 .. MaxCars : At(f, n, p)[k] # Null}) |-> At(f, n, p)[i - 1]]

CarsOf(p) == List(first, next, p)
WeightsOf(p) == [i \in 1 .. Len(CarsOf(p)) |-> weight[CarsOf(p)[i]]]
sumvag(p) == FoldSeq(+, 0, WeightsOf(p))

(* What a freed car held is forgotten.                                     *)
Lightest == Min(Weights)
Wipe(f, gone, v) == [c \in Cars |-> IF c \in gone THEN v ELSE f[c]]
Free(gone, n) ==
  /\ live' = live \ gone
  /\ weight' = Wipe(weight, gone, Lightest) /\ next' = Wipe(n, gone, Null)

StationInit ==
  /\ live = {}
  /\ weight = [c \in Cars |-> Lightest] /\ next = [c \in Cars |-> Null]
  /\ power = [p \in Platforms |-> Empty]
  /\ first = [p \in Platforms |-> Null]

arrive_train(p, l) ==
  /\ power[p] = Empty
  /\ power' = [power EXCEPT ![p] = l]
  /\ first' = [first EXCEPT ![p] = Null]
  /\ UNCHANGED <<live, weight, next>>

(* delvag frees the cars.                                                  *)
leave_train(p) ==
  /\ Free(ToSet(CarsOf(p)), next)
  /\ power' = [power EXCEPT ![p] = Empty]
  /\ first' = [first EXCEPT ![p] = Null]

(* The station is closed and another opened.                               *)
close_train_station ==
  /\ Free(UNION {ToSet(CarsOf(p)) : p \in Platforms}, next)
  /\ power' = [p \in Platforms |-> Empty]
  /\ first' = [p \in Platforms |-> Null]

add_train_car(p, w) ==
  /\ power[p] # Empty /\ live # Cars
  /\ LET c == Min(Cars \ live) IN
       /\ live' = live \cup {c}
       /\ weight' = [weight EXCEPT ![c] = w]
       /\ IF first[p] = Null
          THEN first' = [first EXCEPT ![p] = c] /\ next' = [next EXCEPT ![c] = Null]
          ELSE next' = [next EXCEPT ![c] = Null, ![Last(CarsOf(p))] = c] /\ UNCHANGED first
  /\ UNCHANGED power

(* One pass: a car of weight w is unlinked from the car kept before it, or *)
(* from the platform.  Mutant: prev moves on to the freed car.             *)
UnlinkForgetful(s, c, p, w) ==
  IF weight[c] # w THEN [s EXCEPT !.prev = c]
  ELSE IF s.prev = Null THEN [s EXCEPT !.first[p] = next[c], !.prev = c]
  ELSE [s EXCEPT !.next[s.prev] = next[c], !.prev = c]

Unlink(s, c, p, w) ==
  IF weight[c] # w THEN [s EXCEPT !.prev = c]
  ELSE IF s.prev = Null THEN [s EXCEPT !.first[p] = next[c]]
  ELSE [s EXCEPT !.next[s.prev] = next[c]]

remove_train_cars(p, w) ==
  LET pass[k \in 0 .. Len(CarsOf(p))] ==
        IF k = 0 THEN [prev |-> Null, first |-> first, next |-> next]
        ELSE Unlink(pass[k - 1], CarsOf(p)[k], p, w)
      done == pass[Len(CarsOf(p))]
  IN /\ first' = done.first
     /\ Free({c \in ToSet(CarsOf(p)) : weight[c] = w}, done.next)
     /\ UNCHANGED power

(* The n cars of a from the one at position i are linked in before the one *)
(* at position j of b, then out of a, in this order.                       *)
move_train_cars(a, i, n, b, j) ==
  /\ (a = b => SamePlatform)
  /\ i + n - 1 <= Len(CarsOf(a)) /\ j - 1 <= Len(CarsOf(b))
  /\ LET from == CarsOf(a)[i]
         last == CarsOf(a)[i + n - 1]
         rest == next[last]
         before == IF j = 1 THEN Null ELSE CarsOf(b)[j - 1]
         after == IF j = 1 THEN first[b] ELSE next[before]
         in_f == IF j = 1 THEN [first EXCEPT ![b] = from] ELSE first
         in_n == [IF j = 1 THEN next ELSE [next EXCEPT ![before] = from] EXCEPT ![last] = after]
     IN /\ first' = IF i = 1 THEN [in_f EXCEPT ![a] = rest] ELSE in_f
        /\ next' = IF i = 1 THEN in_n ELSE [in_n EXCEPT ![CarsOf(a)[i - 1]] = rest]
  /\ UNCHANGED <<live, weight, power>>

(* The list is rebuilt from copies of the cars of each weight above zero,  *)
(* the lightest first and each put in front; a copy takes its car's place. *)
InFront(c, w, start) ==
  LET front[k \in 0 .. Len(c)] ==
        IF k = 0 THEN start
        ELSE IF weight[c[k]] = w THEN <<c[k]>> \o front[k - 1] ELSE front[k - 1]
  IN front[Len(c)]

Rebuilt(p) ==
  LET start[w \in 0 .. Max(Weights)] ==
        IF w = 0 THEN <<>> ELSE InFront(CarsOf(p), w, start[w - 1])
  IN start[Max(Weights)]

Linking(s, n) ==
  [c \in Cars |-> IF c \notin ToSet(s) THEN n[c]
                  ELSE LET k == CHOOSE k \in DOMAIN s : s[k] = c
                       IN IF k = Len(s) THEN Null ELSE s[k + 1]]

order_train(p) ==
  LET s == Rebuilt(p) IN
  /\ s # <<>>
  /\ first' = [first EXCEPT ![p] = s[1]]
  /\ Free(ToSet(CarsOf(p)) \ ToSet(s), Linking(s, next))
  /\ UNCHANGED power

Surplus(p) == power[p] - sumvag(p)

(* The first platform at which a value is better than the best so far.     *)
Best(start, Value(_), Better(_, _)) ==
  LET best[k \in 0 .. platforms_no] ==
        IF k = 0 THEN [at |-> -1, value |-> start]
        ELSE IF Better(Value(k - 1), best[k - 1].value)
        THEN [at |-> k - 1, value |-> Value(k - 1)] ELSE best[k - 1]
  IN best[platforms_no].at

find_express_train == Best(-1, Surplus, LAMBDA v, m : v > m)
find_optimal_train == Best(1000000, Surplus, LAMBDA v, m : v < m /\ v >= 0)
find_overload_train ==
  LET over == {p \in Platforms : power[p] < sumvag(p)} IN IF over = {} THEN -1 ELSE Min(over)

(* The car whose loss leaves the least power to spare leaves the train.    *)
fix_overload_train ==
  /\ find_overload_train # -1
  /\ LET p == find_overload_train
         c == CarsOf(p)
         spare(k) == Surplus(p) + weight[c[k]]
         fits == {k \in 1 .. Len(c) : spare(k) >= 0}
         k == Min({m \in fits : \A q \in fits : spare(m) <= spare(q)})
     IN /\ fits # {}
        /\ first' = IF k = 1 THEN [first EXCEPT ![p] = next[c[k]]] ELSE first
        /\ Free({c[k]}, IF k = 1 THEN next ELSE [next EXCEPT ![c[k - 1]] = next[c[k]]])
  /\ UNCHANGED power

(* The first heaviest window of n cars: a sum that gains the car ahead and *)
(* loses the one behind.  Mutant: it forgets to lose the car behind.       *)
SlideUp(w, n, s, k) ==
  LET sum == s.sum + w[k + n]
  IN IF sum > s.max THEN [sum |-> sum, max |-> sum, at |-> k + 1] ELSE [s EXCEPT !.sum = sum]

Slide(w, n, s, k) ==
  LET sum == s.sum - w[k] + w[k + n]
  IN IF sum > s.max THEN [sum |-> sum, max |-> sum, at |-> k + 1] ELSE [s EXCEPT !.sum = sum]

secv(w, n) ==
  IF Len(w) < n THEN [max |-> -1, at |-> Null]
  ELSE LET sum == FoldSeq(+, 0, SubSeq(w, 1, n))
           slid[k \in 0 .. Len(w) - n] ==
             IF k = 0 THEN [sum |-> sum, max |-> sum, at |-> 1] ELSE Slide(w, n, slid[k - 1], k)
       IN slid[Len(w) - n]

find_heaviest_sequence_train(n) ==
  LET p == Best(-1, LAMBDA q : secv(WeightsOf(q), n).max, LAMBDA v, m : v > m)
  IN IF p = -1 THEN [at |-> -1, start |-> Null] ELSE [at |-> p, start |-> secv(WeightsOf(p), n).at]

StationNext ==
  \/ \E p \in Platforms, l \in Powers : arrive_train(p, l)
  \/ \E p \in Platforms : leave_train(p)
  \/ close_train_station
  \/ \E p \in Platforms, w \in Weights : add_train_car(p, w)
  \/ \E p \in Platforms, w \in Weights : remove_train_cars(p, w)
  \/ \E a, b \in Platforms, i, n, j \in Cars : move_train_cars(a, i, n, b, j)
  \/ \E p \in Platforms : order_train(p)
  \/ fix_overload_train

StationSpec == StationInit /\ [][StationNext]_stationVars
---------------------------------------------------------------------------
(* The station behaves as the trains of module Trains: relinking keeps     *)
(* every car it should keep, once and in order, whatever the operations    *)
(* before it were.                                                         *)
Yard == INSTANCE Trains WITH train <- [p \in Platforms |-> WeightsOf(p)]
StationIsTrains == Yard!Spec

(* The heaviest sequence: what the sliding sums find is the heaviest of    *)
(* all windows on all platforms, and nothing only if no train is so long.  *)
Windows(n) ==
  UNION {{<<p, i>> : i \in 1 .. Len(CarsOf(p)) - n + 1} : p \in Platforms}
WindowSum(n, x) == FoldSeq(+, 0, SubSeq(WeightsOf(x[1]), x[2], x[2] + n - 1))

HeaviestFound ==
  \A n \in Cars :
    LET h == find_heaviest_sequence_train(n) IN
    IF h.at = -1 THEN Windows(n) = {}
    ELSE /\ <<h.at, h.start>> \in Windows(n)
         /\ \A x \in Windows(n) : WindowSum(n, x) <= WindowSum(n, <<h.at, h.start>>)

(* "Finds the overloaded train": what it finds is a train.                 *)
OverloadIsTrain == find_overload_train # -1 => power[find_overload_train] # Empty

(* The station keeps track of every car it allocated until it frees it.    *)
NoCarLost == live \subseteq UNION {ToSet(CarsOf(p)) : p \in Platforms}
=============================================================================
