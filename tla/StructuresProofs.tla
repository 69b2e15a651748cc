------------------------- MODULE StructuresProofs -------------------------
(***************************************************************************)
(* The data structures that the programs walk and relink in place, for     *)
(* tables, stations and blocks of every size: the search of the routing    *)
(* table and the corrected checksum of the router (router.c), the lists of *)
(* cars of a train station (station.c), the array of sensors packed into a *)
(* block of bytes (IOCLA, main.c) and the texts of the cipher (Cipher.c).  *)
(***************************************************************************)
EXTENDS RouteLookup, HeaderChecksum, Station, PackedArray, CipherText,
        InductionLemmas, SequenceTheorems

(***************************************************************************)
(* router.c: the search of the routing table, the corrected checksum       *)
(***************************************************************************)
NoDefault(t) == \A i \in 1 .. Len(t) : ~Default(t[i])

(* The search keeps a match only after it has left its right, and loses no *)
(* match of a table of disjoint blocks.                                    *)
Kept ==
  /\ pos = 0 => max_mask = 0
  /\ pos # 0 => pos \in Found /\ right < pos
Searched ==
  Disjoint(rtable) /\ NoDefault(rtable) =>
    \A i \in Found : i = pos \/ i \in left .. right
Ended == returned => left > right

IInv == TypeOK /\ Kept /\ Searched /\ Ended

(* ip & mask is the first address of the block of ip.                      *)
LEMMA AndBounds ==
  ASSUME NEW ip \in Nat, NEW size \in Nat \ {0}
  PROVE  /\ And(ip, size) \in Int
         /\ And(ip, size) <= ip
         /\ ip < And(ip, size) + size
<1>1. ip % size \in 0 .. size - 1
  OBVIOUS
<1> QED  BY <1>1 DEF And

(* A route covers the addresses of its block.                              *)
LEMMA Covers ==
  ASSUME NEW r \in Routes, NEW ip \in Addresses
  PROVE  /\ Net(r) \in Int /\ r.size \in Nat \ {0}
         /\ And(ip, r.size) \in Int
         /\ Matches(ip, r) => Net(r) <= ip /\ ip < Net(r) + r.size
         /\ And(ip, r.size) <= ip
         /\ ip < And(ip, r.size) + r.size
<1>1. r.prefix \in Nat /\ r.size \in Nat \ {0} /\ ip \in Nat
  <2>1. r.prefix \in 0 .. Limit - 1 /\ r.size \in Sizes /\ ip \in 0 .. Limit - 1
    BY DEF Routes, Addresses
  <2>2. r.size \in 1 .. Limit /\ Limit \in Nat
    BY <2>1, LookupConstants
  <2> QED  BY <2>1, <2>2
<1>2. And(r.prefix, r.size) \in Int
  BY <1>1, AndBounds
<1> QED  BY <1>1, <1>2, AndBounds DEF Net, Matches

LEMMA MaskRange ==
  ASSUME NEW r \in Routes PROVE Mask(r) \in 0 .. Limit - 1
<1>1. r.size \in Sizes
  BY DEF Routes
<1>2. r.size \in 1 .. Limit /\ Limit \in Nat
  BY <1>1, LookupConstants
<1> QED  BY <1>2 DEF Mask

(* The middle is between the ends.                                         *)
LEMMA MidRange ==
  ASSUME TypeOK, left <= right
  PROVE  Mid \in left .. right /\ Mid \in 1 .. Len(rtable) /\ rtable[Mid] \in Routes
<1>1. rtable \in Seq(Routes) /\ left \in 1 .. Len(rtable) + 1 /\ right \in 0 .. Len(rtable)
  BY DEF TypeOK
<1>2. Mid \in left .. right
  BY <1>1 DEF Mid
<1> QED  BY <1>1, <1>2

(* In a table of disjoint blocks only one route covers an address.         *)
LEMMA OneMatch ==
  ASSUME TypeOK, Disjoint(rtable), NEW i \in Found, NEW j \in Found
  PROVE  i = j
<1>1. i \in 1 .. Len(rtable) /\ j \in 1 .. Len(rtable)
  BY DEF Found
<1>2. rtable[i] \in Routes /\ rtable[j] \in Routes /\ dest_ip \in Addresses /\ dest_ip \in Nat
  BY <1>1, LookupConstants DEF TypeOK, Addresses
<1>3. Matches(dest_ip, rtable[i]) /\ Matches(dest_ip, rtable[j])
  BY DEF Found
<1>4. CASE Below(rtable[i], rtable[j])
  BY <1>2, <1>3, <1>4, Covers DEF Below
<1>5. CASE Below(rtable[j], rtable[i])
  BY <1>2, <1>3, <1>5, Covers DEF Below
<1> QED  BY <1>1, <1>4, <1>5 DEF Disjoint

(* Of two disjoint blocks of the table the left one is the higher.         *)
LEMMA LeftIsHigher ==
  ASSUME TypeOK, Disjoint(rtable), NEW i \in 1 .. Len(rtable), NEW j \in 1 .. Len(rtable), i < j
  PROVE  Below(rtable[j], rtable[i])
<1>1. rtable[i] \in Routes /\ rtable[j] \in Routes
  BY DEF TypeOK
<1>2. Net(rtable[i]) \in Int /\ Net(rtable[j]) \in Int
      /\ rtable[i].size \in Nat \ {0} /\ rtable[j].size \in Nat \ {0}
  <2>1. 0 \in Addresses
    BY LookupConstants DEF Addresses
  <2> QED  BY <1>1, <2>1, Covers
<1>3. ~After(rtable[i], rtable[j])
  BY DEF TypeOK, Sorted
<1>4. Below(rtable[i], rtable[j]) \/ Below(rtable[j], rtable[i])
  BY DEF Disjoint
<1>5. ~Below(rtable[i], rtable[j])
  BY <1>2, <1>3 DEF After, Below
<1> QED  BY <1>4, <1>5

LEMMA InitInv == Init => IInv
<1> SUFFICES ASSUME Init PROVE IInv
  OBVIOUS
<1>1. rtable \in Seq(Routes) /\ Sorted(rtable)
  BY LookupConstants DEF Init, Tables
<1>2. TypeOK
  <2>1. Len(rtable) \in Nat /\ 0 \in 0 .. Limit - 1
    BY <1>1, LookupConstants
  <2>2. left = 1 /\ right = Len(rtable) /\ pos = 0 /\ max_mask = 0 /\ returned = FALSE
        /\ dest_ip \in Addresses
    BY DEF Init
  <2>3. left \in 1 .. Len(rtable) + 1 /\ right \in 0 .. Len(rtable) /\ pos \in 0 .. Len(rtable)
    BY <2>1, <2>2
  <2> QED  BY <1>1, <2>1, <2>2, <2>3 DEF TypeOK
<1> QED  BY <1>1, <1>2 DEF Init, IInv, Kept, Searched, Ended, Found

LEMMA MatchInv == IInv /\ Match => IInv'
<1> SUFFICES ASSUME IInv, Match PROVE IInv'
  OBVIOUS
<1>1. Mid \in left .. right /\ Mid \in 1 .. Len(rtable) /\ rtable[Mid] \in Routes
  BY MidRange DEF IInv, Match
<1>2. TypeOK /\ Mid \in Found
  BY <1>1 DEF IInv, Match, Found
<1>3. Mask(rtable[Mid]) \in 0 .. Limit - 1
  BY <1>1, MaskRange
<1>4. UNCHANGED <<rtable, dest_ip, left, returned>> /\ right' = Mid - 1
  BY DEF Match
<1>5. \/ max_mask' = Mask(rtable[Mid]) /\ pos' = Mid /\ Mask(rtable[Mid]) > max_mask
      \/ max_mask' = max_mask /\ pos' = pos /\ ~(Mask(rtable[Mid]) > max_mask)
  BY DEF Match
<1>6. TypeOK'
  BY <1>1, <1>2, <1>3, <1>4, <1>5 DEF TypeOK
<1>7. Found' = Found
  BY <1>4 DEF Found
<1>8. Kept'
  BY <1>1, <1>2, <1>3, <1>4, <1>5, <1>7 DEF IInv, Kept, TypeOK
<1>9. Searched'
  <2> SUFFICES ASSUME Disjoint(rtable), NoDefault(rtable), NEW i \in Found
               PROVE  i = pos'
    BY <1>4, <1>7 DEF Searched
  <2>1. i = Mid
    BY <1>2, OneMatch
  <2>2. pos = 0
    <3> SUFFICES ASSUME pos # 0 PROVE FALSE
      OBVIOUS
    <3>1. pos \in Found /\ right < pos
      BY DEF IInv, Kept
    <3>2. pos = Mid
      BY <1>2, <3>1, OneMatch
    <3> QED  BY <1>1, <3>1, <3>2 DEF IInv, TypeOK
  <2>3. Mask(rtable[Mid]) > max_mask
    BY <1>1, <1>3, <2>2 DEF IInv, Kept, NoDefault, Default
  <2> QED  BY <1>5, <2>1, <2>3
<1>10. Ended'
  BY <1>4, <1>1 DEF IInv, Ended, Match, TypeOK
<1> QED  BY <1>6, <1>8, <1>9, <1>10 DEF IInv

LEMMA GoLeftInv == IInv /\ GoLeft => IInv'
<1> SUFFICES ASSUME IInv, GoLeft PROVE IInv'
  OBVIOUS
<1>1. Mid \in left .. right /\ Mid \in 1 .. Len(rtable) /\ rtable[Mid] \in Routes
  BY MidRange DEF IInv, GoLeft
<1>2. TypeOK /\ dest_ip \in Addresses /\ dest_ip \in Nat
  BY LookupConstants DEF IInv, TypeOK, Addresses
<1>3. UNCHANGED <<rtable, dest_ip, left, pos, max_mask, returned>> /\ right' = Mid - 1
  BY DEF GoLeft
<1>4. TypeOK'
  BY <1>1, <1>2, <1>3 DEF TypeOK
<1>5. Found' = Found
  BY <1>3 DEF Found
<1>6. Kept'
  BY <1>1, <1>2, <1>3, <1>5 DEF IInv, Kept, TypeOK, Found
<1>7. Searched'
  <2> SUFFICES ASSUME Disjoint(rtable), NoDefault(rtable), NEW i \in Found
               PROVE  i = pos \/ i \in left .. Mid - 1
    BY <1>3, <1>5 DEF Searched
  <2>1. i \in 1 .. Len(rtable) /\ Matches(dest_ip, rtable[i])
    BY DEF Found
  <2>2. i = pos \/ i \in left .. right
    BY DEF IInv, Searched
  <2>3. ~(Mid <= i)
    <3> SUFFICES ASSUME Mid <= i PROVE FALSE
      OBVIOUS
    <3>1. And(dest_ip, rtable[Mid].size) > Net(rtable[Mid])
      BY DEF GoLeft
    <3>2. rtable[i] \in Routes
      BY <1>2, <2>1 DEF TypeOK
    <3>3. CASE Mid = i
      BY <1>1, <1>2, <2>1, <3>1, <3>3, Covers DEF Matches
    <3>4. CASE Mid < i
      <4>1. Below(rtable[i], rtable[Mid])
        BY <1>1, <1>2, <2>1, <3>4, LeftIsHigher
      <4> QED  BY <1>1, <1>2, <2>1, <3>1, <3>2, <4>1, Covers DEF Below
    <3> QED  BY <1>1, <2>1, <3>3, <3>4
  <2> QED  BY <1>1, <1>2, <2>1, <2>2, <2>3 DEF TypeOK
<1>8. Ended'
  BY <1>1, <1>2, <1>3 DEF IInv, Ended, GoLeft, TypeOK
<1> QED  BY <1>4, <1>6, <1>7, <1>8 DEF IInv

LEMMA GoRightInv == IInv /\ GoRight => IInv'
<1> SUFFICES ASSUME IInv, GoRight PROVE IInv'
  OBVIOUS
<1>1. Mid \in left .. right /\ Mid \in 1 .. Len(rtable) /\ rtable[Mid] \in Routes
  BY MidRange DEF IInv, GoRight
<1>2. TypeOK /\ dest_ip \in Addresses /\ dest_ip \in Nat
  BY LookupConstants DEF IInv, TypeOK, Addresses
<1>3. UNCHANGED <<rtable, dest_ip, right, pos, max_mask, returned>> /\ left' = Mid + 1
  BY DEF GoRight
<1>4. TypeOK'
  BY <1>1, <1>2, <1>3 DEF TypeOK
<1>5. Found' = Found
  BY <1>3 DEF Found
<1>6. Kept'
  BY <1>3, <1>5 DEF IInv, Kept
<1>7. Searched'
  <2> SUFFICES ASSUME Disjoint(rtable), NoDefault(rtable), NEW i \in Found
               PROVE  i = pos \/ i \in Mid + 1 .. right
    BY <1>3, <1>5 DEF Searched
  <2>1. i \in 1 .. Len(rtable) /\ Matches(dest_ip, rtable[i])
    BY DEF Found
  <2>2. i = pos \/ i \in left .. right
    BY DEF IInv, Searched
  <2>3. ~(i <= Mid)
    <3> SUFFICES ASSUME i <= Mid PROVE FALSE
      OBVIOUS
    <3>1. And(dest_ip, rtable[Mid].size) < Net(rtable[Mid])
      BY DEF GoRight
    <3>2. rtable[i] \in Routes
      BY <1>2, <2>1 DEF TypeOK
    <3>3. CASE Mid = i
      BY <1>1, <1>2, <2>1, <3>1, <3>3, Covers DEF Matches
    <3>4. CASE i < Mid
      <4>1. Below(rtable[Mid], rtable[i])
        BY <1>1, <1>2, <2>1, <3>4, LeftIsHigher
      <4> QED  BY <1>1, <1>2, <2>1, <3>1, <3>2, <4>1, Covers DEF Below
    <3> QED  BY <1>1, <2>1, <3>3, <3>4
  <2> QED  BY <1>1, <1>2, <2>1, <2>2, <2>3 DEF TypeOK
<1>8. Ended'
  BY <1>1, <1>2, <1>3 DEF IInv, Ended, GoRight, TypeOK
<1> QED  BY <1>4, <1>6, <1>7, <1>8 DEF IInv

LEMMA NextInv == IInv /\ [Next]_vars => IInv'
<1> SUFFICES ASSUME IInv, [Next]_vars PROVE IInv'
  OBVIOUS
<1>1. CASE Match
  BY <1>1, MatchInv
<1>2. CASE GoLeft
  BY <1>2, GoLeftInv
<1>3. CASE GoRight
  BY <1>3, GoRightInv
<1>4. CASE Return
  BY <1>4 DEF Return, IInv, TypeOK, Kept, Searched, Ended, Found
<1>5. CASE UNCHANGED vars
  BY <1>5 DEF vars, IInv, TypeOK, Kept, Searched, Ended, Found
<1> QED  BY <1>1, <1>2, <1>3, <1>4, <1>5 DEF Next

LEMMA SearchInvariance == Spec => []IInv
<1> QED  BY InitInv, NextInv, PTL DEF Spec

(* Types, with the ends of the search inside the table.                    *)
THEOREM SearchTypes == Spec => []TypeOK
<1>1. IInv => TypeOK
  BY DEF IInv
<1> QED  BY <1>1, SearchInvariance, PTL

(* For every table, sorted by cmp, and every address: a route returned     *)
(* covers the address, and NULL is right if the blocks are disjoint and    *)
(* none is a default route.                                                *)
THEOREM FindsDisjointRoutes == Spec => []FindsDisjoint
<1>1. IInv => FindsDisjoint
  <2> SUFFICES ASSUME IInv, returned PROVE FindsDisjoint
    BY DEF FindsDisjoint
  <2>1. left > right /\ left \in Int /\ right \in Int
    BY DEF IInv, Ended, TypeOK
  <2>2. pos # 0 => pos \in Found
    BY DEF IInv, Kept
  <2>3. ASSUME Disjoint(rtable), NoDefault(rtable), NEW i \in Found
        PROVE  pos # 0
    <3>1. i = pos \/ i \in left .. right
      BY <2>3 DEF IInv, Searched
    <3>2. i \in 1 .. Len(rtable) /\ Len(rtable) \in Nat
      BY DEF Found, IInv, TypeOK
    <3> QED  BY <2>1, <3>1, <3>2
  <2> QED  BY <2>2, <2>3 DEF FindsDisjoint, NoDefault
<1> QED  BY <1>1, SearchInvariance, PTL
---------------------------------------------------------------------------
(* The corrected checksum.                                                 *)

HeaderTypes == rest \in Words /\ ttl \in 1 .. MaxTtl /\ AddsUp

(* The formula adds one.                                                   *)
LEMMA UpdateAddsOne ==
  ASSUME NEW c \in Words, NEW t \in 2 .. MaxTtl, c < Word - 1
  PROVE  Update(c, t, t - 1) = c + 1
<1>1. Word \in Nat /\ c \in Nat /\ t \in Nat
  BY WordIsLarger DEF Words
<1>2. IntNot(IntNot(c) + IntNot(t) + (t - 1)) - 1 = c + 1
  BY <1>1 DEF IntNot
<1>3. c + 1 \in 0 .. Word - 1
  BY <1>1
<1>4. (c + 1) % Word = c + 1
  BY <1>1, <1>3
<1> QED  BY <1>2, <1>4 DEF Update

LEMMA InitHeaderTypes == HeaderInit => HeaderTypes
BY WordIsLarger DEF HeaderInit, HeaderTypes, AddsUp, Checksum, Not, Fold, Words

LEMMA ForwardHeaderTypes == HeaderTypes /\ Forward => HeaderTypes'
<1> SUFFICES ASSUME HeaderTypes, Forward PROVE HeaderTypes'
  OBVIOUS
<1>1. Word \in Nat /\ MaxTtl \in Nat /\ 1 < MaxTtl /\ MaxTtl < Word - 1
  BY WordIsLarger
<1>2. rest \in 0 .. Word - 1 /\ ttl \in 2 .. MaxTtl /\ check \in 0 .. Word - 1
  BY <1>1 DEF HeaderTypes, Forward, Words, AddsUp
<1>3. check = Checksum(rest, ttl)
  BY DEF Forward
<1>4. check < Word - 1
  BY <1>1, <1>2, <1>3 DEF Checksum, Not, Fold
<1>5. check' = check + 1 /\ rest' = rest /\ ttl' = ttl - 1
  BY <1>2, <1>4, UpdateAddsOne DEF Forward, Words
<1> QED  BY <1>1, <1>2, <1>3, <1>4, <1>5 DEF HeaderTypes, AddsUp, Checksum, Not, Fold, Words

(* Whatever the header and the number of routers, a checksum that was      *)
(* right stays right for a receiver that sums the header.                  *)
THEOREM ChecksumStaysRight == HeaderSpec => []AddsUp
<1>1. HeaderTypes /\ [HeaderNext]_headerVars => HeaderTypes'
  <2>1. HeaderTypes /\ UNCHANGED headerVars => HeaderTypes'
    BY DEF headerVars, HeaderTypes, AddsUp
  <2> QED  BY <2>1, ForwardHeaderTypes DEF HeaderNext
<1>2. HeaderTypes => AddsUp
  BY DEF HeaderTypes
<1> QED  BY <1>1, <1>2, InitHeaderTypes, PTL DEF HeaderSpec
---------------------------------------------------------------------------
(***************************************************************************)
(* station.c: the lists of cars                                            *)
(***************************************************************************)
(* A function defined by recursion on 0 .. N, g[k] from k and g[k - 1].    *)
Closed(N, S, F) == \A k \in 1 .. N, x \in S : F[<<k, x>>] \in S
Iterated(g, N, S, a, F) ==
  /\ g \in [0 .. N -> S]
  /\ g[0] = a
  /\ \A k \in 1 .. N : g[k] = F[<<k, g[k - 1]>>]

LEMMA Iterates ==
  ASSUME NEW N, N \in Nat, NEW S, NEW a, a \in S, NEW F, Closed(N, S, F)
  PROVE  \E g : Iterated(g, N, S, a, F)
<1> DEFINE Upto(g, n) == g[0] = a /\ \A k \in 1 .. N : k <= n => g[k] = F[<<k, g[k - 1]>>]
           T == {n \in Nat : \E g \in [0 .. N -> S] : Upto(g, n)}
<1>1. 0 \in T
  <2> DEFINE g == [k \in 0 .. N |-> a]
  <2>1. g \in [0 .. N -> S] /\ Upto(g, 0)
    OBVIOUS
  <2> QED BY <2>1
<1>2. ASSUME NEW n \in Nat, n \in T PROVE n + 1 \in T
  <2>1. PICK g \in [0 .. N -> S] : Upto(g, n)
    BY <1>2
  <2>2. CASE n + 1 > N
    <3>1. Upto(g, n + 1)
      BY <2>1, <2>2
    <3> QED BY <3>1
  <2>3. CASE n + 1 <= N
    <3> DEFINE h == [g EXCEPT ![n + 1] = F[<<n + 1, g[n]>>]]
    <3>1. n + 1 \in 1 .. N /\ n \in 0 .. N /\ g[n] \in S
      BY <2>3
    <3>2. h \in [0 .. N -> S]
      BY <3>1 DEF Closed
    <3>3. h[n + 1] = F[<<n + 1, g[n]>>] /\ \A k \in 0 .. N : k # n + 1 => h[k] = g[k]
      BY <3>1
    <3> HIDE DEF h
    <3>4. h[0] = a
      BY <2>1, <3>3
    <3>5. ASSUME NEW k \in 1 .. N, k <= n + 1 PROVE h[k] = F[<<k, h[k - 1]>>]
      <4>1. k - 1 \in 0 .. N /\ k - 1 # n + 1 /\ h[k - 1] = g[k - 1]
        BY <3>3, <3>5
      <4>2. CASE k = n + 1
        BY <3>3, <4>1, <4>2
      <4>3. CASE k # n + 1
        <5>1. g[k] = F[<<k, g[k - 1]>>] /\ h[k] = g[k]
          BY <2>1, <3>3, <3>5, <4>3
        <5> QED BY <4>1, <5>1
      <4> QED BY <4>2, <4>3
    <3>6. Upto(h, n + 1)
      BY <3>4, <3>5
    <3> HIDE DEF Upto
    <3> QED BY <3>2, <3>6
  <2> QED BY <2>2, <2>3
<1>3. N \in T
  <2> HIDE DEF T
  <2> QED BY <1>1, <1>2, SetInduction
<1>4. PICK g \in [0 .. N -> S] : Upto(g, N)
  BY <1>3
<1>5. Iterated(g, N, S, a, F)
  BY <1>4 DEF Iterated
<1> QED BY <1>5
---------------------------------------------------------------------------
CarOrNull == 0 .. MaxCars
Firsts == [Platforms -> CarOrNull]
Nexts == [Cars -> CarOrNull]

StationTypes ==
  /\ live \subseteq Cars
  /\ weight \in [Cars -> Weights] /\ next \in Nexts
  /\ power \in [Platforms -> Powers \cup {Empty}] /\ first \in Firsts

Once(c) == \A i, j \in 1 .. Len(c) : c[i] = c[j] => i = j

(* The links lead from the platform through the cars of c, in order.       *)
Linked(c, f, n, p) ==
  /\ f[p] = IF Len(c) = 0 THEN Null ELSE c[1]
  /\ \A i \in 1 .. Len(c) : n[c[i]] = IF i = Len(c) THEN Null ELSE c[i + 1]

LEMMA BoundIs == MaxCars \in Nat
BY StationConstants

LEMMA AtIs ==
  ASSUME NEW f \in Firsts, NEW n \in Nexts, NEW p \in Platforms
  PROVE  /\ At(f, n, p) \in [0 .. MaxCars -> CarOrNull]
         /\ At(f, n, p)[0] = f[p]
         /\ \A k \in 1 .. MaxCars :
              At(f, n, p)[k] = IF At(f, n, p)[k - 1] = Null THEN Null ELSE n[At(f, n, p)[k - 1]]
<1> DEFINE V(g, k) == IF k = 0 THEN f[p] ELSE IF g[k - 1] = Null THEN Null ELSE n[g[k - 1]]
           Is(g) == g = [k \in 0 .. MaxCars |-> V(g, k)]
           F == [ks \in (1 .. MaxCars) \X CarOrNull |-> IF ks[2] = Null THEN Null ELSE n[ks[2]]]
<1>1. f[p] \in CarOrNull /\ MaxCars \in Nat /\ n \in [1 .. MaxCars -> CarOrNull]
  BY BoundIs DEF Firsts, Nexts, Cars
<1>2. Null \in CarOrNull /\ \A x \in CarOrNull : x # Null => n[x] \in CarOrNull
  BY <1>1 DEF CarOrNull, Null
<1>02. \A k \in 1 .. MaxCars, x \in CarOrNull :
        F[<<k, x>>] = (IF x = Null THEN Null ELSE n[x]) /\ F[<<k, x>>] \in CarOrNull
  BY <1>2
<1>3. PICK g : Iterated(g, MaxCars, CarOrNull, f[p], F)
  <2>1. Closed(MaxCars, CarOrNull, F)
    BY <1>02 DEF Closed
  <2> HIDE DEF F
  <2> QED BY <1>1, <2>1, Iterates
<1>4. Is(g)
  <2>1. ASSUME NEW k \in 0 .. MaxCars PROVE g[k] = V(g, k)
    <3>1. CASE k = 0
      BY <1>3, <3>1 DEF Iterated
    <3>2. CASE k # 0
      <4>1. k \in 1 .. MaxCars /\ g[k - 1] \in CarOrNull
        BY <1>1, <1>3, <3>2 DEF Iterated
      <4>2. g[k] = F[<<k, g[k - 1]>>]
        BY <1>3, <4>1 DEF Iterated
      <4> HIDE DEF F
      <4> QED BY <1>02, <3>2, <4>1, <4>2
    <3> QED BY <3>1, <3>2
  <2> HIDE DEF V, F
  <2>2. g = [k \in 0 .. MaxCars |-> g[k]]
    BY <1>3 DEF Iterated
  <2> QED BY <2>1, <2>2
<1>5. At(f, n, p) = CHOOSE g1 : Is(g1)
  BY DEF At
<1>6. Is(At(f, n, p))
  <2> HIDE DEF Is
  <2> QED BY <1>4, <1>5
<1> DEFINE at == At(f, n, p)
<1>7. at = [k \in 0 .. MaxCars |-> V(at, k)]
  BY <1>6
<1> HIDE DEF at
<1>8. at[0] = f[p] /\ \A k \in 1 .. MaxCars :
        at[k] = IF at[k - 1] = Null THEN Null ELSE n[at[k - 1]]
  BY <1>1, <1>7
<1> DEFINE T == {k \in Nat : k <= MaxCars => at[k] \in CarOrNull}
<1>9. \A k \in Nat : k \in T
  <2>1. 0 \in T
    BY <1>1, <1>8
  <2>2. ASSUME NEW k \in Nat, k \in T PROVE k + 1 \in T
    <3>1. CASE k + 1 <= MaxCars
      <4>1. at[k] \in CarOrNull /\ k + 1 \in 1 .. MaxCars /\ (k + 1) - 1 = k
        BY <1>1, <2>2, <3>1
      <4>2. at[k + 1] = IF at[k] = Null THEN Null ELSE n[at[k]]
        BY <1>8, <4>1
      <4>3. Null \in CarOrNull /\ \A x \in CarOrNull : x # Null => n[x] \in CarOrNull
        BY <1>2
      <4>4. at[k + 1] \in CarOrNull
        BY <4>1, <4>2, <4>3
      <4> QED BY <4>4
    <3>2. CASE ~(k + 1 <= MaxCars)
      BY <3>2
    <3> QED BY <3>1, <3>2
  <2> HIDE DEF T
  <2> QED BY <2>1, <2>2, SetInduction
<1>10. at \in [0 .. MaxCars -> CarOrNull]
  <2>1. \A k \in 0 .. MaxCars : at[k] \in CarOrNull
    BY <1>1, <1>9
  <2>2. at = [k \in 0 .. MaxCars |-> at[k]]
    BY <1>7
  <2> QED BY <2>1, <2>2
<1> QED BY <1>8, <1>10 DEF at

(* What a list holds is a sequence of cars.                                *)
LEMMA ListType ==
  ASSUME NEW f \in Firsts, NEW n \in Nexts, NEW p \in Platforms
  PROVE  List(f, n, p) \in Seq(Cars)
<1> DEFINE at == At(f, n, p)
           D == {k \in 0 .. MaxCars : at[k] # Null}
<1>1. /\ MaxCars \in Nat
      /\ at \in [0 .. MaxCars -> CarOrNull]
      /\ \A k \in 1 .. MaxCars : at[k] = IF at[k - 1] = Null THEN Null ELSE n[at[k - 1]]
  <2>1. at \in [0 .. MaxCars -> CarOrNull]
    BY AtIs
  <2>2. \A k \in 1 .. MaxCars : at[k] = IF at[k - 1] = Null THEN Null ELSE n[at[k - 1]]
    BY AtIs
  <2>3. MaxCars \in Nat
    BY BoundIs
  <2> HIDE DEF at
  <2> QED BY <2>1, <2>2, <2>3
<1>2. List(f, n, p) = [i \in 1 .. Cardinality(D) |-> at[i - 1]]
  BY DEF List
<1> HIDE DEF at
<1>3. \E m \in 0 .. MaxCars + 1 : D = 0 .. m - 1
  <2> DEFINE E == {k \in 0 .. MaxCars : at[k] = Null}
  <2>1. CASE E = {}
    <3>1. D = 0 .. (MaxCars + 1) - 1
      BY <1>1, <2>1
    <3> QED BY <1>1, <3>1
  <2>2. CASE E # {}
    <3>1. PICK m \in E : \A k \in E : m <= k
      <4>1. E \subseteq Nat
        OBVIOUS
      <4> HIDE DEF E
      <4> QED BY <2>2, <4>1, LeastElement
    <3> DEFINE T == {k \in Nat : m <= k /\ k <= MaxCars => at[k] = Null}
    <3>2. 0 \in T
      BY <3>1
    <3>3. ASSUME NEW k \in Nat, k \in T PROVE k + 1 \in T
      <4>1. CASE m <= k /\ k + 1 <= MaxCars
        <5>1. at[k] = Null /\ k + 1 \in 1 .. MaxCars /\ (k + 1) - 1 = k
          BY <1>1, <3>3, <4>1
        <5>2. at[k + 1] = Null
          BY <1>1, <5>1
        <5> QED BY <5>2
      <4>2. CASE ~(m <= k /\ k + 1 <= MaxCars)
        BY <3>1, <4>2
      <4> QED BY <4>1, <4>2
    <3>4. \A k \in Nat : k \in T
      <4> HIDE DEF T
      <4> QED BY <3>2, <3>3, SetInduction
    <3>5. D = 0 .. m - 1
      BY <1>1, <3>1, <3>4
    <3> QED BY <1>1, <3>1, <3>5
  <2> QED BY <2>1, <2>2
<1>4. PICK m \in 0 .. MaxCars + 1 : D = 0 .. m - 1
  BY <1>3
<1>5. Cardinality(D) = m
  <2>1. Cardinality(0 .. m - 1) = IF 0 > m - 1 THEN 0 ELSE (m - 1) - 0 + 1
    <3>1. 0 \in Int /\ m - 1 \in Int
      BY <1>1, <1>4
    <3> QED BY <3>1, FS_Interval
  <2>2. m \in Nat /\ (IF 0 > m - 1 THEN 0 ELSE (m - 1) - 0 + 1) = m
    BY <1>1, <1>4
  <2> QED BY <1>4, <2>1, <2>2
<1>6. \A i \in 1 .. m : at[i - 1] \in Cars
  <2> SUFFICES ASSUME NEW i \in 1 .. m PROVE at[i - 1] \in Cars
    OBVIOUS
  <2>1. i - 1 \in D
    BY <1>1, <1>4
  <2> QED BY <1>1, <2>1 DEF CarOrNull, Cars, Null
<1> HIDE DEF D
<1> QED BY <1>2, <1>5, <1>6, <1>1

(* No more numbers fit in 1 .. m, each once.                               *)
LEMMA Fits ==
  ASSUME NEW l \in Nat, NEW m \in Nat, NEW a, \A i \in 1 .. l : a[i] \in 1 .. m,
         \A i, j \in 1 .. l : a[i] = a[j] => i = j
  PROVE  l <= m
<1> SUFFICES ASSUME m < l PROVE FALSE
  OBVIOUS
<1> DEFINE f == [i \in 1 .. l |-> a[i]]
<1>1. IsFiniteSet(1 .. l) /\ Cardinality(1 .. l) = l
  BY FS_Interval
<1>2. IsFiniteSet(1 .. m) /\ Cardinality(1 .. m) = m
  BY FS_Interval
<1>3. f \in [1 .. l -> 1 .. m]
  OBVIOUS
<1>4. \E x, y \in 1 .. l : x # y /\ f[x] = f[y]
  <2> HIDE DEF f
  <2> QED BY <1>1, <1>2, <1>3, FS_PigeonHole
<1> QED BY <1>4

(* A linked list without a circle is what List shows.                      *)
LEMMA ListIs ==
  ASSUME NEW f, f \in Firsts, NEW n, n \in Nexts, NEW p, p \in Platforms,
         NEW c, c \in Seq(Cars), Once(c), Linked(c, f, n, p)
  PROVE  List(f, n, p) = c
<1> DEFINE at == At(f, n, p)
           D == {k \in 0 .. MaxCars : at[k] # Null}
           l == Len(c)
<1>1. /\ MaxCars \in Nat /\ l \in Nat
      /\ at[0] = f[p]
      /\ \A k \in 1 .. MaxCars : at[k] = IF at[k - 1] = Null THEN Null ELSE n[at[k - 1]]
  <2>1. MaxCars \in Nat /\ l \in Nat
    BY BoundIs
  <2>2. /\ at[0] = f[p]
        /\ \A k \in 1 .. MaxCars : at[k] = IF at[k - 1] = Null THEN Null ELSE n[at[k - 1]]
    <3> HIDE DEF D, l
    <3> QED BY AtIs
  <2> QED BY <2>1, <2>2
<1>2. /\ c = [i \in 1 .. l |-> c[i]]
      /\ \A i \in 1 .. l : c[i] \in 1 .. MaxCars /\ c[i] # Null
      /\ \A i, j \in 1 .. l : c[i] = c[j] => i = j
      /\ f[p] = IF l = 0 THEN Null ELSE c[1]
      /\ \A i \in 1 .. l : n[c[i]] = IF i = l THEN Null ELSE c[i + 1]
  BY <1>1 DEF Once, Linked, Cars, Null
<1>3. List(f, n, p) = [i \in 1 .. Cardinality(D) |-> at[i - 1]]
  BY DEF List
<1> HIDE DEF at, l
<1>4. l <= MaxCars
  BY <1>1, <1>2, Fits
<1> DEFINE T == {k \in Nat : k <= MaxCars => at[k] = IF k < l THEN c[k + 1] ELSE Null}
<1>5. 0 \in T
  BY <1>1, <1>2
<1>6. ASSUME NEW k \in Nat, k \in T PROVE k + 1 \in T
  <2>1. CASE k + 1 <= MaxCars
    <3>1. /\ at[k] = IF k < l THEN c[k + 1] ELSE Null
          /\ k + 1 \in 1 .. MaxCars /\ (k + 1) - 1 = k
      BY <1>1, <1>6, <2>1
    <3>2. at[k + 1] = IF at[k] = Null THEN Null ELSE n[at[k]]
      BY <1>1, <3>1
    <3>3. CASE k < l
      <4>1. k + 1 \in 1 .. l
        BY <1>1, <3>3
      <4>2. at[k + 1] = n[c[k + 1]]
        BY <1>2, <3>1, <3>2, <3>3, <4>1
      <4>3. at[k + 1] = IF k + 1 = l THEN Null ELSE c[k + 1 + 1]
        BY <1>2, <4>1, <4>2
      <4> QED BY <1>1, <3>3, <4>3
    <3>4. CASE ~(k < l)
      <4>1. at[k + 1] = Null /\ ~(k + 1 < l)
        BY <1>1, <3>1, <3>2, <3>4
      <4> QED BY <4>1
    <3> QED BY <3>3, <3>4
  <2>2. CASE ~(k + 1 <= MaxCars)
    BY <2>2
  <2> QED BY <2>1, <2>2
<1>7. \A k \in Nat : k \in T
  <2> HIDE DEF T
  <2> QED BY <1>5, <1>6, SetInduction
<1>8. \A k \in 0 .. MaxCars : at[k] = IF k < l THEN c[k + 1] ELSE Null
  BY <1>1, <1>7
<1>9. D = 0 .. l - 1
  <2>1. ASSUME NEW k \in 0 .. MaxCars PROVE at[k] # Null <=> k < l
    <3>1. CASE k < l
      <4>1. k + 1 \in 1 .. l /\ at[k] = c[k + 1]
        BY <1>1, <1>8, <3>1
      <4> QED BY <1>2, <3>1, <4>1
    <3>2. CASE ~(k < l)
      BY <1>8, <3>2
    <3> QED BY <3>1, <3>2
  <2> QED BY <1>1, <1>4, <2>1
<1>10. Cardinality(D) = l
  <2>1. Cardinality(0 .. l - 1) = IF 0 > l - 1 THEN 0 ELSE (l - 1) - 0 + 1
    <3>1. 0 \in Int /\ l - 1 \in Int
      BY <1>1
    <3> QED BY <3>1, FS_Interval
  <2>2. (IF 0 > l - 1 THEN 0 ELSE (l - 1) - 0 + 1) = l
    BY <1>1
  <2> QED BY <1>9, <2>1, <2>2
<1> HIDE DEF D, T
<1>11. \A i \in 1 .. l : at[i - 1] = c[i]
  <2> SUFFICES ASSUME NEW i \in 1 .. l PROVE at[i - 1] = c[i]
    OBVIOUS
  <2>1. i - 1 \in 0 .. MaxCars /\ i - 1 < l /\ (i - 1) + 1 = i
    BY <1>1, <1>4
  <2> QED BY <1>8, <2>1
<1>12. List(f, n, p) = [i \in 1 .. l |-> at[i - 1]]
  BY <1>3, <1>10
<1>13. [i \in 1 .. l |-> at[i - 1]] = [i \in 1 .. l |-> c[i]]
  BY <1>11
<1> QED BY <1>2, <1>12, <1>13
---------------------------------------------------------------------------
(* On every platform the links lead through its cars, each once, allocated *)
(* and on no other platform.                                               *)
InOrder(C, f, n, l) ==
  \A p \in Platforms : Once(C[p]) /\ Linked(C[p], f, n, p) /\ ToSet(C[p]) \subseteq l
Apart(C) == \A p, q \in Platforms : p # q => ToSet(C[p]) \cap ToSet(C[q]) = {}
Lists == [Platforms -> Seq(Cars)]
Good(C, f, n, l) == C \in Lists /\ InOrder(C, f, n, l) /\ Apart(C)

AllCars == [p \in Platforms |-> CarsOf(p)]
StationInv == StationTypes /\ Good(AllCars, first, next, live)

Weighted(c, w) == [i \in 1 .. Len(c) |-> w[c[i]]]
TrainsOf(C, w) == [p \in Platforms |-> Weighted(C[p], w)]
Train == [p \in Platforms |-> WeightsOf(p)]

LEMMA TrainIs ==
  /\ Train = TrainsOf(AllCars, weight)
  /\ Train' = TrainsOf(AllCars', weight')
BY DEF Train, TrainsOf, WeightsOf, AllCars, Weighted

LEMMA HeldIs ==
  ASSUME NEW c, c \in Seq(Cars)
  PROVE  /\ Len(c) \in Nat
         /\ \A i \in 1 .. Len(c) : c[i] \in ToSet(c) /\ c[i] \in Cars
         /\ \A x \in ToSet(c) : x \in Cars /\ \E i \in 1 .. Len(c) : c[i] = x
         /\ ToSet(c) \subseteq Cars
         /\ Len(c) = 0 <=> c = <<>>
BY DEF ToSet

(* The lists after a step are the ones its links are shown to be.          *)
LEMMA Arrived ==
  ASSUME StationTypes', NEW C, Good(C, first', next', live')
  PROVE  StationInv' /\ AllCars' = C
<1>1. ASSUME NEW p \in Platforms PROVE CarsOf(p)' = C[p]
  <2>1. /\ C[p] \in Seq(Cars) /\ Once(C[p]) /\ Linked(C[p], first', next', p)
    BY DEF Good, Lists, InOrder
  <2>2. first' \in Firsts /\ next' \in Nexts
    BY DEF StationTypes
  <2>3. List(first', next', p) = C[p]
    BY <2>1, <2>2, ListIs
  <2> QED BY <2>3 DEF CarsOf
<1>2. AllCars' = [p \in Platforms |-> CarsOf(p)']
  BY DEF AllCars
<1>3. C = [p \in Platforms |-> C[p]]
  BY DEF Good, Lists
<1>4. AllCars' = C
  BY <1>1, <1>2, <1>3
<1>5. Good(AllCars', first', next', live')
  BY <1>4
<1>6. StationInv'
  BY <1>5 DEF StationInv
<1> QED BY <1>4, <1>6

LEMMA LinkedSame ==
  ASSUME NEW c, NEW f, NEW n, NEW p, Linked(c, f, n, p),
         NEW f2, f2[p] = f[p], NEW n2, \A i \in 1 .. Len(c) : n2[c[i]] = n[c[i]]
  PROVE  Linked(c, f2, n2, p)
BY DEF Linked

(* A step that gives platform p other cars, and leaves the others alone.   *)
Spared(C, p, f, n, f2, n2, l2) ==
  \A q \in Platforms \ {p} :
    f2[q] = f[q] /\ ToSet(C[q]) \subseteq l2 /\ \A x \in ToSet(C[q]) : n2[x] = n[x]

LEMMA OnePlatform ==
  ASSUME NEW C, NEW f, NEW n, NEW l, Good(C, f, n, l), NEW p, p \in Platforms,
         NEW c, c \in Seq(Cars), Once(c),
         NEW f2, NEW n2, NEW l2, Linked(c, f2, n2, p), ToSet(c) \subseteq l2,
         Spared(C, p, f, n, f2, n2, l2),
         \A q \in Platforms \ {p} : ToSet(c) \cap ToSet(C[q]) = {}
  PROVE  Good([C EXCEPT ![p] = c], f2, n2, l2)
<1> DEFINE D == [C EXCEPT ![p] = c]
<1>1. C \in [Platforms -> Seq(Cars)] /\ InOrder(C, f, n, l) /\ Apart(C)
  BY DEF Good, Lists
<1>2. D \in Lists /\ D[p] = c /\ \A q \in Platforms \ {p} : D[q] = C[q]
  BY <1>1 DEF Lists
<1> HIDE DEF D
<1>3. ASSUME NEW q \in Platforms
      PROVE  Once(D[q]) /\ Linked(D[q], f2, n2, q) /\ ToSet(D[q]) \subseteq l2
  <2>1. CASE q = p
    BY <1>2, <2>1
  <2>2. CASE q # p
    <3>1. /\ Once(C[q]) /\ Linked(C[q], f, n, q) /\ C[q] \in Seq(Cars)
      BY <1>1 DEF InOrder
    <3>2. f2[q] = f[q] /\ ToSet(C[q]) \subseteq l2 /\ \A x \in ToSet(C[q]) : n2[x] = n[x]
      BY <2>2 DEF Spared
    <3>3. \A i \in 1 .. Len(C[q]) : n2[C[q][i]] = n[C[q][i]]
      BY <3>1, <3>2, HeldIs
    <3>4. Linked(C[q], f2, n2, q)
      BY <3>1, <3>2, <3>3, LinkedSame
    <3> QED BY <1>2, <2>2, <3>1, <3>2, <3>4
  <2> QED BY <2>1, <2>2
<1>4. Apart(D)
  <2> SUFFICES ASSUME NEW q \in Platforms, NEW r \in Platforms, q # r
               PROVE  ToSet(D[q]) \cap ToSet(D[r]) = {}
    BY DEF Apart
  <2>1. ToSet(C[q]) \cap ToSet(C[r]) = {}
    BY <1>1 DEF Apart
  <2>2. CASE q = p
    BY <1>2, <2>2
  <2>3. CASE r = p
    BY <1>2, <2>3
  <2>4. CASE q # p /\ r # p
    BY <1>2, <2>1, <2>4
  <2> QED BY <2>2, <2>3, <2>4
<1>5. InOrder(D, f2, n2, l2)
  BY <1>3 DEF InOrder
<1> QED BY <1>2, <1>4, <1>5 DEF Good, D

SameWeights(C, p, w, w2) ==
  \A q \in Platforms \ {p} : \A x \in ToSet(C[q]) : w2[x] = w[x]

LEMMA OneTrain ==
  ASSUME NEW C, C \in Lists, NEW p, p \in Platforms, NEW c, NEW w, NEW w2,
         SameWeights(C, p, w, w2)
  PROVE  TrainsOf([C EXCEPT ![p] = c], w2) = [TrainsOf(C, w) EXCEPT ![p] = Weighted(c, w2)]
<1> DEFINE D == [C EXCEPT ![p] = c]
<1>1. C \in [Platforms -> Seq(Cars)] /\ D[p] = c /\ \A q \in Platforms \ {p} : D[q] = C[q]
  BY DEF Lists
<1> HIDE DEF D
<1>2. ASSUME NEW q \in Platforms, q # p PROVE Weighted(D[q], w2) = Weighted(C[q], w)
  <2>1. \A i \in 1 .. Len(C[q]) : C[q][i] \in ToSet(C[q])
    BY <1>1, HeldIs
  <2>2. \A i \in 1 .. Len(C[q]) : w2[C[q][i]] = w[C[q][i]]
    BY <1>2, <2>1 DEF SameWeights
  <2>3. D[q] = C[q]
    BY <1>1, <1>2
  <2> QED BY <2>2, <2>3 DEF Weighted
<1>3. [q \in Platforms |-> Weighted(D[q], w2)]
        = [[q \in Platforms |-> Weighted(C[q], w)] EXCEPT ![p] = Weighted(c, w2)]
  BY <1>1, <1>2
<1> QED BY <1>3 DEF TrainsOf, D

(* What Free leaves of the cars it does not free.                          *)
LEMMA Freed ==
  ASSUME StationTypes, NEW gone, NEW n, n \in Nexts, Free(gone, n)
  PROVE  /\ live' \subseteq Cars /\ live' = live \ gone
         /\ weight' \in [Cars -> Weights] /\ next' \in Nexts
         /\ \A x \in Cars \ gone : weight'[x] = weight[x] /\ next'[x] = n[x]
<1>1. Lightest \in Weights
  <2>1. PICK least \in Weights : \A y \in Weights : least <= y
    <3>1. Weights \subseteq Nat /\ Weights # {}
      BY StationConstants
    <3> QED BY <3>1, LeastElement
  <2>2. Lightest = CHOOSE x \in Weights : \A y \in Weights : x =< y
    BY DEF Lightest, Min
  <2> QED BY <2>1, <2>2
<1>2. Null \in CarOrNull
  BY StationConstants DEF Null, CarOrNull
<1>3. weight' = Wipe(weight, gone, Lightest) /\ next' = Wipe(n, gone, Null) /\ live' = live \ gone
  BY DEF Free
<1>4. weight' \in [Cars -> Weights] /\ next' \in [Cars -> CarOrNull]
  BY <1>1, <1>2, <1>3 DEF StationTypes, Nexts, Wipe
<1>5. \A x \in Cars \ gone : weight'[x] = weight[x] /\ next'[x] = n[x]
  BY <1>3 DEF Wipe
<1> QED BY <1>3, <1>4, <1>5 DEF StationTypes, Nexts

Powered == power' \in [Platforms -> Powers \cup {Empty}]

(* A step that frees some cars of one platform and relinks the others.     *)
LEMMA Thinned ==
  ASSUME StationInv, NEW p, p \in Platforms, NEW c, c \in Seq(Cars), Once(c),
         NEW gone, gone \subseteq ToSet(CarsOf(p)),
         ToSet(c) \subseteq ToSet(CarsOf(p)) \ gone,
         NEW n, n \in Nexts, \A x \in Cars \ ToSet(CarsOf(p)) : n[x] = next[x],
         first' \in Firsts, \A q \in Platforms \ {p} : first'[q] = first[q],
         Linked(c, first', n, p), Free(gone, n), Powered
  PROVE  StationInv' /\ Train' = [Train EXCEPT ![p] = Weighted(c, weight)]
<1> DEFINE C == AllCars
           D == [C EXCEPT ![p] = c]
<1>1. /\ C \in Lists /\ InOrder(C, first, next, live) /\ Apart(C) /\ StationTypes
      /\ Good(C, first, next, live) /\ C[p] = CarsOf(p)
  BY DEF StationInv, Good, AllCars
<1> HIDE DEF C
<1>2. /\ live' \subseteq Cars /\ live' = live \ gone
      /\ weight' \in [Cars -> Weights] /\ next' \in Nexts
      /\ \A x \in Cars \ gone : weight'[x] = weight[x] /\ next'[x] = n[x]
  BY <1>1, Freed
<1>3. \A q \in Platforms : C[q] \in Seq(Cars) /\ ToSet(C[q]) \subseteq live /\ ToSet(C[q]) \subseteq Cars
  BY <1>1, HeldIs DEF Lists, InOrder
<1>4. ASSUME NEW q \in Platforms \ {p}
      PROVE  /\ ToSet(C[q]) \cap ToSet(C[p]) = {}
             /\ ToSet(c) \cap ToSet(C[q]) = {}
             /\ ToSet(C[q]) \subseteq live'
             /\ \A x \in ToSet(C[q]) : next'[x] = next[x] /\ weight'[x] = weight[x]
  <2>1. ToSet(C[q]) \cap ToSet(C[p]) = {}
    BY <1>1 DEF Apart
  <2> QED BY <1>1, <1>2, <1>3, <2>1
<1>5. Spared(C, p, first, next, first', next', live')
  BY <1>4 DEF Spared
<1>6. ToSet(c) \subseteq live' /\ \A x \in ToSet(c) : next'[x] = n[x] /\ weight'[x] = weight[x]
  <2>1. ToSet(c) \subseteq live \ gone /\ ToSet(c) \subseteq Cars
    BY <1>1, <1>3
  <2> QED BY <1>2, <2>1
<1>7. Linked(c, first', next', p)
  <2>1. \A i \in 1 .. Len(c) : next'[c[i]] = n[c[i]]
    BY <1>6, HeldIs
  <2> QED BY <2>1, LinkedSame
<1>8. Good(D, first', next', live')
  <2> HIDE DEF D
  <2>1. \A q \in Platforms \ {p} : ToSet(c) \cap ToSet(C[q]) = {}
    BY <1>4
  <2> QED BY <1>1, <1>5, <1>6, <1>7, <2>1, OnePlatform DEF D
<1>9. StationTypes'
  BY <1>1, <1>2 DEF StationTypes, Powered
<1>10. StationInv' /\ AllCars' = D
  <2> HIDE DEF D
  <2> QED BY <1>8, <1>9, Arrived
<1>11. Train' = TrainsOf(D, weight') /\ Train = TrainsOf(C, weight)
  <2> HIDE DEF D
  <2> QED BY <1>10, TrainIs DEF C
<1>12. Weighted(c, weight') = Weighted(c, weight)
  <2>1. \A i \in 1 .. Len(c) : weight'[c[i]] = weight[c[i]]
    BY <1>6, HeldIs
  <2> QED BY <2>1 DEF Weighted
<1>13. TrainsOf([C EXCEPT ![p] = c], weight')
         = [TrainsOf(C, weight) EXCEPT ![p] = Weighted(c, weight')]
  <2>1. SameWeights(C, p, weight, weight')
    BY <1>4 DEF SameWeights
  <2> QED BY <1>1, <2>1, OneTrain
<1> QED BY <1>10, <1>11, <1>12, <1>13

LEMMA NoCars ==
  /\ <<>> \in Seq(Cars) /\ Once(<<>>) /\ ToSet(<<>>) = {} /\ Len(<<>>) = 0
  /\ \A w : Weighted(<<>>, w) = <<>>
  /\ \A f, n, p : f[p] = Null => Linked(<<>>, f, n, p)
BY DEF Once, ToSet, Weighted, Linked

LEMMA NullOk == Null \in CarOrNull /\ \A c \in Cars : c \in CarOrNull /\ c # Null
BY StationConstants DEF Null, CarOrNull, Cars

LEMMA LeaveStep ==
  ASSUME StationInv, NEW p \in Platforms, leave_train(p)
  PROVE  StationInv' /\ Yard!Leave(p)
<1>1. StationTypes /\ first \in Firsts /\ next \in Nexts
  BY DEF StationInv, StationTypes
<1>2. first' \in Firsts /\ first'[p] = Null /\ \A q \in Platforms \ {p} : first'[q] = first[q]
  <2>1. first' = [first EXCEPT ![p] = Null]
    BY DEF leave_train
  <2> QED BY <1>1, <2>1, NullOk DEF Firsts
<1>3. Powered
  BY <1>1 DEF leave_train, StationTypes, Powered
<1>4. Linked(<<>>, first', next, p)
  BY <1>2, NoCars
<1>5. Free(ToSet(CarsOf(p)), next)
  BY DEF leave_train
<1>6. StationInv' /\ Train' = [Train EXCEPT ![p] = Weighted(<<>>, weight)]
  <2>1. ToSet(<<>>) \subseteq ToSet(CarsOf(p)) \ ToSet(CarsOf(p))
    BY NoCars
  <2>2. \A x \in Cars \ ToSet(CarsOf(p)) : next[x] = next[x]
    OBVIOUS
  <2>3. <<>> \in Seq(Cars) /\ Once(<<>>)
    BY NoCars
  <2> QED BY <1>1, <1>2, <1>3, <1>4, <1>5, <2>1, <2>2, <2>3, Thinned
<1>7. Train' = [Train EXCEPT ![p] = <<>>]
  BY <1>6, NoCars
<1>8. Yard!Leave(p)
  BY <1>7 DEF leave_train, Yard!Leave, Yard!Empty, Empty, Train
<1> QED BY <1>6, <1>8

LEMMA ArriveStep ==
  ASSUME StationInv, NEW p \in Platforms, NEW l \in Powers, arrive_train(p, l)
  PROVE  StationInv' /\ Yard!Arrive(p, l)
<1> DEFINE C == AllCars
           D == [C EXCEPT ![p] = <<>>]
<1>1. /\ C \in Lists /\ Good(C, first, next, live) /\ StationTypes
      /\ \A q \in Platforms : ToSet(C[q]) \subseteq live
  BY DEF StationInv, Good, InOrder
<1> HIDE DEF C
<1>2. /\ live' = live /\ weight' = weight /\ next' = next
      /\ first' \in Firsts /\ first'[p] = Null /\ \A q \in Platforms \ {p} : first'[q] = first[q]
      /\ power' \in [Platforms -> Powers \cup {Empty}]
  BY <1>1, NullOk DEF arrive_train, StationTypes, Firsts
<1>3. StationTypes'
  BY <1>1, <1>2 DEF StationTypes
<1>4. Good(D, first', next', live')
  <2>1. Spared(C, p, first, next, first', next', live')
    BY <1>1, <1>2 DEF Spared
  <2>2. Linked(<<>>, first', next', p) /\ ToSet(<<>>) \subseteq live'
    BY <1>2, NoCars
  <2>3. \A q \in Platforms \ {p} : ToSet(<<>>) \cap ToSet(C[q]) = {}
    BY NoCars
  <2>4. <<>> \in Seq(Cars) /\ Once(<<>>)
    BY NoCars
  <2> QED BY <1>1, <2>1, <2>2, <2>3, <2>4, OnePlatform
<1>5. StationInv' /\ AllCars' = D
  <2> HIDE DEF D
  <2> QED BY <1>3, <1>4, Arrived
<1>6. Train' = TrainsOf(D, weight') /\ Train = TrainsOf(C, weight)
  <2> HIDE DEF D
  <2> QED BY <1>5, TrainIs DEF C
<1>7. TrainsOf([C EXCEPT ![p] = <<>>], weight')
        = [TrainsOf(C, weight) EXCEPT ![p] = Weighted(<<>>, weight')]
  <2>1. SameWeights(C, p, weight, weight')
    BY <1>2 DEF SameWeights
  <2>2. PICK none : none = <<>>
    OBVIOUS
  <2>3. TrainsOf([C EXCEPT ![p] = none], weight')
          = [TrainsOf(C, weight) EXCEPT ![p] = Weighted(none, weight')]
    BY <1>1, <2>1, OneTrain
  <2> QED BY <2>2, <2>3
<1>8. Train' = [Train EXCEPT ![p] = <<>>]
  BY <1>6, <1>7, NoCars
<1>9. Yard!Arrive(p, l)
  BY <1>8 DEF arrive_train, Yard!Arrive, Yard!Empty, Empty, Train
<1> QED BY <1>5, <1>9

(* The car allocated is the first that is free.                            *)
LEMMA FreshIs ==
  ASSUME live \subseteq Cars, live # Cars
  PROVE  Min(Cars \ live) \in Cars /\ Min(Cars \ live) \notin live
<1>1. Cars \ live \subseteq Nat /\ Cars \ live # {}
  <2>1. Cars \subseteq Nat
    BY StationConstants DEF Cars
  <2>2. Cars \ live # {}
    OBVIOUS
  <2> QED BY <2>1, <2>2
<1>2. PICK x \in Cars \ live : \A y \in Cars \ live : x <= y
  BY <1>1, LeastElement
<1>3. Min(Cars \ live) \in Cars \ live
  BY <1>2 DEF Min
<1> QED BY <1>3

LEMMA AppendIs ==
  ASSUME NEW S, NEW c, c \in Seq(S), NEW x, x \in S
  PROVE  /\ Append(c, x) \in Seq(S) /\ Len(Append(c, x)) = Len(c) + 1
         /\ Append(c, x)[Len(c) + 1] = x /\ \A i \in 1 .. Len(c) : Append(c, x)[i] = c[i]
         /\ ToSet(Append(c, x)) = ToSet(c) \cup {x}
<1>1. /\ Append(c, x) \in Seq(S) /\ Len(Append(c, x)) = Len(c) + 1 /\ Len(c) \in Nat
      /\ Append(c, x)[Len(c) + 1] = x /\ \A i \in 1 .. Len(c) : Append(c, x)[i] = c[i]
  OBVIOUS
<1>2. DOMAIN Append(c, x) = 1 .. Len(c) + 1 /\ DOMAIN c = 1 .. Len(c)
  BY <1>1
<1> DEFINE d == Append(c, x)
           l == Len(c)
<1> HIDE DEF d, l
<1>3. {d[i] : i \in 1 .. l + 1} = {c[i] : i \in 1 .. l} \cup {x}
  <2>1. \A i \in 1 .. l + 1 : i \in 1 .. l \/ i = l + 1
    BY <1>1 DEF l
  <2>2. \A i \in 1 .. l : i \in 1 .. l + 1 /\ d[i] = c[i]
    BY <1>1 DEF l, d
  <2>3. d[l + 1] = x /\ l + 1 \in 1 .. l + 1
    BY <1>1 DEF l, d
  <2> QED BY <2>1, <2>2, <2>3
<1> QED BY <1>1, <1>2, <1>3 DEF ToSet, d, l

LEMMA AddStep ==
  ASSUME StationInv, NEW p \in Platforms, NEW w \in Weights, add_train_car(p, w)
  PROVE  StationInv' /\ Yard!Add(p, w)
<1> DEFINE C == AllCars
           c == CarsOf(p)
           x == Min(Cars \ live)
           d == Append(c, x)
           D == [C EXCEPT ![p] = d]
<1>1. /\ C \in Lists /\ Good(C, first, next, live) /\ StationTypes
      /\ InOrder(C, first, next, live) /\ Apart(C) /\ C[p] = c
      /\ \A q \in Platforms : ToSet(C[q]) \subseteq live
      /\ live \subseteq Cars /\ next \in Nexts /\ first \in Firsts /\ MaxCars \in Nat
  BY BoundIs DEF StationInv, Good, InOrder, AllCars, StationTypes
<1>2. /\ c \in Seq(Cars) /\ Once(c) /\ Linked(c, first, next, p)
      /\ ToSet(c) \subseteq live /\ ToSet(c) \subseteq Cars /\ Len(c) \in Nat
      /\ \A i \in 1 .. Len(c) : c[i] \in ToSet(c)
  BY <1>1, HeldIs DEF InOrder, Lists
<1>3. x \in Cars /\ x \notin live
  BY <1>1, FreshIs DEF add_train_car
<1>4. /\ live' = live \cup {x} /\ weight' = [weight EXCEPT ![x] = w] /\ power' = power
      /\ power[p] # Empty
      /\ IF first[p] = Null
         THEN first' = [first EXCEPT ![p] = x] /\ next' = [next EXCEPT ![x] = Null]
         ELSE next' = [next EXCEPT ![x] = Null, ![c[Len(c)]] = x] /\ first' = first
  BY DEF add_train_car, Last
<1>5. /\ d \in Seq(Cars) /\ Len(d) = Len(c) + 1 /\ d[Len(c) + 1] = x
      /\ \A i \in 1 .. Len(c) : d[i] = c[i]
      /\ ToSet(d) = ToSet(c) \cup {x}
  <2> HIDE DEF c, x
  <2> QED BY <1>2, <1>3, AppendIs
<1> HIDE DEF C, c, x, d
<1>6. first[p] = Null <=> Len(c) = 0
  BY <1>2, NullOk DEF Linked
<1>7. /\ next' \in Nexts /\ next'[x] = Null
      /\ Len(c) # 0 => next'[c[Len(c)]] = x
      /\ \A y \in Cars : y # x /\ (Len(c) = 0 \/ y # c[Len(c)]) => next'[y] = next[y]
  <2>1. CASE Len(c) = 0
    BY <1>1, <1>3, <1>4, <1>6, <2>1, NullOk DEF Nexts
  <2>2. CASE Len(c) # 0
    <3>1. c[Len(c)] \in Cars /\ c[Len(c)] # x
      BY <1>2, <1>3, <2>2
    <3>2. next' = [next EXCEPT ![x] = Null, ![c[Len(c)]] = x]
      BY <1>4, <1>6, <2>2
    <3> QED BY <1>1, <1>3, <2>2, <3>1, <3>2, NullOk DEF Nexts
  <2> QED BY <2>1, <2>2
<1>8. /\ first' \in Firsts /\ first'[p] = IF Len(c) = 0 THEN x ELSE c[1]
      /\ \A q \in Platforms \ {p} : first'[q] = first[q]
  <2>1. CASE Len(c) = 0
    BY <1>1, <1>3, <1>4, <1>6, <2>1, NullOk DEF Firsts
  <2>2. CASE Len(c) # 0
    BY <1>1, <1>2, <1>4, <1>6, <2>2 DEF Linked
  <2> QED BY <2>1, <2>2
<1>9. StationTypes'
  BY <1>1, <1>3, <1>4, <1>7, <1>8 DEF StationTypes
<1>10. Once(d)
  <2> SUFFICES ASSUME NEW i \in 1 .. Len(d), NEW j \in 1 .. Len(d), d[i] = d[j] PROVE i = j
    BY DEF Once
  <2>1. \A k \in 1 .. Len(d) : k \in 1 .. Len(c) \/ k = Len(c) + 1
    BY <1>2, <1>5
  <2>2. \A k \in 1 .. Len(c) : d[k] = c[k] /\ d[k] # x
    BY <1>2, <1>3, <1>5
  <2>3. \A a, b \in 1 .. Len(c) : c[a] = c[b] => a = b
    BY <1>2 DEF Once
  <2> QED BY <1>5, <2>1, <2>2, <2>3
<1>11. Linked(d, first', next', p)
  <2>1. first'[p] = IF Len(d) = 0 THEN Null ELSE d[1]
    BY <1>2, <1>5, <1>8
  <2>2. ASSUME NEW i \in 1 .. Len(d)
        PROVE  next'[d[i]] = IF i = Len(d) THEN Null ELSE d[i + 1]
    <3>1. CASE i = Len(c) + 1
      BY <1>5, <1>7, <3>1
    <3>2. CASE i = Len(c)
      BY <1>2, <1>5, <1>7, <2>2, <3>2
    <3>3. CASE i # Len(c) /\ i # Len(c) + 1
      <4>1. i \in 1 .. Len(c) /\ i + 1 \in 1 .. Len(c) /\ Len(c) \in 1 .. Len(c) /\ i # Len(d)
        BY <1>2, <1>5, <3>3
      <4>2. c[i] # c[Len(c)] /\ c[i] # x /\ c[i] \in Cars
        BY <1>2, <1>3, <3>3, <4>1 DEF Once
      <4>3. next'[c[i]] = next[c[i]]
        BY <1>7, <4>2
      <4>4. next[c[i]] = c[i + 1]
        BY <1>2, <3>3, <4>1 DEF Linked
      <4> QED BY <1>5, <4>1, <4>3, <4>4
    <3> QED BY <3>1, <3>2, <3>3
  <2> QED BY <2>1, <2>2 DEF Linked
<1>12. ASSUME NEW q \in Platforms \ {p}
       PROVE  /\ ToSet(d) \cap ToSet(C[q]) = {} /\ ToSet(C[q]) \subseteq live'
              /\ \A y \in ToSet(C[q]) : next'[y] = next[y] /\ weight'[y] = weight[y]
  <2>1. ToSet(C[q]) \cap ToSet(C[p]) = {} /\ ToSet(C[q]) \subseteq live
    BY <1>1 DEF Apart
  <2>2. x \notin ToSet(C[q])
    BY <1>3, <2>1
  <2>3. ASSUME NEW y \in ToSet(C[q]) PROVE next'[y] = next[y] /\ weight'[y] = weight[y]
    <3>1. y # x /\ y \in Cars /\ y \notin ToSet(c)
      BY <1>1, <2>1, <2>2
    <3>2. Len(c) # 0 => y # c[Len(c)]
      BY <1>2, <3>1
    <3>3. weight \in [Cars -> Weights]
      BY <1>1 DEF StationTypes
    <3> QED BY <1>3, <1>4, <1>7, <3>1, <3>2, <3>3
  <2> QED BY <1>1, <1>4, <1>5, <2>1, <2>2, <2>3
<1>13. Good(D, first', next', live')
  <2>1. Spared(C, p, first, next, first', next', live')
    BY <1>8, <1>12 DEF Spared
  <2>2. ToSet(d) \subseteq live'
    BY <1>2, <1>4, <1>5
  <2>3. \A q \in Platforms \ {p} : ToSet(d) \cap ToSet(C[q]) = {}
    BY <1>12
  <2> QED BY <1>1, <1>5, <1>10, <1>11, <2>1, <2>2, <2>3, OnePlatform
<1>14. StationInv' /\ AllCars' = D
  <2> HIDE DEF D
  <2> QED BY <1>9, <1>13, Arrived
<1>15. Train' = TrainsOf(D, weight') /\ Train = TrainsOf(C, weight)
  <2> HIDE DEF D
  <2> QED BY <1>14, TrainIs DEF C
<1>16. TrainsOf([C EXCEPT ![p] = d], weight')
         = [TrainsOf(C, weight) EXCEPT ![p] = Weighted(d, weight')]
  <2>1. SameWeights(C, p, weight, weight')
    BY <1>12 DEF SameWeights
  <2> QED BY <1>1, <2>1, OneTrain
<1>17. Weighted(d, weight') = Append(Weighted(c, weight), w)
  <2>1. weight \in [Cars -> Weights]
    BY <1>1 DEF StationTypes
  <2>2. ASSUME NEW i \in 1 .. Len(c) PROVE weight'[d[i]] = weight[c[i]]
    <3>1. d[i] = c[i] /\ c[i] \in Cars /\ c[i] # x
      BY <1>2, <1>3, <1>5
    <3> QED BY <1>4, <2>1, <3>1
  <2>3. weight'[d[Len(c) + 1]] = w
    BY <1>3, <1>4, <1>5, <2>1
  <2> DEFINE e == [i \in 1 .. Len(c) |-> weight[c[i]]]
  <2>4. e \in Seq(Weights) /\ Len(e) = Len(c)
    BY <1>2, <2>1
  <2>5. Append(e, w) = [i \in 1 .. Len(c) + 1 |-> IF i = Len(c) + 1 THEN w ELSE weight[c[i]]]
    BY <1>2, <2>4
  <2>6. [i \in 1 .. Len(d) |-> weight'[d[i]]]
          = [i \in 1 .. Len(c) + 1 |-> IF i = Len(c) + 1 THEN w ELSE weight[c[i]]]
    <3>1. \A i \in 1 .. Len(c) + 1 : i = Len(c) + 1 \/ i \in 1 .. Len(c)
      BY <1>2
    <3> QED BY <1>5, <2>2, <2>3, <3>1
  <2> QED BY <2>5, <2>6 DEF Weighted
<1>18. Train' = [Train EXCEPT ![p] = Append(Train[p], w)]
  <2>1. TrainsOf(C, weight)[p] = Weighted(c, weight)
    BY <1>1 DEF TrainsOf
  <2> QED BY <1>15, <1>16, <1>17, <2>1
<1>19. Yard!Add(p, w)
  BY <1>4, <1>18 DEF Yard!Add, Yard!Empty, Empty, Train
<1> QED BY <1>14, <1>19

LEMMA CloseStep ==
  ASSUME StationInv, close_train_station
  PROVE  StationInv' /\ Yard!Close
<1> DEFINE gone == UNION {ToSet(CarsOf(p)) : p \in Platforms}
           D == [p \in Platforms |-> <<>>]
<1>1. StationTypes /\ next \in Nexts
  BY DEF StationInv, StationTypes
<1>2. Free(gone, next)
  BY DEF close_train_station
<1> HIDE DEF gone
<1>3. live' \subseteq Cars /\ weight' \in [Cars -> Weights] /\ next' \in Nexts
  BY <1>1, <1>2, Freed
<1>4. first' = [p \in Platforms |-> Null] /\ power' = [p \in Platforms |-> Empty]
  BY DEF close_train_station
<1>5. StationTypes'
  BY <1>3, <1>4, NullOk DEF StationTypes, Firsts
<1>6. Good(D, first', next', live')
  <2>1. \A p \in Platforms : D[p] = <<>> /\ first'[p] = Null
    BY <1>4
  <2>2. D \in Lists
    BY NoCars DEF Lists
  <2> HIDE DEF D
  <2> QED BY <2>1, <2>2, NoCars DEF Good, InOrder, Apart
<1>7. StationInv' /\ AllCars' = D
  <2> HIDE DEF D
  <2> QED BY <1>5, <1>6, Arrived
<1>8. Train' = TrainsOf(D, weight')
  <2> HIDE DEF D
  <2> QED BY <1>7, TrainIs
<1>9. Train' = [p \in Platforms |-> <<>>]
  BY <1>8, NoCars DEF TrainsOf
<1>10. Yard!Close
  BY <1>4, <1>9 DEF Yard!Close, Yard!Empty, Empty, Train
<1> QED BY <1>7, <1>10
---------------------------------------------------------------------------
(* A sequence without the n elements from position i, and with those n     *)
(* before position j of another.                                           *)
CutOut(s, i, n) == SubSeq(s, 1, i - 1) \o SubSeq(s, i + n, Len(s))
Spliced(t, s, i, n, j) ==
  SubSeq(t, 1, j - 1) \o SubSeq(s, i, i + n - 1) \o SubSeq(t, j, Len(t))

IsCut(e, s, i, n) ==
  /\ Len(e) = Len(s) - n
  /\ \A k \in 1 .. Len(s) - n : e[k] = IF k < i THEN s[k] ELSE s[k + n]
IsSpliced(e, t, s, i, n, j) ==
  /\ Len(e) = Len(t) + n
  /\ \A k \in 1 .. Len(t) + n :
       e[k] = IF k < j THEN t[k] ELSE IF k < j + n THEN s[i + k - j] ELSE t[k - n]

LEMMA CutIs ==
  ASSUME NEW S, NEW s, s \in Seq(S), NEW i, i \in Nat \ {0}, NEW n, n \in Nat \ {0},
         i + n - 1 <= Len(s)
  PROVE  CutOut(s, i, n) \in Seq(S) /\ IsCut(CutOut(s, i, n), s, i, n)
<1> DEFINE x == SubSeq(s, 1, i - 1)
           y == SubSeq(s, i + n, Len(s))
           l == Len(s)
<1>1. l \in Nat /\ i \in Int /\ n \in Int /\ i >= 1 /\ n >= 1 /\ i + n - 1 <= l
  OBVIOUS
<1>2. x \in Seq(S) /\ Len(x) = i - 1 /\ \A k \in 1 .. i - 1 : x[k] = s[k]
  OBVIOUS
<1>3. y \in Seq(S) /\ Len(y) = l - (i + n) + 1 /\ \A k \in 1 .. l - (i + n) + 1 : y[k] = s[i + n + k - 1]
  <2>1. i + n \in Int /\ Len(s) \in Int /\ \A k \in i + n .. Len(s) : s[k] \in S
    OBVIOUS
  <2>2. /\ y \in Seq(S) /\ Len(y) = (IF i + n <= Len(s) THEN Len(s) - (i + n) + 1 ELSE 0)
        /\ \A k \in 1 .. Len(s) - (i + n) + 1 : y[k] = s[i + n + k - 1]
    BY <2>1, SubSeqProperties
  <2> QED BY <1>1, <2>2
<1> HIDE DEF x, y, l
<1>4. /\ x \o y \in Seq(S) /\ Len(x \o y) = Len(x) + Len(y)
      /\ \A k \in 1 .. Len(x) + Len(y) : (x \o y)[k] = IF k <= Len(x) THEN x[k] ELSE y[k - Len(x)]
  BY <1>2, <1>3, ConcatProperties
<1>5. Len(x) + Len(y) = l - n
  BY <1>1, <1>2, <1>3
<1>6. ASSUME NEW k \in 1 .. l - n PROVE (x \o y)[k] = IF k < i THEN s[k] ELSE s[k + n]
  <2>1. CASE k < i
    BY <1>1, <1>2, <1>4, <1>5, <2>1
  <2>2. CASE ~(k < i)
    <3>1. ~(k <= Len(x)) /\ k - Len(x) \in 1 .. l - (i + n) + 1 /\ i + n + (k - Len(x)) - 1 = k + n
      BY <1>1, <1>2, <2>2
    <3>2. (x \o y)[k] = y[k - Len(x)]
      BY <1>4, <1>5, <3>1
    <3>3. y[k - Len(x)] = s[i + n + (k - Len(x)) - 1]
      BY <1>3, <3>1
    <3> QED BY <2>2, <3>1, <3>2, <3>3
  <2> QED BY <2>1, <2>2
<1>7. CutOut(s, i, n) = x \o y
  BY DEF CutOut, x, y
<1>8. IsCut(x \o y, s, i, n)
  BY <1>4, <1>5, <1>6 DEF IsCut, l
<1> QED BY <1>4, <1>7, <1>8

LEMMA SpliceIs ==
  ASSUME NEW S, NEW s, s \in Seq(S), NEW i, i \in Nat \ {0}, NEW n, n \in Nat \ {0},
         i + n - 1 <= Len(s), NEW t, t \in Seq(S), NEW j, j \in Nat \ {0}, j - 1 <= Len(t)
  PROVE  Spliced(t, s, i, n, j) \in Seq(S) /\ IsSpliced(Spliced(t, s, i, n, j), t, s, i, n, j)
<1> DEFINE x == SubSeq(t, 1, j - 1)
           y == SubSeq(s, i, i + n - 1)
           z == SubSeq(t, j, Len(t))
           l == Len(t)
<1>1. /\ l \in Nat /\ i \in Int /\ n \in Int /\ i >= 1 /\ n >= 1 /\ i + n - 1 <= Len(s)
      /\ j \in Int /\ j >= 1 /\ j - 1 <= l /\ Len(s) \in Nat
  OBVIOUS
<1>2. x \in Seq(S) /\ Len(x) = j - 1 /\ \A k \in 1 .. j - 1 : x[k] = t[k]
  OBVIOUS
<1>3. y \in Seq(S) /\ Len(y) = n /\ \A k \in 1 .. n : y[k] = s[i + k - 1]
  <2>1. i \in Int /\ i + n - 1 \in Int /\ \A k \in i .. i + n - 1 : s[k] \in S
    OBVIOUS
  <2>2. /\ y \in Seq(S) /\ Len(y) = (IF i <= i + n - 1 THEN i + n - 1 - i + 1 ELSE 0)
        /\ \A k \in 1 .. (i + n - 1) - i + 1 : y[k] = s[i + k - 1]
    BY <2>1, SubSeqProperties
  <2> QED BY <1>1, <2>2
<1>4. z \in Seq(S) /\ Len(z) = l - j + 1 /\ \A k \in 1 .. l - j + 1 : z[k] = t[j + k - 1]
  <2>1. j \in Int /\ Len(t) \in Int /\ \A k \in j .. Len(t) : t[k] \in S
    OBVIOUS
  <2>2. /\ z \in Seq(S) /\ Len(z) = (IF j <= Len(t) THEN Len(t) - j + 1 ELSE 0)
        /\ \A k \in 1 .. Len(t) - j + 1 : z[k] = t[j + k - 1]
    BY <2>1, SubSeqProperties, SMTT(30)
  <2> QED BY <1>1, <2>2
<1> HIDE DEF x, y, z, l
<1> DEFINE u == x \o y
<1>5. /\ u \in Seq(S) /\ Len(u) = j - 1 + n
      /\ \A k \in 1 .. j - 1 + n : u[k] = IF k < j THEN t[k] ELSE s[i + k - j]
  <2>1. /\ u \in Seq(S) /\ Len(u) = Len(x) + Len(y)
        /\ \A k \in 1 .. Len(x) + Len(y) : u[k] = IF k <= Len(x) THEN x[k] ELSE y[k - Len(x)]
    <3>1. x \in Seq(S) /\ y \in Seq(S)
      BY <1>2, <1>3
    <3> QED BY <3>1, ConcatProperties
  <2> HIDE DEF u
  <2>2. ASSUME NEW k \in 1 .. j - 1 + n PROVE u[k] = IF k < j THEN t[k] ELSE s[i + k - j]
    <3>1. CASE k < j
      BY <1>1, <1>2, <1>3, <2>1, <3>1
    <3>2. CASE ~(k < j)
      <4>1. ~(k <= Len(x)) /\ k - Len(x) \in 1 .. n /\ i + (k - Len(x)) - 1 = i + k - j
        BY <1>1, <1>2, <3>2
      <4>2. u[k] = y[k - Len(x)]
        BY <1>2, <1>3, <2>1, <4>1
      <4> QED BY <1>3, <3>2, <4>1, <4>2
    <3> QED BY <3>1, <3>2
  <2> QED BY <1>2, <1>3, <2>1, <2>2
<1> HIDE DEF u
<1>6. /\ u \o z \in Seq(S) /\ Len(u \o z) = Len(u) + Len(z)
      /\ \A k \in 1 .. Len(u) + Len(z) : (u \o z)[k] = IF k <= Len(u) THEN u[k] ELSE z[k - Len(u)]
  BY <1>4, <1>5, ConcatProperties
<1>7. Len(u) + Len(z) = l + n
  BY <1>1, <1>4, <1>5
<1>8. ASSUME NEW k \in 1 .. l + n
      PROVE  (u \o z)[k] = IF k < j THEN t[k] ELSE IF k < j + n THEN s[i + k - j] ELSE t[k - n]
  <2>1. CASE k < j + n
    <3>1. k <= Len(u) /\ k \in 1 .. j - 1 + n
      BY <1>1, <1>5, <2>1
    <3> QED BY <1>5, <1>6, <1>7, <2>1, <3>1
  <2>2. CASE ~(k < j + n)
    <3>1. /\ ~(k <= Len(u)) /\ k - Len(u) \in 1 .. l - j + 1 /\ j + (k - Len(u)) - 1 = k - n
          /\ ~(k < j)
      BY <1>1, <1>5, <2>2
    <3>2. (u \o z)[k] = z[k - Len(u)]
      BY <1>6, <1>7, <3>1
    <3> QED BY <1>4, <2>2, <3>1, <3>2
  <2> QED BY <2>1, <2>2
<1>9. Spliced(t, s, i, n, j) = u \o z
  BY DEF Spliced, u, x, y, z
<1>10. IsSpliced(u \o z, t, s, i, n, j)
  BY <1>6, <1>7, <1>8 DEF IsSpliced, l
<1> QED BY <1>6, <1>9, <1>10

(* What move_train_cars does to the links of two lists: the n elements of  *)
(* c from the one at position i come to lie before position j of d.        *)
Carried(c, f, x, a, d, b, i, n, j, f2, x2) ==
  LET leftover == x[c[i + n - 1]]
      after == IF j = 1 THEN f[b] ELSE x[d[j - 1]]
  IN /\ f2[a] = IF i = 1 THEN leftover ELSE f[a]
     /\ f2[b] = IF j = 1 THEN c[i] ELSE f[b]
     /\ \A y \in Cars : x2[y] = IF i # 1 /\ y = c[i - 1] THEN leftover
                                ELSE IF y = c[i + n - 1] THEN after
                                ELSE IF j # 1 /\ y = d[j - 1] THEN c[i] ELSE x[y]

(* The links lead past the n elements from the one at position i.          *)
Bridged(c, f, x, a, i, n, f2, x2) ==
  /\ f2[a] = IF i = 1 THEN x[c[i + n - 1]] ELSE f[a]
  /\ \A k \in 1 .. Len(c) : k < i \/ k >= i + n =>
       x2[c[k]] = IF k = i - 1 THEN x[c[i + n - 1]] ELSE x[c[k]]

LEMMA CutLinked ==
  ASSUME NEW c, c \in Seq(Cars), NEW f, NEW x, NEW a, Linked(c, f, x, a),
         NEW i, i \in Nat \ {0}, NEW n, n \in Nat \ {0}, i + n - 1 <= Len(c),
         NEW f2, NEW x2, Bridged(c, f, x, a, i, n, f2, x2)
  PROVE  Linked(CutOut(c, i, n), f2, x2, a)
<1> DEFINE e == CutOut(c, i, n)
           l == Len(c)
<1>1. /\ e \in Seq(Cars) /\ Len(e) = l - n
      /\ \A k \in 1 .. l - n : e[k] = IF k < i THEN c[k] ELSE c[k + n]
  <2>1. e \in Seq(Cars) /\ IsCut(e, c, i, n)
    BY CutIs
  <2> QED BY <2>1 DEF IsCut
<1>2. /\ l \in Nat /\ i \in Int /\ n \in Int /\ i >= 1 /\ n >= 1 /\ i + n - 1 <= l
  OBVIOUS
<1>3. /\ f[a] = (IF l = 0 THEN Null ELSE c[1])
      /\ \A k \in 1 .. l : x[c[k]] = IF k = l THEN Null ELSE c[k + 1]
  BY DEF Linked
<1>4. /\ f2[a] = (IF i = 1 THEN x[c[i + n - 1]] ELSE f[a])
      /\ \A k \in 1 .. l : k < i \/ k >= i + n =>
           x2[c[k]] = IF k = i - 1 THEN x[c[i + n - 1]] ELSE x[c[k]]
  BY DEF Bridged
<1> HIDE DEF e, l
<1>5. x[c[i + n - 1]] = IF i + n - 1 = l THEN Null ELSE c[i + n]
  <2>1. i + n - 1 \in 1 .. l /\ (i + n - 1) + 1 = i + n
    BY <1>2
  <2> QED BY <1>3, <2>1
<1>6. f2[a] = IF Len(e) = 0 THEN Null ELSE e[1]
  <2>1. CASE i = 1
    <3>1. CASE l = n
      BY <1>1, <1>2, <1>4, <1>5, <2>1, <3>1
    <3>2. CASE l # n
      <4>1. 1 \in 1 .. l - n /\ ~(1 < i) /\ 1 + n = i + n
        BY <1>2, <2>1, <3>2
      <4>2. e[1] = c[i + n]
        BY <1>1, <4>1
      <4> QED BY <1>1, <1>2, <1>4, <1>5, <2>1, <3>2, <4>2
    <3> QED BY <3>1, <3>2
  <2>2. CASE i # 1
    <3>1. 1 \in 1 .. l - n /\ 1 < i /\ l # 0 /\ l - n # 0
      BY <1>2, <2>2
    <3> QED BY <1>1, <1>3, <1>4, <2>2, <3>1
  <2> QED BY <2>1, <2>2
<1>7. ASSUME NEW k \in 1 .. Len(e)
      PROVE  x2[e[k]] = IF k = Len(e) THEN Null ELSE e[k + 1]
  <2>1. k \in 1 .. l - n /\ k \in Int /\ Len(e) = l - n
    BY <1>1
  <2>2. CASE k < i - 1
    <3>1. /\ k < i /\ k \in 1 .. l /\ k # l /\ k # i - 1
          /\ k + 1 \in 1 .. l - n /\ k + 1 < i /\ k # l - n
      BY <1>2, <2>1, <2>2
    <3>2. e[k] = c[k] /\ e[k + 1] = c[k + 1]
      BY <1>1, <2>1, <3>1
    <3>3. x2[c[k]] = x[c[k]]
      BY <1>4, <3>1
    <3>4. x[c[k]] = c[k + 1]
      BY <1>3, <3>1
    <3> QED BY <2>1, <3>1, <3>2, <3>3, <3>4
  <2>3. CASE k = i - 1
    <3>1. k < i /\ k \in 1 .. l
      BY <1>2, <2>1, <2>3
    <3>2. e[k] = c[k]
      BY <1>1, <2>1, <3>1
    <3>3. x2[c[k]] = x[c[i + n - 1]]
      BY <1>4, <2>3, <3>1
    <3>4. k = l - n <=> i + n - 1 = l
      BY <1>2, <2>3
    <3>5. k # l - n => e[k + 1] = c[i + n]
      <4>1. k # l - n => k + 1 \in 1 .. l - n /\ ~(k + 1 < i) /\ (k + 1) + n = i + n
        BY <1>2, <2>1, <2>3
      <4> QED BY <1>1, <4>1
    <3> QED BY <1>5, <2>1, <3>2, <3>3, <3>4, <3>5
  <2>4. CASE k >= i
    <3>1. ~(k < i) /\ k + n \in 1 .. l /\ k + n >= i + n /\ k + n # i - 1
      BY <1>2, <2>1, <2>4
    <3>2. e[k] = c[k + n]
      BY <1>1, <2>1, <3>1
    <3>3. x2[c[k + n]] = x[c[k + n]]
      BY <1>4, <3>1
    <3>4. x[c[k + n]] = IF k + n = l THEN Null ELSE c[k + n + 1]
      BY <1>3, <3>1
    <3>5. k = l - n <=> k + n = l
      BY <1>2, <2>1
    <3>6. k # l - n => e[k + 1] = c[k + n + 1]
      <4>1. k # l - n => k + 1 \in 1 .. l - n /\ ~(k + 1 < i) /\ (k + 1) + n = k + n + 1
        BY <1>2, <2>1, <2>4
      <4> QED BY <1>1, <4>1
    <3> QED BY <2>1, <3>2, <3>3, <3>4, <3>5, <3>6
  <2> QED BY <1>2, <2>1, <2>2, <2>3, <2>4
<1>8. Linked(e, f2, x2, a)
  BY <1>6, <1>7 DEF Linked
<1> QED BY <1>8 DEF e

LEMMA SpliceLinked ==
  ASSUME NEW c, c \in Seq(Cars), Once(c), NEW d, d \in Seq(Cars), Once(d),
         ToSet(c) \cap ToSet(d) = {},
         NEW f, NEW x, NEW a, NEW b, Linked(c, f, x, a), Linked(d, f, x, b),
         NEW i, i \in Nat \ {0}, NEW n, n \in Nat \ {0}, i + n - 1 <= Len(c),
         NEW j, j \in Nat \ {0}, j - 1 <= Len(d),
         NEW f2, NEW x2, Carried(c, f, x, a, d, b, i, n, j, f2, x2)
  PROVE  Linked(Spliced(d, c, i, n, j), f2, x2, b)
<1> DEFINE e == Spliced(d, c, i, n, j)
           l == Len(c)
           m == Len(d)
<1>1. /\ e \in Seq(Cars) /\ Len(e) = m + n
      /\ \A k \in 1 .. m + n :
           e[k] = IF k < j THEN d[k] ELSE IF k < j + n THEN c[i + k - j] ELSE d[k - n]
  <2>1. e \in Seq(Cars) /\ IsSpliced(e, d, c, i, n, j)
    BY SpliceIs
  <2> QED BY <2>1 DEF IsSpliced
<1>2. /\ l \in Nat /\ m \in Nat /\ i \in Int /\ n \in Int /\ j \in Int /\ i >= 1 /\ n >= 1 /\ j >= 1
      /\ i + n - 1 <= l /\ j - 1 <= m
      /\ \A k \in 1 .. l : c[k] \in ToSet(c) /\ c[k] \in Cars
      /\ \A k \in 1 .. m : d[k] \in ToSet(d) /\ d[k] \in Cars
  BY HeldIs
<1>3. /\ \A k, q \in 1 .. l : c[k] = c[q] => k = q
      /\ \A k, q \in 1 .. m : d[k] = d[q] => k = q
      /\ \A k \in 1 .. l : x[c[k]] = IF k = l THEN Null ELSE c[k + 1]
      /\ f[b] = (IF m = 0 THEN Null ELSE d[1])
      /\ \A k \in 1 .. m : x[d[k]] = IF k = m THEN Null ELSE d[k + 1]
  BY DEF Once, Linked
<1>4. /\ f2[b] = (IF j = 1 THEN c[i] ELSE f[b])
      /\ \A y \in Cars : x2[y] = IF i # 1 /\ y = c[i - 1] THEN x[c[i + n - 1]]
                                 ELSE IF y = c[i + n - 1] THEN (IF j = 1 THEN f[b] ELSE x[d[j - 1]])
                                 ELSE IF j # 1 /\ y = d[j - 1] THEN c[i] ELSE x[y]
  BY DEF Carried
<1>5. \A k \in 1 .. l, q \in 1 .. m : c[k] # d[q]
  BY <1>2
<1>6. /\ i + n - 1 \in 1 .. l /\ i \in 1 .. l /\ (i # 1 => i - 1 \in 1 .. l)
      /\ (j # 1 => j - 1 \in 1 .. m)
  BY <1>2
<1> HIDE DEF e, l, m
<1>7. f2[b] = IF Len(e) = 0 THEN Null ELSE e[1]
  <2>1. Len(e) # 0 /\ 1 \in 1 .. m + n
    BY <1>1, <1>2
  <2>2. CASE j = 1
    <3>1. ~(1 < j) /\ 1 < j + n /\ i + 1 - j = i
      BY <1>2, <2>2
    <3> QED BY <1>1, <1>4, <2>1, <2>2, <3>1
  <2>3. CASE j # 1
    <3>1. 1 < j /\ m # 0
      BY <1>2, <2>3
    <3> QED BY <1>1, <1>3, <1>4, <2>1, <2>3, <3>1
  <2> QED BY <2>2, <2>3
<1>8. (IF j = 1 THEN f[b] ELSE x[d[j - 1]]) = IF j = m + 1 THEN Null ELSE d[j]
  <2>1. CASE j = 1
    BY <1>2, <1>3, <2>1
  <2>2. CASE j # 1
    <3>1. (j - 1) + 1 = j /\ (j - 1 = m <=> j = m + 1)
      BY <1>2
    <3> QED BY <1>3, <1>6, <2>2, <3>1
  <2> QED BY <2>1, <2>2
<1>9. ASSUME NEW k \in 1 .. Len(e)
      PROVE  x2[e[k]] = IF k = Len(e) THEN Null ELSE e[k + 1]
  <2>1. k \in 1 .. m + n /\ k \in Int /\ Len(e) = m + n
    BY <1>1
  <2>2. CASE k < j - 1
    <3>1. /\ k < j /\ k \in 1 .. m /\ k # m /\ k + 1 \in 1 .. m + n /\ k + 1 < j
          /\ k # j - 1 /\ j # 1 /\ k # m + n
      BY <1>2, <2>1, <2>2
    <3>2. e[k] = d[k] /\ e[k + 1] = d[k + 1]
      BY <1>1, <2>1, <3>1
    <3>3. d[k] # d[j - 1] /\ d[k] # c[i + n - 1] /\ (i # 1 => d[k] # c[i - 1]) /\ d[k] \in Cars
      BY <1>2, <1>3, <1>5, <1>6, <3>1
    <3>4. x2[d[k]] = x[d[k]]
      BY <1>4, <3>3
    <3>5. x[d[k]] = d[k + 1]
      BY <1>3, <3>1
    <3> QED BY <2>1, <3>1, <3>2, <3>4, <3>5
  <2>3. CASE k = j - 1
    <3>1. k < j /\ j # 1 /\ k \in 1 .. m /\ k + 1 = j /\ j \in 1 .. m + n /\ ~(j < j) /\ j < j + n
          /\ i + j - j = i /\ k # m + n
      BY <1>2, <2>1, <2>3
    <3>2. e[k] = d[j - 1] /\ e[k + 1] = c[i]
      BY <1>1, <2>1, <2>3, <3>1
    <3>3. d[j - 1] # c[i + n - 1] /\ (i # 1 => d[j - 1] # c[i - 1]) /\ d[j - 1] \in Cars
      BY <1>2, <1>5, <1>6, <3>1
    <3>4. x2[d[j - 1]] = c[i]
      BY <1>4, <3>1, <3>3
    <3> QED BY <2>1, <3>1, <3>2, <3>4
  <2>4. CASE k >= j /\ k < j + n - 1
    <3>1. /\ ~(k < j) /\ k < j + n /\ i + k - j \in 1 .. l /\ i + k - j # l /\ k # m + n
          /\ k + 1 \in 1 .. m + n /\ ~(k + 1 < j) /\ k + 1 < j + n
          /\ i + (k + 1) - j = (i + k - j) + 1
          /\ i + k - j # i + n - 1 /\ i + k - j # i - 1
      BY <1>2, <2>1, <2>4
    <3>2. e[k] = c[i + k - j] /\ e[k + 1] = c[(i + k - j) + 1]
      BY <1>1, <2>1, <3>1
    <3>3. /\ c[i + k - j] # c[i + n - 1] /\ (i # 1 => c[i + k - j] # c[i - 1])
          /\ (j # 1 => c[i + k - j] # d[j - 1]) /\ c[i + k - j] \in Cars
      BY <1>2, <1>3, <1>5, <1>6, <3>1
    <3>4. x2[c[i + k - j]] = x[c[i + k - j]]
      BY <1>4, <3>3
    <3>5. x[c[i + k - j]] = c[(i + k - j) + 1]
      BY <1>3, <3>1
    <3> QED BY <2>1, <3>1, <3>2, <3>4, <3>5
  <2>5. CASE k = j + n - 1
    <3>1. /\ ~(k < j) /\ k < j + n /\ i + k - j = i + n - 1 /\ (k = m + n <=> j = m + 1)
          /\ i + n - 1 # i - 1
      BY <1>2, <2>1, <2>5
    <3>2. e[k] = c[i + n - 1]
      BY <1>1, <2>1, <3>1
    <3>3. (i # 1 => c[i + n - 1] # c[i - 1]) /\ c[i + n - 1] \in Cars
      BY <1>2, <1>3, <1>6, <3>1
    <3>4. x2[c[i + n - 1]] = IF j = 1 THEN f[b] ELSE x[d[j - 1]]
      BY <1>4, <3>3
    <3>5. k # m + n => e[k + 1] = d[j]
      <4>1. k # m + n => k + 1 \in 1 .. m + n /\ ~(k + 1 < j) /\ ~(k + 1 < j + n) /\ (k + 1) - n = j
        BY <1>2, <2>1, <2>5
      <4> QED BY <1>1, <4>1
    <3> QED BY <1>8, <2>1, <3>1, <3>2, <3>4, <3>5
  <2>6. CASE k >= j + n
    <3>1. /\ ~(k < j) /\ ~(k < j + n) /\ k - n \in 1 .. m /\ k - n # j - 1 /\ (k = m + n <=> k - n = m)
      BY <1>2, <2>1, <2>6
    <3>2. e[k] = d[k - n]
      BY <1>1, <2>1, <3>1
    <3>3. /\ (j # 1 => d[k - n] # d[j - 1]) /\ d[k - n] # c[i + n - 1]
          /\ (i # 1 => d[k - n] # c[i - 1]) /\ d[k - n] \in Cars
      BY <1>2, <1>3, <1>5, <1>6, <3>1
    <3>4. x2[d[k - n]] = x[d[k - n]]
      BY <1>4, <3>3
    <3>5. x[d[k - n]] = IF k - n = m THEN Null ELSE d[(k - n) + 1]
      BY <1>3, <3>1
    <3>6. k # m + n => e[k + 1] = d[(k - n) + 1]
      <4>1. k # m + n => k + 1 \in 1 .. m + n /\ ~(k + 1 < j) /\ ~(k + 1 < j + n) /\ (k + 1) - n = (k - n) + 1
        BY <1>2, <2>1, <2>6
      <4> QED BY <1>1, <4>1
    <3> QED BY <2>1, <3>1, <3>2, <3>4, <3>5, <3>6
  <2> QED BY <1>2, <2>1, <2>2, <2>3, <2>4, <2>5, <2>6
<1>10. Linked(e, f2, x2, b)
  BY <1>7, <1>9 DEF Linked
<1> QED BY <1>10 DEF e

(* What is left, and what is where the cars came, holds each once.         *)
LEMMA CutHolds ==
  ASSUME NEW c, c \in Seq(Cars), Once(c),
         NEW i, i \in Nat \ {0}, NEW n, n \in Nat \ {0}, i + n - 1 <= Len(c)
  PROVE  /\ CutOut(c, i, n) \in Seq(Cars) /\ Once(CutOut(c, i, n))
         /\ ToSet(CutOut(c, i, n)) \subseteq ToSet(c) \ {c[k] : k \in i .. i + n - 1}
<1> DEFINE e == CutOut(c, i, n)
           l == Len(c)
<1>1. /\ e \in Seq(Cars) /\ Len(e) = l - n
      /\ \A k \in 1 .. l - n : e[k] = IF k < i THEN c[k] ELSE c[k + n]
  <2>1. e \in Seq(Cars) /\ IsCut(e, c, i, n)
    BY CutIs
  <2> QED BY <2>1 DEF IsCut
<1>2. /\ l \in Nat /\ i \in Int /\ n \in Int /\ i >= 1 /\ n >= 1 /\ i + n - 1 <= l
      /\ \A k \in 1 .. l : c[k] \in ToSet(c)
      /\ \A k, m \in 1 .. l : c[k] = c[m] => k = m
  BY HeldIs DEF Once
<1>3. \A x \in ToSet(e) : \E k \in 1 .. Len(e) : e[k] = x
  <2> HIDE DEF e, l
  <2> QED BY <1>1, HeldIs
<1> HIDE DEF e, l
<1> DEFINE at(k) == IF k < i THEN k ELSE k + n
<1>4. ASSUME NEW k \in 1 .. Len(e)
      PROVE  at(k) \in 1 .. l /\ at(k) \notin i .. i + n - 1 /\ e[k] = c[at(k)]
  <2>1. k \in Int /\ k \in 1 .. l - n
    BY <1>1
  <2>2. CASE k < i
    BY <1>1, <1>2, <2>1, <2>2
  <2>3. CASE ~(k < i)
    BY <1>1, <1>2, <2>1, <2>3
  <2> QED BY <2>2, <2>3
<1>5. \A k, m \in Int : at(k) = at(m) => k = m
  BY <1>2
<1> HIDE DEF at
<1>6. ASSUME NEW k \in 1 .. Len(e), NEW m \in 1 .. Len(e), e[k] = e[m] PROVE k = m
  <2>1. c[at(k)] = c[at(m)] /\ at(k) \in 1 .. l /\ at(m) \in 1 .. l
    BY <1>4, <1>6
  <2>2. at(k) = at(m)
    BY <1>2, <2>1
  <2>3. k \in Int /\ m \in Int
    OBVIOUS
  <2> QED BY <1>5, <2>2, <2>3
<1>7. ASSUME NEW x \in ToSet(e) PROVE x \in ToSet(c) /\ x \notin {c[k] : k \in i .. i + n - 1}
  <2>1. PICK k \in 1 .. Len(e) : e[k] = x
    BY <1>3
  <2>2. at(k) \in 1 .. l /\ at(k) \notin i .. i + n - 1 /\ x = c[at(k)]
    BY <1>4, <2>1
  <2>3. \A m \in i .. i + n - 1 : m \in 1 .. l
    BY <1>2
  <2> QED BY <1>2, <2>2, <2>3
<1>8. Once(e)
  BY <1>6 DEF Once
<1> QED BY <1>1, <1>7, <1>8 DEF e

LEMMA SpliceHolds ==
  ASSUME NEW c, c \in Seq(Cars), Once(c), NEW d, d \in Seq(Cars), Once(d),
         ToSet(c) \cap ToSet(d) = {},
         NEW i, i \in Nat \ {0}, NEW n, n \in Nat \ {0}, i + n - 1 <= Len(c),
         NEW j, j \in Nat \ {0}, j - 1 <= Len(d)
  PROVE  /\ Spliced(d, c, i, n, j) \in Seq(Cars) /\ Once(Spliced(d, c, i, n, j))
         /\ ToSet(Spliced(d, c, i, n, j)) \subseteq ToSet(d) \cup {c[k] : k \in i .. i + n - 1}
         /\ {c[k] : k \in i .. i + n - 1} \subseteq ToSet(c)
<1> DEFINE e == Spliced(d, c, i, n, j)
           l == Len(c)
           m == Len(d)
           moved == {c[k] : k \in i .. i + n - 1}
<1>1. /\ e \in Seq(Cars) /\ Len(e) = m + n
      /\ \A k \in 1 .. m + n :
           e[k] = IF k < j THEN d[k] ELSE IF k < j + n THEN c[i + k - j] ELSE d[k - n]
  <2>1. e \in Seq(Cars) /\ IsSpliced(e, d, c, i, n, j)
    BY SpliceIs
  <2> QED BY <2>1 DEF IsSpliced
<1>2. /\ l \in Nat /\ m \in Nat /\ i \in Int /\ n \in Int /\ j \in Int /\ i >= 1 /\ n >= 1 /\ j >= 1
      /\ i + n - 1 <= l /\ j - 1 <= m
      /\ \A k \in 1 .. l : c[k] \in ToSet(c)
      /\ \A k \in 1 .. m : d[k] \in ToSet(d)
      /\ \A k, q \in 1 .. l : c[k] = c[q] => k = q
      /\ \A k, q \in 1 .. m : d[k] = d[q] => k = q
  BY HeldIs DEF Once
<1>3. \A x \in ToSet(e) : \E k \in 1 .. Len(e) : e[k] = x
  <2> HIDE DEF e, l, m, moved
  <2> QED BY <1>1, HeldIs
<1> HIDE DEF e, l, m
<1> DEFINE In(k) == j <= k /\ k < j + n
           at(k) == IF k < j THEN k ELSE k - n
<1>4. ASSUME NEW k \in 1 .. Len(e)
      PROVE  /\ In(k) => i + k - j \in i .. i + n - 1 /\ i + k - j \in 1 .. l /\ e[k] = c[i + k - j]
             /\ ~In(k) => at(k) \in 1 .. m /\ e[k] = d[at(k)]
  <2>1. k \in Int /\ k \in 1 .. m + n
    BY <1>1
  <2>2. CASE k < j
    BY <1>1, <1>2, <2>1, <2>2
  <2>3. CASE In(k)
    BY <1>1, <1>2, <2>1, <2>3
  <2>4. CASE k >= j + n
    BY <1>1, <1>2, <2>1, <2>4
  <2> QED BY <1>2, <2>1, <2>2, <2>3, <2>4
<1>5. \A k, q \in Int : ~In(k) /\ ~In(q) /\ at(k) = at(q) => k = q
  BY <1>2
<1> HIDE DEF at, In
<1>6. ASSUME NEW k \in 1 .. Len(e), NEW q \in 1 .. Len(e), e[k] = e[q] PROVE k = q
  <2>1. k \in Int /\ q \in Int
    OBVIOUS
  <2>2. CASE In(k) /\ In(q)
    <3>1. i + k - j = i + q - j
      BY <1>2, <1>4, <1>6, <2>2
    <3> QED BY <1>2, <2>1, <3>1
  <2>3. CASE ~In(k) /\ ~In(q)
    <3>1. at(k) = at(q)
      BY <1>2, <1>4, <1>6, <2>3
    <3> QED BY <1>5, <2>1, <2>3, <3>1
  <2>4. CASE In(k) /\ ~In(q)
    <3>1. e[k] \in ToSet(c) /\ e[q] \in ToSet(d)
      BY <1>2, <1>4, <2>4
    <3> QED BY <1>6, <3>1
  <2>5. CASE ~In(k) /\ In(q)
    <3>1. e[q] \in ToSet(c) /\ e[k] \in ToSet(d)
      BY <1>2, <1>4, <2>5
    <3> QED BY <1>6, <3>1
  <2> QED BY <2>2, <2>3, <2>4, <2>5
<1>7. ASSUME NEW x \in ToSet(e) PROVE x \in ToSet(d) \cup moved
  <2>1. PICK k \in 1 .. Len(e) : e[k] = x
    BY <1>3
  <2> QED BY <1>2, <1>4, <2>1
<1>8. moved \subseteq ToSet(c)
  <2>1. \A k \in i .. i + n - 1 : k \in 1 .. l
    BY <1>2
  <2> QED BY <1>2, <2>1
<1>9. Once(e)
  BY <1>6 DEF Once
<1> QED BY <1>1, <1>7, <1>8, <1>9 DEF e

Scales == [Cars -> Weights]
CutAlike(c, w, i, n) == Weighted(CutOut(c, i, n), w) = CutOut(Weighted(c, w), i, n)
SplicedAlike(d, c, w, i, n, j) ==
  Weighted(Spliced(d, c, i, n, j), w) = Spliced(Weighted(d, w), Weighted(c, w), i, n, j)

(* The weights of the cars that are left are what is left of the weights.  *)
LEMMA CutWeights ==
  ASSUME NEW c, c \in Seq(Cars), NEW w, w \in Scales,
         NEW i, i \in Nat \ {0}, NEW n, n \in Nat \ {0}, i + n - 1 <= Len(c)
  PROVE  CutAlike(c, w, i, n)
<1> DEFINE e == CutOut(c, i, n)
           s == Weighted(c, w)
           u == CutOut(s, i, n)
           l == Len(c)
<1>1. l \in Nat /\ i \in Int /\ n \in Int /\ i >= 1 /\ n >= 1 /\ i + n - 1 <= l
  OBVIOUS
<1>2. s \in Seq(Weights) /\ Len(s) = l /\ \A k \in 1 .. l : s[k] = w[c[k]]
  BY <1>1 DEF Weighted, Scales
<1> HIDE DEF s
<1>3. e \in Seq(Cars) /\ IsCut(e, c, i, n)
  BY CutIs
<1>4. u \in Seq(Weights) /\ IsCut(u, s, i, n)
  BY <1>2, CutIs
<1> HIDE DEF e, u
<1>5. u = [k \in 1 .. l - n |-> u[k]]
  BY <1>1, <1>2, <1>4 DEF IsCut
<1>6. Weighted(e, w) = [k \in 1 .. l - n |-> w[e[k]]]
  BY <1>3 DEF Weighted, IsCut
<1>7. ASSUME NEW k \in 1 .. l - n PROVE w[e[k]] = u[k]
  <2>1. e[k] = (IF k < i THEN c[k] ELSE c[k + n]) /\ u[k] = (IF k < i THEN s[k] ELSE s[k + n])
    BY <1>2, <1>3, <1>4 DEF IsCut
  <2>2. k \in 1 .. l /\ k + n \in 1 .. l
    BY <1>1
  <2> QED BY <1>2, <2>1, <2>2
<1>8. Weighted(e, w) = u
  BY <1>5, <1>6, <1>7
<1> QED BY <1>8 DEF e, u, s, CutAlike

LEMMA SpliceWeights ==
  ASSUME NEW c, c \in Seq(Cars), NEW d, d \in Seq(Cars), NEW w, w \in Scales,
         NEW i, i \in Nat \ {0}, NEW n, n \in Nat \ {0}, i + n - 1 <= Len(c),
         NEW j, j \in Nat \ {0}, j - 1 <= Len(d)
  PROVE  SplicedAlike(d, c, w, i, n, j)
<1> DEFINE e == Spliced(d, c, i, n, j)
           s == Weighted(c, w)
           t == Weighted(d, w)
           u == Spliced(t, s, i, n, j)
           l == Len(c)
           m == Len(d)
<1>1. /\ l \in Nat /\ i \in Int /\ n \in Int /\ i >= 1 /\ n >= 1 /\ i + n - 1 <= l
      /\ m \in Nat /\ j \in Int /\ j >= 1 /\ j - 1 <= m
  OBVIOUS
<1>2. /\ s \in Seq(Weights) /\ Len(s) = l /\ \A k \in 1 .. l : s[k] = w[c[k]]
      /\ t \in Seq(Weights) /\ Len(t) = m /\ \A k \in 1 .. m : t[k] = w[d[k]]
  BY <1>1 DEF Weighted, Scales
<1> HIDE DEF s, t
<1>3. e \in Seq(Cars) /\ IsSpliced(e, d, c, i, n, j)
  BY SpliceIs
<1>4. u \in Seq(Weights) /\ IsSpliced(u, t, s, i, n, j)
  BY <1>2, SpliceIs
<1> HIDE DEF e, u
<1>5. u = [k \in 1 .. m + n |-> u[k]]
  BY <1>1, <1>2, <1>4 DEF IsSpliced
<1>6. Weighted(e, w) = [k \in 1 .. m + n |-> w[e[k]]]
  BY <1>3 DEF Weighted, IsSpliced
<1>7. ASSUME NEW k \in 1 .. m + n PROVE w[e[k]] = u[k]
  <2>1. /\ e[k] = (IF k < j THEN d[k] ELSE IF k < j + n THEN c[i + k - j] ELSE d[k - n])
        /\ u[k] = (IF k < j THEN t[k] ELSE IF k < j + n THEN s[i + k - j] ELSE t[k - n])
    BY <1>2, <1>3, <1>4 DEF IsSpliced
  <2>2. /\ k < j => k \in 1 .. m
        /\ ~(k < j) /\ k < j + n => i + k - j \in 1 .. l
        /\ ~(k < j) /\ ~(k < j + n) => k - n \in 1 .. m
    BY <1>1
  <2> QED BY <1>2, <2>1, <2>2
<1>8. Weighted(e, w) = u
  BY <1>5, <1>6, <1>7
<1> QED BY <1>8 DEF e, u, s, t, SplicedAlike

LEMMA MoveStep ==
  ASSUME StationInv, SamePlatform = FALSE, NEW a \in Platforms, NEW b \in Platforms,
         NEW i \in Cars, NEW n \in Cars, NEW j \in Cars, move_train_cars(a, i, n, b, j)
  PROVE  /\ StationInv'
         /\ Yard!Move(a, i, n, b, j)
         /\ i \in 1 .. Len(Train[a]) /\ n \in 1 .. Len(Train[a]) /\ j \in 1 .. Len(Train[b]) + 1
<1> DEFINE C == AllCars
           c == CarsOf(a)
           d == CarsOf(b)
           c2 == CutOut(c, i, n)
           d2 == Spliced(d, c, i, n, j)
           D == [q \in Platforms |-> IF q = a THEN c2 ELSE IF q = b THEN d2 ELSE C[q]]
           moved == {c[k] : k \in i .. i + n - 1}
<1>1. /\ C \in Lists /\ Good(C, first, next, live) /\ StationTypes
      /\ InOrder(C, first, next, live) /\ Apart(C) /\ C[a] = c /\ C[b] = d
      /\ next \in Nexts /\ first \in Firsts /\ weight \in [Cars -> Weights]
  BY DEF StationInv, Good, AllCars, StationTypes
<1>2. /\ a # b /\ i + n - 1 <= Len(c) /\ j - 1 <= Len(d)
      /\ live' = live /\ weight' = weight /\ power' = power
  BY DEF move_train_cars
<1>3. i \in Nat \ {0} /\ n \in Nat \ {0} /\ j \in Nat \ {0}
  <2>1. \A y \in 1 .. MaxCars : y \in Nat \ {0}
    BY StationConstants
  <2> QED BY <2>1 DEF Cars
<1>4. /\ c \in Seq(Cars) /\ Once(c) /\ Linked(c, first, next, a) /\ ToSet(c) \subseteq live
      /\ d \in Seq(Cars) /\ Once(d) /\ Linked(d, first, next, b) /\ ToSet(d) \subseteq live
      /\ ToSet(c) \cap ToSet(d) = {}
      /\ ToSet(c) \subseteq Cars /\ ToSet(d) \subseteq Cars
      /\ Len(c) \in Nat /\ Len(d) \in Nat
      /\ \A k \in 1 .. Len(c) : c[k] \in Cars
      /\ \A k \in 1 .. Len(d) : d[k] \in Cars
  <2>1. /\ c \in Seq(Cars) /\ Once(c) /\ Linked(c, first, next, a) /\ ToSet(c) \subseteq live
        /\ d \in Seq(Cars) /\ Once(d) /\ Linked(d, first, next, b) /\ ToSet(d) \subseteq live
    BY <1>1 DEF InOrder, Lists
  <2>2. ToSet(c) \cap ToSet(d) = {}
    BY <1>1, <1>2 DEF Apart
  <2> HIDE DEF c, d
  <2> QED BY <2>1, <2>2, HeldIs
<1>5. /\ first' = IF i = 1
                  THEN [(IF j = 1 THEN [first EXCEPT ![b] = c[i]] ELSE first)
                          EXCEPT ![a] = next[c[i + n - 1]]]
                  ELSE IF j = 1 THEN [first EXCEPT ![b] = c[i]] ELSE first
      /\ next' = IF i = 1
                 THEN [(IF j = 1 THEN next ELSE [next EXCEPT ![IF j = 1 THEN Null ELSE d[j - 1]] = c[i]])
                         EXCEPT ![c[i + n - 1]] =
                           IF j = 1 THEN first[b] ELSE next[IF j = 1 THEN Null ELSE d[j - 1]]]
                 ELSE [[(IF j = 1 THEN next ELSE [next EXCEPT ![IF j = 1 THEN Null ELSE d[j - 1]] = c[i]])
                         EXCEPT ![c[i + n - 1]] =
                           IF j = 1 THEN first[b] ELSE next[IF j = 1 THEN Null ELSE d[j - 1]]]
                         EXCEPT ![c[i - 1]] = next[c[i + n - 1]]]
  BY DEF move_train_cars
<1> HIDE DEF C, c, d
<1>6. /\ c[i] \in Cars /\ c[i + n - 1] \in Cars /\ (i # 1 => c[i - 1] \in Cars)
      /\ (j # 1 => d[j - 1] \in Cars)
      /\ c[i] \in CarOrNull /\ next[c[i + n - 1]] \in CarOrNull
      /\ (j # 1 => next[d[j - 1]] \in CarOrNull) /\ first[b] \in CarOrNull
  <2>1. /\ i \in 1 .. Len(c) /\ i + n - 1 \in 1 .. Len(c) /\ (i # 1 => i - 1 \in 1 .. Len(c))
        /\ (j # 1 => j - 1 \in 1 .. Len(d))
    BY <1>2, <1>3, <1>4
  <2>2. /\ c[i] \in Cars /\ c[i + n - 1] \in Cars /\ (i # 1 => c[i - 1] \in Cars)
        /\ (j # 1 => d[j - 1] \in Cars)
    BY <1>4, <2>1
  <2> QED BY <1>1, <2>2, NullOk DEF Nexts, Firsts
<1>7. /\ first' \in Firsts
      /\ first'[a] = IF i = 1 THEN next[c[i + n - 1]] ELSE first[a]
      /\ first'[b] = IF j = 1 THEN c[i] ELSE first[b]
      /\ \A q \in Platforms : q # a /\ q # b => first'[q] = first[q]
  BY <1>1, <1>2, <1>5, <1>6 DEF Firsts
<1>8. next' \in Nexts
  <2>1. CASE i = 1
    BY <1>1, <1>5, <1>6, <2>1 DEF Nexts
  <2>2. CASE i # 1
    BY <1>1, <1>5, <1>6, <2>2 DEF Nexts
  <2> QED BY <2>1, <2>2
<1>9. \A y \in Cars :
        next'[y] = IF i # 1 /\ y = c[i - 1] THEN next[c[i + n - 1]]
                   ELSE IF y = c[i + n - 1] THEN (IF j = 1 THEN first[b] ELSE next[d[j - 1]])
                   ELSE IF j # 1 /\ y = d[j - 1] THEN c[i] ELSE next[y]
  <2>1. CASE i = 1
    BY <1>1, <1>5, <1>6, <2>1 DEF Nexts
  <2>2. CASE i # 1
    BY <1>1, <1>5, <1>6, <2>2 DEF Nexts
  <2> QED BY <2>1, <2>2
<1>10. Carried(c, first, next, a, d, b, i, n, j, first', next')
  BY <1>7, <1>9 DEF Carried
<1>11. /\ c2 \in Seq(Cars) /\ Once(c2) /\ Linked(c2, first', next', a)
       /\ ToSet(c2) \subseteq ToSet(c) \ moved
       /\ d2 \in Seq(Cars) /\ Once(d2) /\ Linked(d2, first', next', b)
       /\ ToSet(d2) \subseteq ToSet(d) \cup moved /\ moved \subseteq ToSet(c)
  <2>1. Linked(c2, first', next', a)
    <3>1. /\ Len(c) \in Nat /\ i + n - 1 \in 1 .. Len(c) /\ (i # 1 => i - 1 \in 1 .. Len(c))
          /\ (j # 1 => j - 1 \in 1 .. Len(d)) /\ i \in Int /\ n \in Int /\ i >= 1 /\ n >= 1
      BY <1>2, <1>3, <1>4
    <3>2. ASSUME NEW k \in 1 .. Len(c), k < i \/ k >= i + n
          PROVE  next'[c[k]] = IF k = i - 1 THEN next[c[i + n - 1]] ELSE next[c[k]]
      <4>1. k # i + n - 1 /\ (i = 1 => k # i - 1)
        BY <3>1, <3>2
      <4>2. c[k] # c[i + n - 1] /\ (i # 1 => (c[k] = c[i - 1] <=> k = i - 1))
        BY <1>4, <3>1, <4>1 DEF Once
      <4>3. j # 1 => c[k] # d[j - 1]
        <5>1. c[k] \in ToSet(c) /\ (j # 1 => d[j - 1] \in ToSet(d))
          BY <1>4, <3>1, HeldIs
        <5> QED BY <1>4, <5>1
      <4>4. c[k] \in Cars
        BY <1>4
      <4> QED BY <1>9, <4>1, <4>2, <4>3, <4>4
    <3>3. Bridged(c, first, next, a, i, n, first', next')
      BY <1>7, <3>2 DEF Bridged
    <3> QED BY <1>2, <1>3, <1>4, <3>3, CutLinked
  <2>2. Linked(d2, first', next', b)
    BY <1>2, <1>3, <1>4, <1>10, SpliceLinked
  <2>3. c2 \in Seq(Cars) /\ Once(c2) /\ ToSet(c2) \subseteq ToSet(c) \ moved
    BY <1>2, <1>3, <1>4, CutHolds
  <2>4. /\ d2 \in Seq(Cars) /\ Once(d2) /\ ToSet(d2) \subseteq ToSet(d) \cup moved
        /\ moved \subseteq ToSet(c)
    BY <1>2, <1>3, <1>4, SpliceHolds
  <2> QED BY <2>1, <2>2, <2>3, <2>4
<1> HIDE DEF c2, d2, moved
<1>12. D \in Lists /\ D[a] = c2 /\ D[b] = d2 /\ \A q \in Platforms : q # a /\ q # b => D[q] = C[q]
  BY <1>1, <1>2, <1>11 DEF Lists
<1> HIDE DEF D
<1>13. ASSUME NEW q \in Platforms, q # a, q # b
       PROVE  /\ Once(C[q]) /\ Linked(C[q], first', next', q) /\ ToSet(C[q]) \subseteq live'
              /\ ToSet(C[q]) \cap ToSet(c) = {} /\ ToSet(C[q]) \cap ToSet(d) = {}
  <2>1. /\ C[q] \in Seq(Cars) /\ Once(C[q]) /\ Linked(C[q], first, next, q) /\ ToSet(C[q]) \subseteq live
    BY <1>1 DEF InOrder, Lists
  <2>2. ToSet(C[q]) \cap ToSet(c) = {} /\ ToSet(C[q]) \cap ToSet(d) = {}
    BY <1>1, <1>13 DEF Apart
  <2>3. ASSUME NEW k \in 1 .. Len(C[q]) PROVE next'[C[q][k]] = next[C[q][k]]
    <3>1. C[q][k] \in ToSet(C[q]) /\ C[q][k] \in Cars
      BY <2>1, HeldIs
    <3>2. /\ c[i + n - 1] \in ToSet(c) /\ (i # 1 => c[i - 1] \in ToSet(c))
          /\ (j # 1 => d[j - 1] \in ToSet(d))
      <4>1. /\ i + n - 1 \in 1 .. Len(c) /\ (i # 1 => i - 1 \in 1 .. Len(c))
            /\ (j # 1 => j - 1 \in 1 .. Len(d))
        BY <1>2, <1>3, <1>4
      <4> QED BY <1>4, <4>1, HeldIs
    <3> QED BY <1>9, <2>2, <3>1, <3>2
  <2>4. Linked(C[q], first', next', q)
    <3>1. first'[q] = first[q]
      BY <1>7, <1>13
    <3> QED BY <2>1, <2>3, <3>1, LinkedSame
  <2> QED BY <1>2, <2>1, <2>2, <2>4
<1>14. InOrder(D, first', next', live')
  <2> SUFFICES ASSUME NEW q \in Platforms
               PROVE  Once(D[q]) /\ Linked(D[q], first', next', q) /\ ToSet(D[q]) \subseteq live'
    BY DEF InOrder
  <2>1. CASE q = a
    BY <1>2, <1>4, <1>11, <1>12, <2>1
  <2>2. CASE q = b
    BY <1>2, <1>4, <1>11, <1>12, <2>2
  <2>3. CASE q # a /\ q # b
    BY <1>12, <1>13, <2>3
  <2> QED BY <2>1, <2>2, <2>3
<1>15. Apart(D)
  <2> SUFFICES ASSUME NEW q \in Platforms, NEW r \in Platforms, q # r
               PROVE  ToSet(D[q]) \cap ToSet(D[r]) = {}
    BY DEF Apart
  <2>1. ToSet(c2) \cap ToSet(d2) = {}
    BY <1>4, <1>11
  <2>2. ASSUME NEW s \in Platforms, s # a, s # b
        PROVE  ToSet(D[s]) \cap ToSet(c2) = {} /\ ToSet(D[s]) \cap ToSet(d2) = {}
    BY <1>11, <1>12, <1>13, <2>2
  <2>3. CASE q = a /\ r = b
    BY <1>12, <2>1, <2>3
  <2>4. CASE q = b /\ r = a
    BY <1>12, <2>1, <2>4
  <2>5. CASE q \in {a, b} /\ r \notin {a, b}
    BY <1>12, <2>2, <2>5
  <2>6. CASE q \notin {a, b} /\ r \in {a, b}
    BY <1>12, <2>2, <2>6
  <2>7. CASE q \notin {a, b} /\ r \notin {a, b}
    <3>1. ToSet(C[q]) \cap ToSet(C[r]) = {}
      BY <1>1 DEF Apart
    <3> QED BY <1>12, <2>7, <3>1
  <2> QED BY <2>3, <2>4, <2>5, <2>6, <2>7
<1>16. StationTypes'
  BY <1>1, <1>2, <1>7, <1>8 DEF StationTypes
<1>17. StationInv' /\ AllCars' = D
  <2>1. Good(D, first', next', live')
    BY <1>12, <1>14, <1>15 DEF Good
  <2> QED BY <1>16, <2>1, Arrived
<1>18. Train' = TrainsOf(D, weight') /\ Train = TrainsOf(C, weight)
  BY <1>17, TrainIs DEF C
<1>19. Train[a] = Weighted(c, weight) /\ Train[b] = Weighted(d, weight)
       /\ \A q \in Platforms : Train[q] = Weighted(C[q], weight)
  BY <1>1, <1>18 DEF TrainsOf
<1>20. Len(Train[a]) = Len(c) /\ Len(Train[b]) = Len(d)
  BY <1>4, <1>19 DEF Weighted
<1>21. /\ Weighted(c2, weight) = CutOut(Train[a], i, n)
       /\ Weighted(d2, weight) = Spliced(Train[b], Train[a], i, n, j)
  <2> USE DEF c2, d2
  <2>1. /\ c \in Seq(Cars) /\ d \in Seq(Cars) /\ weight \in Scales
        /\ i + n - 1 <= Len(c) /\ j - 1 <= Len(d)
    BY <1>1, <1>2, <1>4 DEF Scales
  <2>2. CutAlike(c, weight, i, n)
    BY <1>3, <2>1, CutWeights
  <2>3. SplicedAlike(d, c, weight, i, n, j)
    BY <1>3, <2>1, SpliceWeights
  <2> QED BY <1>19, <2>2, <2>3 DEF CutAlike, SplicedAlike
<1>22. Train' = [q \in Platforms |-> IF q = a THEN CutOut(Train[a], i, n)
                                     ELSE IF q = b THEN Spliced(Train[b], Train[a], i, n, j)
                                     ELSE Train[q]]
  <2>1. Train' = [q \in Platforms |-> Weighted(D[q], weight)]
    BY <1>2, <1>18 DEF TrainsOf
  <2> HIDE DEF Train
  <2> QED BY <1>12, <1>19, <1>21, <2>1
<1>23. Yard!Move(a, i, n, b, j)
  <2>1. a # b /\ n > 0 /\ i + n - 1 <= Len(Train[a]) /\ j - 1 <= Len(Train[b]) /\ power' = power
    BY <1>2, <1>3, <1>20
  <2> QED BY <1>22, <2>1 DEF Yard!Move, CutOut, Spliced, Train
<1>24. i \in 1 .. Len(Train[a]) /\ n \in 1 .. Len(Train[a]) /\ j \in 1 .. Len(Train[b]) + 1
  BY <1>2, <1>3, <1>4, <1>20
<1> QED BY <1>17, <1>23, <1>24

(* The sum of a sequence, however it is added up.                          *)
Added(s) == SumOf(s, 1 .. Len(s))
Folded(s) == FoldSeq(+, 0, s)

LEMMA WeightIs == \A x \in Weights : x \in 1 .. 9999 /\ x \in Int
<1>1. \A x \in 1 .. 9999 : x \in Int
  OBVIOUS
<1> QED BY <1>1, StationConstants

LEMMA SumIs ==
  ASSUME NEW s, s \in Seq(Weights)
  PROVE  Folded(s) = Added(s) /\ Added(s) \in Int
<1> DEFINE S == 1 .. Len(s)
           F(g) == [z \in SUBSET S |->
                      IF z = {} THEN 0
                      ELSE s[CHOOSE x \in z : TRUE] + g[z \ {CHOOSE x \in z : TRUE}]]
           fold == CHOOSE g : g = F(g)
<1>1. IsFiniteSet(S) /\ \A n \in S : s[n] \in Int
  <2>1. Len(s) \in Int /\ \A n \in S : s[n] \in Int
    <3>1. Len(s) \in Int /\ \A n \in S : s[n] \in Weights
      OBVIOUS
    <3> QED BY <3>1, WeightIs
  <2>2. IsFiniteSet(S)
    BY <2>1, FS_Interval
  <2> QED BY <2>1, <2>2
<1>2. Folded(s) = fold[S]
  <2>1. DOMAIN s = S
    OBVIOUS
  <2> QED BY <2>1 DEF Folded, FoldSeq, FoldFunction, FoldFunctionOnSet, MapThenFoldSet
<1>3. ASSUME NEW g PROVE SumsUp(g, s, S) <=> g = F(g)
  <2>1. \A z \in SUBSET S : z # {} => s[Chosen(z)] = s[CHOOSE x \in z : TRUE]
    BY ChosenIs DEF Chosen
  <2> QED BY <2>1 DEF SumsUp, Chosen
<1> HIDE DEF F, S
<1>4. \E g : g = F(g)
  BY <1>1, <1>3, SumExists
<1>5. fold = F(fold)
  BY <1>4
<1> HIDE DEF fold
<1>6. SumsUp(fold, s, S)
  BY <1>3, <1>5
<1>7. SumOf(s, S) = fold[S]
  <2> DEFINE h == CHOOSE h : SumsUp(h, s, S)
  <2>1. SumsUp(h, s, S) /\ h[S] = SumOf(s, S)
    BY <1>6 DEF SumOf
  <2> HIDE DEF h
  <2>2. h[S] = fold[S]
    BY <1>1, <1>6, <2>1, SumAgrees
  <2> QED BY <2>1, <2>2
<1>8. SumOf(s, S) \in Int
  BY <1>1, SumLaws
<1> QED BY <1>2, <1>7, <1>8 DEF Added, S

(* A sequence without the element at position i sums to that much less.    *)
LEMMA SumWithout ==
  ASSUME NEW s, s \in Seq(Weights), NEW i, i \in 1 .. Len(s), NEW e, IsCut(e, s, i, 1)
  PROVE  Added(e) = Added(s) - s[i]
<1> DEFINE l == Len(s)
           S == 1 .. l
           a == [k \in 1 .. l - 1 |-> IF k < i THEN k ELSE k + 1]
           placed == {a[k] : k \in 1 .. l - 1}
           f == [k \in 1 .. l - 1 |-> s[a[k]]]
<1>1. /\ l \in Nat /\ l - 1 \in Nat /\ i \in Int /\ 1 <= i /\ i <= l
      /\ Len(e) = l - 1
      /\ \A k \in 1 .. l - 1 : e[k] = IF k < i THEN s[k] ELSE s[k + 1]
      /\ \A k \in S : s[k] \in Int
  <2>1. \A k \in S : s[k] \in Int
    <3>1. \A k \in S : s[k] \in Weights
      OBVIOUS
    <3> QED BY <3>1, WeightIs
  <2> QED BY <2>1 DEF IsCut
<1>2. IsFiniteSet(S) /\ i \in S /\ IsFiniteSet(1 .. l - 1)
  BY <1>1, FS_Interval
<1> HIDE DEF l
<1>3. SumOf(s, S) = s[i] + SumOf(s, S \ {i}) /\ SumOf(s, S \ {i}) \in Int
  <2>1. \A x \in S : SumOf(s, S) = s[x] + SumOf(s, S \ {x})
    <3> HIDE DEF S
    <3> QED BY <1>1, <1>2, SumLaws
  <2>2. IsFiniteSet(S \ {i}) /\ \A x \in S \ {i} : s[x] \in Int
    BY <1>1, <1>2, FS_Subset
  <2>3. SumOf(s, S \ {i}) \in Int
    <3> HIDE DEF S
    <3> QED BY <2>2, SumLaws
  <2> QED BY <1>2, <2>1, <2>3
<1>4. placed = S \ {i}
  <2>1. ASSUME NEW y \in S \ {i} PROVE y \in placed
    <3>1. CASE y < i
      <4>1. y \in 1 .. l - 1 /\ a[y] = y
        BY <1>1, <3>1
      <4> QED BY <4>1
    <3>2. CASE y > i
      <4>1. y - 1 \in 1 .. l - 1 /\ a[y - 1] = y
        BY <1>1, <3>2
      <4> QED BY <4>1
    <3> QED BY <1>1, <3>1, <3>2
  <2>2. ASSUME NEW k \in 1 .. l - 1 PROVE a[k] \in S \ {i}
    BY <1>1
  <2> QED BY <2>1, <2>2
<1>5. /\ \A k \in 1 .. l - 1 : s[a[k]] \in Int
      /\ \A j, k \in 1 .. l - 1 : a[j] = a[k] => j = k
  <2>1. \A k \in 1 .. l - 1 : a[k] \in S
    BY <1>1
  <2>2. \A j, k \in 1 .. l - 1 : a[j] = a[k] => j = k
    BY <1>1
  <2> QED BY <1>1, <2>1, <2>2
<1>6. SumOf(f, 1 .. l - 1) = SumOf(s, placed)
  <2> HIDE DEF a
  <2> QED BY <1>1, <1>5, SumOfPlaces
<1>7. SumOf(e, 1 .. l - 1) = SumOf(f, 1 .. l - 1)
  <2>1. \A k \in 1 .. l - 1 : f[k] \in Int /\ e[k] = f[k]
    BY <1>1, <1>5
  <2> HIDE DEF f
  <2> QED BY <1>2, <2>1, SumSame
<1>8. SumOf(e, 1 .. Len(e)) = SumOf(s, 1 .. l) - s[i]
  <2>1. SumOf(e, 1 .. l - 1) = SumOf(s, S \ {i})
    BY <1>4, <1>6, <1>7
  <2>2. s[i] \in Int
    BY <1>1, <1>2
  <2> HIDE DEF a, f, placed
  <2>3. SumOf(e, 1 .. l - 1) = SumOf(s, S) - s[i]
    BY <1>3, <2>1, <2>2
  <2> QED BY <1>1, <2>3
<1> QED BY <1>8 DEF Added, l

LEMMA PlatformIs ==
  ASSUME StationInv, NEW p, p \in Platforms
  PROVE  /\ CarsOf(p) \in Seq(Cars) /\ Once(CarsOf(p)) /\ Linked(CarsOf(p), first, next, p)
         /\ Len(CarsOf(p)) \in Nat
         /\ \A k \in 1 .. Len(CarsOf(p)) : CarsOf(p)[k] \in ToSet(CarsOf(p)) /\ CarsOf(p)[k] \in Cars
         /\ StationTypes /\ next \in Nexts /\ first \in Firsts /\ weight \in Scales
         /\ power[p] \in Int
         /\ WeightsOf(p) = Weighted(CarsOf(p), weight)
<1>1. CarsOf(p) \in Seq(Cars) /\ Once(CarsOf(p)) /\ Linked(CarsOf(p), first, next, p)
  BY DEF StationInv, Good, Lists, InOrder, AllCars
<1>2. StationTypes /\ next \in Nexts /\ first \in Firsts /\ weight \in Scales
  BY DEF StationInv, StationTypes, Scales
<1>3. power[p] \in Int
  <2>1. Powers \cup {Empty} \subseteq Int
    BY StationConstants DEF Empty
  <2>2. power[p] \in Powers \cup {Empty}
    BY <1>2 DEF StationTypes
  <2> QED BY <2>1, <2>2
<1> QED BY <1>1, <1>2, <1>3, HeldIs DEF WeightsOf, Weighted

Weighs(s, c, w) ==
  /\ s \in Seq(Weights) /\ Len(s) = Len(c)
  /\ \A k \in 1 .. Len(c) : s[k] = w[c[k]] /\ s[k] \in Int

LEMMA WeightedIs ==
  ASSUME NEW c, c \in Seq(Cars), NEW w, w \in Scales
  PROVE  Weighs(Weighted(c, w), c, w)
<1> DEFINE s == Weighted(c, w)
<1>1. /\ Len(c) \in Nat /\ s = [k \in 1 .. Len(c) |-> w[c[k]]]
      /\ \A k \in 1 .. Len(c) : w[c[k]] \in Weights
  BY DEF Scales, Weighted
<1> HIDE DEF s
<1>3. s \in Seq(Weights) /\ Len(s) = Len(c) /\ \A k \in 1 .. Len(c) : s[k] = w[c[k]]
  BY <1>1
<1>4. \A k \in 1 .. Len(c) : s[k] \in Weights
  BY <1>1
<1>5. \A k \in 1 .. Len(c) : s[k] \in Int
  BY <1>4, WeightIs
<1>6. Weighs(s, c, w)
  BY <1>3, <1>5 DEF Weighs
<1> QED BY <1>6 DEF s

(* A car at position i leaves platform p: its links lead past it, and it   *)
(* is freed.                                                               *)
LEMMA OneCarLess ==
  ASSUME StationInv, NEW p, p \in Platforms, NEW i, i \in 1 .. Len(CarsOf(p)),
         NEW n, n \in Nexts, \A x \in Cars \ ToSet(CarsOf(p)) : n[x] = next[x],
         first' \in Firsts, \A q \in Platforms \ {p} : first'[q] = first[q],
         Bridged(CarsOf(p), first, next, p, i, 1, first', n),
         Free({CarsOf(p)[i]}, n), Powered
  PROVE  StationInv' /\ Train' = [Train EXCEPT ![p] = CutOut(Train[p], i, 1)]
<1> DEFINE c == CarsOf(p)
           e == CutOut(c, i, 1)
           gone == {c[i]}
<1>1. /\ c \in Seq(Cars) /\ Once(c) /\ Linked(c, first, next, p) /\ Len(c) \in Nat
      /\ \A k \in 1 .. Len(c) : c[k] \in ToSet(c)
      /\ weight \in Scales /\ WeightsOf(p) = Weighted(c, weight)
  BY PlatformIs
<1> HIDE DEF c
<1>2. PICK one : one = 1
  OBVIOUS
<1>3. /\ one \in Nat \ {0} /\ i \in Nat \ {0} /\ i + one - 1 <= Len(c) /\ i \in 1 .. Len(c)
      /\ i \in i .. i + one - 1
  BY <1>1, <1>2 DEF c
<1>4. Linked(CutOut(c, i, one), first', n, p)
  BY <1>1, <1>2, <1>3, CutLinked DEF c
<1>5. /\ CutOut(c, i, one) \in Seq(Cars) /\ Once(CutOut(c, i, one))
      /\ ToSet(CutOut(c, i, one)) \subseteq ToSet(c) \ {c[k] : k \in i .. i + one - 1}
  BY <1>1, <1>3, CutHolds
<1>6. CutAlike(c, weight, i, one)
  BY <1>1, <1>3, CutWeights
<1>7. /\ e \in Seq(Cars) /\ Once(e) /\ Linked(e, first', n, p)
      /\ ToSet(e) \subseteq ToSet(c) \ gone /\ gone \subseteq ToSet(c)
      /\ Weighted(e, weight) = CutOut(Weighted(c, weight), i, 1)
  <2>1. c[i] \in {c[k] : k \in i .. i + one - 1}
    BY <1>3
  <2> QED BY <1>1, <1>2, <1>3, <1>4, <1>5, <1>6, <2>1 DEF CutAlike
<1> HIDE DEF e
<1>8. Free(gone, n)
  BY DEF c
<1> HIDE DEF gone
<1>9. StationInv' /\ Train' = [Train EXCEPT ![p] = Weighted(e, weight)]
  BY <1>7, <1>8, Thinned DEF c
<1>10. Train[p] = Weighted(c, weight)
  BY <1>1 DEF Train
<1> QED BY <1>7, <1>9, <1>10

(* What the instance of Trains reads of the community modules.             *)
LEMMA YardReads ==
  /\ \A s, i : Yard!RemoveAt(s, i) = CutOut(s, i, 1)
  /\ \A s : Yard!FoldSeq(+, 0, s) = Folded(s)
<1>1. \A s, i : Yard!RemoveAt(s, i) = CutOut(s, i, 1)
  BY DEF Yard!RemoveAt, CutOut
<1>2. ASSUME NEW s PROVE Yard!FoldSeq(+, 0, s) = Folded(s)
  BY DEF Yard!FoldSeq, Yard!FoldFunction, Yard!FoldFunctionOnSet, Yard!MapThenFoldSet,
         Folded, FoldSeq, FoldFunction, FoldFunctionOnSet, MapThenFoldSet
<1> QED BY <1>1, <1>2

LEMMA FixStep ==
  ASSUME StationInv, fix_overload_train
  PROVE  StationInv' /\ \E p \in Platforms : Yard!Fix(p)
<1> DEFINE over == {q \in Platforms : power[q] < sumvag(q)}
           p == find_overload_train
           c == CarsOf(p)
           spare(k) == Surplus(p) + weight[c[k]]
           fits == {k \in 1 .. Len(c) : spare(k) >= 0}
           least == {m \in fits : \A q \in fits : spare(m) <= spare(q)}
           i == Min(least)
           n == IF i = 1 THEN next ELSE [next EXCEPT ![c[i - 1]] = next[c[i]]]
<1>1. /\ p # -1 /\ fits # {} /\ power' = power
      /\ first' = IF i = 1 THEN [first EXCEPT ![p] = next[c[i]]] ELSE first
      /\ Free({c[i]}, n)
  BY DEF fix_overload_train
<1>2. p \in over
  <2>1. over # {} /\ p = Min(over)
    BY <1>1 DEF find_overload_train
  <2>2. over \subseteq Nat
    BY StationConstants DEF Platforms
  <2> HIDE DEF over
  <2>3. PICK x \in over : \A y \in over : x <= y
    BY <2>1, <2>2, LeastElement
  <2>4. Min(over) \in over
    BY <2>3 DEF Min
  <2> QED BY <2>1, <2>4
<1>3. p \in Platforms /\ power[p] < sumvag(p)
  BY <1>2
<1> HIDE DEF p, over
<1>4. /\ c \in Seq(Cars) /\ Once(c) /\ Linked(c, first, next, p) /\ Len(c) \in Nat
      /\ \A k \in 1 .. Len(c) : c[k] \in ToSet(c) /\ c[k] \in Cars
      /\ StationTypes /\ next \in Nexts /\ first \in Firsts /\ weight \in Scales /\ power[p] \in Int
      /\ WeightsOf(p) = Weighted(c, weight)
  BY <1>3, PlatformIs
<1> DEFINE s == WeightsOf(p)
<1>5. /\ s \in Seq(Weights) /\ Len(s) = Len(c)
      /\ \A k \in 1 .. Len(c) : s[k] = weight[c[k]] /\ s[k] \in Int
  <2>1. Weighs(s, c, weight)
    <3>1. Weighs(Weighted(c, weight), c, weight)
      BY <1>4, WeightedIs
    <3> QED BY <1>4, <3>1
  <2> QED BY <2>1 DEF Weighs
<1>6. sumvag(p) = Added(s) /\ sumvag(p) \in Int
  <2>1. Folded(s) = Added(s) /\ Added(s) \in Int
    BY <1>5, SumIs
  <2> QED BY <2>1 DEF sumvag, Folded
<1>7. Surplus(p) = power[p] - sumvag(p) /\ Surplus(p) \in Int
  BY <1>4, <1>6 DEF Surplus
<1>8. i \in 1 .. Len(c) /\ spare(i) >= 0
  <2>1. \A k \in fits : spare(k) \in Nat
    <3> SUFFICES ASSUME NEW k \in 1 .. Len(c), spare(k) >= 0 PROVE spare(k) \in Nat
      OBVIOUS
    <3> HIDE DEF c, s, spare
    <3>1. s[k] = weight[c[k]] /\ s[k] \in Int
      BY <1>5
    <3>2. weight[c[k]] \in Int
      BY <3>1
    <3> QED BY <1>7, <3>2 DEF spare
  <2> DEFINE T == {spare(k) : k \in fits}
  <2>2. T \subseteq Nat /\ T # {}
    BY <1>1, <2>1
  <2> HIDE DEF T
  <2>3. PICK x \in T : \A y \in T : x <= y
    BY <2>2, LeastElement
  <2>4. PICK m \in fits : x = spare(m)
    BY <2>3 DEF T
  <2>5. \A q \in fits : spare(q) \in T
    BY DEF T
  <2>6. m \in least
    BY <2>3, <2>4, <2>5
  <2>7. least \subseteq Nat /\ least \subseteq fits
    BY <1>4
  <2>8. \A k \in fits : k \in 1 .. Len(c) /\ spare(k) >= 0
    OBVIOUS
  <2> HIDE DEF least, fits, spare
  <2>9. PICK y \in least : \A z \in least : y <= z
    BY <2>6, <2>7, LeastElement
  <2>10. Min(least) \in least
    BY <2>9 DEF Min
  <2> QED BY <2>7, <2>8, <2>10
<1>9. s[i] = weight[c[i]] /\ c[i] \in Cars /\ s[i] \in Int
  <2>1. s[i] = weight[c[i]] /\ c[i] \in Cars /\ s[i] \in Int
    <3>1. i \in 1 .. Len(c)
      BY <1>8
    <3> HIDE DEF i, s, c, fits, least, spare
    <3> QED BY <1>4, <1>5, <3>1
  <2> HIDE DEF i, s, c, fits, least, spare
  <2> QED BY <2>1
<1>10. power[p] - sumvag(p) + s[i] >= 0
  BY <1>7, <1>8, <1>9
<1> HIDE DEF i, c, fits, spare, least, s
<1>11. /\ n \in Nexts /\ \A y \in Cars : n[y] = IF i # 1 /\ y = c[i - 1] THEN next[c[i]] ELSE next[y]
       /\ first' \in Firsts /\ first'[p] = (IF i = 1 THEN next[c[i]] ELSE first[p])
       /\ \A q \in Platforms \ {p} : first'[q] = first[q]
  <2>1. next[c[i]] \in CarOrNull
    BY <1>4, <1>9 DEF Nexts
  <2>2. CASE i = 1
    BY <1>1, <1>3, <1>4, <2>1, <2>2 DEF Nexts, Firsts
  <2>3. CASE i # 1
    <3>1. c[i - 1] \in Cars
      BY <1>4, <1>8, <2>3
    <3> QED BY <1>1, <1>4, <2>1, <2>3, <3>1 DEF Nexts, Firsts
  <2> QED BY <2>2, <2>3
<1>12. Free({c[i]}, n)
  BY <1>1
<1> HIDE DEF n
<1>13. Bridged(c, first, next, p, i, 1, first', n)
  <2>1. i + 1 - 1 = i
    BY <1>8
  <2>2. ASSUME NEW k \in 1 .. Len(c), k < i \/ k >= i + 1
        PROVE  n[c[k]] = IF k = i - 1 THEN next[c[i]] ELSE next[c[k]]
    <3>1. i # 1 => i - 1 \in 1 .. Len(c)
      BY <1>4, <1>8
    <3>2. i # 1 => (c[k] = c[i - 1] <=> k = i - 1)
      BY <1>4, <3>1 DEF Once
    <3>3. i = 1 => k # i - 1
      OBVIOUS
    <3>4. n[c[k]] = IF i # 1 /\ c[k] = c[i - 1] THEN next[c[i]] ELSE next[c[k]]
      BY <1>4, <1>11
    <3> QED BY <3>2, <3>3, <3>4
  <2> QED BY <1>11, <2>1, <2>2 DEF Bridged
<1>14. \A x \in Cars \ ToSet(c) : n[x] = next[x]
  <2>1. i # 1 => c[i - 1] \in ToSet(c)
    <3>1. i # 1 => i - 1 \in 1 .. Len(c)
      BY <1>4, <1>8
    <3> QED BY <1>4, <3>1
  <2> QED BY <1>11, <2>1
<1>15. Powered
  BY <1>1, <1>4 DEF StationTypes, Powered
<1>16. StationInv' /\ Train' = [Train EXCEPT ![p] = CutOut(Train[p], i, 1)]
  BY <1>3, <1>8, <1>11, <1>12, <1>13, <1>14, <1>15, OneCarLess DEF c
<1>17. Train[p] = s
  BY <1>3 DEF Train, s
<1> DEFINE e == CutOut(s, i, 1)
<1>18. e \in Seq(Weights) /\ IsCut(e, s, i, 1)
  <2>1. i \in Nat \ {0} /\ i + 1 - 1 <= Len(s)
    BY <1>4, <1>5, <1>8
  <2>2. PICK one : one = 1
    OBVIOUS
  <2>3. one \in Nat \ {0} /\ i + one - 1 <= Len(s)
    BY <2>1, <2>2
  <2>4. CutOut(s, i, one) \in Seq(Weights) /\ IsCut(CutOut(s, i, one), s, i, one)
    <3>1. s \in Seq(Weights)
      BY <1>5
    <3> QED BY <2>1, <2>3, <3>1, CutIs
  <2> QED BY <2>2, <2>4
<1>19. i \in 1 .. Len(s)
  BY <1>5, <1>8
<1> HIDE DEF e
<1>20. Added(e) = Added(s) - s[i]
  BY <1>5, <1>18, <1>19, SumWithout
<1>21. Folded(s) = Added(s) /\ Folded(e) = Added(e)
  BY <1>5, <1>18, SumIs
<1>22. Added(s) > power[p] /\ Added(e) <= power[p]
  BY <1>3, <1>4, <1>6, <1>9, <1>10, <1>20
<1>23. Train'[p] = e
  BY <1>3, <1>16, <1>17 DEF Train, e
<1>24. Yard!Fix(p)
  <2>1. \E k \in 1 .. Len(Train[p]) : Train' = [Train EXCEPT ![p] = Yard!RemoveAt(@, k)]
    BY <1>16, <1>17, <1>19, YardReads DEF e
  <2>2. Yard!FoldSeq(+, 0, Train[p]) > power[p]
    BY <1>17, <1>21, <1>22, YardReads
  <2>3. Yard!FoldSeq(+, 0, Train'[p]) <= power[p]
    BY <1>21, <1>22, <1>23, YardReads
  <2> QED BY <1>1, <2>1, <2>2, <2>3 DEF Yard!Fix, Train
<1> QED BY <1>3, <1>16, <1>24

(* The passes of remove_train_cars over the cars of p.                     *)
Passing == [prev : CarOrNull, first : Firsts, next : Nexts]
Passes(pass, c, p, w) ==
  /\ pass \in [0 .. Len(c) -> Passing]
  /\ pass[0] = [prev |-> Null, first |-> first, next |-> next]
  /\ \A k \in 1 .. Len(c) : pass[k] = Unlink(pass[k - 1], c[k], p, w)

LEMMA UnlinkType ==
  ASSUME StationTypes, NEW p \in Platforms, NEW s \in Passing, NEW c \in Cars, NEW w
  PROVE  Unlink(s, c, p, w) \in Passing
<1>1. next[c] \in CarOrNull /\ c \in CarOrNull
  BY NullOk DEF StationTypes, Nexts
<1>2. s.prev \in CarOrNull /\ s.first \in [Platforms -> CarOrNull] /\ s.next \in [Cars -> CarOrNull]
  BY DEF Passing, Firsts, Nexts
<1>3. CASE weight[c] # w
  BY <1>1, <1>3 DEF Passing, Unlink
<1>4. CASE weight[c] = w /\ s.prev = Null
  <2>1. Unlink(s, c, p, w) = [s EXCEPT !.first[p] = next[c]]
    BY <1>4 DEF Unlink
  <2>2. [s.first EXCEPT ![p] = next[c]] \in Firsts
    BY <1>1, <1>2 DEF Firsts
  <2>3. [s EXCEPT !.first[p] = next[c]] = [s EXCEPT !.first = [s.first EXCEPT ![p] = next[c]]]
    OBVIOUS
  <2> QED BY <2>1, <2>2, <2>3 DEF Passing
<1>5. CASE weight[c] = w /\ s.prev # Null
  <2>1. Unlink(s, c, p, w) = [s EXCEPT !.next[s.prev] = next[c]]
    BY <1>5 DEF Unlink
  <2>2. [s.next EXCEPT ![s.prev] = next[c]] \in Nexts
    BY <1>1, <1>2 DEF Nexts
  <2>3. [s EXCEPT !.next[s.prev] = next[c]] = [s EXCEPT !.next = [s.next EXCEPT ![s.prev] = next[c]]]
    OBVIOUS
  <2> QED BY <2>1, <2>2, <2>3 DEF Passing
<1> QED BY <1>3, <1>4, <1>5

LEMMA PassIs ==
  ASSUME StationInv, NEW p \in Platforms, NEW w, remove_train_cars(p, w)
  PROVE  \E pass :
           /\ Passes(pass, CarsOf(p), p, w)
           /\ first' = pass[Len(CarsOf(p))].first
           /\ Free({c \in ToSet(CarsOf(p)) : weight[c] = w}, pass[Len(CarsOf(p))].next)
           /\ power' = power
<1> DEFINE N == Len(CarsOf(p))
           s0 == [prev |-> Null, first |-> first, next |-> next]
           V(g, k) == IF k = 0 THEN s0 ELSE Unlink(g[k - 1], CarsOf(p)[k], p, w)
           Is(g) == g = [k \in 0 .. N |-> V(g, k)]
           F == [ks \in (1 .. N) \X Passing |-> Unlink(ks[2], CarsOf(p)[ks[1]], p, w)]
           pass == CHOOSE g : Is(g)
<1>1. /\ N \in Nat /\ StationTypes /\ next \in Nexts /\ first \in Firsts
      /\ \A k \in 1 .. N : CarsOf(p)[k] \in Cars
  BY PlatformIs
<1>2. s0 \in Passing
  BY <1>1, NullOk DEF Passing
<1>3. \A k \in 1 .. N, x \in Passing :
        F[<<k, x>>] = Unlink(x, CarsOf(p)[k], p, w) /\ F[<<k, x>>] \in Passing
  BY <1>1, UnlinkType
<1>4. /\ first' = pass[N].first
      /\ Free({c \in ToSet(CarsOf(p)) : weight[c] = w}, pass[N].next)
      /\ power' = power
  BY DEF remove_train_cars
<1> HIDE DEF N, s0
<1>5. PICK g : Iterated(g, N, Passing, s0, F)
  <2>1. Closed(N, Passing, F)
    BY <1>3 DEF Closed
  <2> HIDE DEF F
  <2> QED BY <1>1, <1>2, <2>1, Iterates
<1>6. Is(g)
  <2>1. ASSUME NEW k \in 0 .. N PROVE g[k] = V(g, k)
    <3>1. CASE k = 0
      BY <1>5, <3>1 DEF Iterated
    <3>2. CASE k # 0
      <4>1. k \in 1 .. N /\ g[k - 1] \in Passing
        BY <1>1, <1>5, <3>2 DEF Iterated
      <4>2. g[k] = F[<<k, g[k - 1]>>]
        BY <1>5, <4>1 DEF Iterated
      <4> HIDE DEF F
      <4> QED BY <1>3, <3>2, <4>1, <4>2
    <3> QED BY <3>1, <3>2
  <2> HIDE DEF V, F
  <2>2. g = [k \in 0 .. N |-> g[k]]
    BY <1>5 DEF Iterated
  <2> QED BY <2>1, <2>2
<1>7. Is(pass)
  <2> HIDE DEF Is
  <2> QED BY <1>6
<1> HIDE DEF F, pass
<1>8. /\ pass = [k \in 0 .. N |-> pass[k]] /\ pass[0] = s0
      /\ \A k \in 1 .. N : pass[k] = Unlink(pass[k - 1], CarsOf(p)[k], p, w)
  BY <1>1, <1>7
<1> HIDE DEF Is
<1> DEFINE T == {k \in Nat : k <= N => pass[k] \in Passing}
<1>9. 0 \in T
  BY <1>1, <1>2, <1>8
<1>10. ASSUME NEW k \in Nat, k \in T PROVE k + 1 \in T
  <2>1. CASE k + 1 <= N
    <3>1. pass[k] \in Passing /\ k + 1 \in 1 .. N /\ (k + 1) - 1 = k
      BY <1>1, <1>10, <2>1
    <3>2. pass[k + 1] = Unlink(pass[k], CarsOf(p)[k + 1], p, w) /\ CarsOf(p)[k + 1] \in Cars
      BY <1>1, <1>8, <3>1
    <3>3. pass[k + 1] \in Passing
      BY <1>1, <3>1, <3>2, UnlinkType
    <3> QED BY <3>3
  <2>2. CASE ~(k + 1 <= N)
    BY <2>2
  <2> QED BY <2>1, <2>2
<1>11. \A k \in Nat : k \in T
  <2> HIDE DEF T
  <2> QED BY <1>9, <1>10, SetInduction
<1>12. pass \in [0 .. N -> Passing]
  <2>1. \A k \in 0 .. N : pass[k] \in Passing
    BY <1>1, <1>11
  <2> QED BY <1>8, <2>1
<1>13. Passes(pass, CarsOf(p), p, w)
  BY <1>8, <1>12 DEF Passes, N, s0
<1> QED BY <1>4, <1>13 DEF N

(* What is left of the weights after k of them.                            *)
LeftOver(leftover, s, w) ==
  /\ leftover[0] = <<>>
  /\ \A k \in 1 .. Len(s) : leftover[k] = IF s[k] = w THEN leftover[k - 1] ELSE Append(leftover[k - 1], s[k])

LEMMA WithoutIs ==
  ASSUME NEW s, s \in Seq(Weights), NEW w
  PROVE  \E leftover : LeftOver(leftover, s, w) /\ Yard!Without(s, w) = leftover[Len(s)]
<1> DEFINE N == Len(s)
           S == Seq(Weights)
           V(g, k) == IF k = 0 THEN <<>> ELSE IF s[k] = w THEN g[k - 1] ELSE Append(g[k - 1], s[k])
           Is(g) == g = [k \in 0 .. N |-> V(g, k)]
           F == [ks \in (1 .. N) \X S |-> IF s[ks[1]] = w THEN ks[2] ELSE Append(ks[2], s[ks[1]])]
           leftover == CHOOSE g : Is(g)
<1>1. N \in Nat /\ <<>> \in S /\ \A k \in 1 .. N : s[k] \in Weights
  OBVIOUS
<1>2. Yard!Without(s, w) = leftover[N]
  BY DEF Yard!Without
<1>3. ASSUME NEW k \in 1 .. N, NEW x \in S
      PROVE  /\ F[<<k, x>>] = IF s[k] = w THEN x ELSE Append(x, s[k])
             /\ F[<<k, x>>] \in S
  BY <1>1
<1> HIDE DEF N, S
<1>4. PICK g : Iterated(g, N, S, <<>>, F)
  <2>1. Closed(N, S, F)
    BY <1>3 DEF Closed
  <2>2. PICK none : none = <<>>
    OBVIOUS
  <2> HIDE DEF F
  <2>3. \E g : Iterated(g, N, S, none, F)
    BY <1>1, <2>1, <2>2, Iterates
  <2> QED BY <2>2, <2>3
<1>5. Is(g)
  <2>1. ASSUME NEW k \in 0 .. N PROVE g[k] = V(g, k)
    <3>1. CASE k = 0
      BY <1>4, <3>1 DEF Iterated
    <3>2. CASE k # 0
      <4>1. k \in 1 .. N /\ g[k - 1] \in S
        BY <1>1, <1>4, <3>2 DEF Iterated
      <4>2. g[k] = F[<<k, g[k - 1]>>]
        BY <1>4, <4>1 DEF Iterated
      <4> HIDE DEF F
      <4> QED BY <1>3, <3>2, <4>1, <4>2
    <3> QED BY <3>1, <3>2
  <2> HIDE DEF V, F
  <2>2. g = [k \in 0 .. N |-> g[k]]
    BY <1>4 DEF Iterated
  <2> QED BY <2>1, <2>2
<1>6. Is(leftover)
  <2> HIDE DEF Is
  <2> QED BY <1>5
<1> HIDE DEF leftover, F
<1>7. \A k \in 0 .. N : leftover[k] = V(leftover, k)
  <2> HIDE DEF V
  <2> QED BY <1>6
<1>8. \A k \in 1 .. N : leftover[k] = IF s[k] = w THEN leftover[k - 1] ELSE Append(leftover[k - 1], s[k])
  <2> TAKE k \in 1 .. N
  <2>1. k \in 0 .. N /\ k # 0
    BY <1>1
  <2> QED BY <1>7, <2>1
<1>9. leftover[0] = <<>>
  <2>1. 0 \in 0 .. N
    BY <1>1
  <2> QED BY <1>7, <2>1
<1>10. LeftOver(leftover, s, w)
  BY <1>8, <1>9 DEF LeftOver, N
<1> QED BY <1>2, <1>10 DEF N

(* NextAfter k cars: r holds those kept, linked, and the last of them leads to *)
(* the car that comes next.                                                *)
NextAfter(c, k) == IF k = Len(c) THEN Null ELSE c[k + 1]
KeptSoFar(r, pass, c, p, w, k) ==
  /\ r \in Seq(Cars) /\ Once(r)
  /\ \A y \in ToSet(r) : \E m \in 1 .. k : c[m] = y /\ weight[y] # w
  /\ pass[k].prev = IF Len(r) = 0 THEN Null ELSE r[Len(r)]
  /\ pass[k].first[p] = IF Len(r) = 0 THEN NextAfter(c, k) ELSE r[1]
  /\ \A i \in 1 .. Len(r) : pass[k].next[r[i]] = IF i = Len(r) THEN NextAfter(c, k) ELSE r[i + 1]
  /\ \A y \in Cars \ ToSet(r) : pass[k].next[y] = next[y]
  /\ \A q \in Platforms \ {p} : pass[k].first[q] = first[q]

LEMMA KeepsNone ==
  ASSUME NEW p, p \in Platforms, NEW c, c \in Seq(Cars), Linked(c, first, next, p), NEW w,
         NEW pass, Passes(pass, c, p, w)
  PROVE  KeptSoFar(<<>>, pass, c, p, w, 0)
<1>1. /\ pass[0].prev = Null /\ pass[0].first = first /\ pass[0].next = next
      /\ Len(c) \in Nat
  BY DEF Passes
<1>2. first[p] = IF Len(c) = 0 THEN Null ELSE c[1]
  BY DEF Linked
<1>3. NextAfter(c, 0) = first[p]
  BY <1>1, <1>2 DEF NextAfter
<1>4. /\ <<>> \in Seq(Cars) /\ Once(<<>>) /\ ToSet(<<>>) = {} /\ Len(<<>>) = 0
  BY NoCars
<1> QED BY <1>1, <1>3, <1>4 DEF KeptSoFar

(* The car k + 1 goes.                                                     *)
LEMMA KeepsLess ==
  ASSUME StationTypes, NEW p, p \in Platforms, NEW c, c \in Seq(Cars), Once(c),
         Linked(c, first, next, p), NEW w, NEW pass, Passes(pass, c, p, w),
         NEW k, k \in 0 .. Len(c) - 1, NEW r, KeptSoFar(r, pass, c, p, w, k), weight[c[k + 1]] = w
  PROVE  KeptSoFar(r, pass, c, p, w, k + 1)
<1> DEFINE x == c[k + 1]
           s == pass[k]
           t == pass[k + 1]
<1>1. /\ Len(c) \in Nat /\ k \in Nat /\ k + 1 \in 1 .. Len(c) /\ (k + 1) - 1 = k /\ k # Len(c)
      /\ k \in 0 .. Len(c) /\ x \in Cars /\ x \in CarOrNull
  BY NullOk
<1>2. /\ r \in Seq(Cars) /\ Once(r) /\ Len(r) \in Nat
      /\ \A i \in 1 .. Len(r) : r[i] \in ToSet(r) /\ r[i] \in Cars
      /\ \A y \in ToSet(r) : y \in Cars /\ \E i \in 1 .. Len(r) : r[i] = y
  BY HeldIs DEF KeptSoFar
<1>3. s \in Passing /\ t = Unlink(s, x, p, w) /\ weight[x] = w
  BY <1>1 DEF Passes
<1>4. /\ s.prev = (IF Len(r) = 0 THEN Null ELSE r[Len(r)])
      /\ s.first[p] = (IF Len(r) = 0 THEN x ELSE r[1])
      /\ \A i \in 1 .. Len(r) : s.next[r[i]] = IF i = Len(r) THEN x ELSE r[i + 1]
      /\ \A y \in Cars \ ToSet(r) : s.next[y] = next[y]
      /\ \A q \in Platforms \ {p} : s.first[q] = first[q]
  BY <1>1 DEF KeptSoFar, NextAfter
<1>5. next[x] = NextAfter(c, k + 1) /\ next[x] \in CarOrNull
  BY <1>1 DEF Linked, NextAfter, StationTypes, Nexts
<1>6. \A y \in ToSet(r) : \E m \in 1 .. k + 1 : c[m] = y /\ weight[y] # w
  <2>1. \A y \in ToSet(r) : \E m \in 1 .. k : c[m] = y /\ weight[y] # w
    BY DEF KeptSoFar
  <2>2. \A m \in 1 .. k : m \in 1 .. k + 1
    BY <1>1
  <2> QED BY <2>1, <2>2
<1>7. s.first \in [Platforms -> CarOrNull] /\ s.next \in [Cars -> CarOrNull]
  BY <1>3 DEF Passing, Firsts, Nexts
<1> HIDE DEF x, s, t
<1>8. CASE Len(r) = 0
  <2>1. t = [s EXCEPT !.first[p] = next[x]]
    BY <1>3, <1>4, <1>8 DEF Unlink
  <2>2. /\ t.prev = s.prev /\ t.next = s.next
        /\ t.first = [s.first EXCEPT ![p] = next[x]]
    BY <1>3, <2>1 DEF Passing
  <2>3. t.first[p] = next[x] /\ \A q \in Platforms \ {p} : t.first[q] = s.first[q]
    BY <1>7, <2>2
  <2> QED BY <1>2, <1>4, <1>5, <1>6, <1>8, <2>2, <2>3 DEF KeptSoFar, t
<1>9. CASE Len(r) # 0
  <2> DEFINE l == Len(r)
  <2>1. l \in 1 .. l /\ s.prev = r[l] /\ r[l] \in Cars /\ s.prev # Null
    BY <1>2, <1>4, <1>9, NullOk
  <2>2. t = [s EXCEPT !.next[s.prev] = next[x]]
    BY <1>3, <2>1 DEF Unlink
  <2>3. t.prev = s.prev /\ t.first = s.first /\ t.next = [s.next EXCEPT ![r[l]] = next[x]]
    BY <1>3, <2>1, <2>2 DEF Passing
  <2>4. t.next[r[l]] = next[x] /\ \A y \in Cars : y # r[l] => t.next[y] = s.next[y]
    BY <1>7, <2>1, <2>3
  <2>5. ASSUME NEW i \in 1 .. l
        PROVE  t.next[r[i]] = IF i = l THEN NextAfter(c, k + 1) ELSE r[i + 1]
    <3>1. CASE i = l
      BY <1>5, <2>4, <3>1
    <3>2. CASE i # l
      <4>1. r[i] # r[l] /\ r[i] \in Cars
        BY <1>2, <2>1, <3>2 DEF Once
      <4> QED BY <1>4, <2>4, <3>2, <4>1
    <3> QED BY <3>1, <3>2
  <2>6. \A y \in Cars \ ToSet(r) : t.next[y] = next[y]
    BY <1>2, <1>4, <2>1, <2>4
  <2>7. /\ t.prev = (IF Len(r) = 0 THEN Null ELSE r[Len(r)])
        /\ t.first[p] = (IF Len(r) = 0 THEN NextAfter(c, k + 1) ELSE r[1])
        /\ \A q \in Platforms \ {p} : t.first[q] = first[q]
    BY <1>4, <1>9, <2>3
  <2> QED BY <1>2, <1>6, <2>5, <2>6, <2>7 DEF KeptSoFar, t
<1> QED BY <1>8, <1>9

(* The car k + 1 stays.                                                    *)
LEMMA KeepsMore ==
  ASSUME StationTypes, NEW p, p \in Platforms, NEW c, c \in Seq(Cars), Once(c),
         Linked(c, first, next, p), NEW w, NEW pass, Passes(pass, c, p, w),
         NEW k, k \in 0 .. Len(c) - 1, NEW r, KeptSoFar(r, pass, c, p, w, k), weight[c[k + 1]] # w
  PROVE  KeptSoFar(Append(r, c[k + 1]), pass, c, p, w, k + 1)
<1> DEFINE x == c[k + 1]
           s == pass[k]
           t == pass[k + 1]
           e == Append(r, x)
           l == Len(r)
<1>1. /\ Len(c) \in Nat /\ k \in Nat /\ k + 1 \in 1 .. Len(c) /\ (k + 1) - 1 = k /\ k # Len(c)
      /\ k \in 0 .. Len(c) /\ x \in Cars
  OBVIOUS
<1>2. /\ r \in Seq(Cars) /\ Once(r) /\ l \in Nat
      /\ \A i \in 1 .. l : r[i] \in ToSet(r) /\ r[i] \in Cars
      /\ \A y \in ToSet(r) : y \in Cars /\ \E i \in 1 .. l : r[i] = y
  BY HeldIs DEF KeptSoFar
<1>3. s \in Passing /\ t = Unlink(s, x, p, w) /\ weight[x] # w
  BY <1>1 DEF Passes
<1>4. /\ s.first[p] = (IF l = 0 THEN x ELSE r[1])
      /\ \A i \in 1 .. l : s.next[r[i]] = IF i = l THEN x ELSE r[i + 1]
      /\ \A y \in Cars \ ToSet(r) : s.next[y] = next[y]
      /\ \A q \in Platforms \ {p} : s.first[q] = first[q]
  BY <1>1 DEF KeptSoFar, NextAfter
<1>5. next[x] = NextAfter(c, k + 1)
  BY <1>1 DEF Linked, NextAfter
<1>6. t.prev = x /\ t.first = s.first /\ t.next = s.next
  <2>1. t = [s EXCEPT !.prev = x]
    BY <1>3 DEF Unlink
  <2> QED BY <1>3, <2>1 DEF Passing
<1>7. x \notin ToSet(r)
  <2>1. \A y \in ToSet(r) : \E m \in 1 .. k : c[m] = y
    BY DEF KeptSoFar
  <2>2. \A m \in 1 .. k : c[m] # c[k + 1]
    <3>1. \A m \in 1 .. k : m \in 1 .. Len(c) /\ m # k + 1
      BY <1>1
    <3> QED BY <1>1, <3>1 DEF Once
  <2> QED BY <2>1, <2>2
<1>8. /\ e \in Seq(Cars) /\ Len(e) = l + 1 /\ e[l + 1] = x /\ \A i \in 1 .. l : e[i] = r[i]
      /\ ToSet(e) = ToSet(r) \cup {x}
  <2> HIDE DEF x
  <2> QED BY <1>1, <1>2, AppendIs
<1>9. \A y \in ToSet(e) : \E m \in 1 .. k + 1 : c[m] = y /\ weight[y] # w
  <2>1. \A y \in ToSet(r) : \E m \in 1 .. k : c[m] = y /\ weight[y] # w
    BY DEF KeptSoFar
  <2>2. k + 1 \in 1 .. k + 1 /\ \A m \in 1 .. k : m \in 1 .. k + 1
    BY <1>1
  <2> QED BY <1>3, <1>8, <2>1, <2>2
<1> HIDE DEF x, s, t, e, l
<1>10. Once(e)
  <2> SUFFICES ASSUME NEW i \in 1 .. Len(e), NEW j \in 1 .. Len(e), e[i] = e[j] PROVE i = j
    BY DEF Once
  <2>1. \A m \in 1 .. Len(e) : m \in 1 .. l \/ m = l + 1
    BY <1>2, <1>8
  <2>2. \A m \in 1 .. l : e[m] = r[m] /\ e[m] # x
    BY <1>2, <1>7, <1>8
  <2>3. \A a, b \in 1 .. l : r[a] = r[b] => a = b
    BY <1>2 DEF Once, l
  <2> QED BY <1>8, <2>1, <2>2, <2>3
<1>11. ASSUME NEW i \in 1 .. Len(e)
       PROVE  t.next[e[i]] = IF i = Len(e) THEN NextAfter(c, k + 1) ELSE e[i + 1]
  <2>1. CASE i = l + 1
    <3>1. t.next[x] = NextAfter(c, k + 1)
      BY <1>1, <1>4, <1>5, <1>6, <1>7 DEF x
    <3> QED BY <1>8, <2>1, <3>1
  <2>2. CASE i = l
    <3>1. i \in 1 .. l /\ i # Len(e)
      BY <1>2, <1>8, <2>2
    <3>2. t.next[r[i]] = x
      BY <1>4, <1>6, <2>2, <3>1
    <3> QED BY <1>8, <2>2, <3>1, <3>2
  <2>3. CASE i # l /\ i # l + 1
    <3>1. i \in 1 .. l /\ i + 1 \in 1 .. l /\ i # Len(e)
      BY <1>2, <1>8, <2>3
    <3>2. t.next[r[i]] = r[i + 1]
      BY <1>4, <1>6, <2>3, <3>1
    <3> QED BY <1>8, <3>1, <3>2
  <2> QED BY <2>1, <2>2, <2>3
<1>12. t.first[p] = e[1] /\ Len(e) # 0
  <2>1. CASE l = 0
    BY <1>4, <1>6, <1>8, <2>1
  <2>2. CASE l # 0
    <3>1. 1 \in 1 .. l
      BY <1>2, <2>2
    <3> QED BY <1>2, <1>4, <1>6, <1>8, <2>2, <3>1
  <2> QED BY <1>2, <1>8, <2>1, <2>2
<1>13. \A y \in Cars \ ToSet(e) : t.next[y] = next[y]
  BY <1>4, <1>6, <1>8
<1>14. t.prev = e[Len(e)] /\ \A q \in Platforms \ {p} : t.first[q] = first[q]
  BY <1>4, <1>6, <1>8
<1>15. KeptSoFar(e, pass, c, p, w, k + 1)
  BY <1>8, <1>9, <1>10, <1>11, <1>12, <1>13, <1>14 DEF KeptSoFar, t
<1> QED BY <1>15 DEF e, x

LEMMA AppendWeight ==
  ASSUME NEW r, r \in Seq(Cars), NEW x, x \in Cars, NEW w, w \in Scales
  PROVE  Weighted(Append(r, x), w) = Append(Weighted(r, w), w[x])
<1> DEFINE e == Append(r, x)
           u == Weighted(r, w)
           l == Len(r)
<1>1. /\ e \in Seq(Cars) /\ Len(e) = l + 1 /\ l \in Nat
      /\ e[l + 1] = x /\ \A i \in 1 .. l : e[i] = r[i]
  OBVIOUS
<1>2. Weighs(u, r, w) /\ w[x] \in Weights
  BY WeightedIs DEF Scales
<1>3. u \in Seq(Weights) /\ Len(u) = l /\ \A i \in 1 .. l : u[i] = w[r[i]]
  BY <1>2 DEF Weighs
<1> HIDE DEF e, u, l
<1>4. Append(u, w[x]) = [i \in 1 .. l + 1 |-> IF i = l + 1 THEN w[x] ELSE u[i]]
  BY <1>1, <1>2, <1>3
<1>5. Weighted(e, w) = [i \in 1 .. l + 1 |-> w[e[i]]]
  BY <1>1 DEF Weighted
<1>6. \A i \in 1 .. l + 1 : w[e[i]] = IF i = l + 1 THEN w[x] ELSE u[i]
  <2> TAKE i \in 1 .. l + 1
  <2>1. i = l + 1 \/ i \in 1 .. l
    BY <1>1
  <2> QED BY <1>1, <1>3, <2>1
<1>7. Weighted(e, w) = Append(u, w[x])
  BY <1>4, <1>5, <1>6
<1> QED BY <1>7 DEF e, u

LEMMA RemoveStep ==
  ASSUME StationInv, NEW p \in Platforms, NEW w \in Weights, remove_train_cars(p, w)
  PROVE  StationInv' /\ Yard!Uncouple(p, w)
<1> DEFINE c == CarsOf(p)
           N == Len(c)
           s == WeightsOf(p)
           gone == {x \in ToSet(c) : weight[x] = w}
<1>1. /\ c \in Seq(Cars) /\ Once(c) /\ Linked(c, first, next, p) /\ N \in Nat
      /\ \A k \in 1 .. N : c[k] \in ToSet(c) /\ c[k] \in Cars
      /\ StationTypes /\ next \in Nexts /\ first \in Firsts /\ weight \in Scales
      /\ s = Weighted(c, weight)
  BY PlatformIs
<1>2. s \in Seq(Weights) /\ Len(s) = N /\ \A k \in 1 .. N : s[k] = weight[c[k]]
  <2>1. Weighs(Weighted(c, weight), c, weight)
    BY <1>1, WeightedIs
  <2> QED BY <1>1, <2>1 DEF Weighs
<1>3. PICK pass : /\ Passes(pass, c, p, w)
                  /\ first' = pass[N].first /\ Free(gone, pass[N].next) /\ power' = power
  BY PassIs
<1> HIDE DEF s
<1>4. PICK leftover : LeftOver(leftover, s, w) /\ Yard!Without(s, w) = leftover[N]
  <2>1. \E leftover : LeftOver(leftover, s, w) /\ Yard!Without(s, w) = leftover[Len(s)]
    BY <1>2, WithoutIs
  <2> QED BY <1>2, <2>1
<1> HIDE DEF c, N
<1> DEFINE T == {k \in Nat : k <= N =>
                   \E r : KeptSoFar(r, pass, c, p, w, k) /\ Weighted(r, weight) = leftover[k]}
<1>5. 0 \in T
  <2>1. KeptSoFar(<<>>, pass, c, p, w, 0)
    BY <1>1, <1>3, KeepsNone
  <2>2. Weighted(<<>>, weight) = leftover[0]
    BY <1>4, NoCars DEF LeftOver
  <2> QED BY <2>1, <2>2
<1>6. ASSUME NEW k \in Nat, k \in T PROVE k + 1 \in T
  <2> SUFFICES ASSUME k + 1 <= N
               PROVE  \E r : KeptSoFar(r, pass, c, p, w, k + 1) /\ Weighted(r, weight) = leftover[k + 1]
    OBVIOUS
  <2>1. PICK r : KeptSoFar(r, pass, c, p, w, k) /\ Weighted(r, weight) = leftover[k]
    BY <1>1, <1>6
  <2>2. k \in 0 .. N - 1 /\ k + 1 \in 1 .. N /\ (k + 1) - 1 = k
    BY <1>1
  <2>3. s[k + 1] = weight[c[k + 1]] /\ c[k + 1] \in Cars /\ k + 1 \in 1 .. Len(s)
    BY <1>1, <1>2, <2>2
  <2>4. leftover[k + 1] = IF s[k + 1] = w THEN leftover[k] ELSE Append(leftover[k], s[k + 1])
    BY <1>4, <2>2, <2>3 DEF LeftOver
  <2>5. CASE weight[c[k + 1]] = w
    <3>1. KeptSoFar(r, pass, c, p, w, k + 1)
      BY <1>1, <1>3, <2>1, <2>2, <2>5, KeepsLess DEF N
    <3>2. Weighted(r, weight) = leftover[k + 1]
      BY <2>1, <2>3, <2>4, <2>5
    <3> QED BY <3>1, <3>2
  <2>6. CASE weight[c[k + 1]] # w
    <3>1. KeptSoFar(Append(r, c[k + 1]), pass, c, p, w, k + 1)
      BY <1>1, <1>3, <2>1, <2>2, <2>6, KeepsMore DEF N
    <3>2. r \in Seq(Cars)
      BY <2>1 DEF KeptSoFar
    <3>3. Weighted(Append(r, c[k + 1]), weight) = Append(Weighted(r, weight), weight[c[k + 1]])
      BY <1>1, <2>3, <3>2, AppendWeight
    <3>4. Weighted(Append(r, c[k + 1]), weight) = leftover[k + 1]
      BY <2>1, <2>3, <2>4, <2>6, <3>3
    <3> QED BY <3>1, <3>4
  <2> QED BY <2>5, <2>6
<1>7. N \in T
  <2> HIDE DEF T
  <2> QED BY <1>1, <1>5, <1>6, SetInduction
<1>8. PICK r : KeptSoFar(r, pass, c, p, w, N) /\ Weighted(r, weight) = leftover[N]
  BY <1>1, <1>7
<1> HIDE DEF T
<1>9. r \in Seq(Cars) /\ Once(r) /\ Linked(r, first', pass[N].next, p)
  <2>1. NextAfter(c, N) = Null
    BY DEF NextAfter, N
  <2> QED BY <1>3, <1>8, <2>1 DEF KeptSoFar, Linked
<1>10. ToSet(r) \subseteq ToSet(c) \ gone
  <2>1. \A y \in ToSet(r) : \E m \in 1 .. N : c[m] = y /\ weight[y] # w
    BY <1>8 DEF KeptSoFar
  <2> QED BY <1>1, <2>1
<1>11. /\ \A x \in Cars \ ToSet(c) : pass[N].next[x] = next[x]
       /\ \A q \in Platforms \ {p} : first'[q] = first[q]
  <2>1. Cars \ ToSet(c) \subseteq Cars \ ToSet(r)
    BY <1>10
  <2> QED BY <1>3, <1>8, <2>1 DEF KeptSoFar
<1>12. pass[N].next \in Nexts /\ first' \in Firsts
  <2>1. pass[N] \in Passing
    BY <1>1, <1>3 DEF Passes, N
  <2> QED BY <1>3, <2>1 DEF Passing
<1>13. gone \subseteq ToSet(c) /\ Powered
  BY <1>1, <1>3 DEF StationTypes, Powered
<1>14. StationInv' /\ Train' = [Train EXCEPT ![p] = Weighted(r, weight)]
  <2>1. Free(gone, pass[N].next)
    BY <1>3
  <2> HIDE DEF gone
  <2> QED BY <1>9, <1>10, <1>11, <1>12, <1>13, <2>1, Thinned DEF c
<1>15. Train' = [Train EXCEPT ![p] = Yard!Without(Train[p], w)]
  <2>1. Train[p] = s
    BY DEF Train, s
  <2> QED BY <1>4, <1>8, <1>14, <2>1
<1>16. Yard!Uncouple(p, w)
  BY <1>3, <1>15 DEF Yard!Uncouple, Train
<1> QED BY <1>14, <1>16

LEMMA PrependIs ==
  ASSUME NEW S, NEW c, c \in Seq(S), NEW x, x \in S
  PROVE  /\ <<x>> \o c \in Seq(S) /\ Len(<<x>> \o c) = Len(c) + 1
         /\ (<<x>> \o c)[1] = x /\ \A i \in 1 .. Len(c) : (<<x>> \o c)[i + 1] = c[i]
<1> DEFINE o == <<x>>
           e == o \o c
<1>1. o \in Seq(S) /\ Len(o) = 1 /\ o[1] = x /\ Len(c) \in Nat
  OBVIOUS
<1> HIDE DEF o
<1>2. /\ e \in Seq(S) /\ Len(e) = Len(o) + Len(c)
      /\ \A i \in 1 .. Len(o) + Len(c) : e[i] = IF i <= Len(o) THEN o[i] ELSE c[i - Len(o)]
  BY <1>1, ConcatProperties
<1> HIDE DEF e
<1>3. e[1] = x
  BY <1>1, <1>2
<1>4. \A i \in 1 .. Len(c) : e[i + 1] = c[i]
  <2> TAKE i \in 1 .. Len(c)
  <2>1. i + 1 \in 1 .. Len(o) + Len(c) /\ ~(i + 1 <= Len(o)) /\ (i + 1) - Len(o) = i
    BY <1>1
  <2> QED BY <1>2, <2>1
<1> QED BY <1>1, <1>2, <1>3, <1>4 DEF e, o

(* The cars in front after k cars of c.                                    *)
Fronts(front, c, w, start) ==
  /\ front \in [0 .. Len(c) -> Seq(Cars)]
  /\ front[0] = start
  /\ \A k \in 1 .. Len(c) :
       front[k] = IF weight[c[k]] = w THEN <<c[k]>> \o front[k - 1] ELSE front[k - 1]

LEMMA FrontIs ==
  ASSUME NEW c, c \in Seq(Cars), NEW w, NEW start, start \in Seq(Cars)
  PROVE  \E front : Fronts(front, c, w, start) /\ InFront(c, w, start) = front[Len(c)]
<1> DEFINE N == Len(c)
           S == Seq(Cars)
           V(g, k) == IF k = 0 THEN start
                      ELSE IF weight[c[k]] = w THEN <<c[k]>> \o g[k - 1] ELSE g[k - 1]
           Is(g) == g = [k \in 0 .. N |-> V(g, k)]
           F == [ks \in (1 .. N) \X S |->
                   IF weight[c[ks[1]]] = w THEN <<c[ks[1]]>> \o ks[2] ELSE ks[2]]
           front == CHOOSE g : Is(g)
<1>1. N \in Nat /\ start \in S /\ \A k \in 1 .. N : c[k] \in Cars
  OBVIOUS
<1>2. InFront(c, w, start) = front[N]
  BY DEF InFront
<1>3. ASSUME NEW k \in 1 .. N, NEW x \in S
      PROVE  /\ F[<<k, x>>] = IF weight[c[k]] = w THEN <<c[k]>> \o x ELSE x
             /\ F[<<k, x>>] \in S
  <2>1. <<c[k]>> \o x \in S
    BY <1>1, PrependIs
  <2> QED BY <2>1
<1> HIDE DEF N, S
<1>4. PICK g : Iterated(g, N, S, start, F)
  <2>1. Closed(N, S, F)
    BY <1>3 DEF Closed
  <2> HIDE DEF F
  <2> QED BY <1>1, <2>1, Iterates
<1>5. Is(g)
  <2>1. ASSUME NEW k \in 0 .. N PROVE g[k] = V(g, k)
    <3>1. CASE k = 0
      BY <1>4, <3>1 DEF Iterated
    <3>2. CASE k # 0
      <4>1. k \in 1 .. N /\ g[k - 1] \in S
        BY <1>1, <1>4, <3>2 DEF Iterated
      <4>2. g[k] = F[<<k, g[k - 1]>>]
        BY <1>4, <4>1 DEF Iterated
      <4> HIDE DEF F
      <4> QED BY <1>3, <3>2, <4>1, <4>2
    <3> QED BY <3>1, <3>2
  <2> HIDE DEF V, F
  <2>2. g = [k \in 0 .. N |-> g[k]]
    BY <1>4 DEF Iterated
  <2> QED BY <2>1, <2>2
<1>6. Is(front)
  <2> HIDE DEF Is
  <2> QED BY <1>5
<1> HIDE DEF front, F
<1>7. front = [k \in 0 .. N |-> front[k]] /\ \A k \in 0 .. N : front[k] = V(front, k)
  <2> HIDE DEF V
  <2> QED BY <1>6
<1> HIDE DEF Is
<1>8. \A k \in 1 .. N :
        front[k] = IF weight[c[k]] = w THEN <<c[k]>> \o front[k - 1] ELSE front[k - 1]
  <2> TAKE k \in 1 .. N
  <2>1. k \in 0 .. N /\ k # 0
    BY <1>1
  <2> QED BY <1>7, <2>1
<1>9. front[0] = start
  <2>1. 0 \in 0 .. N
    BY <1>1
  <2> QED BY <1>7, <2>1
<1> DEFINE T == {k \in Nat : k <= N => front[k] \in S}
<1>10. 0 \in T
  BY <1>1, <1>9
<1>11. ASSUME NEW k \in Nat, k \in T PROVE k + 1 \in T
  <2> SUFFICES ASSUME k + 1 <= N PROVE front[k + 1] \in S
    OBVIOUS
  <2>1. front[k] \in S /\ k + 1 \in 1 .. N /\ (k + 1) - 1 = k
    BY <1>1, <1>11
  <2>2. front[k + 1] = IF weight[c[k + 1]] = w THEN <<c[k + 1]>> \o front[k] ELSE front[k]
    BY <1>8, <2>1
  <2>3. <<c[k + 1]>> \o front[k] \in S
    BY <1>1, <2>1, PrependIs DEF S
  <2> QED BY <2>1, <2>2, <2>3
<1>12. \A k \in Nat : k \in T
  <2> HIDE DEF T
  <2> QED BY <1>10, <1>11, SetInduction
<1>13. front \in [0 .. N -> S]
  <2>1. \A k \in 0 .. N : front[k] \in S
    BY <1>1, <1>12
  <2> QED BY <1>7, <2>1
<1>14. Fronts(front, c, w, start)
  BY <1>8, <1>9, <1>13 DEF Fronts, N, S
<1> QED BY <1>2, <1>14 DEF N

(* Once the cars of weight below w are arranged, and of weight w the first *)
(* k: each once, none after a lighter one.                                 *)
Arranged(s, c, w, k) ==
  /\ s \in Seq(Cars) /\ Once(s)
  /\ \A y : y \in ToSet(s) <=>
       \E m \in 1 .. Len(c) : c[m] = y /\ (weight[y] < w \/ (weight[y] = w /\ m <= k))
  /\ \A i, j \in 1 .. Len(s) : i < j => weight[s[i]] >= weight[s[j]]

LEMMA ArrangesOne ==
  ASSUME weight \in Scales, NEW c, c \in Seq(Cars), Once(c), NEW w, w \in Nat,
         NEW k, k \in 0 .. Len(c) - 1, NEW s, Arranged(s, c, w, k)
  PROVE  Arranged(IF weight[c[k + 1]] = w THEN <<c[k + 1]>> \o s ELSE s, c, w, k + 1)
<1> DEFINE x == c[k + 1]
           N == Len(c)
           e == <<x>> \o s
           l == Len(s)
<1>1. /\ N \in Nat /\ k \in Nat /\ k + 1 \in 1 .. N /\ \A m \in 1 .. N : c[m] \in Cars
      /\ \A m, q \in 1 .. N : c[m] = c[q] => m = q
  BY DEF Once
<1>2. /\ s \in Seq(Cars) /\ Once(s) /\ l \in Nat
      /\ \A i \in 1 .. l : s[i] \in ToSet(s) /\ s[i] \in Cars
      /\ \A y \in ToSet(s) : \E i \in 1 .. l : s[i] = y
  BY HeldIs DEF Arranged
<1>3. /\ \A y : y \in ToSet(s) <=>
           \E m \in 1 .. N : c[m] = y /\ (weight[y] < w \/ (weight[y] = w /\ m <= k))
      /\ \A i, j \in 1 .. l : i < j => weight[s[i]] >= weight[s[j]]
  BY DEF Arranged
<1>4. \A y \in Cars : weight[y] \in Int
  BY WeightIs DEF Scales
<1>5. CASE weight[x] # w
  <2>1. \A y : y \in ToSet(s) <=>
           \E m \in 1 .. N : c[m] = y /\ (weight[y] < w \/ (weight[y] = w /\ m <= k + 1))
    <3> TAKE y
    <3>1. ASSUME NEW m \in 1 .. N, c[m] = y, weight[y] = w PROVE m <= k <=> m <= k + 1
      <4>1. m # k + 1
        BY <1>5, <3>1
      <4> QED BY <1>1, <4>1
    <3> QED BY <1>3, <3>1
  <2> HIDE DEF x, e, N, l
  <2>2. Arranged(s, c, w, k + 1)
    BY <1>2, <1>3, <2>1 DEF Arranged, N, l
  <2> QED BY <1>5, <2>2 DEF x
<1>6. CASE weight[x] = w
  <2>1. x \in Cars /\ x \notin ToSet(s)
    <3>1. ASSUME x \in ToSet(s) PROVE FALSE
      <4>1. PICK m \in 1 .. N : c[m] = x /\ (weight[x] < w \/ (weight[x] = w /\ m <= k))
        BY <1>3, <3>1
      <4>2. m = k + 1
        BY <1>1, <4>1
      <4> QED BY <1>1, <1>6, <4>1, <4>2
    <3> QED BY <1>1, <3>1
  <2>2. /\ e \in Seq(Cars) /\ Len(e) = l + 1 /\ e[1] = x /\ \A i \in 1 .. l : e[i + 1] = s[i]
    <3> HIDE DEF x
    <3> QED BY <1>2, <2>1, PrependIs
  <2> HIDE DEF x, e, N, l
  <2>3. ASSUME NEW i \in 1 .. Len(e)
        PROVE  \/ i = 1 /\ e[i] = x
               \/ i # 1 /\ i - 1 \in 1 .. l /\ e[i] = s[i - 1]
    <3>1. CASE i = 1
      BY <2>2, <3>1
    <3>2. CASE i # 1
      <4>1. i - 1 \in 1 .. l /\ (i - 1) + 1 = i
        BY <1>2, <2>2, <3>2
      <4> QED BY <2>2, <3>2, <4>1
    <3> QED BY <3>1, <3>2
  <2>4. Once(e)
    <3> SUFFICES ASSUME NEW i \in 1 .. Len(e), NEW j \in 1 .. Len(e), e[i] = e[j] PROVE i = j
      BY DEF Once
    <3>1. CASE i = 1 /\ j = 1
      BY <3>1
    <3>2. CASE i # 1 /\ j # 1
      <4>1. i - 1 \in 1 .. l /\ j - 1 \in 1 .. l /\ s[i - 1] = s[j - 1]
        BY <2>3, <3>2
      <4>2. i - 1 = j - 1
        BY <1>2, <4>1 DEF Once, l
      <4> QED BY <4>2
    <3>3. CASE i = 1 /\ j # 1
      BY <1>2, <2>1, <2>3, <3>3
    <3>4. CASE i # 1 /\ j = 1
      BY <1>2, <2>1, <2>3, <3>4
    <3> QED BY <3>1, <3>2, <3>3, <3>4
  <2>5. \A y : y \in ToSet(e) <=> y = x \/ y \in ToSet(s)
    <3> TAKE y
    <3>1. /\ y \in ToSet(e) => \E i \in 1 .. Len(e) : e[i] = y
          /\ \A i \in 1 .. Len(e) : e[i] \in ToSet(e)
      BY <2>2, HeldIs
    <3>2. 1 \in 1 .. Len(e) /\ \A i \in 1 .. l : i + 1 \in 1 .. Len(e)
      BY <1>2, <2>2
    <3>3. ASSUME y \in ToSet(e) PROVE y = x \/ y \in ToSet(s)
      <4>1. PICK i \in 1 .. Len(e) : e[i] = y
        BY <3>1, <3>3
      <4> QED BY <1>2, <2>3, <4>1
    <3>4. ASSUME y \in ToSet(s) PROVE y \in ToSet(e)
      <4>1. PICK i \in 1 .. l : s[i] = y
        BY <1>2, <3>4
      <4> QED BY <2>2, <3>1, <3>2, <4>1
    <3>5. x \in ToSet(e)
      BY <2>2, <3>1, <3>2
    <3> QED BY <3>3, <3>4, <3>5
  <2>6. \A y : y \in ToSet(e) <=>
           \E m \in 1 .. N : c[m] = y /\ (weight[y] < w \/ (weight[y] = w /\ m <= k + 1))
    <3> TAKE y
    <3>1. \A m \in 1 .. N : m <= k + 1 <=> m <= k \/ m = k + 1
      BY <1>1
    <3> QED BY <1>1, <1>3, <1>6, <2>5, <3>1 DEF x
  <2>7. \A i \in 1 .. l : weight[s[i]] <= w
    <3> TAKE i \in 1 .. l
    <3>1. weight[s[i]] < w \/ weight[s[i]] = w
      BY <1>2, <1>3
    <3> QED BY <1>2, <1>4, <3>1
  <2>8. \A i, j \in 1 .. Len(e) : i < j => weight[e[i]] >= weight[e[j]]
    <3> SUFFICES ASSUME NEW i \in 1 .. Len(e), NEW j \in 1 .. Len(e), i < j
                 PROVE  weight[e[i]] >= weight[e[j]]
      OBVIOUS
    <3>1. j # 1 /\ j - 1 \in 1 .. l /\ e[j] = s[j - 1]
      <4>1. j # 1
        OBVIOUS
      <4> QED BY <2>3, <4>1
    <3>2. CASE i = 1
      <4>1. e[i] = x /\ weight[s[j - 1]] <= w
        BY <2>3, <2>7, <3>1, <3>2
      <4>2. weight[s[j - 1]] \in Int /\ weight[x] \in Int
        BY <1>2, <1>4, <2>1, <3>1
      <4> QED BY <1>6, <3>1, <4>1, <4>2
    <3>3. CASE i # 1
      <4>1. i - 1 \in 1 .. l /\ e[i] = s[i - 1] /\ i - 1 < j - 1
        BY <2>3, <3>3
      <4> QED BY <1>3, <3>1, <4>1
    <3> QED BY <3>2, <3>3
  <2>9. Arranged(e, c, w, k + 1)
    BY <2>2, <2>4, <2>6, <2>8 DEF Arranged, N
  <2> QED BY <1>6, <2>9 DEF x, e
<1> QED BY <1>5, <1>6

LEMMA InFrontArranges ==
  ASSUME weight \in Scales, NEW c, c \in Seq(Cars), Once(c), NEW w, w \in Nat,
         NEW start, Arranged(start, c, w, 0)
  PROVE  Arranged(InFront(c, w, start), c, w, Len(c))
<1> DEFINE N == Len(c)
<1>1. N \in Nat /\ start \in Seq(Cars)
  BY DEF Arranged
<1>2. PICK front : Fronts(front, c, w, start) /\ InFront(c, w, start) = front[N]
  BY <1>1, FrontIs
<1> DEFINE T == {k \in Nat : k <= N => Arranged(front[k], c, w, k)}
<1>3. 0 \in T
  BY <1>2 DEF Fronts
<1>4. ASSUME NEW k \in Nat, k \in T PROVE k + 1 \in T
  <2> SUFFICES ASSUME k + 1 <= N PROVE Arranged(front[k + 1], c, w, k + 1)
    OBVIOUS
  <2>1. k \in 0 .. N - 1 /\ k + 1 \in 1 .. N /\ (k + 1) - 1 = k
    BY <1>1
  <2>2. Arranged(front[k], c, w, k)
    BY <1>1, <1>4
  <2>3. front[k + 1] = IF weight[c[k + 1]] = w THEN <<c[k + 1]>> \o front[k] ELSE front[k]
    BY <1>2, <2>1 DEF Fronts
  <2>4. Arranged(IF weight[c[k + 1]] = w THEN <<c[k + 1]>> \o front[k] ELSE front[k], c, w, k + 1)
    BY <2>1, <2>2, ArrangesOne
  <2> QED BY <2>3, <2>4
<1>5. \A k \in Nat : k \in T
  <2> HIDE DEF T
  <2> QED BY <1>3, <1>4, SetInduction
<1> QED BY <1>1, <1>2, <1>5

LEMMA AboveZero == \A x \in Weights : ~(x < 0) /\ x # 0
<1> TAKE x \in Weights
<1>1. x \in 1 .. 9999
  BY WeightIs
<1> QED BY <1>1

(* The cars of the first weight, and those of a weight more.               *)
LEMMA ArrangesNone ==
  ASSUME weight \in Scales, NEW c, c \in Seq(Cars)
  PROVE  Arranged(<<>>, c, 0, Len(c))
<1>1. /\ <<>> \in Seq(Cars) /\ Once(<<>>) /\ ToSet(<<>>) = {} /\ Len(<<>>) = 0
  BY NoCars
<1>2. ASSUME NEW m \in 1 .. Len(c) PROVE ~(weight[c[m]] < 0) /\ weight[c[m]] # 0
  <2>1. weight[c[m]] \in Weights
    BY DEF Scales
  <2>2. PICK x \in Weights : x = weight[c[m]]
    BY <2>1
  <2> QED BY <2>2, AboveZero
<1>3. \A y : ~ \E m \in 1 .. Len(c) : c[m] = y /\ (weight[y] < 0 \/ (weight[y] = 0 /\ m <= Len(c)))
  BY <1>2
<1>4. \A y : y \in ToSet(<<>>) <=>
        \E m \in 1 .. Len(c) : c[m] = y /\ (weight[y] < 0 \/ (weight[y] = 0 /\ m <= Len(c)))
  BY <1>1, <1>3
<1>5. \A i, j \in 1 .. Len(<<>>) : i < j => weight[<<>>[i]] >= weight[<<>>[j]]
  <2>1. 1 .. 0 = {}
    OBVIOUS
  <2> QED BY <1>1, <2>1
<1> QED BY <1>1, <1>4, <1>5 DEF Arranged

LEMMA ArrangesNext ==
  ASSUME weight \in Scales, NEW c, c \in Seq(Cars), NEW w, w \in Nat,
         NEW s, Arranged(s, c, w, Len(c))
  PROVE  Arranged(s, c, w + 1, 0)
<1>1. \A m \in 1 .. Len(c) : weight[c[m]] \in Int
  BY WeightIs DEF Scales
<1>2. ASSUME NEW m \in 1 .. Len(c)
      PROVE  weight[c[m]] < w \/ (weight[c[m]] = w /\ m <= Len(c))
               <=> weight[c[m]] < w + 1 \/ (weight[c[m]] = w + 1 /\ m <= 0)
  <2>1. weight[c[m]] \in Int /\ m <= Len(c) /\ ~(m <= 0)
    BY <1>1
  <2> QED BY <2>1
<1>3. \A y : (\E m \in 1 .. Len(c) : c[m] = y /\ (weight[y] < w \/ (weight[y] = w /\ m <= Len(c))))
        <=> \E m \in 1 .. Len(c) : c[m] = y /\ (weight[y] < w + 1 \/ (weight[y] = w + 1 /\ m <= 0))
  BY <1>2
<1> QED BY <1>3 DEF Arranged

LEMMA HeaviestIs ==
  Max(Weights) \in Weights /\ \A x \in Weights : x <= Max(Weights)
<1> DEFINE T == {9999 - x : x \in Weights}
<1>1. T \subseteq Nat /\ T # {}
  <2>1. ASSUME NEW x \in Weights PROVE 9999 - x \in Nat
    <3>1. PICK y \in 1 .. 9999 : y = x
      BY WeightIs
    <3>2. 9999 - y \in Nat
      OBVIOUS
    <3> QED BY <3>1, <3>2
  <2>2. T \subseteq Nat
    BY <2>1
  <2>3. Weights # {}
    BY StationConstants
  <2> QED BY <2>2, <2>3
<1>2. PICK y \in T : \A z \in T : y <= z
  <2> HIDE DEF T
  <2> QED BY <1>1, LeastElement
<1>3. PICK m \in Weights : y = 9999 - m
  BY <1>2
<1>4. \A x \in Weights : m >= x
  <2> TAKE x \in Weights
  <2>1. 9999 - m <= 9999 - x
    BY <1>2, <1>3
  <2> QED BY <2>1, WeightIs
<1>5. Max(Weights) = CHOOSE x \in Weights : \A z \in Weights : x >= z
  BY DEF Max
<1>6. Max(Weights) \in Weights /\ \A x \in Weights : Max(Weights) >= x
  BY <1>4, <1>5
<1> QED BY <1>6, WeightIs

(* The rebuilt list holds the cars of the platform, arranged by weight.    *)
LEMMA RebuiltIs ==
  ASSUME StationInv, NEW p, p \in Platforms
  PROVE  /\ Rebuilt(p) \in Seq(Cars) /\ Once(Rebuilt(p)) /\ ToSet(Rebuilt(p)) = ToSet(CarsOf(p))
         /\ \A i, j \in 1 .. Len(Rebuilt(p)) :
              i < j => weight[Rebuilt(p)[i]] >= weight[Rebuilt(p)[j]]
<1> DEFINE c == CarsOf(p)
           N == Max(Weights)
           S == Seq(Cars)
           V(g, k) == IF k = 0 THEN <<>> ELSE InFront(c, k, g[k - 1])
           Is(g) == g = [k \in 0 .. N |-> V(g, k)]
           F == [ks \in (1 .. N) \X S |-> InFront(c, ks[1], ks[2])]
           start == CHOOSE g : Is(g)
<1>1. /\ c \in Seq(Cars) /\ Once(c) /\ weight \in Scales /\ Len(c) \in Nat
      /\ \A k \in 1 .. Len(c) : c[k] \in ToSet(c)
      /\ \A y \in ToSet(c) : \E k \in 1 .. Len(c) : c[k] = y
  BY PlatformIs, HeldIs
<1>2. N \in Nat /\ <<>> \in S /\ \A x \in Weights : x <= N
  <2>1. N \in Weights /\ \A x \in Weights : x <= N
    BY HeaviestIs
  <2>2. PICK m \in 1 .. 9999 : m = N
    BY <2>1, WeightIs
  <2>3. <<>> \in S
    OBVIOUS
  <2>4. m \in Nat
    OBVIOUS
  <2> QED BY <2>1, <2>2, <2>3, <2>4
<1>3. Rebuilt(p) = start[N]
  BY DEF Rebuilt
<1>4. ASSUME NEW k \in 1 .. N, NEW x \in S
      PROVE  F[<<k, x>>] = InFront(c, k, x) /\ F[<<k, x>>] \in S
  <2>1. PICK front : Fronts(front, c, k, x) /\ InFront(c, k, x) = front[Len(c)]
    BY <1>1, FrontIs
  <2>2. front[Len(c)] \in S
    BY <1>1, <2>1 DEF Fronts
  <2> QED BY <2>1, <2>2
<1> HIDE DEF N, S, c
<1>5. PICK g : Iterated(g, N, S, <<>>, F)
  <2>1. Closed(N, S, F)
    BY <1>4 DEF Closed
  <2>2. PICK none : none = <<>>
    OBVIOUS
  <2> HIDE DEF F
  <2>3. \E g : Iterated(g, N, S, none, F)
    BY <1>2, <2>1, <2>2, Iterates
  <2> QED BY <2>2, <2>3
<1>6. Is(g)
  <2>1. ASSUME NEW k \in 0 .. N PROVE g[k] = V(g, k)
    <3>1. CASE k = 0
      BY <1>5, <3>1 DEF Iterated
    <3>2. CASE k # 0
      <4>1. k \in 1 .. N /\ g[k - 1] \in S
        BY <1>2, <1>5, <3>2 DEF Iterated
      <4>2. g[k] = F[<<k, g[k - 1]>>]
        BY <1>5, <4>1 DEF Iterated
      <4> HIDE DEF F
      <4> QED BY <1>4, <3>2, <4>1, <4>2
    <3> QED BY <3>1, <3>2
  <2> HIDE DEF V, F
  <2>2. g = [k \in 0 .. N |-> g[k]]
    BY <1>5 DEF Iterated
  <2> QED BY <2>1, <2>2
<1>7. Is(start)
  <2> HIDE DEF Is
  <2> QED BY <1>6
<1> HIDE DEF start, F
<1>8. \A k \in 0 .. N : start[k] = V(start, k)
  <2> HIDE DEF V
  <2> QED BY <1>7
<1> HIDE DEF Is
<1>9. start[0] = <<>> /\ \A k \in 1 .. N : start[k] = InFront(c, k, start[k - 1])
  <2>1. 0 \in 0 .. N /\ \A k \in 1 .. N : k \in 0 .. N /\ k # 0
    BY <1>2
  <2> QED BY <1>8, <2>1
<1> DEFINE T == {k \in Nat : k <= N => Arranged(start[k], c, k, Len(c))}
<1>10. 0 \in T
  BY <1>1, <1>9, ArrangesNone
<1>11. ASSUME NEW k \in Nat, k \in T PROVE k + 1 \in T
  <2> SUFFICES ASSUME k + 1 <= N PROVE Arranged(start[k + 1], c, k + 1, Len(c))
    OBVIOUS
  <2>1. Arranged(start[k], c, k, Len(c)) /\ k + 1 \in 1 .. N /\ (k + 1) - 1 = k
    BY <1>2, <1>11
  <2>2. Arranged(start[k], c, k + 1, 0)
    BY <1>1, <2>1, ArrangesNext
  <2>3. Arranged(InFront(c, k + 1, start[k]), c, k + 1, Len(c))
    <3>1. k + 1 \in Nat
      OBVIOUS
    <3> QED BY <1>1, <2>2, <3>1, InFrontArranges
  <2>4. start[k + 1] = InFront(c, k + 1, start[k])
    BY <1>9, <2>1
  <2> QED BY <2>3, <2>4
<1>12. Arranged(start[N], c, N, Len(c))
  <2> HIDE DEF T
  <2>1. N \in T
    BY <1>2, <1>10, <1>11, SetInduction
  <2> QED BY <1>2, <2>1 DEF T
<1> DEFINE s == start[N]
<1>13. /\ s \in Seq(Cars) /\ Once(s)
       /\ \A y : y \in ToSet(s) <=>
            \E m \in 1 .. Len(c) : c[m] = y /\ (weight[y] < N \/ (weight[y] = N /\ m <= Len(c)))
       /\ \A i, j \in 1 .. Len(s) : i < j => weight[s[i]] >= weight[s[j]]
  BY <1>12 DEF Arranged
<1>14. ASSUME NEW m \in 1 .. Len(c) PROVE weight[c[m]] < N \/ (weight[c[m]] = N /\ m <= Len(c))
  <2>1. weight[c[m]] \in Weights
    BY <1>1 DEF Scales
  <2> QED BY <1>1, <1>2, <2>1, WeightIs
<1>15. ToSet(s) = ToSet(c)
  <2> HIDE DEF s
  <2>1. \A y : y \in ToSet(s) <=> y \in ToSet(c)
    BY <1>1, <1>13, <1>14
  <2> QED BY <2>1
<1> QED BY <1>3, <1>13, <1>15 DEF c

LEMMA LinkingIs ==
  ASSUME NEW s, s \in Seq(Cars), Once(s), NEW n, n \in Nexts
  PROVE  /\ Linking(s, n) \in Nexts
         /\ \A x \in Cars \ ToSet(s) : Linking(s, n)[x] = n[x]
         /\ \A i \in 1 .. Len(s) :
              Linking(s, n)[s[i]] = IF i = Len(s) THEN Null ELSE s[i + 1]
<1> DEFINE at(c) == CHOOSE k \in DOMAIN s : s[k] = c
           m == Linking(s, n)
<1>1. /\ Len(s) \in Nat /\ DOMAIN s = 1 .. Len(s)
      /\ \A i \in 1 .. Len(s) : s[i] \in ToSet(s) /\ s[i] \in Cars
      /\ \A x \in ToSet(s) : \E i \in 1 .. Len(s) : s[i] = x
      /\ \A i, j \in 1 .. Len(s) : s[i] = s[j] => i = j
  <2>1. DOMAIN s = 1 .. Len(s)
    OBVIOUS
  <2> QED BY <2>1, HeldIs DEF Once
<1>2. m = [c \in Cars |-> IF c \notin ToSet(s) THEN n[c]
                          ELSE IF at(c) = Len(s) THEN Null ELSE s[at(c) + 1]]
  BY DEF Linking
<1> HIDE DEF m
<1>3. ASSUME NEW i \in 1 .. Len(s) PROVE at(s[i]) = i
  BY <1>1, <1>3
<1>4. ASSUME NEW i \in 1 .. Len(s)
      PROVE  m[s[i]] = IF i = Len(s) THEN Null ELSE s[i + 1]
  <2>1. m[s[i]] = IF at(s[i]) = Len(s) THEN Null ELSE s[at(s[i]) + 1]
    <3> HIDE DEF at
    <3> QED BY <1>1, <1>2, <1>4
  <2>2. at(s[i]) = i
    BY <1>3, <1>4
  <2> HIDE DEF at
  <2> QED BY <2>1, <2>2
<1>5. \A x \in Cars \ ToSet(s) : m[x] = n[x]
  <2> HIDE DEF at
  <2> QED BY <1>2
<1>6. \A x \in Cars : m[x] \in CarOrNull
  <2> TAKE x \in Cars
  <2>1. CASE x \notin ToSet(s)
    BY <1>5, <2>1 DEF Nexts
  <2>2. CASE x \in ToSet(s)
    <3>1. PICK i \in 1 .. Len(s) : s[i] = x
      BY <1>1, <2>2
    <3>2. CASE i = Len(s)
      BY <1>4, <3>1, <3>2, NullOk
    <3>3. CASE i # Len(s)
      <4>1. i + 1 \in 1 .. Len(s)
        <5> DEFINE k == Len(s)
        <5>1. k \in Nat /\ i \in 1 .. k /\ i # k
          BY <1>1, <3>3
        <5> HIDE DEF k
        <5>2. i + 1 \in 1 .. k
          BY <5>1
        <5> QED BY <5>2 DEF k
      <4> QED BY <1>1, <1>4, <3>1, <3>3, <4>1, NullOk
    <3> QED BY <3>2, <3>3
  <2> QED BY <2>1, <2>2
<1>7. m \in Nexts
  <2>1. m = [x \in Cars |-> m[x]]
    <3> HIDE DEF at
    <3> QED BY <1>2
  <2> QED BY <1>6, <2>1 DEF Nexts
<1> QED BY <1>4, <1>5, <1>7 DEF m

(* order_train arranges the train: the copies of the cars are all of them. *)
LEMMA OrderStep ==
  ASSUME StationInv, NEW p \in Platforms, order_train(p)
  PROVE  StationInv' /\ Yard!Order(p)
<1> DEFINE c == CarsOf(p)
           s == Rebuilt(p)
           n == Linking(s, next)
           l == Len(c)
           t == WeightsOf(p)
<1>1. /\ c \in Seq(Cars) /\ Once(c) /\ l \in Nat
      /\ \A k \in 1 .. l : c[k] \in ToSet(c) /\ c[k] \in Cars
      /\ \A x \in ToSet(c) : \E k \in 1 .. l : c[k] = x
      /\ StationTypes /\ next \in Nexts /\ first \in Firsts /\ weight \in Scales
      /\ t = Weighted(c, weight)
  BY PlatformIs, HeldIs
<1>2. /\ s \in Seq(Cars) /\ Once(s) /\ ToSet(s) = ToSet(c) /\ Len(s) \in Nat
      /\ \A i, j \in 1 .. Len(s) : i < j => weight[s[i]] >= weight[s[j]]
      /\ \A k \in 1 .. Len(s) : s[k] \in ToSet(s) /\ s[k] \in Cars
      /\ \A x \in ToSet(s) : \E k \in 1 .. Len(s) : s[k] = x
      /\ Len(s) = 0 <=> s = <<>>
  <2>1. /\ s \in Seq(Cars) /\ Once(s) /\ ToSet(s) = ToSet(c)
        /\ \A i, j \in 1 .. Len(s) : i < j => weight[s[i]] >= weight[s[j]]
    BY RebuiltIs
  <2> HIDE DEF s, c
  <2> QED BY <2>1, HeldIs
<1>3. /\ s # <<>> /\ first' = [first EXCEPT ![p] = s[1]]
      /\ Free(ToSet(c) \ ToSet(s), n) /\ power' = power
  BY DEF order_train
<1> HIDE DEF s
<1>4. /\ n \in Nexts /\ \A x \in Cars \ ToSet(s) : n[x] = next[x]
      /\ \A i \in 1 .. Len(s) : n[s[i]] = IF i = Len(s) THEN Null ELSE s[i + 1]
  <2> HIDE DEF c
  <2> QED BY <1>1, <1>2, LinkingIs
<1> HIDE DEF n, c, t
<1>5. /\ first' \in Firsts /\ first'[p] = s[1]
      /\ \A q \in Platforms \ {p} : first'[q] = first[q]
  <2>1. s[1] \in CarOrNull
    BY <1>2, <1>3, NullOk
  <2> QED BY <1>1, <1>3, <2>1 DEF Firsts
<1>6. Linked(s, first', n, p)
  BY <1>2, <1>3, <1>4, <1>5 DEF Linked
<1>7. Powered
  BY <1>1, <1>3 DEF StationTypes, Powered
<1>8. StationInv' /\ Train' = [Train EXCEPT ![p] = Weighted(s, weight)]
  <2>1. PICK gone : gone = ToSet(c) \ ToSet(s)
    OBVIOUS
  <2>2. gone \subseteq ToSet(CarsOf(p)) /\ ToSet(s) \subseteq ToSet(CarsOf(p)) \ gone
    BY <1>2, <2>1 DEF c
  <2>3. \A x \in Cars \ ToSet(CarsOf(p)) : n[x] = next[x]
    BY <1>2, <1>4 DEF c
  <2>4. Free(gone, n)
    BY <1>3, <2>1
  <2> QED BY <1>2, <1>4, <1>5, <1>6, <1>7, <2>2, <2>3, <2>4, Thinned
<1> DEFINE a == [i \in 1 .. Len(s) |-> CHOOSE k \in 1 .. l : c[k] = s[i]]
<1>9. ASSUME NEW i \in 1 .. Len(s) PROVE a[i] \in 1 .. l /\ c[a[i]] = s[i]
  <2>1. \E k \in 1 .. l : c[k] = s[i]
    BY <1>1, <1>2
  <2> QED BY <2>1
<1>10. DOMAIN a = 1 .. Len(s)
  OBVIOUS
<1> HIDE DEF a
<1>11. \A i, j \in 1 .. Len(s) : a[i] = a[j] => i = j
  BY <1>2, <1>9 DEF Once
<1>12. Len(s) = l
  <2>1. Len(s) <= l
    <3>1. \A i \in 1 .. Len(s) : a[i] \in 1 .. l
      BY <1>9
    <3>2. l \in Nat /\ Len(s) \in Nat
      BY <1>1, <1>2
    <3> HIDE DEF l
    <3> QED BY <1>11, <3>1, <3>2, Fits
  <2>2. l <= Len(s)
    <3> DEFINE b == [k \in 1 .. l |-> CHOOSE i \in 1 .. Len(s) : s[i] = c[k]]
    <3>1. ASSUME NEW k \in 1 .. l PROVE b[k] \in 1 .. Len(s) /\ s[b[k]] = c[k]
      <4>1. \E i \in 1 .. Len(s) : s[i] = c[k]
        BY <1>1, <1>2
      <4> QED BY <4>1
    <3> HIDE DEF b
    <3>2. \A j, k \in 1 .. l : b[j] = b[k] => j = k
      <4>1. \A j, k \in 1 .. l : c[j] = c[k] => j = k
        BY <1>1 DEF Once
      <4> HIDE DEF l
      <4> QED BY <3>1, <4>1
    <3>3. \A k \in 1 .. l : b[k] \in 1 .. Len(s)
      BY <3>1
    <3>4. l \in Nat /\ Len(s) \in Nat
      BY <1>1, <1>2
    <3> HIDE DEF l
    <3> QED BY <3>2, <3>3, <3>4, Fits
  <2> QED BY <1>1, <1>2, <2>1, <2>2
<1>13. Train[p] = t /\ Len(t) = l /\ DOMAIN t = 1 .. l /\ \A k \in 1 .. l : t[k] = weight[c[k]]
  <2>1. Weighs(Weighted(c, weight), c, weight)
    BY <1>1, WeightedIs
  <2>2. Len(t) = l /\ \A k \in 1 .. l : t[k] = weight[c[k]]
    BY <1>1, <2>1 DEF Weighs
  <2>3. DOMAIN t = 1 .. l
    BY <1>1 DEF Weighted
  <2> QED BY <2>2, <2>3 DEF Train, t
<1> DEFINE cars == [i \in DOMAIN a |-> t[a[i]]]
<1>14. \A i \in 1 .. l : cars[i] = weight[s[i]]
  BY <1>9, <1>10, <1>12, <1>13
<1>15. cars = Weighted(s, weight)
  <2>1. cars = [i \in 1 .. l |-> cars[i]]
    BY <1>10, <1>12
  <2>2. [i \in 1 .. l |-> cars[i]] = [i \in 1 .. l |-> weight[s[i]]]
    <3> HIDE DEF cars
    <3> QED BY <1>14
  <2> HIDE DEF cars
  <2> QED BY <1>12, <2>1, <2>2 DEF Weighted
<1>16. a \in [DOMAIN t -> DOMAIN t]
  BY <1>9, <1>12, <1>13 DEF a
<1>17. \A i, j \in DOMAIN a : i # j => a[i] # a[j]
  BY <1>10, <1>11
<1>18. \A i, j \in DOMAIN a : i < j => cars[i] >= cars[j]
  <2> HIDE DEF cars
  <2> QED BY <1>2, <1>10, <1>12, <1>14
<1>19. Train' = [Train EXCEPT ![p] = cars]
  BY <1>8, <1>15
<1>20. Yard!Order(p)
  <2>1. power' = power /\ Train[p] = t
    BY <1>3, <1>13
  <2>2. \E u \in [DOMAIN Train[p] -> DOMAIN Train[p]] :
          LET carz == [i \in DOMAIN u |-> Train[p][u[i]]] IN
          /\ \A i, j \in DOMAIN u : i # j => u[i] # u[j]
          /\ \A i, j \in DOMAIN u : i < j => carz[i] >= carz[j]
          /\ Train' = [Train EXCEPT ![p] = carz]
    <3>1. a \in [DOMAIN Train[p] -> DOMAIN Train[p]]
      BY <1>16, <2>1
    <3>2. cars = [i \in DOMAIN a |-> Train[p][a[i]]]
      BY <2>1
    <3> HIDE DEF cars
    <3> WITNESS a \in [DOMAIN Train[p] -> DOMAIN Train[p]]
    <3> QED BY <1>17, <1>18, <1>19, <3>2
  <2> QED BY <2>1, <2>2 DEF Yard!Order, Train
<1> QED BY <1>8, <1>20

LEMMA StationStarts ==
  ASSUME StationInit
  PROVE  StationInv /\ Yard!Init
<1> DEFINE C == [p \in Platforms |-> <<>>]
<1>1. live = {} /\ first = [p \in Platforms |-> Null] /\ next = [c \in Cars |-> Null]
  BY DEF StationInit
<1>2. Lightest \in Weights
  <2>1. PICK least \in Weights : \A y \in Weights : least <= y
    <3>1. Weights \subseteq Nat /\ Weights # {}
      BY StationConstants
    <3> QED BY <3>1, LeastElement
  <2>2. Lightest = CHOOSE x \in Weights : \A y \in Weights : x =< y
    BY DEF Lightest, Min
  <2> QED BY <2>1, <2>2
<1>3. StationTypes
  BY <1>2, NullOk DEF StationInit, StationTypes, Firsts, Nexts
<1>4. Good(C, first, next, live)
  <2>1. \A p \in Platforms : C[p] = <<>> /\ first[p] = Null
    BY <1>1
  <2>2. C \in Lists
    BY NoCars DEF Lists
  <2> HIDE DEF C
  <2> QED BY <2>1, <2>2, NoCars DEF Good, InOrder, Apart
<1>5. ASSUME NEW p \in Platforms PROVE CarsOf(p) = <<>>
  <2>1. first[p] = Null /\ first \in Firsts /\ next \in Nexts
    BY <1>1, <1>3 DEF StationTypes
  <2>2. PICK none : none = <<>>
    OBVIOUS
  <2>3. none \in Seq(Cars) /\ Once(none) /\ Linked(none, first, next, p)
    BY <2>1, <2>2, NoCars
  <2>4. List(first, next, p) = none
    BY <2>1, <2>3, ListIs
  <2> QED BY <2>2, <2>4 DEF CarsOf
<1>6. AllCars = C
  BY <1>5 DEF AllCars
<1>7. StationInv
  <2> HIDE DEF C
  <2> QED BY <1>3, <1>4, <1>6 DEF StationInv
<1>8. Train = C
  <2>1. \A p \in Platforms : Weighted(AllCars[p], weight) = <<>>
    BY <1>6, NoCars
  <2> QED BY <2>1, TrainIs DEF TrainsOf
<1>9. Yard!Init
  BY <1>8 DEF StationInit, Yard!Init, Yard!Empty, Empty, Train
<1> QED BY <1>7, <1>9

LEMMA StationStands ==
  ASSUME StationInv, UNCHANGED stationVars
  PROVE  StationInv' /\ UNCHANGED Yard!vars
<1>1. live' = live /\ weight' = weight /\ next' = next /\ power' = power /\ first' = first
  BY DEF stationVars
<1>2. AllCars' = AllCars
  BY <1>1 DEF AllCars, CarsOf
<1>3. StationTypes'
  BY <1>1 DEF StationInv, StationTypes
<1>4. Good(AllCars, first', next', live')
  BY <1>1 DEF StationInv
<1>5. StationInv'
  <2> HIDE DEF AllCars
  <2> QED BY <1>3, <1>4, Arrived
<1>6. Train' = Train
  BY <1>1, <1>2, TrainIs
<1>7. UNCHANGED Yard!vars
  BY <1>1, <1>6 DEF Yard!vars, Train
<1> QED BY <1>5, <1>7

(* Every step of the station is a step of the trains.                      *)
LEMMA StationSteps ==
  ASSUME SamePlatform = FALSE, StationInv, [StationNext]_stationVars
  PROVE  StationInv' /\ [Yard!Next]_(Yard!vars)
<1>1. CASE UNCHANGED stationVars
  BY <1>1, StationStands
<1>2. ASSUME NEW p \in Platforms, NEW l \in Powers, arrive_train(p, l)
      PROVE  StationInv' /\ Yard!Next
  BY <1>2, ArriveStep DEF Yard!Next
<1>3. ASSUME NEW p \in Platforms, leave_train(p)
      PROVE  StationInv' /\ Yard!Next
  BY <1>3, LeaveStep DEF Yard!Next
<1>4. ASSUME close_train_station
      PROVE  StationInv' /\ Yard!Next
  BY <1>4, CloseStep DEF Yard!Next
<1>5. ASSUME NEW p \in Platforms, NEW w \in Weights, add_train_car(p, w)
      PROVE  StationInv' /\ Yard!Next
  BY <1>5, AddStep DEF Yard!Next
<1>6. ASSUME NEW p \in Platforms, NEW w \in Weights, remove_train_cars(p, w)
      PROVE  StationInv' /\ Yard!Next
  BY <1>6, RemoveStep DEF Yard!Next
<1>7. ASSUME NEW a \in Platforms, NEW b \in Platforms, NEW i \in Cars, NEW n \in Cars,
             NEW j \in Cars, move_train_cars(a, i, n, b, j)
      PROVE  StationInv' /\ Yard!Next
  <2>1. /\ StationInv' /\ Yard!Move(a, i, n, b, j)
        /\ i \in 1 .. Len(Train[a]) /\ n \in 1 .. Len(Train[a]) /\ j \in 1 .. Len(Train[b]) + 1
    BY <1>7, MoveStep
  <2>2. \E u, v \in Platforms :
          \E k \in 1 .. Len(Train[u]), m \in 1 .. Len(Train[u]), q \in 1 .. Len(Train[v]) + 1 :
            Yard!Move(u, k, m, v, q)
    BY <2>1
  <2> QED BY <2>1, <2>2 DEF Yard!Next, Train
<1>8. ASSUME NEW p \in Platforms, order_train(p)
      PROVE  StationInv' /\ Yard!Next
  BY <1>8, OrderStep DEF Yard!Next
<1>9. ASSUME fix_overload_train
      PROVE  StationInv' /\ Yard!Next
  BY <1>9, FixStep DEF Yard!Next
<1> QED
  BY <1>1, <1>2, <1>3, <1>4, <1>5, <1>6, <1>7, <1>8, <1>9 DEF StationNext

(* The cars of the platforms are linked as lists, apart from each other,   *)
(* whatever the station does: what keeps the rest true.                    *)
THEOREM StationInvariance ==
  ASSUME SamePlatform = FALSE
  PROVE  StationSpec => []StationInv
<1>1. StationInit => StationInv
  BY StationStarts
<1>2. StationInv /\ [StationNext]_stationVars => StationInv'
  BY StationSteps
<1> QED BY <1>1, <1>2, PTL DEF StationSpec

(* The station behaves as the trains of module Trains (station.c): no      *)
(* operation loses, repeats or reorders the cars it should keep, whatever  *)
(* the operations before it, on a station of any size.                     *)
THEOREM RelinkingKeepsTrains ==
  ASSUME SamePlatform = FALSE
  PROVE  StationSpec => StationIsTrains
<1>1. StationInit => StationInv /\ Yard!Init
  BY StationStarts
<1>2. StationInv /\ [StationNext]_stationVars
        => StationInv' /\ [Yard!Next]_(Yard!vars)
  BY StationSteps
<1> QED BY <1>1, <1>2, PTL DEF StationSpec, StationIsTrains, Yard!Spec

(* The weight of the window of n cars from car i.                          *)
Window(w, n, i) == SubSeq(w, i, i + n - 1)
WindowWeight(w, n, i) == Folded(Window(w, n, i))

IsWindow(e, w, n, i) ==
  e \in Seq(Weights) /\ Len(e) = n /\ \A k \in 1 .. n : e[k] = w[i + k - 1]

LEMMA WindowIs ==
  ASSUME NEW w, w \in Seq(Weights), NEW n, n \in Nat, NEW i, i \in Nat \ {0},
         i + n - 1 <= Len(w)
  PROVE  IsWindow(Window(w, n, i), w, n, i)
<1>1. Len(w) \in Nat /\ i \in 1 .. Len(w) + 1 /\ i + n - 1 \in i - 1 .. Len(w)
  OBVIOUS
<1>2. (i + n - 1) - i + 1 = n
  BY <1>1
<1> DEFINE j == i + n - 1
<1>3. j \in i - 1 .. Len(w) /\ j - i + 1 = n
  BY <1>1, <1>2
<1> HIDE DEF j
<1>4. /\ SubSeq(w, i, j) \in Seq(Weights) /\ Len(SubSeq(w, i, j)) = j - i + 1
      /\ \A k \in 1 .. j - i + 1 : SubSeq(w, i, j)[k] = w[i + k - 1]
  BY <1>1, <1>3, SubSeqProperties
<1> QED BY <1>3, <1>4 DEF Window, j, IsWindow

LEMMA WeightNat == \A x \in Weights : x \in Nat
<1> TAKE x \in Weights
<1>1. x \in 1 .. 9999
  BY WeightIs
<1> QED BY <1>1

LEMMA NotNegative ==
  ASSUME NEW s, s \in Seq(Weights)
  PROVE  Folded(s) \in Nat
<1>1. Folded(s) = SumOf(s, 1 .. Len(s))
  BY SumIs DEF Added
<1>2. Len(s) \in Nat /\ \A k \in 1 .. Len(s) : s[k] \in Weights
  OBVIOUS
<1>3. \A k \in 1 .. Len(s) : s[k] \in Nat
  BY <1>2, WeightNat
<1>4. IsFiniteSet(1 .. Len(s))
  BY <1>2, FS_Interval
<1> QED BY <1>1, <1>3, <1>4, SumNatural

(* The next window gains the car ahead and loses the one behind.           *)
LEMMA WindowSlides ==
  ASSUME NEW w, w \in Seq(Weights), NEW n, n \in Nat \ {0}, NEW i, i \in 1 .. Len(w) - n
  PROVE  WindowWeight(w, n, i + 1) = WindowWeight(w, n, i) - w[i] + w[i + n]
<1> DEFINE l == Len(w)
           s == Window(w, n + 1, i)
           u == Window(w, n, i)
           v == Window(w, n, i + 1)
<1>1. l \in Nat /\ \A k \in 1 .. l : w[k] \in Weights /\ w[k] \in Int
  <2>1. l \in Nat /\ \A k \in 1 .. l : w[k] \in Weights
    OBVIOUS
  <2> QED BY <2>1, WeightIs
<1>2. s \in Seq(Weights) /\ Len(s) = n + 1 /\ \A k \in 1 .. n + 1 : s[k] = w[i + k - 1]
  <2>1. n + 1 \in Nat /\ i \in Nat \ {0} /\ i + (n + 1) - 1 <= l
    BY <1>1
  <2>2. IsWindow(s, w, n + 1, i)
    BY <2>1, WindowIs
  <2> QED BY <2>2 DEF IsWindow
<1>3. u \in Seq(Weights) /\ Len(u) = n /\ \A k \in 1 .. n : u[k] = w[i + k - 1]
  <2>1. n \in Nat /\ i \in Nat \ {0} /\ i + n - 1 <= l
    BY <1>1
  <2>2. IsWindow(u, w, n, i)
    BY <2>1, WindowIs
  <2> QED BY <2>2 DEF IsWindow
<1>4. v \in Seq(Weights) /\ Len(v) = n /\ \A k \in 1 .. n : v[k] = w[i + 1 + k - 1]
  <2>1. n \in Nat /\ i + 1 \in Nat \ {0} /\ (i + 1) + n - 1 <= l
    BY <1>1
  <2>2. IsWindow(v, w, n, i + 1)
    BY <2>1, WindowIs
  <2> QED BY <2>2 DEF IsWindow
<1> HIDE DEF s, u, v
<1>5. s[1] = w[i] /\ s[n + 1] = w[i + n]
  <2>1. 1 \in 1 .. n + 1 /\ n + 1 \in 1 .. n + 1 /\ i + 1 - 1 = i /\ i + (n + 1) - 1 = i + n
    BY <1>1
  <2>2. s[1] = w[i + 1 - 1] /\ s[n + 1] = w[i + (n + 1) - 1]
    BY <1>2, <2>1
  <2> QED BY <2>1, <2>2
<1>6. IsCut(v, s, 1, 1)
  <2>1. Len(v) = Len(s) - 1
    BY <1>2, <1>4
  <2>2. ASSUME NEW k \in 1 .. Len(s) - 1 PROVE v[k] = IF k < 1 THEN s[k] ELSE s[k + 1]
    <3>1. k \in 1 .. n /\ k + 1 \in 1 .. n + 1 /\ ~(k < 1) /\ i + (k + 1) - 1 = i + 1 + k - 1
      BY <1>1, <1>2
    <3>2. v[k] = w[i + 1 + k - 1] /\ s[k + 1] = w[i + (k + 1) - 1]
      BY <1>2, <1>4, <3>1
    <3> QED BY <3>1, <3>2
  <2> QED BY <2>1, <2>2 DEF IsCut
<1>7. IsCut(u, s, n + 1, 1)
  <2>1. Len(u) = Len(s) - 1
    BY <1>2, <1>3
  <2>2. ASSUME NEW k \in 1 .. Len(s) - 1 PROVE u[k] = IF k < n + 1 THEN s[k] ELSE s[k + 1]
    <3>1. k \in 1 .. n /\ k \in 1 .. n + 1 /\ k < n + 1
      BY <1>2
    <3>2. u[k] = w[i + k - 1] /\ s[k] = w[i + k - 1]
      BY <1>2, <1>3, <3>1
    <3> QED BY <3>1, <3>2
  <2> QED BY <2>1, <2>2 DEF IsCut
<1>8. Added(v) = Added(s) - s[1]
  <2>1. PICK one : one = 1
    OBVIOUS
  <2>2. one \in 1 .. Len(s) /\ IsCut(v, s, one, 1)
    BY <1>2, <1>6, <2>1
  <2>3. Added(v) = Added(s) - s[one]
    BY <1>2, <2>2, SumWithout
  <2> QED BY <2>1, <2>3
<1>9. Added(u) = Added(s) - s[n + 1]
  <2>1. n + 1 \in 1 .. Len(s)
    BY <1>2
  <2> QED BY <1>2, <1>7, <2>1, SumWithout
<1>10. /\ Folded(u) = Added(u) /\ Folded(v) = Added(v) /\ Added(s) \in Int
  BY <1>2, <1>3, <1>4, SumIs
<1>11. w[i] \in Int /\ w[i + n] \in Int
  BY <1>1
<1>12. Folded(v) = Folded(u) - w[i] + w[i + n]
  BY <1>5, <1>8, <1>9, <1>10, <1>11
<1> QED BY <1>12 DEF WindowWeight, u, v

Sliding == [sum : Int, max : Int, at : Int]

(* The sliding sum after each window.                                      *)
Slides(slid, w, n) ==
  LET sum == WindowWeight(w, n, 1) IN
  /\ slid \in [0 .. Len(w) - n -> Sliding]
  /\ slid[0] = [sum |-> sum, max |-> sum, at |-> 1]
  /\ \A k \in 1 .. Len(w) - n : slid[k] = Slide(w, n, slid[k - 1], k)

LEMMA SlideType ==
  ASSUME NEW w, w \in Seq(Weights), NEW n, n \in Nat \ {0},
         NEW k, k \in 1 .. Len(w) - n, NEW s, s \in Sliding
  PROVE  Slide(w, n, s, k) \in Sliding
<1>1. w[k] \in Int /\ w[k + n] \in Int /\ k + 1 \in Int
  <2>1. Len(w) \in Nat /\ \A i \in 1 .. Len(w) : w[i] \in Weights
    OBVIOUS
  <2>2. k \in 1 .. Len(w) /\ k + n \in 1 .. Len(w) /\ k + 1 \in Int
    BY <2>1
  <2> QED BY <2>1, <2>2, WeightIs
<1> DEFINE sum == s.sum - w[k] + w[k + n]
<1>2. sum \in Int
  BY <1>1 DEF Sliding
<1>3. Slide(w, n, s, k) = IF sum > s.max THEN [sum |-> sum, max |-> sum, at |-> k + 1]
                                          ELSE [s EXCEPT !.sum = sum]
  BY DEF Slide
<1> HIDE DEF sum
<1>4. [sum |-> sum, max |-> sum, at |-> k + 1] \in Sliding
  BY <1>1, <1>2 DEF Sliding
<1>5. [s EXCEPT !.sum = sum] \in Sliding
  BY <1>2 DEF Sliding
<1> QED BY <1>3, <1>4, <1>5

LEMMA SecvIs ==
  ASSUME NEW w, w \in Seq(Weights), NEW n, n \in Nat \ {0}, n <= Len(w)
  PROVE  \E slid : Slides(slid, w, n) /\ secv(w, n) = slid[Len(w) - n]
<1> DEFINE N == Len(w) - n
           sum == WindowWeight(w, n, 1)
           first_sum == [sum |-> sum, max |-> sum, at |-> 1]
           V(g, k) == IF k = 0 THEN first_sum ELSE Slide(w, n, g[k - 1], k)
           Is(g) == g = [k \in 0 .. N |-> V(g, k)]
           F == [ks \in (1 .. N) \X Sliding |-> Slide(w, n, ks[2], ks[1])]
           slid == CHOOSE g : Is(g)
<1>1. N \in Nat /\ ~(Len(w) < n)
  OBVIOUS
<1>2. sum \in Int
  <2>1. PICK one : one = 1
    OBVIOUS
  <2>2. one \in Nat \ {0} /\ one + n - 1 <= Len(w) /\ n \in Nat
    BY <2>1
  <2>3. IsWindow(Window(w, n, one), w, n, one)
    BY <2>2, WindowIs
  <2>4. Folded(Window(w, n, one)) \in Nat
    BY <2>3, NotNegative DEF IsWindow
  <2> QED BY <2>1, <2>4 DEF WindowWeight
<1>3. secv(w, n) = slid[N]
  <2>1. sum = FoldSeq(+, 0, SubSeq(w, 1, n))
    <3>1. 1 + n - 1 = n
      OBVIOUS
    <3> QED BY <3>1 DEF WindowWeight, Window, Folded
  <2> HIDE DEF sum
  <2> QED BY <1>1, <2>1 DEF secv
<1> HIDE DEF sum
<1>4. first_sum \in Sliding
  BY <1>2 DEF Sliding
<1>5. ASSUME NEW k \in 1 .. N, NEW x \in Sliding
      PROVE  F[<<k, x>>] = Slide(w, n, x, k) /\ F[<<k, x>>] \in Sliding
  BY SlideType
<1> HIDE DEF N, first_sum
<1>6. PICK g : Iterated(g, N, Sliding, first_sum, F)
  <2>1. Closed(N, Sliding, F)
    BY <1>5 DEF Closed
  <2> HIDE DEF F
  <2> QED BY <1>1, <1>4, <2>1, Iterates
<1>7. Is(g)
  <2>1. ASSUME NEW k \in 0 .. N PROVE g[k] = V(g, k)
    <3>1. CASE k = 0
      BY <1>6, <3>1 DEF Iterated
    <3>2. CASE k # 0
      <4>1. k \in 1 .. N /\ g[k - 1] \in Sliding
        BY <1>1, <1>6, <3>2 DEF Iterated
      <4>2. g[k] = F[<<k, g[k - 1]>>]
        BY <1>6, <4>1 DEF Iterated
      <4> HIDE DEF F
      <4> QED BY <1>5, <3>2, <4>1, <4>2
    <3> QED BY <3>1, <3>2
  <2> HIDE DEF V, F
  <2>2. g = [k \in 0 .. N |-> g[k]]
    BY <1>6 DEF Iterated
  <2> QED BY <2>1, <2>2
<1>8. Is(slid)
  <2> HIDE DEF Is
  <2> QED BY <1>7
<1> HIDE DEF slid, F
<1>9. slid = [k \in 0 .. N |-> slid[k]] /\ \A k \in 0 .. N : slid[k] = V(slid, k)
  <2> HIDE DEF V
  <2> QED BY <1>8
<1> HIDE DEF Is
<1>10. slid[0] = first_sum /\ \A k \in 1 .. N : slid[k] = Slide(w, n, slid[k - 1], k)
  <2>1. 0 \in 0 .. N /\ \A k \in 1 .. N : k \in 0 .. N /\ k # 0
    BY <1>1
  <2> QED BY <1>9, <2>1
<1> DEFINE T == {k \in Nat : k <= N => slid[k] \in Sliding}
<1>11. 0 \in T
  BY <1>4, <1>10
<1>12. ASSUME NEW k \in Nat, k \in T PROVE k + 1 \in T
  <2> SUFFICES ASSUME k + 1 <= N PROVE slid[k + 1] \in Sliding
    OBVIOUS
  <2>1. slid[k] \in Sliding /\ k + 1 \in 1 .. N /\ (k + 1) - 1 = k
    BY <1>1, <1>12
  <2>2. slid[k + 1] = Slide(w, n, slid[k], k + 1)
    BY <1>10, <2>1
  <2> QED BY <2>1, <2>2, SlideType DEF N
<1>13. \A k \in Nat : k \in T
  <2> HIDE DEF T
  <2> QED BY <1>11, <1>12, SetInduction
<1>14. slid \in [0 .. N -> Sliding]
  <2>1. \A k \in 0 .. N : slid[k] \in Sliding
    BY <1>1, <1>13
  <2> QED BY <1>9, <2>1
<1>15. Slides(slid, w, n)
  BY <1>10, <1>14 DEF Slides, N, sum, first_sum
<1> QED BY <1>3, <1>15 DEF N

(* The heaviest of the windows of n cars: the first k windows, or all.     *)
HeaviestOf(s, w, n, k) ==
  /\ s.at \in 1 .. k /\ s.max = WindowWeight(w, n, s.at)
  /\ \A i \in 1 .. k : WindowWeight(w, n, i) <= s.max

LEMMA WindowNat ==
  ASSUME NEW w, w \in Seq(Weights), NEW n, n \in Nat \ {0},
         NEW i, i \in 1 .. Len(w) - n + 1
  PROVE  WindowWeight(w, n, i) \in Nat
<1>1. Len(w) \in Nat
  OBVIOUS
<1>2. n \in Nat /\ i \in Nat \ {0} /\ i + n - 1 <= Len(w)
  BY <1>1
<1>3. IsWindow(Window(w, n, i), w, n, i)
  BY <1>2, WindowIs
<1> QED BY <1>3, NotNegative DEF IsWindow, WindowWeight

LEMMA SlideFinds ==
  ASSUME NEW w, w \in Seq(Weights), NEW n, n \in Nat \ {0}, n <= Len(w)
  PROVE  /\ HeaviestOf(secv(w, n), w, n, Len(w) - n + 1)
         /\ secv(w, n).max \in Nat
<1> DEFINE N == Len(w) - n
           W(i) == WindowWeight(w, n, i)
<1>1. N \in Nat
  OBVIOUS
<1>2. PICK slid : Slides(slid, w, n) /\ secv(w, n) = slid[N]
  BY SecvIs
<1>3. \A i \in 1 .. N + 1 : W(i) \in Nat
  BY WindowNat
<1>4. \A i \in 1 .. N : W(i + 1) = W(i) - w[i] + w[i + n]
  BY WindowSlides
<1> HIDE DEF N, W
<1>5. /\ slid[0] = [sum |-> W(1), max |-> W(1), at |-> 1]
      /\ \A k \in 1 .. N : slid[k] = Slide(w, n, slid[k - 1], k)
      /\ \A k \in 0 .. N : slid[k] \in Sliding
  BY <1>2 DEF Slides, N, W
<1> DEFINE Ok(k) == /\ slid[k].sum = W(k + 1)
                    /\ slid[k].at \in 1 .. k + 1 /\ slid[k].max = W(slid[k].at)
                    /\ \A i \in 1 .. k + 1 : W(i) <= slid[k].max
           T == {k \in Nat : k <= N => Ok(k)}
<1>6. 0 \in T
  <2>1. 1 \in 1 .. N + 1 /\ 1 \in 1 .. 0 + 1 /\ \A i \in 1 .. 0 + 1 : i = 1
    BY <1>1
  <2>2. W(1) \in Nat
    BY <1>3, <2>1
  <2>3. slid[0].sum = W(1) /\ slid[0].max = W(1) /\ slid[0].at = 1
    BY <1>5
  <2> QED BY <2>1, <2>2, <2>3
<1>7. ASSUME NEW k \in Nat, k \in T PROVE k + 1 \in T
  <2> SUFFICES ASSUME k + 1 <= N PROVE Ok(k + 1)
    OBVIOUS
  <2>1. Ok(k) /\ k + 1 \in 1 .. N /\ (k + 1) - 1 = k /\ k \in 0 .. N /\ k + 2 \in 1 .. N + 1
    BY <1>1, <1>7
  <2> DEFINE s == slid[k]
             sum == s.sum - w[k + 1] + w[k + 1 + n]
  <2>2. slid[k + 1] = IF sum > s.max THEN [sum |-> sum, max |-> sum, at |-> k + 1 + 1]
                      ELSE [s EXCEPT !.sum = sum]
    BY <1>5, <2>1 DEF Slide
  <2>3. sum = W(k + 1 + 1)
    BY <1>4, <2>1
  <2>4. s \in Sliding /\ \A i \in 1 .. k + 1 : W(i) <= s.max
    BY <1>5, <2>1
  <2>5. k + 1 + 1 \in 1 .. N + 1 /\ \A i \in 1 .. k + 1 + 1 : i \in 1 .. k + 1 \/ i = k + 1 + 1
    BY <2>1
  <2>6. sum \in Nat /\ s.max \in Int /\ \A i \in 1 .. k + 1 : W(i) \in Nat
    BY <1>1, <1>3, <2>1, <2>3, <2>4, <2>5 DEF Sliding
  <2>7. s.at \in 1 .. k + 1 /\ s.max = W(s.at)
    BY <2>1
  <2> HIDE DEF s, sum
  <2>8. CASE sum > s.max
    <3>1. slid[k + 1].sum = sum /\ slid[k + 1].max = sum /\ slid[k + 1].at = k + 1 + 1
      BY <2>2, <2>8
    <3>2. k + 1 + 1 \in 1 .. k + 1 + 1
      OBVIOUS
    <3>3. ASSUME NEW i \in 1 .. k + 1 + 1 PROVE W(i) <= sum
      <4>1. CASE i = k + 1 + 1
        BY <2>3, <2>6, <4>1
      <4>2. CASE i \in 1 .. k + 1
        BY <2>4, <2>6, <2>8, <4>2
      <4> QED BY <2>5, <4>1, <4>2
    <3> QED BY <2>3, <3>1, <3>2, <3>3
  <2>9. CASE ~(sum > s.max)
    <3>1. slid[k + 1].sum = sum /\ slid[k + 1].max = s.max /\ slid[k + 1].at = s.at
      BY <2>2, <2>4, <2>9 DEF Sliding
    <3>2. s.at \in 1 .. k + 1 + 1
      BY <2>7
    <3>3. ASSUME NEW i \in 1 .. k + 1 + 1 PROVE W(i) <= s.max
      <4>1. CASE i = k + 1 + 1
        BY <2>3, <2>6, <2>9, <4>1
      <4>2. CASE i \in 1 .. k + 1
        BY <2>4, <4>2
      <4> QED BY <2>5, <4>1, <4>2
    <3> QED BY <2>3, <2>7, <3>1, <3>2, <3>3
  <2> QED BY <2>8, <2>9
<1>8. Ok(N)
  <2> HIDE DEF T
  <2>1. N \in T
    BY <1>1, <1>6, <1>7, SetInduction
  <2> QED BY <1>1, <2>1 DEF T
<1>9. slid[N].max \in Nat
  BY <1>3, <1>8
<1> QED BY <1>2, <1>8, <1>9 DEF HeaviestOf, W, N

Bests == [at : Int, value : Int]
HeaviestIn(q, n) == secv(WeightsOf(q), n).max

(* The best platform so far, after each platform.                          *)
Leads(best, n) ==
  /\ best \in [0 .. platforms_no -> Bests]
  /\ best[0] = [at |-> -1, value |-> -1]
  /\ \A k \in 1 .. platforms_no :
       best[k] = IF HeaviestIn(k - 1, n) > best[k - 1].value
                 THEN [at |-> k - 1, value |-> HeaviestIn(k - 1, n)] ELSE best[k - 1]

LEMMA BestIs ==
  ASSUME NEW n, \A q \in Platforms : HeaviestIn(q, n) \in Int
  PROVE  \E best : /\ Leads(best, n)
                   /\ find_heaviest_sequence_train(n) =
                        IF best[platforms_no].at = -1 THEN [at |-> -1, start |-> Null]
                        ELSE [at |-> best[platforms_no].at,
                              start |-> secv(WeightsOf(best[platforms_no].at), n).at]
<1> DEFINE N == platforms_no
           H(q) == HeaviestIn(q, n)
           none == [at |-> -1, value |-> -1]
           Then(x, k) == IF H(k - 1) > x.value THEN [at |-> k - 1, value |-> H(k - 1)] ELSE x
           V(g, k) == IF k = 0 THEN none ELSE Then(g[k - 1], k)
           Is(g) == g = [k \in 0 .. N |-> V(g, k)]
           F == [ks \in (1 .. N) \X Bests |-> Then(ks[2], ks[1])]
           best == CHOOSE g : Is(g)
<1>1. N \in Nat /\ \A k \in 1 .. N : k - 1 \in Platforms /\ k - 1 \in Int
  <2>1. N \in Nat
    BY StationConstants
  <2> QED BY <2>1 DEF Platforms
<1>2. find_heaviest_sequence_train(n) =
        IF best[N].at = -1 THEN [at |-> -1, start |-> Null]
        ELSE [at |-> best[N].at, start |-> secv(WeightsOf(best[N].at), n).at]
  BY DEF find_heaviest_sequence_train, Best, HeaviestIn
<1>3. none \in Bests
  BY DEF Bests
<1>4. ASSUME NEW k \in 1 .. N, NEW x \in Bests
      PROVE  F[<<k, x>>] = Then(x, k) /\ F[<<k, x>>] \in Bests
  <2>1. k - 1 \in Int /\ H(k - 1) \in Int
    BY <1>1
  <2> HIDE DEF H
  <2>2. Then(x, k) \in Bests
    BY <2>1 DEF Bests
  <2> QED BY <2>2
<1> HIDE DEF N, none, Then
<1>5. PICK g : Iterated(g, N, Bests, none, F)
  <2>1. Closed(N, Bests, F)
    BY <1>4 DEF Closed
  <2> HIDE DEF F
  <2> QED BY <1>1, <1>3, <2>1, Iterates
<1>6. Is(g)
  <2>1. ASSUME NEW k \in 0 .. N PROVE g[k] = V(g, k)
    <3>1. CASE k = 0
      BY <1>5, <3>1 DEF Iterated
    <3>2. CASE k # 0
      <4>1. k \in 1 .. N /\ g[k - 1] \in Bests
        BY <1>1, <1>5, <3>2 DEF Iterated
      <4>2. g[k] = F[<<k, g[k - 1]>>]
        BY <1>5, <4>1 DEF Iterated
      <4> HIDE DEF F
      <4> QED BY <1>4, <3>2, <4>1, <4>2
    <3> QED BY <3>1, <3>2
  <2> HIDE DEF V, F
  <2>2. g = [k \in 0 .. N |-> g[k]]
    BY <1>5 DEF Iterated
  <2> QED BY <2>1, <2>2
<1>7. Is(best)
  <2> HIDE DEF Is
  <2> QED BY <1>6
<1> HIDE DEF best, F
<1>8. best = [k \in 0 .. N |-> best[k]] /\ \A k \in 0 .. N : best[k] = V(best, k)
  <2> HIDE DEF V
  <2> QED BY <1>7
<1> HIDE DEF Is
<1>9. best[0] = none /\ \A k \in 1 .. N : best[k] = Then(best[k - 1], k)
  <2>1. 0 \in 0 .. N /\ \A k \in 1 .. N : k \in 0 .. N /\ k # 0
    BY <1>1
  <2> QED BY <1>8, <2>1
<1> DEFINE T == {k \in Nat : k <= N => best[k] \in Bests}
<1>10. 0 \in T
  BY <1>3, <1>9
<1>11. ASSUME NEW k \in Nat, k \in T PROVE k + 1 \in T
  <2> SUFFICES ASSUME k + 1 <= N PROVE best[k + 1] \in Bests
    OBVIOUS
  <2>1. best[k] \in Bests /\ k + 1 \in 1 .. N /\ (k + 1) - 1 = k
    BY <1>1, <1>11
  <2>2. best[k + 1] = Then(best[k], k + 1)
    BY <1>9, <2>1
  <2>3. F[<<k + 1, best[k]>>] = Then(best[k], k + 1) /\ F[<<k + 1, best[k]>>] \in Bests
    BY <1>4, <2>1
  <2> QED BY <2>2, <2>3
<1>12. \A k \in Nat : k \in T
  <2> HIDE DEF T
  <2> QED BY <1>10, <1>11, SetInduction
<1>13. best \in [0 .. N -> Bests]
  <2>1. \A k \in 0 .. N : best[k] \in Bests
    BY <1>1, <1>12
  <2> QED BY <1>8, <2>1
<1>14. Leads(best, n)
  BY <1>9, <1>13 DEF Leads, N, none, Then
<1> QED BY <1>2, <1>14 DEF N

(* What a platform's train offers: nothing, or the heaviest of its windows. *)
LEMMA TrainOffers ==
  ASSUME StationTypes, NEW q, q \in Platforms, NEW n, n \in Nat \ {0}
  PROVE  /\ WeightsOf(q) \in Seq(Weights) /\ Len(WeightsOf(q)) = Len(CarsOf(q))
         /\ Len(CarsOf(q)) \in Nat
         /\ Len(CarsOf(q)) < n => HeaviestIn(q, n) = -1
         /\ n <= Len(CarsOf(q)) =>
              /\ HeaviestIn(q, n) \in Nat
              /\ HeaviestOf(secv(WeightsOf(q), n), WeightsOf(q), n, Len(CarsOf(q)) - n + 1)
<1> DEFINE c == CarsOf(q)
           w == WeightsOf(q)
<1>1. c \in Seq(Cars)
  <2>1. first \in Firsts /\ next \in Nexts
    BY DEF StationTypes
  <2> QED BY <2>1, ListType DEF CarsOf
<1>2. weight \in Scales
  BY DEF StationTypes, Scales
<1>3. w = Weighted(c, weight)
  BY DEF WeightsOf, Weighted
<1> HIDE DEF c, w
<1>4. w \in Seq(Weights) /\ Len(w) = Len(c) /\ Len(c) \in Nat
  <2>1. Weighs(Weighted(c, weight), c, weight)
    BY <1>1, <1>2, WeightedIs
  <2>2. Len(c) \in Nat
    BY <1>1
  <2> QED BY <1>3, <2>1, <2>2 DEF Weighs
<1>5. ASSUME Len(c) < n PROVE secv(w, n).max = -1
  <2>1. Len(w) < n
    BY <1>4, <1>5
  <2>2. secv(w, n) = [max |-> -1, at |-> Null]
    BY <2>1 DEF secv
  <2> QED BY <2>2
<1>6. ASSUME n <= Len(c)
      PROVE  secv(w, n).max \in Nat /\ HeaviestOf(secv(w, n), w, n, Len(c) - n + 1)
  <2>1. n <= Len(w)
    BY <1>4, <1>6
  <2> QED BY <1>4, <2>1, SlideFinds
<1> QED BY <1>4, <1>5, <1>6 DEF HeaviestIn, c, w

LEMMA FindsHeaviest ==
  ASSUME StationTypes
  PROVE  HeaviestFound
<1> SUFFICES ASSUME NEW n \in Cars
             PROVE  LET h == find_heaviest_sequence_train(n) IN
                    IF h.at = -1 THEN Windows(n) = {}
                    ELSE /\ <<h.at, h.start>> \in Windows(n)
                         /\ \A x \in Windows(n) :
                              WindowSum(n, x) <= WindowSum(n, <<h.at, h.start>>)
  BY DEF HeaviestFound
<1> DEFINE N == platforms_no
           H(q) == HeaviestIn(q, n)
           L(q) == Len(CarsOf(q))
           W(q, i) == WindowWeight(WeightsOf(q), n, i)
           S(q) == secv(WeightsOf(q), n)
           h == find_heaviest_sequence_train(n)
<1>1. n \in Nat \ {0} /\ N \in Nat /\ Platforms = 0 .. N - 1
  BY StationConstants DEF Cars, Platforms
<1>2. ASSUME NEW q \in Platforms
      PROVE  /\ L(q) \in Nat
             /\ L(q) < n => H(q) = -1
             /\ n <= L(q) => /\ H(q) \in Nat /\ H(q) = S(q).max
                             /\ HeaviestOf(S(q), WeightsOf(q), n, L(q) - n + 1)
  BY <1>1, TrainOffers DEF HeaviestIn
<1>3. ASSUME NEW q \in Platforms, n <= L(q)
      PROVE  /\ S(q).at \in 1 .. L(q) - n + 1 /\ H(q) = W(q, S(q).at)
             /\ \A i \in 1 .. L(q) - n + 1 : W(q, i) <= H(q)
  BY <1>2, <1>3 DEF HeaviestOf
<1>4. ASSUME NEW q \in Platforms, NEW i \in 1 .. L(q) - n + 1
      PROVE  W(q, i) \in Nat /\ n <= L(q)
  <2>1. WeightsOf(q) \in Seq(Weights) /\ Len(WeightsOf(q)) = L(q)
    BY <1>1, TrainOffers
  <2>2. L(q) \in Nat
    BY <1>2
  <2> HIDE DEF L
  <2>3. i \in 1 .. Len(WeightsOf(q)) - n + 1
    BY <2>1
  <2>4. WindowWeight(WeightsOf(q), n, i) \in Nat
    BY <1>1, <2>1, <2>3, WindowNat
  <2>5. n <= L(q)
    BY <1>1, <2>2
  <2> QED BY <2>4, <2>5
<1>5. \A x : x \in Windows(n) <=> \E q \in Platforms : \E i \in 1 .. L(q) - n + 1 : x = <<q, i>>
  BY DEF Windows
<1>6. \A q, i : WindowSum(n, <<q, i>>) = W(q, i)
  BY DEF WindowSum, WindowWeight, Window, Folded
<1> HIDE DEF H, L, W, S, N
<1>7. ASSUME NEW q \in Platforms
      PROVE  H(q) \in Int /\ H(q) >= -1 /\ (H(q) = -1 <=> L(q) < n)
  <2>1. CASE L(q) < n
    BY <1>2, <2>1
  <2>2. CASE n <= L(q)
    BY <1>1, <1>2, <2>2
  <2> QED BY <1>1, <1>2, <2>1, <2>2
<1>8. PICK best : /\ Leads(best, n)
                  /\ h = IF best[N].at = -1 THEN [at |-> -1, start |-> Null]
                         ELSE [at |-> best[N].at, start |-> S(best[N].at).at]
  <2>1. \A q \in Platforms : HeaviestIn(q, n) \in Int
    BY <1>7 DEF H
  <2> QED BY <2>1, BestIs DEF N, S
<1>9. /\ best[0] = [at |-> -1, value |-> -1]
      /\ \A k \in 1 .. N :
           best[k] = IF H(k - 1) > best[k - 1].value
                     THEN [at |-> k - 1, value |-> H(k - 1)] ELSE best[k - 1]
  BY <1>8 DEF Leads, N, H
<1> HIDE DEF h
<1> DEFINE Ok(x, k) == IF x.at = -1 THEN x.value = -1 /\ \A q \in 0 .. k - 1 : H(q) = -1
                       ELSE /\ x.at \in 0 .. k - 1 /\ x.value = H(x.at) /\ x.value > -1
                            /\ \A q \in 0 .. k - 1 : H(q) <= x.value
           T == {k \in Nat : k <= N => Ok(best[k], k)}
<1>10. 0 \in T
  BY <1>9
<1>11. ASSUME NEW k \in Nat, k \in T PROVE k + 1 \in T
  <2> SUFFICES ASSUME k + 1 <= N PROVE Ok(best[k + 1], k + 1)
    OBVIOUS
  <2> DEFINE x == best[k]
             y == best[k + 1]
  <2>1. Ok(x, k) /\ k + 1 \in 1 .. N /\ (k + 1) - 1 = k /\ k \in Platforms
    BY <1>1, <1>11
  <2>2. y = IF H(k) > x.value THEN [at |-> k, value |-> H(k)] ELSE x
    BY <1>9, <2>1
  <2>3. H(k) \in Int /\ H(k) >= -1
    BY <1>7, <2>1
  <2>4. \A q \in 0 .. (k + 1) - 1 : q \in 0 .. k - 1 \/ q = k
    OBVIOUS
  <2>5. \A q \in 0 .. k - 1 : q \in Platforms /\ H(q) \in Int /\ H(q) >= -1
    <3>1. \A q \in 0 .. k - 1 : q \in Platforms
      BY <1>1, <2>1
    <3> QED BY <1>7, <3>1
  <2>6. x.at # -1 => x.value \in Int /\ x.at \in 0 .. k - 1
    BY <2>1, <2>5
  <2> HIDE DEF x, y
  <2>7. CASE H(k) > x.value
    <3>1. y.at = k /\ y.value = H(k) /\ k # -1 /\ k \in 0 .. (k + 1) - 1
      BY <2>2, <2>7
    <3>2. H(k) > -1
      BY <2>1, <2>3, <2>6, <2>7
    <3>3. \A q \in 0 .. k - 1 : H(q) <= H(k)
      <4> TAKE q \in 0 .. k - 1
      <4>1. CASE x.at = -1
        BY <2>1, <2>3, <2>5, <4>1
      <4>2. CASE x.at # -1
        <5>1. H(q) <= x.value /\ x.value \in Int /\ H(q) \in Int
          BY <2>1, <2>5, <2>6, <4>2
        <5> QED BY <2>3, <2>7, <5>1
      <4> QED BY <4>1, <4>2
    <3>4. \A q \in 0 .. (k + 1) - 1 : H(q) <= H(k)
      BY <2>3, <2>4, <3>3
    <3> QED BY <3>1, <3>2, <3>4 DEF y
  <2>8. CASE ~(H(k) > x.value)
    <3>1. y = x
      BY <2>2, <2>8
    <3>2. CASE x.at = -1
      <4>1. H(k) = -1 /\ x.value = -1
        BY <2>1, <2>3, <2>8, <3>2
      <4>2. \A q \in 0 .. (k + 1) - 1 : H(q) = -1
        BY <2>1, <2>4, <3>2, <4>1
      <4> QED BY <3>1, <3>2, <4>1, <4>2 DEF y
    <3>3. CASE x.at # -1
      <4>1. H(k) <= x.value
        BY <2>3, <2>6, <2>8, <3>3
      <4>2. x.at \in 0 .. (k + 1) - 1
        BY <2>6, <3>3
      <4>3. \A q \in 0 .. (k + 1) - 1 : H(q) <= x.value
        BY <2>1, <2>4, <3>3, <4>1
      <4> QED BY <2>1, <3>1, <3>3, <4>2, <4>3 DEF y
    <3> QED BY <3>2, <3>3
  <2> QED BY <2>7, <2>8
<1>12. Ok(best[N], N)
  <2> HIDE DEF T
  <2>1. N \in T
    BY <1>1, <1>10, <1>11, SetInduction
  <2> QED BY <1>1, <2>1 DEF T
<1>13. CASE best[N].at = -1
  <2>1. h.at = -1
    BY <1>8, <1>13
  <2>2. \A q \in Platforms : L(q) < n
    BY <1>1, <1>7, <1>12, <1>13
  <2>3. \A q \in Platforms : 1 .. L(q) - n + 1 = {}
    <3> TAKE q \in Platforms
    <3>1. L(q) \in Nat /\ L(q) < n
      BY <1>2, <2>2 DEF L
    <3> QED BY <1>1, <3>1
  <2>4. Windows(n) = {}
    BY <1>5, <2>3 DEF L
  <2> QED BY <2>1, <2>4 DEF h
<1>14. CASE best[N].at # -1
  <2> DEFINE a == best[N].at
  <2>1. a \in Platforms /\ H(a) > -1 /\ \A q \in Platforms : H(q) <= H(a)
    BY <1>1, <1>12, <1>14
  <2>2. h.at = a /\ h.start = S(a).at /\ a # -1
    BY <1>8, <1>14
  <2> HIDE DEF a
  <2>3. n <= L(a) /\ H(a) \in Int
    <3>1. H(a) \in Int /\ H(a) # -1 /\ L(a) \in Nat
      BY <1>2, <1>7, <2>1 DEF L
    <3> QED BY <1>1, <1>7, <2>1, <3>1
  <2>4. S(a).at \in 1 .. L(a) - n + 1 /\ H(a) = W(a, S(a).at)
    BY <1>3, <2>1, <2>3 DEF L, H, W, S
  <2>5. <<a, S(a).at>> \in Windows(n)
    BY <1>5, <2>1, <2>4 DEF L
  <2>6. ASSUME NEW x \in Windows(n) PROVE WindowSum(n, x) <= WindowSum(n, <<a, S(a).at>>)
    <3>1. PICK q \in Platforms : \E i \in 1 .. L(q) - n + 1 : x = <<q, i>>
      BY <1>5 DEF L
    <3>2. PICK i \in 1 .. L(q) - n + 1 : x = <<q, i>>
      BY <3>1
    <3>3. WindowSum(n, x) = W(q, i) /\ WindowSum(n, <<a, S(a).at>>) = H(a)
      BY <1>6, <2>4, <3>2 DEF W
    <3>4. W(q, i) \in Nat /\ n <= L(q)
      BY <1>4 DEF W, L
    <3>5. W(q, i) <= H(q)
      BY <1>3, <3>4 DEF W, L, H
    <3>6. H(q) <= H(a) /\ H(q) \in Int
      BY <1>7, <2>1
    <3> QED BY <2>3, <3>3, <3>4, <3>5, <3>6
  <2> QED BY <2>2, <2>5, <2>6 DEF h
<1> QED BY <1>13, <1>14

(* find_heaviest_sequence_train finds the heaviest of all sequences of n   *)
(* cars (station.c): the sums that slide are the sums of the windows.      *)
THEOREM HeaviestSequence ==
  ASSUME SamePlatform = FALSE
  PROVE  StationSpec => []HeaviestFound
<1>1. StationInv => HeaviestFound
  BY FindsHeaviest DEF StationInv
<1> QED BY <1>1, StationInvariance, PTL
---------------------------------------------------------------------------
(***************************************************************************)
(* main.c: the array of sensors                                            *)
(***************************************************************************)
(* What the block holds, byte by byte.                                     *)
Octets == (Sensors \cup {Junk[1]}) \X Nat

LEMMA TotalIs == \A s \in Sensors : Total(s) \in Nat /\ Total(s) >= 5
<1> TAKE s \in Sensors
<1>1. s.type \in 1 .. 3 /\ s.nume1 \in Nat /\ s.nume2 \in Nat
  BY PackedConstants
<1>2. Sums[s.type] \in Nat
  <2>1. s.type = 1 \/ s.type = 2 \/ s.type = 3
    BY <1>1
  <2>2. Sums[1] = 2 /\ Sums[2] = 6 /\ Sums[3] = 8
    BY DEF Sums
  <2> QED BY <2>1, <2>2
<1> QED BY <1>1, <1>2 DEF Total

LEMMA BytesIs ==
  ASSUME NEW s, s \in Sensors
  PROVE  /\ Bytes(s) \in Seq(Octets) /\ Len(Bytes(s)) = Total(s)
         /\ \A k \in 1 .. Total(s) : Bytes(s)[k] = <<s, k>>
<1>1. Total(s) \in Nat
  BY TotalIs
<1>2. \A k \in 1 .. Total(s) : <<s, k>> \in Octets
  BY <1>1 DEF Octets
<1> DEFINE N == Total(s)
<1> HIDE DEF N
<1>3. [k \in 1 .. N |-> <<s, k>>] \in Seq(Octets)
  BY <1>1, <1>2 DEF N
<1> QED BY <1>1, <1>3 DEF Bytes, N

(* A block of which the bytes after the first i are overwritten with x.    *)
Patched(m, i, x) == SubSeq(m, 1, i) \o x \o SubSeq(m, i + Len(x) + 1, Len(m))
IsPatched(e, m, i, x) ==
  /\ e \in Seq(Octets) /\ Len(e) = Len(m)
  /\ \A j \in 1 .. Len(m) :
       e[j] = IF j > i /\ j <= i + Len(x) THEN x[j - i] ELSE m[j]

LEMMA PatchedIs ==
  ASSUME NEW m, m \in Seq(Octets), NEW x, x \in Seq(Octets), NEW i, i \in Nat,
         i + Len(x) <= Len(m)
  PROVE  IsPatched(Patched(m, i, x), m, i, x)
<1> DEFINE l == Len(m)
           n == Len(x)
           u == SubSeq(m, 1, i)
           v == SubSeq(m, i + n + 1, l)
           e == u \o x
           o == e \o v
<1>1. l \in Nat /\ n \in Nat /\ i + n <= l /\ i <= l
  OBVIOUS
<1>2. \A k \in 1 .. l : m[k] \in Octets
  OBVIOUS
<1>3. u \in Seq(Octets) /\ Len(u) = i /\ \A k \in 1 .. i : u[k] = m[k]
  <2>1. PICK one : one = 1
    OBVIOUS
  <2>2. one \in Int /\ i \in Int /\ \A k \in one .. i : m[k] \in Octets
    BY <1>1, <1>2, <2>1
  <2> HIDE DEF l, n
  <2>3. /\ SubSeq(m, one, i) \in Seq(Octets)
        /\ Len(SubSeq(m, one, i)) = IF one <= i THEN i - one + 1 ELSE 0
        /\ \A k \in 1 .. i - one + 1 : SubSeq(m, one, i)[k] = m[one + k - 1]
    BY <2>2, SubSeqProperties
  <2>4. Len(u) = i
    BY <2>1, <2>3
  <2>5. ASSUME NEW k \in 1 .. i PROVE u[k] = m[k]
    <3>1. k \in 1 .. i - one + 1 /\ one + k - 1 = k
      BY <2>1
    <3> QED BY <2>1, <2>3, <3>1
  <2> QED BY <2>1, <2>3, <2>4, <2>5
<1>4. v \in Seq(Octets) /\ Len(v) = l - i - n /\ \A k \in 1 .. l - i - n : v[k] = m[i + n + k]
  <2> DEFINE j == i + n + 1
  <2>1. j \in Int /\ l \in Int /\ \A k \in j .. l : m[k] \in Octets
    BY <1>1, <1>2
  <2>2. l - j + 1 = l - i - n /\ (j <= l \/ l - i - n = 0)
    BY <1>1
  <2> HIDE DEF l, n, j
  <2>3. /\ SubSeq(m, j, l) \in Seq(Octets)
        /\ Len(SubSeq(m, j, l)) = IF j <= l THEN l - j + 1 ELSE 0
        /\ \A k \in 1 .. l - j + 1 : SubSeq(m, j, l)[k] = m[j + k - 1]
    BY <2>1, SubSeqProperties
  <2>4. Len(SubSeq(m, j, l)) = l - i - n
    BY <1>1, <2>1, <2>2, <2>3 DEF j
  <2>5. ASSUME NEW k \in 1 .. l - i - n PROVE SubSeq(m, j, l)[k] = m[i + n + k]
    <3>1. k \in 1 .. l - j + 1
      BY <2>2
    <3>2. j + k - 1 = i + n + k
      BY <1>1 DEF j
    <3>3. SubSeq(m, j, l)[k] = m[j + k - 1]
      BY <2>3, <3>1
    <3> QED BY <3>2, <3>3
  <2> QED BY <2>3, <2>4, <2>5 DEF j
<1> HIDE DEF l, n, u, v
<1>5. /\ e \in Seq(Octets) /\ Len(e) = i + n
      /\ \A k \in 1 .. i + n : e[k] = IF k <= i THEN m[k] ELSE x[k - i]
  <2>1. /\ e \in Seq(Octets) /\ Len(e) = Len(u) + Len(x)
        /\ \A k \in 1 .. Len(u) + Len(x) : e[k] = IF k <= Len(u) THEN u[k] ELSE x[k - Len(u)]
    BY <1>3, ConcatProperties
  <2> HIDE DEF e
  <2>2. Len(x) = n
    BY DEF n
  <2>3. ASSUME NEW k \in 1 .. i + n PROVE e[k] = IF k <= i THEN m[k] ELSE x[k - i]
    <3>1. CASE k <= i
      BY <1>1, <1>3, <2>1, <2>2, <3>1
    <3>2. CASE ~(k <= i)
      BY <1>1, <1>3, <2>1, <2>2, <3>2
    <3> QED BY <3>1, <3>2
  <2> QED BY <1>3, <2>1, <2>2, <2>3
<1> HIDE DEF e
<1>6. /\ o \in Seq(Octets) /\ Len(o) = Len(e) + Len(v)
      /\ \A k \in 1 .. Len(e) + Len(v) : o[k] = IF k <= Len(e) THEN e[k] ELSE v[k - Len(e)]
  <2>1. e \in Seq(Octets) /\ v \in Seq(Octets)
    BY <1>4, <1>5
  <2> QED BY <2>1, ConcatProperties
<1> HIDE DEF o
<1>7. Len(e) + Len(v) = l
  BY <1>1, <1>4, <1>5
<1>8. ASSUME NEW k \in 1 .. l
      PROVE  o[k] = IF k > i /\ k <= i + n THEN x[k - i] ELSE m[k]
  <2>1. o[k] = IF k <= i + n THEN e[k] ELSE v[k - (i + n)]
    BY <1>5, <1>6, <1>7
  <2>2. CASE k <= i + n
    <3>1. o[k] = IF k <= i THEN m[k] ELSE x[k - i]
      BY <1>1, <1>5, <2>1, <2>2
    <3> QED BY <1>1, <2>2, <3>1
  <2>3. CASE ~(k <= i + n)
    <3>1. k - (i + n) \in 1 .. l - i - n /\ i + n + (k - (i + n)) = k
      BY <1>1, <2>3
    <3>2. o[k] = m[k]
      BY <1>4, <2>1, <2>3, <3>1
    <3> QED BY <2>3, <3>2
  <2> QED BY <2>2, <2>3
<1>9. o = Patched(m, i, x)
  BY DEF Patched, o, e, u, v, l, n
<1>10. IsPatched(o, m, i, x)
  BY <1>6, <1>7, <1>8 DEF IsPatched, l, n
<1> QED BY <1>9, <1>10

(* The records of l stand one after the other from the start of the block. *)
Laid(m, l, off) ==
  /\ off \in [0 .. Len(l) -> Nat] /\ off[0] = 0 /\ off[Len(l)] <= Len(m)
  /\ \A i \in 1 .. Len(l) : off[i] = off[i - 1] + Total(l[i])
  /\ \A i \in 1 .. Len(l) : \A k \in 1 .. Total(l[i]) : m[off[i - 1] + k] = <<l[i], k>>

PackedInv ==
  /\ arr \in Seq(Octets) /\ list \in Seq(Sensors) /\ len = Len(list)
  /\ \E off : Laid(arr, list, off)

LEMMA OffsetsGrow ==
  ASSUME NEW m, NEW l, l \in Seq(Sensors), NEW off, Laid(m, l, off)
  PROVE  \A i, j \in 0 .. Len(l) : i <= j => off[i] <= off[j]
<1> DEFINE N == Len(l)
<1>1. /\ N \in Nat /\ \A i \in 0 .. N : off[i] \in Nat
      /\ \A i \in 1 .. N : off[i] = off[i - 1] + Total(l[i])
      /\ \A i \in 1 .. N : Total(l[i]) \in Nat
  <2>1. N \in Nat /\ \A i \in 1 .. N : l[i] \in Sensors
    OBVIOUS
  <2> QED BY <2>1, TotalIs DEF Laid
<1> HIDE DEF N
<1> SUFFICES ASSUME NEW i \in 0 .. N PROVE \A j \in 0 .. N : i <= j => off[i] <= off[j]
  BY DEF N
<1> DEFINE T == {j \in Nat : i <= j /\ j <= N => off[i] <= off[j]}
<1>2. 0 \in T
  <2> SUFFICES ASSUME i <= 0 /\ 0 <= N PROVE off[i] <= off[0]
    OBVIOUS
  <2>1. i = 0 /\ off[0] \in Nat
    BY <1>1
  <2> QED BY <2>1
<1>3. ASSUME NEW j \in Nat, j \in T PROVE j + 1 \in T
  <2> SUFFICES ASSUME i <= j + 1 /\ j + 1 <= N PROVE off[i] <= off[j + 1]
    OBVIOUS
  <2>1. CASE i = j + 1
    <3>1. off[j + 1] \in Nat
      BY <1>1
    <3> QED BY <2>1, <3>1
  <2>2. CASE i # j + 1
    <3>1. i <= j /\ j \in 0 .. N /\ j + 1 \in 1 .. N /\ (j + 1) - 1 = j
      BY <1>1, <2>2
    <3>2. off[i] <= off[j]
      BY <1>1, <1>3, <3>1
    <3>3. off[j + 1] = off[j] + Total(l[j + 1]) /\ Total(l[j + 1]) \in Nat
      BY <1>1, <3>1
    <3>4. off[i] \in Nat /\ off[j] \in Nat
      BY <1>1, <3>1
    <3> QED BY <3>2, <3>3, <3>4
  <2> QED BY <2>1, <2>2
<1>4. \A j \in Nat : j \in T
  <2> HIDE DEF T
  <2> QED BY <1>2, <1>3, SetInduction
<1> QED BY <1>1, <1>4

(* A record is recognised by its length, and stored as a whole.            *)
IsRecord(m, o, s) == Measured(m, o) = {s} /\ Stored(m, o) = {s}

LEMMA RecordIs ==
  ASSUME NEW m, m \in Seq(Octets), NEW l, l \in Seq(Sensors), NEW off, Laid(m, l, off),
         NEW i, i \in 1 .. Len(l)
  PROVE  IsRecord(m, off[i - 1], l[i])
<1> DEFINE o == off[i - 1]
           s == l[i]
<1>1. /\ s \in Sensors /\ Total(s) \in Nat /\ Total(s) >= 5 /\ o \in Nat
      /\ \A k \in 1 .. Total(s) : o + k \in 1 .. Len(m) /\ m[o + k] = <<s, k>>
      /\ DOMAIN m = 1 .. Len(m)
  <2>1. Len(l) \in Nat /\ s \in Sensors /\ DOMAIN m = 1 .. Len(m) /\ Len(m) \in Nat
    OBVIOUS
  <2>2. Total(s) \in Nat /\ Total(s) >= 5
    BY <2>1, TotalIs
  <2>3. i - 1 \in 0 .. Len(l) /\ i \in 0 .. Len(l) /\ Len(l) \in 0 .. Len(l) /\ i <= Len(l)
    BY <2>1
  <2>4. o \in Nat /\ off[i] \in Nat /\ off[Len(l)] \in Nat /\ off[i] = o + Total(s)
        /\ off[Len(l)] <= Len(m)
    BY <2>3 DEF Laid
  <2>5. off[i] <= off[Len(l)]
    BY <2>3, OffsetsGrow
  <2>6. \A k \in 1 .. Total(s) : m[o + k] = <<s, k>>
    BY DEF Laid
  <2> HIDE DEF o, s
  <2>7. \A k \in 1 .. Total(s) : o + k \in 1 .. Len(m)
    BY <2>1, <2>2, <2>4, <2>5
  <2> QED BY <2>1, <2>2, <2>4, <2>6, <2>7
<1> HIDE DEF o, s
<1>2. ASSUME NEW K, K \subseteq 1 .. Total(s) PROVE Holds(m, o, s, K)
  BY <1>1, <1>2 DEF Holds
<1>3. ASSUME NEW r, NEW K, NEW k \in K, k \in 1 .. Total(s), Holds(m, o, r, K) PROVE r = s
  <2>1. m[o + k] = <<r, k>> /\ m[o + k] = <<s, k>>
    BY <1>1, <1>3 DEF Holds
  <2> QED BY <2>1
<1>4. Measured(m, o) = {s}
  <2>1. 2 .. 5 \subseteq 1 .. Total(s) /\ 2 \in 2 .. 5 /\ 2 \in 1 .. Total(s)
    BY <1>1
  <2>2. Holds(m, o, s, 2 .. 5)
    BY <1>2, <2>1
  <2>3. \A r : Holds(m, o, r, 2 .. 5) => r = s
    BY <1>3, <2>1
  <2> QED BY <1>1, <2>2, <2>3 DEF Measured
<1>5. Stored(m, o) = {s}
  <2>1. Holds(m, o, s, 1 .. Total(s))
    BY <1>2
  <2>2. ASSUME NEW r \in Sensors, Holds(m, o, r, 1 .. Total(r)) PROVE r = s
    <3>1. Total(r) \in Nat /\ Total(r) >= 5
      BY TotalIs
    <3>2. 1 \in 1 .. Total(r) /\ 1 \in 1 .. Total(s)
      BY <1>1, <3>1
    <3> QED BY <1>3, <2>2, <3>2
  <2> QED BY <1>1, <2>1, <2>2 DEF Stored
<1> QED BY <1>4, <1>5 DEF IsRecord, o, s

(* The walk over the lengths leads to each record.                         *)
LEMMA WalkIs ==
  ASSUME arr \in Seq(Octets), list \in Seq(Sensors), NEW off, Laid(arr, list, off),
         NEW n, n \in 0 .. Len(list)
  PROVE  nrb(n) = off[n]
<1> DEFINE V(g, k) == IF k = 0 THEN 0
                      ELSE LET s == Measured(arr, g[k - 1])
                           IN IF g[k - 1] = Nowhere \/ s = {} THEN Nowhere
                              ELSE g[k - 1] + Total(CHOOSE r \in s : TRUE)
           Is(g) == g = [k \in 0 .. n |-> V(g, k)]
           walk == [k \in 0 .. n |-> off[k]]
           at == CHOOSE g : Is(g)
<1>1. /\ n \in Nat /\ n <= Len(list) /\ Len(list) \in Nat
      /\ off[0] = 0 /\ \A k \in 0 .. Len(list) : off[k] \in Nat
      /\ \A k \in 1 .. Len(list) : off[k] = off[k - 1] + Total(list[k])
  BY DEF Laid
<1>2. \A k \in 1 .. Len(list) : Measured(arr, off[k - 1]) = {list[k]}
  <2> TAKE k \in 1 .. Len(list)
  <2>1. IsRecord(arr, off[k - 1], list[k])
    BY RecordIs
  <2> QED BY <2>1 DEF IsRecord
<1>3. ASSUME NEW g, NEW k \in 1 .. n, g[k - 1] = off[k - 1] PROVE V(g, k) = off[k]
  <2>1. k \in 1 .. Len(list) /\ k # 0 /\ k - 1 \in 0 .. Len(list)
    BY <1>1
  <2>2. Measured(arr, g[k - 1]) = {list[k]}
    BY <1>2, <1>3, <2>1
  <2>3. g[k - 1] # Nowhere
    BY <1>1, <1>3, <2>1 DEF Nowhere
  <2>4. (CHOOSE r \in {list[k]} : TRUE) = list[k]
    OBVIOUS
  <2>5. V(g, k) = g[k - 1] + Total(list[k])
    BY <2>1, <2>2, <2>3, <2>4
  <2> QED BY <1>1, <1>3, <2>1, <2>5
<1>4. Is(walk)
  <2>1. ASSUME NEW k \in 0 .. n PROVE walk[k] = V(walk, k)
    <3>1. CASE k = 0
      BY <1>1, <3>1
    <3>2. CASE k # 0
      <4>1. k \in 1 .. n /\ k - 1 \in 0 .. n
        BY <1>1, <3>2
      <4>2. walk[k - 1] = off[k - 1] /\ walk[k] = off[k]
        BY <4>1
      <4> HIDE DEF V, walk
      <4> QED BY <1>3, <4>1, <4>2
    <3> QED BY <3>1, <3>2
  <2>2. walk = [k \in 0 .. n |-> walk[k]]
    OBVIOUS
  <2> HIDE DEF V, walk
  <2> QED BY <2>1, <2>2
<1>5. Is(at)
  <2> HIDE DEF Is
  <2> QED BY <1>4
<1>6. nrb(n) = at[n]
  BY DEF nrb
<1> HIDE DEF at
<1>7. \A k \in 0 .. n : at[k] = V(at, k)
  <2> HIDE DEF V
  <2> QED BY <1>5
<1> HIDE DEF Is
<1> DEFINE T == {k \in Nat : k <= n => at[k] = off[k]}
<1>8. 0 \in T
  <2>1. 0 \in 0 .. n
    BY <1>1
  <2> QED BY <1>1, <1>7, <2>1
<1>9. ASSUME NEW k \in Nat, k \in T PROVE k + 1 \in T
  <2> SUFFICES ASSUME k + 1 <= n PROVE at[k + 1] = off[k + 1]
    OBVIOUS
  <2>1. k + 1 \in 1 .. n /\ k + 1 \in 0 .. n /\ (k + 1) - 1 = k
    BY <1>1
  <2>2. at[k] = off[k]
    BY <1>1, <1>9
  <2> HIDE DEF V
  <2>3. V(at, k + 1) = off[k + 1]
    BY <1>3, <2>1, <2>2
  <2> QED BY <1>7, <2>1, <2>3
<1>10. \A k \in Nat : k \in T
  <2> HIDE DEF T
  <2> QED BY <1>8, <1>9, SetInduction
<1> QED BY <1>1, <1>6, <1>10

IsInserted(u, t, j, e) ==
  /\ Len(u) = Len(t) + 1
  /\ \A k \in 1 .. Len(t) + 1 : u[k] = IF k < j THEN t[k] ELSE IF k = j THEN e ELSE t[k - 1]

LEMMA InsertIs ==
  ASSUME NEW S, NEW t, t \in Seq(S), NEW e, e \in S, NEW j, j \in 1 .. Len(t) + 1
  PROVE  InsertAt(t, j, e) \in Seq(S) /\ IsInserted(InsertAt(t, j, e), t, j, e)
<1> DEFINE s == <<e>>
           u == InsertAt(t, j, e)
<1>1. s \in Seq(S) /\ Len(s) = 1 /\ s[1] = e /\ SubSeq(s, 1, 1) = s /\ Len(t) \in Nat
  <2>1. s \in Seq(S) /\ Len(s) = 1 /\ s[1] = e /\ Len(t) \in Nat
    OBVIOUS
  <2>2. SubSeq(s, 1, 1) = s
    <3> HIDE DEF s
    <3>1. SubSeq(s, 1, 1) = [k \in 1 .. 1 |-> s[k]]
      OBVIOUS
    <3>2. s = [k \in 1 .. 1 |-> s[k]]
      BY <2>1
    <3> QED BY <3>1, <3>2
  <2> QED BY <2>1, <2>2
<1>2. u = Spliced(t, s, 1, 1, j)
  <2>1. u = SubSeq(t, 1, j - 1) \o s \o SubSeq(t, j, Len(t))
    BY DEF InsertAt
  <2>2. SubSeq(s, 1, 1 + 1 - 1) = s
    BY <1>1
  <2> HIDE DEF s, u
  <2> QED BY <2>1, <2>2 DEF Spliced
<1> HIDE DEF s, u
<1>3. u \in Seq(S) /\ IsSpliced(u, t, s, 1, 1, j)
  <2>1. PICK one : one = 1
    OBVIOUS
  <2>2. /\ one \in Nat \ {0} /\ one + one - 1 <= Len(s)
        /\ j \in Nat \ {0} /\ j - 1 <= Len(t)
    BY <1>1, <2>1
  <2>3. Spliced(t, s, one, one, j) \in Seq(S) /\ IsSpliced(Spliced(t, s, one, one, j), t, s, one, one, j)
    BY <1>1, <2>2, SpliceIs
  <2> QED BY <1>2, <2>1, <2>3
<1>4. IsInserted(u, t, j, e)
  <2>1. Len(u) = Len(t) + 1
    BY <1>3 DEF IsSpliced
  <2>2. ASSUME NEW k \in 1 .. Len(t) + 1
        PROVE  u[k] = IF k < j THEN t[k] ELSE IF k = j THEN e ELSE t[k - 1]
    <3>1. k < j \/ k = j \/ (k > j /\ k >= j + 1)
      BY <1>1
    <3> QED BY <1>1, <1>3, <3>1 DEF IsSpliced
  <2> QED BY <2>1, <2>2 DEF IsInserted
<1> QED BY <1>3, <1>4 DEF u

(* The bytes before the first x records stay, and those after them, up to  *)
(* the end of the n records, make room for a record of s.                  *)
Opened(m2, m, off, x, n, s) ==
  /\ off[n] + Total(s) <= Len(m2)
  /\ \A j \in 1 .. off[x] : m2[j] = m[j]
  /\ \A k \in 1 .. Total(s) : m2[off[x] + k] = <<s, k>>
  /\ \A j \in off[x] + 1 .. off[n] : m2[j + Total(s)] = m[j]

LEMMA InsertLays ==
  ASSUME NEW m, NEW l, l \in Seq(Sensors), NEW off, Laid(m, l, off),
         NEW x, x \in 0 .. Len(l), NEW s, s \in Sensors, NEW l2, IsInserted(l2, l, x + 1, s),
         NEW m2, Opened(m2, m, off, x, Len(l), s)
  PROVE  \E off2 : Laid(m2, l2, off2)
<1> DEFINE N == Len(l)
           T == Total(s)
           off2 == [k \in 0 .. N + 1 |-> IF k <= x THEN off[k] ELSE off[k - 1] + T]
<1>1. /\ N \in Nat /\ T \in Nat /\ x \in Nat /\ x <= N
      /\ \A i \in 0 .. N : off[i] \in Nat
      /\ off[0] = 0
      /\ \A i \in 1 .. N : off[i] = off[i - 1] + Total(l[i]) /\ Total(l[i]) \in Nat
      /\ \A i \in 1 .. N : \A k \in 1 .. Total(l[i]) : m[off[i - 1] + k] = <<l[i], k>>
  <2>1. N \in Nat /\ x \in Nat /\ x <= N /\ \A i \in 1 .. N : l[i] \in Sensors
    OBVIOUS
  <2>2. T \in Nat /\ \A i \in 1 .. N : Total(l[i]) \in Nat
    BY <2>1, TotalIs
  <2> HIDE DEF T
  <2>3. /\ \A i \in 0 .. N : off[i] \in Nat
        /\ off[0] = 0
        /\ \A i \in 1 .. N : off[i] = off[i - 1] + Total(l[i])
        /\ \A i \in 1 .. N : \A k \in 1 .. Total(l[i]) : m[off[i - 1] + k] = <<l[i], k>>
    BY DEF Laid
  <2> QED BY <2>1, <2>2, <2>3
<1>2. \A i, j \in 0 .. N : i <= j => off[i] <= off[j]
  BY OffsetsGrow
<1>3. /\ Len(l2) = N + 1
      /\ \A k \in 1 .. N + 1 :
           l2[k] = IF k < x + 1 THEN l[k] ELSE IF k = x + 1 THEN s ELSE l[k - 1]
  BY DEF IsInserted
<1>4. /\ off[N] + T <= Len(m2)
      /\ \A j \in 1 .. off[x] : m2[j] = m[j]
      /\ \A k \in 1 .. T : m2[off[x] + k] = <<s, k>>
      /\ \A j \in off[x] + 1 .. off[N] : m2[j + T] = m[j]
  BY DEF Opened
<1> HIDE DEF N, T
<1>5. /\ \A k \in 0 .. N + 1 : off2[k] = IF k <= x THEN off[k] ELSE off[k - 1] + T
      /\ off2 \in [0 .. N + 1 -> Nat]
  <2>1. ASSUME NEW k \in 0 .. N + 1
        PROVE  (IF k <= x THEN off[k] ELSE off[k - 1] + T) \in Nat
    <3>1. CASE k <= x
      <4>1. k \in 0 .. N
        BY <1>1, <3>1
      <4> QED BY <1>1, <3>1, <4>1
    <3>2. CASE ~(k <= x)
      <4>1. k - 1 \in 0 .. N
        BY <1>1, <3>2
      <4>2. off[k - 1] \in Nat
        BY <1>1, <4>1
      <4> QED BY <1>1, <3>2, <4>2
    <3> QED BY <3>1, <3>2
  <2> QED BY <2>1
<1> HIDE DEF off2
<1>6. off2[0] = 0 /\ off2[N + 1] <= Len(m2)
  <2>1. 0 \in 0 .. N + 1 /\ 0 <= x /\ N + 1 \in 0 .. N + 1 /\ ~(N + 1 <= x) /\ (N + 1) - 1 = N
    BY <1>1
  <2> QED BY <1>1, <1>4, <1>5, <2>1
<1>7. ASSUME NEW i \in 1 .. N + 1
      PROVE  /\ off2[i] = off2[i - 1] + Total(l2[i])
             /\ \A k \in 1 .. Total(l2[i]) : m2[off2[i - 1] + k] = <<l2[i], k>>
  <2>1. CASE i < x + 1
    <3>1. i \in 0 .. N + 1 /\ i - 1 \in 0 .. N + 1 /\ i <= x /\ i - 1 <= x /\ i \in 1 .. N
          /\ i \in 0 .. N /\ x \in 0 .. N /\ i - 1 \in 0 .. N
      BY <1>1, <2>1
    <3>2. l2[i] = l[i] /\ off2[i] = off[i] /\ off2[i - 1] = off[i - 1]
      BY <1>3, <1>5, <2>1, <3>1
    <3>3. off[i] = off[i - 1] + Total(l[i]) /\ Total(l[i]) \in Nat /\ off[i] <= off[x]
          /\ off[i - 1] \in Nat /\ off[x] \in Nat
      BY <1>1, <1>2, <3>1
    <3>4. \A k \in 1 .. Total(l[i]) : off[i - 1] + k \in 1 .. off[x]
      BY <3>3
    <3>5. \A k \in 1 .. Total(l[i]) : m2[off[i - 1] + k] = <<l[i], k>>
      BY <1>1, <1>4, <3>1, <3>4
    <3> QED BY <3>2, <3>3, <3>5
  <2>2. CASE i = x + 1
    <3>1. x \in 0 .. N + 1 /\ i \in 0 .. N + 1 /\ i - 1 = x /\ ~(i <= x) /\ x <= x /\ ~(i < x + 1)
      BY <1>1, <2>2
    <3>2. l2[i] = s /\ off2[i] = off[x] + T /\ off2[i - 1] = off[x]
      BY <1>3, <1>5, <2>2, <3>1
    <3> QED BY <1>4, <3>2 DEF T
  <2>3. CASE i > x + 1
    <3> DEFINE j == i - 1
    <3>1. /\ j \in 1 .. N /\ j \in 0 .. N + 1 /\ ~(j <= x) /\ i \in 0 .. N + 1 /\ ~(i <= x)
          /\ ~(i < x + 1) /\ i # x + 1 /\ j - 1 \in 0 .. N /\ x \in 0 .. N /\ x <= j - 1
          /\ j \in 0 .. N /\ N \in 0 .. N /\ j <= N
      BY <1>1, <2>3
    <3>2. l2[i] = l[j] /\ off2[i] = off[j] + T
      BY <1>3, <1>5, <3>1
    <3> HIDE DEF j
    <3>3. off2[j] = off[j - 1] + T
      BY <1>5, <3>1
    <3>4. off[j] = off[j - 1] + Total(l[j]) /\ Total(l[j]) \in Nat /\ off[j - 1] \in Nat
          /\ off[x] \in Nat /\ off[N] \in Nat /\ off[x] <= off[j - 1] /\ off[j] <= off[N]
      BY <1>1, <1>2, <3>1
    <3>5. ASSUME NEW k \in 1 .. Total(l[j])
          PROVE  m2[off2[j] + k] = <<l[j], k>>
      <4>1. off[j - 1] + k \in off[x] + 1 .. off[N]
        BY <3>4, SMTT(30)
      <4>2. off2[j] + k = (off[j - 1] + k) + T
        BY <1>1, <3>3, <3>4
      <4>3. m[off[j - 1] + k] = <<l[j], k>>
        BY <1>1, <3>1
      <4> QED BY <1>4, <4>1, <4>2, <4>3
    <3>6. off2[i] = off2[j] + Total(l[j])
      BY <1>1, <3>2, <3>3, <3>4
    <3> QED BY <3>2, <3>5, <3>6 DEF j
  <2>4. i < x + 1 \/ i = x + 1 \/ i > x + 1
    BY <1>1
  <2> QED BY <2>1, <2>2, <2>3, <2>4
<1>8. Laid(m2, l2, off2)
  BY <1>3, <1>5, <1>6, <1>7 DEF Laid
<1> QED BY <1>8

(* The bytes after the record x + 1 of l are moved over it.                *)
ClosedUp(m2, m, l, off, x) ==
  LET n == Len(l)
      s == l[x + 1]
  IN /\ off[n] - Total(s) <= Len(m2)
     /\ \A j \in 1 .. off[x] : m2[j] = m[j]
     /\ \A j \in off[x + 1] + 1 .. off[n] : m2[j - Total(s)] = m[j]

LEMMA DeleteLays ==
  ASSUME NEW m, NEW l, l \in Seq(Sensors), NEW off, Laid(m, l, off),
         NEW x, x \in 0 .. Len(l) - 1, NEW l2, IsCut(l2, l, x + 1, 1),
         NEW m2, ClosedUp(m2, m, l, off, x)
  PROVE  \E off2 : Laid(m2, l2, off2)
<1> DEFINE N == Len(l)
           T == Total(l[x + 1])
           off2 == [k \in 0 .. N - 1 |-> IF k <= x THEN off[k] ELSE off[k + 1] - T]
<1>1. /\ N \in Nat /\ x \in Nat /\ x <= N - 1 /\ x + 1 \in 1 .. N /\ T \in Nat
      /\ \A i \in 0 .. N : off[i] \in Nat
      /\ off[0] = 0
      /\ \A i \in 1 .. N : off[i] = off[i - 1] + Total(l[i])
      /\ \A i \in 1 .. N : Total(l[i]) \in Nat
      /\ \A i \in 1 .. N : \A k \in 1 .. Total(l[i]) : m[off[i - 1] + k] = <<l[i], k>>
  <2>1. N \in Nat /\ x \in Nat /\ x <= N - 1 /\ x + 1 \in 1 .. N /\ \A i \in 1 .. N : l[i] \in Sensors
    OBVIOUS
  <2>2. T \in Nat /\ \A i \in 1 .. N : Total(l[i]) \in Nat
    BY <2>1, TotalIs
  <2> HIDE DEF T
  <2>3. /\ \A i \in 0 .. N : off[i] \in Nat
        /\ off[0] = 0
        /\ \A i \in 1 .. N : off[i] = off[i - 1] + Total(l[i])
        /\ \A i \in 1 .. N : \A k \in 1 .. Total(l[i]) : m[off[i - 1] + k] = <<l[i], k>>
    BY DEF Laid
  <2> QED BY <2>1, <2>2, <2>3
<1>2. \A i, j \in 0 .. N : i <= j => off[i] <= off[j]
  BY OffsetsGrow
<1>3. /\ Len(l2) = N - 1
      /\ \A k \in 1 .. N - 1 : l2[k] = IF k < x + 1 THEN l[k] ELSE l[k + 1]
  BY DEF IsCut
<1>4. /\ off[N] - T <= Len(m2)
      /\ \A j \in 1 .. off[x] : m2[j] = m[j]
      /\ \A j \in off[x + 1] + 1 .. off[N] : m2[j - T] = m[j]
  BY DEF ClosedUp
<1>5. off[x + 1] = off[x] + T /\ off[x] \in Nat /\ x \in 0 .. N /\ x + 1 \in 0 .. N
  <2>1. (x + 1) - 1 = x /\ x \in 0 .. N /\ x + 1 \in 0 .. N
    BY <1>1
  <2> QED BY <1>1, <2>1
<1> HIDE DEF N, T
<1>6. /\ \A k \in 0 .. N - 1 : off2[k] = IF k <= x THEN off[k] ELSE off[k + 1] - T
      /\ off2 \in [0 .. N - 1 -> Nat]
  <2>1. ASSUME NEW k \in 0 .. N - 1
        PROVE  (IF k <= x THEN off[k] ELSE off[k + 1] - T) \in Nat
    <3>1. CASE k <= x
      <4>1. k \in 0 .. N
        BY <1>1, <3>1
      <4> QED BY <1>1, <3>1, <4>1
    <3>2. CASE ~(k <= x)
      <4>1. k + 1 \in 0 .. N /\ x + 1 <= k + 1
        BY <1>1, <3>2
      <4>2. off[k + 1] \in Nat /\ off[x + 1] <= off[k + 1]
        BY <1>1, <1>2, <1>5, <4>1
      <4>3. T \in Nat /\ off[x] \in Nat /\ off[x + 1] = off[x] + T
        BY <1>1, <1>5
      <4>4. off[k + 1] - T \in Nat
        BY <4>2, <4>3
      <4> QED BY <3>2, <4>4
    <3> QED BY <3>1, <3>2
  <2> QED BY <2>1
<1> HIDE DEF off2
<1>7. off2[0] = 0 /\ off2[N - 1] <= Len(m2)
  <2>1. 0 \in 0 .. N - 1 /\ 0 <= x /\ N - 1 \in 0 .. N - 1 /\ (N - 1) + 1 = N
    BY <1>1
  <2>2. CASE N - 1 <= x
    <3>1. x = N - 1
      BY <1>1, <2>2
    <3>2. off2[N - 1] = off[x] /\ off[N] = off[x + 1]
      BY <1>1, <1>6, <2>1, <3>1
    <3>3. off[N] - T = off[x]
      BY <1>1, <1>5, <3>2
    <3>4. off2[0] = 0
      BY <1>1, <1>6, <2>1
    <3> QED BY <1>4, <3>2, <3>3, <3>4
  <2>3. CASE ~(N - 1 <= x)
    BY <1>1, <1>4, <1>6, <2>1, <2>3
  <2> QED BY <2>2, <2>3
<1>8. ASSUME NEW i \in 1 .. N - 1
      PROVE  /\ off2[i] = off2[i - 1] + Total(l2[i])
             /\ \A k \in 1 .. Total(l2[i]) : m2[off2[i - 1] + k] = <<l2[i], k>>
  <2>1. CASE i <= x
    <3>1. i \in 0 .. N - 1 /\ i - 1 \in 0 .. N - 1 /\ i < x + 1 /\ i - 1 <= x /\ i \in 1 .. N
          /\ i \in 0 .. N /\ i - 1 \in 0 .. N
      BY <1>1, <2>1
    <3>2. l2[i] = l[i] /\ off2[i] = off[i] /\ off2[i - 1] = off[i - 1]
      BY <1>3, <1>6, <2>1, <3>1
    <3>3. off[i] = off[i - 1] + Total(l[i]) /\ Total(l[i]) \in Nat /\ off[i] <= off[x]
          /\ off[i - 1] \in Nat
      BY <1>1, <1>2, <1>5, <2>1, <3>1
    <3>4. \A k \in 1 .. Total(l[i]) : off[i - 1] + k \in 1 .. off[x]
      BY <1>5, <3>3
    <3>5. \A k \in 1 .. Total(l[i]) : m2[off[i - 1] + k] = <<l[i], k>>
      BY <1>1, <1>4, <3>1, <3>4
    <3> QED BY <3>2, <3>3, <3>5
  <2>2. CASE ~(i <= x)
    <3> DEFINE j == i + 1
    <3>1. /\ i \in 0 .. N - 1 /\ i - 1 \in 0 .. N - 1 /\ ~(i < x + 1) /\ i \in 0 .. N
          /\ j \in 1 .. N /\ j \in 0 .. N /\ j - 1 = i /\ x + 1 <= i /\ N \in 0 .. N /\ j <= N
          /\ (i - 1) + 1 = i
      BY <1>1, <2>2
    <3>2. l2[i] = l[j] /\ off2[i] = off[j] - T
      BY <1>3, <1>6, <2>2, <3>1
    <3>3. off2[i - 1] = off[i] - T
      <4>1. CASE i - 1 <= x
        <5>1. i - 1 = x /\ i = x + 1
          BY <1>1, <3>1, <4>1
        <5>2. off2[i - 1] = off[x] /\ off[i] = off[x] + T
          BY <1>5, <1>6, <3>1, <4>1, <5>1
        <5> QED BY <1>1, <1>5, <5>2
      <4>2. CASE ~(i - 1 <= x)
        BY <1>6, <3>1, <4>2
      <4> QED BY <4>1, <4>2
    <3> HIDE DEF j
    <3>4. off[j] = off[i] + Total(l[j]) /\ Total(l[j]) \in Nat /\ off[i] \in Nat
          /\ off[x + 1] \in Nat /\ off[N] \in Nat /\ off[x + 1] <= off[i] /\ off[j] <= off[N]
      BY <1>1, <1>2, <1>5, <3>1
    <3>5. ASSUME NEW k \in 1 .. Total(l[j])
          PROVE  m2[off2[i - 1] + k] = <<l[j], k>>
      <4>1. off[i] + k \in off[x + 1] + 1 .. off[N]
        BY <3>4
      <4>2. off2[i - 1] + k = (off[i] + k) - T
        BY <1>1, <3>3, <3>4
      <4>3. m[off[i] + k] = <<l[j], k>>
        BY <1>1, <3>1
      <4> QED BY <1>4, <4>1, <4>2, <4>3
    <3>6. off2[i] = off2[i - 1] + Total(l[j])
      BY <1>1, <3>2, <3>3, <3>4
    <3> QED BY <3>2, <3>5, <3>6
  <2> QED BY <2>1, <2>2
<1>9. Laid(m2, l2, off2)
  BY <1>3, <1>6, <1>7, <1>8 DEF Laid
<1> QED BY <1>9

IsRealloc(e, m, n) ==
  e \in Seq(Octets) /\ Len(e) = n /\ \A j \in 1 .. n : j <= Len(m) => e[j] = m[j]

LEMMA ReallocIs ==
  ASSUME NEW m, m \in Seq(Octets), NEW n, n \in Nat
  PROVE  IsRealloc(realloc(m, n), m, n)
<1>1. Len(m) \in Nat
  OBVIOUS
<1>2. CASE n <= Len(m)
  <2>1. PICK one : one = 1
    OBVIOUS
  <2>2. one \in Int /\ n \in Int /\ \A k \in one .. n : m[k] \in Octets
    BY <1>1, <1>2, <2>1
  <2>3. /\ SubSeq(m, one, n) \in Seq(Octets)
        /\ Len(SubSeq(m, one, n)) = IF one <= n THEN n - one + 1 ELSE 0
        /\ \A k \in 1 .. n - one + 1 : SubSeq(m, one, n)[k] = m[one + k - 1]
    BY <2>2, SubSeqProperties
  <2> DEFINE u == SubSeq(m, one, n)
  <2>4. u = realloc(m, n)
    BY <1>2, <2>1 DEF realloc
  <2> HIDE DEF u
  <2>5. u \in Seq(Octets) /\ Len(u) = n
    BY <2>1, <2>3 DEF u
  <2>6. ASSUME NEW k \in 1 .. n PROVE u[k] = m[k]
    <3>1. k \in 1 .. n - one + 1 /\ one + k - 1 = k
      BY <2>1
    <3>2. SubSeq(m, one, n)[k] = m[one + k - 1]
      BY <2>3, <3>1
    <3> QED BY <3>1, <3>2 DEF u
  <2>7. IsRealloc(u, m, n)
    BY <2>5, <2>6 DEF IsRealloc
  <2> QED BY <2>4, <2>7
<1>3. CASE ~(n <= Len(m))
  <2> DEFINE k == n - Len(m)
             v == [i \in 1 .. k |-> Junk]
             u == m \o v
  <2>1. k \in Nat /\ Len(m) + k = n
    BY <1>1, <1>3
  <2>2. Junk \in Octets
    BY DEF Octets, Junk
  <2>3. realloc(m, n) = u
    BY <1>3 DEF realloc
  <2> HIDE DEF k
  <2>4. v \in Seq(Octets) /\ Len(v) = k
    BY <2>1, <2>2
  <2> HIDE DEF v
  <2>5. /\ u \in Seq(Octets) /\ Len(u) = Len(m) + Len(v)
        /\ \A i \in 1 .. Len(m) + Len(v) : u[i] = IF i <= Len(m) THEN m[i] ELSE v[i - Len(m)]
    BY <2>4, ConcatProperties
  <2> HIDE DEF u
  <2>6. IsRealloc(u, m, n)
    BY <2>1, <2>4, <2>5 DEF IsRealloc
  <2> QED BY <2>3, <2>6
<1> QED BY <1>2, <1>3

IsMoved(e, m, to, from, n) ==
  /\ e \in Seq(Octets) /\ Len(e) = Len(m)
  /\ \A j \in 1 .. Len(m) :
       e[j] = IF j > to /\ j <= to + n THEN m[from + (j - to)] ELSE m[j]

LEMMA MemcpyIs ==
  ASSUME Copy = "whole", NEW m, m \in Seq(Octets), NEW to, to \in Nat, NEW from, from \in Nat,
         NEW n, n \in Nat, to + n <= Len(m), from + n <= Len(m)
  PROVE  IsMoved(memcpy(m, to, from, n), m, to, from, n)
<1> DEFINE i == from + 1
           j == from + n
           x == SubSeq(m, i, j)
           e == memcpy(m, to, from, n)
<1>1. /\ Len(m) \in Nat /\ i \in Int /\ j \in Int /\ j - i + 1 = n
      /\ \A k \in i .. j : m[k] \in Octets
      /\ (i <= j \/ n = 0) /\ (n = 0 => ~(i <= j))
  OBVIOUS
<1>2. e = SubSeq(m, 1, to) \o x \o SubSeq(m, to + n + 1, Len(m))
  BY DEF memcpy
<1>3. x \in Seq(Octets) /\ Len(x) = n /\ \A k \in 1 .. n : x[k] = m[from + k]
  <2> HIDE DEF i, j
  <2>1. /\ SubSeq(m, i, j) \in Seq(Octets)
        /\ Len(SubSeq(m, i, j)) = IF i <= j THEN j - i + 1 ELSE 0
        /\ \A k \in 1 .. j - i + 1 : SubSeq(m, i, j)[k] = m[i + k - 1]
    BY <1>1, SubSeqProperties
  <2>2. x \in Seq(Octets) /\ Len(x) = n
    BY <1>1, <2>1
  <2>3. ASSUME NEW k \in 1 .. n PROVE x[k] = m[from + k]
    <3>1. k \in 1 .. j - i + 1
      BY <1>1
    <3>2. i + k - 1 = from + k
      BY DEF i
    <3>3. SubSeq(m, i, j)[k] = m[i + k - 1]
      BY <2>1, <3>1
    <3> QED BY <3>2, <3>3
  <2> QED BY <2>2, <2>3
<1> HIDE DEF x, e
<1>4. e = Patched(m, to, x)
  BY <1>2, <1>3 DEF Patched
<1>5. IsPatched(e, m, to, x)
  BY <1>3, <1>4, PatchedIs
<1>6. ASSUME NEW k \in 1 .. Len(m)
      PROVE  e[k] = IF k > to /\ k <= to + n THEN m[from + (k - to)] ELSE m[k]
  <2>1. e[k] = IF k > to /\ k <= to + n THEN x[k - to] ELSE m[k]
    BY <1>3, <1>5 DEF IsPatched
  <2>2. CASE k > to /\ k <= to + n
    <3>1. k - to \in 1 .. n
      BY <2>2
    <3> QED BY <1>3, <2>1, <2>2, <3>1
  <2>3. CASE ~(k > to /\ k <= to + n)
    BY <2>1, <2>3
  <2> QED BY <2>2, <2>3
<1>7. IsMoved(e, m, to, from, n)
  BY <1>5, <1>6 DEF IsMoved, IsPatched
<1> QED BY <1>7 DEF e

LEMMA StoreIs ==
  ASSUME NEW m, m \in Seq(Octets), NEW i, i \in Nat, NEW s, s \in Sensors,
         i + Total(s) <= Len(m)
  PROVE  IsPatched(Store(m, i, s), m, i, Bytes(s))
<1>1. Bytes(s) \in Seq(Octets) /\ Len(Bytes(s)) = Total(s)
  BY BytesIs
<1>2. Store(m, i, s) = Patched(m, i, Bytes(s))
  BY <1>1 DEF Store, Patched
<1> QED BY <1>1, <1>2, PatchedIs

(* An insertion after x records: room is made, and the record stored.      *)
LEMMA AddOpens ==
  ASSUME Copy = "whole", NEW l, l \in Seq(Sensors), NEW m, m \in Seq(Octets),
         NEW off, Laid(m, l, off), NEW x, x \in 0 .. Len(l), NEW s, s \in Sensors,
         NEW o, o = off[x], NEW n, n = off[Len(l)], NEW room, IsRealloc(room, m, n + Total(s)),
         NEW moved, IsMoved(moved, room, o + Total(s), o, n - o),
         NEW e, IsPatched(e, moved, o, Bytes(s))
  PROVE  Opened(e, m, off, x, Len(l), s)
<1> DEFINE T == Total(s)
<1>1. /\ T \in Nat /\ Len(m) \in Nat /\ o \in Nat /\ n \in Nat /\ o <= n /\ n <= Len(m)
  <2>1. Len(l) \in Nat /\ x \in 0 .. Len(l) /\ Len(l) \in 0 .. Len(l) /\ x <= Len(l)
    OBVIOUS
  <2>2. off[x] \in Nat /\ off[Len(l)] \in Nat /\ off[Len(l)] <= Len(m)
    BY <2>1 DEF Laid
  <2>3. off[x] <= off[Len(l)]
    BY <2>1, OffsetsGrow
  <2> QED BY <2>2, <2>3, TotalIs
<1>2. Len(Bytes(s)) = T /\ \A k \in 1 .. T : Bytes(s)[k] = <<s, k>>
  BY BytesIs
<1> HIDE DEF T
<1>3. Len(room) = n + T /\ \A j \in 1 .. n + T : j <= Len(m) => room[j] = m[j]
  BY DEF IsRealloc, T
<1>4. /\ Len(moved) = n + T
      /\ \A j \in 1 .. n + T :
           moved[j] = IF j > o + T /\ j <= (o + T) + (n - o) THEN room[o + (j - (o + T))]
                      ELSE room[j]
  BY <1>3 DEF IsMoved, T
<1>5. /\ Len(e) = n + T
      /\ \A j \in 1 .. n + T :
           e[j] = IF j > o /\ j <= o + T THEN Bytes(s)[j - o] ELSE moved[j]
  BY <1>2, <1>4 DEF IsPatched
<1>6. ASSUME NEW j \in 1 .. o PROVE e[j] = m[j]
  <2>1. j \in 1 .. n + T /\ ~(j > o) /\ ~(j > o + T) /\ j <= Len(m)
    BY <1>1
  <2> QED BY <1>3, <1>4, <1>5, <2>1
<1>7. ASSUME NEW k \in 1 .. T PROVE e[o + k] = <<s, k>>
  <2>1. o + k \in 1 .. n + T /\ o + k > o /\ o + k <= o + T /\ (o + k) - o = k
    <3>1. k \in Nat /\ k > 0 /\ k <= T
      BY <1>1
    <3>2. o + k \in Nat /\ o + k > o /\ o + k <= o + T /\ (o + k) - o = k
      BY <1>1, <3>1
    <3>3. o + T <= n + T
      BY <1>1
    <3> QED BY <1>1, <3>1, <3>2, <3>3, SMTT(30)
  <2> QED BY <1>2, <1>5, <2>1
<1>8. ASSUME NEW j \in o + 1 .. n PROVE e[j + T] = m[j]
  <2>1. /\ j + T \in 1 .. n + T /\ ~(j + T <= o + T) /\ j + T > o + T
        /\ j + T <= (o + T) + (n - o)
    <3>1. j \in Nat /\ j > o /\ j <= n
      BY <1>1
    <3>2. j + T \in Nat /\ j + T > o + T /\ j + T <= n + T
      BY <1>1, <3>1
    <3>3. (o + T) + (n - o) = n + T /\ j + T >= 1 /\ o + T \in Nat /\ n + T \in Nat
      BY <1>1, <3>1, SMTT(30)
    <3> QED BY <3>2, <3>3
  <2>2. o + ((j + T) - (o + T)) = j
    BY <1>1
  <2>3. j \in 1 .. n + T /\ j <= Len(m)
    BY <1>1
  <2>4. e[j + T] = moved[j + T]
    BY <1>5, <2>1
  <2>5. moved[j + T] = room[j]
    BY <1>4, <2>1, <2>2
  <2> QED BY <1>3, <2>3, <2>4, <2>5
<1>9. n + T <= Len(e)
  BY <1>1, <1>5
<1> QED BY <1>6, <1>7, <1>8, <1>9 DEF Opened, T

LEMMA AddLastStep ==
  ASSUME Copy = "whole", PackedInv, NEW s, s \in Sensors, add_last(s)
  PROVE  PackedInv'
<1> DEFINE T == Total(s)
           N == Len(list)
           n == nrb(len)
           room == realloc(arr, n + T)
<1>1. arr \in Seq(Octets) /\ list \in Seq(Sensors) /\ len = N /\ N \in Nat
  BY DEF PackedInv
<1>2. PICK off : Laid(arr, list, off)
  BY DEF PackedInv
<1>3. n = off[N] /\ n \in Nat /\ T \in Nat /\ N \in 0 .. N
  <2>1. N \in 0 .. N
    BY <1>1
  <2>2. nrb(N) = off[N]
    BY <1>1, <1>2, <2>1, WalkIs
  <2>3. off[N] \in Nat
    BY <1>2, <2>1 DEF Laid
  <2> QED BY <1>1, <2>1, <2>2, <2>3, TotalIs
<1>4. arr' = Store(room, n, s) /\ len' = N + 1 /\ list' = Append(list, s)
  BY <1>1 DEF add_last
<1> HIDE DEF n, T
<1>5. IsRealloc(room, arr, n + T)
  BY <1>1, <1>3, ReallocIs
<1> HIDE DEF room
<1>6. IsPatched(arr', room, n, Bytes(s))
  <2>1. room \in Seq(Octets) /\ n + T <= Len(room)
    BY <1>3, <1>5 DEF IsRealloc
  <2> QED BY <1>3, <1>4, <2>1, StoreIs DEF T
<1>7. IsMoved(room, room, n + T, n, n - n)
  <2>1. room \in Seq(Octets)
    BY <1>5 DEF IsRealloc
  <2>2. \A j \in 1 .. Len(room) : ~(j > n + T /\ j <= (n + T) + (n - n))
    BY <1>3, <2>1
  <2> QED BY <2>1, <2>2 DEF IsMoved
<1>8. Opened(arr', arr, off, N, N, s)
  BY <1>1, <1>2, <1>3, <1>5, <1>6, <1>7, AddOpens DEF T
<1>9. list' \in Seq(Sensors) /\ IsInserted(list', list, N + 1, s) /\ Len(list') = N + 1
  <2>1. /\ list' \in Seq(Sensors) /\ Len(list') = N + 1
        /\ list'[N + 1] = s /\ \A i \in 1 .. N : list'[i] = list[i]
    BY <1>1, <1>4, AppendIs
  <2>2. ASSUME NEW k \in 1 .. N + 1
        PROVE  list'[k] = IF k < N + 1 THEN list[k] ELSE IF k = N + 1 THEN s ELSE list[k - 1]
    <3>1. k = N + 1 \/ (k < N + 1 /\ k \in 1 .. N)
      BY <1>1
    <3> QED BY <2>1, <3>1
  <2> QED BY <2>1, <2>2 DEF IsInserted
<1>10. \E off2 : Laid(arr', list', off2)
  BY <1>1, <1>2, <1>3, <1>8, <1>9, InsertLays
<1>11. arr' \in Seq(Octets)
  BY <1>6 DEF IsPatched
<1> QED BY <1>4, <1>9, <1>10, <1>11 DEF PackedInv

LEMMA AddAtStep ==
  ASSUME Copy = "whole", PackedInv, NEW s, s \in Sensors,
         NEW index, index \in Nat, add_at(s, index)
  PROVE  PackedInv'
<1>1. CASE add_last(s)
  BY <1>1, AddLastStep
<1>2. CASE ~add_last(s)
  <2> DEFINE T == Total(s)
             N == Len(list)
             n == nrb(len)
             o == nrb(index)
             room == realloc(arr, n + T)
             moved == memcpy(room, o + T, o, n - o)
  <2>1. arr \in Seq(Octets) /\ list \in Seq(Sensors) /\ len = N /\ N \in Nat
    BY DEF PackedInv
  <2>2. PICK off : Laid(arr, list, off)
    BY DEF PackedInv
  <2>3. /\ index < len /\ arr' = Store(moved, o, s) /\ len' = len + 1
        /\ list' = InsertAt(list, index + 1, s)
    <3>1. (IF index < 0 THEN 0 ELSE index) = index
      OBVIOUS
    <3> QED BY <1>2, <3>1 DEF add_at
  <2>4. /\ index \in 0 .. N /\ N \in 0 .. N /\ n = off[N] /\ o = off[index]
        /\ n \in Nat /\ o \in Nat /\ o <= n /\ T \in Nat
    <3>1. index \in 0 .. N /\ N \in 0 .. N /\ index <= N
      BY <2>1, <2>3
    <3>2. nrb(N) = off[N] /\ nrb(index) = off[index]
      BY <2>1, <2>2, <3>1, WalkIs
    <3>3. off[N] \in Nat /\ off[index] \in Nat
      BY <2>2, <3>1 DEF Laid
    <3>4. off[index] <= off[N]
      BY <2>1, <2>2, <3>1, OffsetsGrow
    <3> QED BY <2>1, <3>1, <3>2, <3>3, <3>4, TotalIs
  <2> HIDE DEF n, o, T
  <2>5. IsRealloc(room, arr, n + T)
    BY <2>1, <2>4, ReallocIs
  <2> HIDE DEF room
  <2>6. room \in Seq(Octets) /\ Len(room) = n + T
    BY <2>5 DEF IsRealloc
  <2>7. IsMoved(moved, room, o + T, o, n - o)
    <3>1. /\ o + T \in Nat /\ n - o \in Nat
          /\ (o + T) + (n - o) <= Len(room) /\ o + (n - o) <= Len(room)
      <4>1. o + T \in Nat /\ n - o \in Nat /\ (o + T) + (n - o) = n + T /\ o + (n - o) = n
        BY <2>4
      <4>2. n <= n + T /\ n + T <= n + T
        BY <2>4
      <4> QED BY <2>6, <4>1, <4>2
    <3> QED BY <2>4, <2>6, <3>1, MemcpyIs
  <2> HIDE DEF moved
  <2>8. IsPatched(arr', moved, o, Bytes(s))
    <3>1. moved \in Seq(Octets) /\ o + T <= Len(moved)
      BY <2>4, <2>6, <2>7 DEF IsMoved
    <3> QED BY <2>3, <2>4, <3>1, StoreIs DEF T
  <2>9. Opened(arr', arr, off, index, N, s)
    BY <2>1, <2>2, <2>4, <2>5, <2>7, <2>8, AddOpens DEF T
  <2>10. list' \in Seq(Sensors) /\ IsInserted(list', list, index + 1, s)
    <3>1. index + 1 \in 1 .. N + 1
      BY <2>4
    <3> QED BY <2>1, <2>3, <3>1, InsertIs
  <2>11. \E off2 : Laid(arr', list', off2)
    BY <2>1, <2>2, <2>4, <2>9, <2>10, InsertLays
  <2>12. arr' \in Seq(Octets) /\ len' = Len(list')
    BY <2>1, <2>3, <2>8, <2>10 DEF IsPatched, IsInserted
  <2> QED BY <2>10, <2>11, <2>12 DEF PackedInv
<1> QED BY <1>1, <1>2

LEMMA DeleteAtStep ==
  ASSUME Copy = "whole", PackedInv, NEW index, index \in Nat, delete_at(index)
  PROVE  PackedInv'
<1> DEFINE N == Len(list)
           n == nrb(len)
           o == nrb(index)
           after == nrb(index + 1)
           s == list[index + 1]
           T == Total(s)
           data == after - o
           moved == memcpy(arr, after - data, after, n - after)
<1>1. arr \in Seq(Octets) /\ list \in Seq(Sensors) /\ len = N /\ N \in Nat
  BY DEF PackedInv
<1>2. PICK off : Laid(arr, list, off)
  BY DEF PackedInv
<1>3. /\ index < len /\ len' = len - 1 /\ list' = RemoveAt(list, index + 1)
      /\ (index = len - 1 /\ arr' = arr) \/ (index # len - 1 /\ arr' = moved)
  <2>1. ~(index < 0)
    OBVIOUS
  <2> QED BY <2>1 DEF delete_at, Forgotten
<1>4. /\ index \in 0 .. N /\ index \in 0 .. N - 1 /\ index + 1 \in 1 .. N /\ index + 1 \in 0 .. N
      /\ N \in 0 .. N /\ n = off[N] /\ o = off[index] /\ after = off[index + 1]
      /\ n \in Nat /\ o \in Nat /\ after \in Nat /\ after <= n /\ n <= Len(arr)
      /\ T \in Nat /\ after = o + T /\ Len(arr) \in Nat
  <2>1. /\ index \in 0 .. N /\ index \in 0 .. N - 1 /\ index + 1 \in 1 .. N
        /\ index + 1 \in 0 .. N /\ N \in 0 .. N /\ index + 1 <= N /\ (index + 1) - 1 = index
    BY <1>1, <1>3
  <2>2. nrb(N) = off[N] /\ nrb(index) = off[index]
    BY <1>1, <1>2, <2>1, WalkIs
  <2>3. nrb(index + 1) = off[index + 1]
    BY <1>1, <1>2, <2>1, WalkIs
  <2>4. off[N] \in Nat /\ off[index] \in Nat /\ off[index + 1] \in Nat /\ off[N] <= Len(arr)
    BY <1>2, <2>1 DEF Laid
  <2>5. off[index + 1] = off[index] + T
    BY <1>2, <2>1 DEF Laid
  <2>6. off[index + 1] <= off[N]
    BY <1>1, <1>2, <2>1, OffsetsGrow
  <2>7. T \in Nat
    <3>1. s \in Sensors
      BY <1>1, <2>1
    <3> QED BY <3>1, TotalIs
  <2>8. Len(arr) \in Nat
    BY <1>1
  <2> HIDE DEF T
  <2> QED BY <1>1, <2>1, <2>2, <2>3, <2>4, <2>5, <2>6, <2>7, <2>8
<1> HIDE DEF n, o, after, s, T
<1>5. /\ arr' \in Seq(Octets) /\ n - T <= Len(arr')
      /\ \A j \in 1 .. o : arr'[j] = arr[j]
      /\ \A j \in after + 1 .. n : arr'[j - T] = arr[j]
  <2>1. CASE index = len - 1 /\ arr' = arr
    <3>1. after = n
      <4>1. index + 1 = N
        BY <1>1, <2>1
      <4> QED BY <1>4, <4>1
    <3>2. \A j \in after + 1 .. n : FALSE
      BY <1>4, <3>1
    <3>3. n - T <= Len(arr)
      BY <1>4
    <3> QED BY <1>1, <2>1, <3>2, <3>3
  <2>2. CASE index # len - 1 /\ arr' = moved
    <3>1. after - data = o
      BY <1>4
    <3>2. moved = memcpy(arr, o, after, n - after)
      BY <3>1
    <3> HIDE DEF moved
    <3>3. IsMoved(moved, arr, o, after, n - after)
      <4>1. n \in Nat /\ o \in Nat /\ after \in Nat /\ T \in Nat /\ Len(arr) \in Nat
            /\ after <= n /\ n <= Len(arr) /\ after = o + T
        BY <1>4
      <4> HIDE DEF N
      <4>2. n - after \in Nat
        BY <4>1
      <4>3. o + (n - after) <= Len(arr)
        BY <4>1
      <4>4. after + (n - after) <= Len(arr)
        BY <4>1
      <4> QED BY <1>1, <3>2, <4>1, <4>2, <4>3, <4>4, MemcpyIs
    <3>4. /\ arr' \in Seq(Octets) /\ Len(arr') = Len(arr)
          /\ \A j \in 1 .. Len(arr) :
               arr'[j] = IF j > o /\ j <= o + (n - after) THEN arr[after + (j - o)] ELSE arr[j]
      BY <2>2, <3>3 DEF IsMoved
    <3>5. ASSUME NEW j \in 1 .. o PROVE arr'[j] = arr[j]
      <4>1. j \in 1 .. Len(arr) /\ ~(j > o)
        BY <1>4
      <4> QED BY <3>4, <4>1
    <3>6. ASSUME NEW j \in after + 1 .. n PROVE arr'[j - T] = arr[j]
      <4>1. n \in Nat /\ o \in Nat /\ after \in Nat /\ T \in Nat /\ Len(arr) \in Nat
            /\ after <= n /\ n <= Len(arr) /\ after = o + T
        BY <1>4
      <4>2. j - T > o /\ j - T <= o + (n - after)
        BY <4>1
      <4>3. j - T \in 1 .. Len(arr)
        BY <4>1
      <4>4. after + ((j - T) - o) = j
        BY <4>1
      <4> QED BY <3>4, <4>2, <4>3, <4>4
    <3>7. n - T <= Len(arr')
      BY <1>4, <3>4
    <3> QED BY <3>4, <3>5, <3>6, <3>7
  <2> QED BY <1>3, <2>1, <2>2
<1>6. ClosedUp(arr', arr, list, off, index)
  BY <1>4, <1>5 DEF ClosedUp, s, T
<1>7. list' \in Seq(Sensors) /\ IsCut(list', list, index + 1, 1)
  <2>1. list' = CutOut(list, index + 1, 1)
    BY <1>3 DEF RemoveAt, CutOut
  <2>2. PICK one : one = 1
    OBVIOUS
  <2>3. index + 1 \in Nat \ {0} /\ one \in Nat \ {0} /\ (index + 1) + one - 1 <= N
    BY <1>4, <2>2
  <2>4. CutOut(list, index + 1, one) \in Seq(Sensors)
        /\ IsCut(CutOut(list, index + 1, one), list, index + 1, one)
    BY <1>1, <2>3, CutIs
  <2> QED BY <2>1, <2>2, <2>4
<1>8. \E off2 : Laid(arr', list', off2)
  BY <1>1, <1>2, <1>4, <1>6, <1>7, DeleteLays
<1>9. len' = Len(list')
  BY <1>1, <1>3, <1>7 DEF IsCut
<1> QED BY <1>5, <1>7, <1>8, <1>9 DEF PackedInv

LEMMA PackedStarts ==
  ASSUME PackedInit
  PROVE  PackedInv
<1>1. arr = <<>> /\ len = 0 /\ list = <<>>
  BY DEF PackedInit
<1>2. arr \in Seq(Octets) /\ list \in Seq(Sensors) /\ len = Len(list) /\ Len(list) = 0 /\ Len(arr) = 0
  BY <1>1
<1> DEFINE off == [k \in 0 .. 0 |-> 0]
<1>3. Laid(arr, list, off)
  <2>1. off \in [0 .. 0 -> Nat] /\ off[0] = 0
    OBVIOUS
  <2>2. \A i \in 1 .. 0 : FALSE
    OBVIOUS
  <2> HIDE DEF off
  <2> QED BY <1>2, <2>1, <2>2 DEF Laid
<1> QED BY <1>2, <1>3 DEF PackedInv

LEMMA PackedSteps ==
  ASSUME Copy = "whole", Indexes \subseteq Nat, PackedInv, [PackedNext]_packedVars
  PROVE  PackedInv'
<1>1. CASE UNCHANGED packedVars
  BY <1>1 DEF packedVars, PackedInv
<1>2. ASSUME NEW s \in Sensors, add_last(s) PROVE PackedInv'
  BY <1>2, AddLastStep
<1>3. ASSUME NEW s \in Sensors, NEW index \in Indexes, add_at(s, index) PROVE PackedInv'
  BY <1>3, AddAtStep
<1>4. ASSUME NEW index \in Indexes, delete_at(index) PROVE PackedInv'
  BY <1>4, DeleteAtStep
<1> QED BY <1>1, <1>2, <1>3, <1>4 DEF PackedNext

LEMMA PackedShows ==
  ASSUME PackedInv
  PROVE  PackedIsList
<1>1. arr \in Seq(Octets) /\ list \in Seq(Sensors) /\ len = Len(list) /\ Len(list) \in Nat
  BY DEF PackedInv
<1>2. PICK off : Laid(arr, list, off)
  BY DEF PackedInv
<1>3. ASSUME NEW i \in 1 .. len PROVE find(i - 1) = {list[i]}
  <2>1. i \in 1 .. Len(list) /\ i - 1 \in 0 .. Len(list) /\ i - 1 \in 0 .. len - 1
    BY <1>1
  <2>2. nrb(i - 1) = off[i - 1]
    BY <1>1, <1>2, <2>1, WalkIs
  <2>3. IsRecord(arr, off[i - 1], list[i])
    BY <1>1, <1>2, <2>1, RecordIs
  <2> QED BY <2>1, <2>2, <2>3 DEF find, IsRecord
<1>4. PrintAll = [i \in 1 .. len |-> {list[i]}]
  BY <1>3 DEF PrintAll
<1> QED BY <1>1, <1>4 DEF PackedIsList

(* The block always holds the records of the list one after the other, the *)
(* bytes of each in order (main.c): what the walk over the lengths needs.  *)
THEOREM PackedInvariance ==
  ASSUME Copy = "whole", Indexes \subseteq Nat
  PROVE  PackedSpec => []PackedInv
<1>1. PackedInit => PackedInv
  BY PackedStarts
<1>2. PackedInv /\ [PackedNext]_packedVars => PackedInv'
  BY PackedSteps
<1> QED BY <1>1, <1>2, PTL DEF PackedSpec

(* print shows the list the commands asked for (main.c), whatever was      *)
(* inserted and deleted, at any index from 0, for records of any lengths.  *)
THEOREM PackedShowsList ==
  ASSUME Copy = "whole", Indexes \subseteq Nat
  PROVE  PackedSpec => []PackedIsList
<1>1. PackedInv => PackedIsList
  BY PackedShows
<1> QED BY <1>1, PackedInvariance, PTL
---------------------------------------------------------------------------
(***************************************************************************)
(* Cipher.c: encrypting and decrypting                                     *)
(***************************************************************************)
Letters == 0 .. ALPHABET - 1

LEMMA LessIsItself ==
  ASSUME NEW b, b \in Nat \ {0}, NEW a, a \in 0 .. b - 1
  PROVE  a % b = a /\ (a + b) % b = a
OBVIOUS

LEMMA RemIs ==
  ASSUME NEW b, b \in Nat \ {0}, NEW a, a \in Nat
  PROVE  Rem(a, b) = a % b /\ Rem(a, b) \in 0 .. b - 1
BY DEF Rem

(* A letter and what it is shifted by.                                     *)
LEMMA ShiftUndone ==
  ASSUME NEW b, b \in Nat \ {0}, NEW c, c \in 0 .. b - 1, NEW o, o \in Nat
  PROVE  /\ Rem(c + Rem(o, b), b) \in 0 .. b - 1
         /\ Rem(Rem(c + Rem(o, b), b) - Rem(o, b) + b, b) = c
         /\ Rem(Rem(o, b), b) = Rem(o, b)
<1> DEFINE r == Rem(o, b)
<1>1. r \in 0 .. b - 1
  BY RemIs
<1> HIDE DEF r
<1> DEFINE e == Rem(c + r, b)
<1>2. e \in 0 .. b - 1 /\ e = IF c + r < b THEN c + r ELSE c + r - b
  <2>1. c + r \in Nat /\ e = (c + r) % b /\ e \in 0 .. b - 1
    BY <1>1, RemIs
  <2>2. CASE c + r < b
    BY <1>1, <2>1, <2>2, LessIsItself
  <2>3. CASE ~(c + r < b)
    <3> DEFINE a == c + r - b
    <3>1. a \in 0 .. b - 1 /\ c + r = a + b
      BY <1>1, <2>3
    <3> HIDE DEF a
    <3>2. (a + b) % b = a
      BY <3>1, LessIsItself
    <3> QED BY <2>1, <2>3, <3>1, <3>2 DEF a
  <2> QED BY <2>2, <2>3, <2>1
<1> HIDE DEF e
<1>3. Rem(e - r + b, b) = c
  <2>1. e - r + b \in Nat
    BY <1>1, <1>2
  <2>2. Rem(e - r + b, b) = (e - r + b) % b
    BY <2>1, RemIs
  <2>3. e - r + b = c \/ e - r + b = c + b
    BY <1>1, <1>2
  <2>4. c % b = c /\ (c + b) % b = c
    BY LessIsItself
  <2> QED BY <2>2, <2>3, <2>4
<1>4. Rem(r, b) = r
  <2>1. Rem(r, b) = r % b
    BY <1>1, RemIs
  <2>2. r % b = r
    BY <1>1, LessIsItself
  <2> QED BY <2>1, <2>2
<1> QED BY <1>2, <1>3, <1>4 DEF e, r

(* A message of letters and spaces, and a key of offsets.                  *)
LEMMA TurnsAre ==
  ASSUME NEW m, m \in Seq(Letters \cup {Space}), NEW key, key \in Seq(Nat), key # <<>>
  PROVE  \A i \in 1 .. Len(m) : Turns(m, key)[i] \in Nat
<1>1. Len(key) \in Nat \ {0} /\ \A k \in 1 .. Len(key) : key[k] \in Nat
  OBVIOUS
<1> SUFFICES ASSUME NEW i \in 1 .. Len(m) PROVE Turns(m, key)[i] \in Nat
  OBVIOUS
<1> DEFINE J == {j \in 1 .. i - 1 : m[j] # Space}
           n == Cardinality(J)
<1>2. n \in Nat
  <2>1. IsFiniteSet(1 .. i - 1)
    BY FS_Interval
  <2>2. IsFiniteSet(J)
    BY <2>1, FS_Subset
  <2> QED BY <2>2, FS_CardinalityType
<1>3. Turns(m, key)[i] = key[(n % Len(key)) + 1]
  BY DEF Turns
<1> HIDE DEF n
<1>4. (n % Len(key)) + 1 \in 1 .. Len(key)
  <2>1. n % Len(key) \in 0 .. Len(key) - 1
    BY <1>1, <1>2
  <2> QED BY <1>1, <2>1
<1> QED BY <1>1, <1>3, <1>4

(* Decrypting undoes encrypting (Cipher.c), whatever the message and the   *)
(* offsets of the key, and a key that was printed encrypts like the key.   *)
THEOREM DecryptUndoesEncrypt ==
  ASSUME ALPHABET \in Nat \ {0},
         NEW m, m \in Seq(Letters \cup {Space}),
         NEW key, key \in Seq(Nat), key # <<>>
  PROVE  /\ decrypt(encrypt(m, key), key) = m
         /\ encrypt(m, printKey(key)) = encrypt(m, key)
<1> DEFINE A == ALPHABET
           N == Len(m)
           u == Turns(m, key)
           e == encrypt(m, key)
           d == decrypt(e, key)
           q == printKey(key)
<1>1. N \in Nat /\ \A i \in 1 .. N : m[i] \in Letters \/ m[i] = Space
  OBVIOUS
<1>2. \A i \in 1 .. N : u[i] \in Nat
  BY TurnsAre
<1>3. \A i \in 1 .. N : m[i] \in Letters => m[i] # Space
  BY DEF Letters, Space
<1>4. e = [i \in 1 .. N |-> IF m[i] = Space THEN Space ELSE Rem(m[i] + Rem(u[i], A), A)]
  BY DEF encrypt, Shifted
<1>5. Len(e) = N /\ \A i \in 1 .. N : e[i] = Space <=> m[i] = Space
  <2>1. Len(e) = N
    BY <1>1, <1>4
  <2>2. ASSUME NEW i \in 1 .. N, m[i] # Space PROVE e[i] # Space
    <3>1. e[i] = Rem(m[i] + Rem(u[i], A), A)
      BY <1>4, <2>2
    <3>2. m[i] \in 0 .. A - 1 /\ u[i] \in Nat
      BY <1>1, <1>2, <2>2 DEF Letters
    <3> HIDE DEF e, u
    <3>3. Rem(m[i] + Rem(u[i], A), A) \in 0 .. A - 1
      BY <3>2, ShiftUndone
    <3>4. e[i] \in 0 .. A - 1
      BY <3>1, <3>3
    <3> QED BY <3>4 DEF Space
  <2>3. \A i \in 1 .. N : m[i] = Space => e[i] = Space
    BY <1>4
  <2> QED BY <2>1, <2>2, <2>3
<1>6. Turns(e, key) = u
  <2> HIDE DEF e
  <2>1. ASSUME NEW i \in 1 .. N
        PROVE  {j \in 1 .. i - 1 : e[j] # Space} = {j \in 1 .. i - 1 : m[j] # Space}
    BY <1>1, <1>5
  <2> QED BY <1>5, <2>1 DEF Turns
<1>7. d = [i \in 1 .. N |-> IF e[i] = Space THEN Space ELSE Rem(e[i] - Rem(u[i], A) + A, A)]
  <2> HIDE DEF e, u
  <2> QED BY <1>5, <1>6 DEF decrypt, Shifted
<1>8. ASSUME NEW i \in 1 .. N PROVE d[i] = m[i]
  <2> HIDE DEF d, e, u
  <2>1. CASE m[i] = Space
    BY <1>5, <1>7, <2>1
  <2>2. CASE m[i] # Space
    <3>1. m[i] \in 0 .. A - 1 /\ u[i] \in Nat
      BY <1>1, <1>2, <2>2 DEF Letters
    <3>2. e[i] = Rem(m[i] + Rem(u[i], A), A)
      BY <1>4, <2>2
    <3>3. d[i] = Rem(e[i] - Rem(u[i], A) + A, A)
      BY <1>5, <1>7, <2>2
    <3>4. Rem(Rem(m[i] + Rem(u[i], A), A) - Rem(u[i], A) + A, A) = m[i]
      BY <3>1, ShiftUndone
    <3> QED BY <3>2, <3>3, <3>4
  <2> QED BY <2>1, <2>2
<1>9. d = m
  <2>1. d = [i \in 1 .. N |-> d[i]]
    BY <1>7
  <2>2. m = [i \in 1 .. N |-> m[i]]
    OBVIOUS
  <2> HIDE DEF d
  <2> QED BY <1>8, <2>1, <2>2
<1>10. Len(q) = Len(key) /\ \A k \in 1 .. Len(key) : q[k] = Rem(key[k], A)
  BY DEF printKey
<1>11. ASSUME NEW i \in 1 .. N PROVE Turns(m, q)[i] = Rem(u[i], A)
  <2> DEFINE n == Cardinality({j \in 1 .. i - 1 : m[j] # Space})
             k == (n % Len(key)) + 1
  <2>1. n \in Nat
    <3>1. IsFiniteSet(1 .. i - 1)
      BY FS_Interval
    <3>2. IsFiniteSet({j \in 1 .. i - 1 : m[j] # Space})
      BY <3>1, FS_Subset
    <3> QED BY <3>2, FS_CardinalityType
  <2>2. u[i] = key[k]
    BY DEF Turns
  <2>3. Turns(m, q)[i] = q[k]
    <3> HIDE DEF q
    <3> QED BY <1>10 DEF Turns
  <2> HIDE DEF n, q, u
  <2>4. k \in 1 .. Len(key)
    <3>1. Len(key) \in Nat \ {0}
      OBVIOUS
    <3>2. n % Len(key) \in 0 .. Len(key) - 1
      BY <2>1, <3>1
    <3> QED BY <3>1, <3>2
  <2> HIDE DEF k
  <2> QED BY <1>10, <2>2, <2>3, <2>4
<1>12. encrypt(m, q) = e
  <2> DEFINE v == Turns(m, q)
  <2>1. encrypt(m, q) = [i \in 1 .. N |-> IF m[i] = Space THEN Space ELSE Rem(m[i] + Rem(v[i], A), A)]
    BY DEF encrypt, Shifted
  <2>2. ASSUME NEW i \in 1 .. N PROVE Rem(v[i], A) = Rem(u[i], A)
    <3>1. v[i] = Rem(u[i], A) /\ u[i] \in Nat /\ 0 \in 0 .. A - 1
      BY <1>2, <1>11
    <3> HIDE DEF u, v
    <3>2. Rem(Rem(u[i], A), A) = Rem(u[i], A)
      BY <3>1, ShiftUndone
    <3> QED BY <3>1, <3>2
  <2> HIDE DEF u, v, q, e
  <2> QED BY <1>4, <2>1, <2>2
<1> QED BY <1>9, <1>12
=============================================================================
