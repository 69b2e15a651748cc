---------------------------- MODULE RouteLookup ----------------------------
(***************************************************************************)
(* get_best_route of Anul II/Semestrul II/PCOM/Tema 1/router.c: a binary   *)
(* search for the route of an address in the table main sorted with cmp.   *)
(*                                                                         *)
(* Addresses are the numbers below Limit.  A mask of leading ones is given *)
(* by the size of the blocks it selects, so that the mask itself is        *)
(* Limit - size and ip & mask is the first address of ip's block.  Masks   *)
(* in the route files have this form; some prefixes have bits below the    *)
(* mask, so a route's prefix is any address.                               *)
(***************************************************************************)
EXTENDS Integers, Sequences

CONSTANTS
  Limit,     \* 2^32 in the code
  Sizes,     \* the sizes of the blocks that masks select
  MaxRoutes  \* bound on the table's length

ASSUME LookupConstants ==
  /\ Limit \in Nat \ {0}
  /\ Sizes \subseteq 1 .. Limit
  /\ MaxRoutes \in Nat

Addresses == 0 .. Limit - 1
Routes == [prefix : Addresses, size : Sizes]

And(ip, size) == ip - (ip % size)
Mask(r) == Limit - r.size
Net(r) == And(r.prefix, r.size)
Matches(ip, r) == And(ip, r.size) = Net(r)

(* cmp > 0: b has the higher network, or the same and the longer mask.     *)
After(a, b) ==
  IF Net(a) = Net(b) THEN Mask(b) > Mask(a) ELSE Net(b) > Net(a)

Sorted(t) == \A i, j \in 1 .. Len(t) : i < j => ~After(t[i], t[j])

Tables == {t \in UNION {[1 .. n -> Routes] : n \in 0 .. MaxRoutes} : Sorted(t)}

VARIABLES
  rtable,
  dest_ip,
  left, right,  \* indices from 1
  pos,          \* the route kept, 0 for -1
  max_mask,
  returned

vars == <<rtable, dest_ip, left, right, pos, max_mask, returned>>

Init ==
  /\ rtable \in Tables
  /\ dest_ip \in Addresses
  /\ left = 1 /\ right = Len(rtable)
  /\ pos = 0 /\ max_mask = 0
  /\ returned = FALSE

(* The 0-based (left + right) / 2.                                         *)
Mid == (left + right - 2) \div 2 + 1

(* A route that matches is kept when its mask is longer; the search goes   *)
(* on to its left.                                                         *)
Match ==
  /\ left <= right
  /\ Matches(dest_ip, rtable[Mid])
  /\ IF Mask(rtable[Mid]) > max_mask
       THEN max_mask' = Mask(rtable[Mid]) /\ pos' = Mid
       ELSE UNCHANGED <<max_mask, pos>>
  /\ right' = Mid - 1
  /\ UNCHANGED <<rtable, dest_ip, left, returned>>

(* Mutant: the halves are swapped.                                         *)
GoRightAbove ==
  /\ left <= right
  /\ And(dest_ip, rtable[Mid].size) > Net(rtable[Mid])
  /\ left' = Mid + 1
  /\ UNCHANGED <<rtable, dest_ip, right, pos, max_mask, returned>>

GoLeft ==
  /\ left <= right
  /\ And(dest_ip, rtable[Mid].size) > Net(rtable[Mid])
  /\ right' = Mid - 1
  /\ UNCHANGED <<rtable, dest_ip, left, pos, max_mask, returned>>

GoRight ==
  /\ left <= right
  /\ And(dest_ip, rtable[Mid].size) < Net(rtable[Mid])
  /\ left' = Mid + 1
  /\ UNCHANGED <<rtable, dest_ip, right, pos, max_mask, returned>>

Return ==
  /\ left > right /\ ~returned
  /\ returned' = TRUE
  /\ UNCHANGED <<rtable, dest_ip, left, right, pos, max_mask>>

Next == Match \/ GoLeft \/ GoRight \/ Return

Spec == Init /\ [][Next]_vars
FairSpec == Spec /\ WF_vars(Next)
---------------------------------------------------------------------------
TypeOK ==
  /\ rtable \in Seq(Routes) /\ Sorted(rtable)
  /\ dest_ip \in Addresses
  /\ left \in 1 .. Len(rtable) + 1 /\ right \in 0 .. Len(rtable)
  /\ pos \in 0 .. Len(rtable)
  /\ max_mask \in 0 .. Limit - 1
  /\ returned \in BOOLEAN

Found == {i \in 1 .. Len(rtable) : Matches(dest_ip, rtable[i])}

Default(r) == Mask(r) = 0

Below(a, b) == Net(a) + a.size <= Net(b)
Disjoint(t) ==
  \A i, j \in 1 .. Len(t) : i = j \/ Below(t[i], t[j]) \/ Below(t[j], t[i])

(* A route that is returned covers the address, and in a table of disjoint *)
(* blocks without a default route NULL is returned only when none does.    *)
FindsDisjoint ==
  returned =>
    /\ pos # 0 => pos \in Found
    /\ Disjoint(rtable) /\ (\A i \in 1 .. Len(rtable) : ~Default(rtable[i])) =>
         (Found # {} => pos # 0)

(* "finds in the routing table the most specific route": the matching      *)
(* route with the longest mask.  Default routes aside.                     *)
MostSpecific ==
  returned /\ (\A i \in 1 .. Len(rtable) : ~Default(rtable[i])) =>
    IF Found = {}
      THEN pos = 0
      ELSE pos \in Found /\ \A i \in Found : Mask(rtable[i]) <= Mask(rtable[pos])

(* The same for a default route: it is found when nothing else matches.    *)
DefaultFound == returned /\ Found # {} => pos # 0
=============================================================================
