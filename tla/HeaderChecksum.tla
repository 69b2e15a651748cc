--------------------------- MODULE HeaderChecksum ---------------------------
(***************************************************************************)
(* The checksum of an IP header as the routers of Anul II/Semestrul II/    *)
(* PCOM/Tema 1 test it and correct it for a smaller TTL.                   *)
(*                                                                         *)
(* A header is its TTL and the one's complement sum of the other words,    *)
(* read as the machine stores them, so that the TTL is the low half of its *)
(* word and the sum stands for every header that adds up to it.            *)
(***************************************************************************)
EXTENDS Integers

CONSTANTS
  Word,    \* 2^16 in the code
  MaxTtl   \* 255 in the code

ASSUME WordIsLarger == Word \in Nat /\ MaxTtl \in Nat /\ 1 < MaxTtl /\ MaxTtl < Word - 1

VARIABLES
  rest,  \* the sum of the words other than TTL's and the checksum's
  ttl,
  check

headerVars == <<rest, ttl, check>>

Words == 0 .. Word - 1

(* checksum() adds the words and adds the carries back to the sum.         *)
Fold(s) == IF s >= Word THEN s - Word + 1 ELSE s
Not(c) == Word - 1 - c
Checksum(r, t) == Not(Fold(r + t))

HeaderInit ==
  /\ rest \in Words
  /\ ttl \in 1 .. MaxTtl
  /\ check = Checksum(rest, ttl)

(* ~(~old_check + ~old_ttl + ttl) - 1, in int, stored in a uint16_t.       *)
IntNot(x) == -x - 1

(* Mutant: without the final - 1.                                          *)
UpdateNoCarry(old_check, old_ttl, t) ==
  IntNot(IntNot(old_check) + IntNot(old_ttl) + t) % Word

Update(old_check, old_ttl, t) ==
  (IntNot(IntNot(old_check) + IntNot(old_ttl) + t) - 1) % Word

(* A router drops a header whose checksum is not the one checksum() gives  *)
(* for it, and forwards the others.                                        *)
Forward ==
  /\ check = Checksum(rest, ttl)
  /\ ttl > 1
  /\ ttl' = ttl - 1
  /\ check' = Update(check, ttl, ttl - 1)
  /\ UNCHANGED rest

HeaderNext == Forward

HeaderSpec == HeaderInit /\ [][HeaderNext]_headerVars
---------------------------------------------------------------------------
(* The header and its checksum add up to all ones, which is what a         *)
(* receiver that sums the whole header tests, over any number of routers.  *)
AddsUp == check \in Words /\ Fold(Fold(rest + ttl) + check) = Word - 1

(* "The checksum is recalculated": the checksum main expects in a packet   *)
(* is the one checksum() returns, and any other packet is dropped.         *)
NextAccepts == check = Checksum(rest, ttl)
=============================================================================
