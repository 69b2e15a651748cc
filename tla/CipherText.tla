----------------------------- MODULE CipherText -----------------------------
(***************************************************************************)
(* Anul I/Semestrul II/SDA/Teme/Tema 2/Cipher.c: encrypting and decrypting *)
(* a message with a key, a list of offsets.                                *)
(***************************************************************************)
EXTENDS Integers, Sequences, FiniteSets

CONSTANT ALPHABET \* letters are 0 .. ALPHABET - 1 (26 in the code)

Space == -1        \* in a message, what is not a letter

(* % of C: the remainder has the sign of a.                                *)
Rem(a, b) == IF a >= 0 THEN a % b ELSE -((-a) % b)

printKey(key) == [i \in 1 .. Len(key) |-> Rem(key[i], ALPHABET)]

(* The offsets are used in turn; what is not a letter takes none.          *)
Turns(m, key) ==
  [i \in 1 .. Len(m) |-> key[(Cardinality({j \in 1 .. i - 1 : m[j] # Space}) % Len(key)) + 1]]
Shifted(m, Shift(_, _), key) ==
  [i \in 1 .. Len(m) |-> IF m[i] = Space THEN Space ELSE Shift(m[i], Turns(m, key)[i])]

encrypt(m, key) == Shifted(m, LAMBDA c, o : Rem(c + Rem(o, ALPHABET), ALPHABET), key)

(* Mutant: the difference may be negative.                                 *)
DecryptBelow(m, key) == Shifted(m, LAMBDA c, o : Rem(c - Rem(o, ALPHABET), ALPHABET), key)
decrypt(m, key) ==
  Shifted(m, LAMBDA c, o : Rem(c - Rem(o, ALPHABET) + ALPHABET, ALPHABET), key)
=============================================================================
