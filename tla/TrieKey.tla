------------------------------- MODULE TrieKey -------------------------------
(***************************************************************************)
(* How the hash array mapped trie of the native dictionary (utils/         *)
(* trie_map.cpp) turns a 32-bit key into the path of labels it is stored   *)
(* under: the bits of the key are shuffled in a fixed order and the result *)
(* is cut into labels of five bits, the lowest first.                      *)
(***************************************************************************)
EXTENDS Integers, FiniteSetsExt

KeyBits == 0..31

NUM_OF_BITS_USED_FOR_ONE_LEVEL == 5

\* The bit of the key that ends up at position p of the shuffled key.  Byte i
\* of the key is xored with itself shifted by 7, 14 and 21, masked with
\* 0x11111111 and shifted by i: position p takes from byte p % 4, and of the
\* four copies only one has a bit of the byte at the multiple of four below p.
SourceBit(p) ==
    LET q == p - (p % 4)
    IN 8 * (p % 4) + (q - 7 * (q \div 8))

\* A key as the function from its bits to {0, 1}.  Keys are terminal ids, which
\* are not negative: bit 31 is 0.
BitsOf(key) == [i \in KeyBits |-> IF i = 31 THEN 0 ELSE (key \div 2^i) % 2]

\* getBitShuffledKey
Shuffled(bits) == [p \in KeyBits |-> bits[SourceBit(p)]]

\* getLabel: the label of a shuffled key at a level.  Level 6 has two bits.
Label(shuffled, level) ==
    LET bit(n) ==
          LET p == level * NUM_OF_BITS_USED_FOR_ONE_LEVEL + n
          IN IF p \in KeyBits THEN shuffled[p] * 2^n ELSE 0
    IN bit(0) + bit(1) + bit(2) + bit(3) + bit(4)

=============================================================================
