------------------------------- MODULE Bytes -------------------------------
(***************************************************************************)
(* The operators of C on unsigned char, by tables: &, ^ and the addition   *)
(* of GF(2^8).                                                             *)
(***************************************************************************)
EXTENDS Naturals

Byte == 0..255

Bit(x, i) == (x \div 2^i) % 2

AndNibble ==
  [x \in 0..15 |-> [y \in 0..15 |->
     8 * (Bit(x, 3) * Bit(y, 3)) + 4 * (Bit(x, 2) * Bit(y, 2))
     + 2 * (Bit(x, 1) * Bit(y, 1)) + Bit(x, 0) * Bit(y, 0)]]

AndTable ==
  [x \in Byte |-> [y \in Byte |->
     16 * AndNibble[x \div 16][y \div 16] + AndNibble[x % 16][y % 16]]]

\* Where both have a bit, a sum has a carry instead.
XorTable == [x \in Byte |-> [y \in Byte |-> x + y - 2 * AndTable[x][y]]]

And(x, y) == AndTable[x][y]

\* a ^ b; also gadd and gsub of util/aes.c.
Xor(x, y) == XorTable[x][y]

=============================================================================
