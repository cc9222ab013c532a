---------------------------- MODULE CrcDivision ----------------------------
(***************************************************************************)
(* The definition of the checksum that the table of Crc32 comes from: the  *)
(* remainder of a division by the polynomial of Crc32.hpp.  A polynomial   *)
(* over GF(2) is the set of its exponents, and the sum of polynomials is   *)
(* symmetric difference.                                                   *)
(***************************************************************************)
EXTENDS Crc32

Generator == {32, 26, 23, 22, 16, 12, 11, 10, 8, 7, 5, 4, 2, 1, 0}

(* Long division of a polynomial whose degree is below 32 + n: the terms   *)
(* from X^(31 + n) down to X^32 are cancelled one after the other.         *)
Cancelled(poly, e) ==
  IF e \in poly THEN poly ^^ {g + e - 32 : g \in Generator} ELSE poly

Remainder(poly, n) ==
  LET left[k \in 0..n] ==
        IF k = 0 THEN poly ELSE Cancelled(left[k - 1], 32 + n - k)
  IN  left[n]

(* The bytes as a polynomial: the first byte highest, and of each byte the *)
(* least significant bit highest.                                          *)
Message(buf) ==
  UNION {{8 * (Len(buf) - i) + 7 - j : j \in buf[i]} : i \in DOMAIN buf}

(* The message times X^32, its first 32 bits complemented, is divided; the *)
(* remainder is complemented, and its X^31 is bit 0 of the word.           *)
CrcOf(buf) ==
  LET dividend == {e + 32 : e \in Message(buf)} ^^
                    {8 * Len(buf) + k : k \in 0..31}
  IN  {b \in 0..31 : 31 - b \notin Remainder(dividend, 8 * Len(buf))}
===========================================================================
