-------------------------------- MODULE Div64 ---------------------------------
(***************************************************************************)
(* The clock drivers widen a rate to u64, multiply it and divide the      *)
(* product with do_div, div64_ul or div_s64.  The product of two rates in *)
(* Hz does not fit in TLC's integers, so floor(a * b / c) is computed      *)
(* here one bit of b at a time, keeping the quotient and a remainder      *)
(* below c, so that no intermediate value exceeds a, b, c or the result.  *)
(***************************************************************************)
EXTENDS Integers

\* <<carry, (x + y) mod c>> for 0 <= x, y < c, without forming x + y.
AddMod(x, y, c) == IF x >= c - y THEN <<1, x - (c - y)>> ELSE <<0, x + y>>

\* Bit k of b.
Bit(b, k) == (b \div 2^k) % 2

\* The number of binary digits of 0 <= b < 2^31.
NBits(b) ==
  IF b >= 2^30 THEN 31 ELSE CHOOSE k \in 0..30 : b < 2^k /\ (k = 0 \/ 2^(k - 1) <= b)

(* floor(a * b / c) over the n digits of b: s[k] = <<q, r>> with          *)
(* a * (b \div 2^(n-k)) = q * c + r and 0 <= r < c; each step doubles the *)
(* prefix and adds the next digit, using a = (a \div c) * c + a % c.      *)
MulDivDigits(a, b, c) ==
  LET n  == NBits(b)
      qa == a \div c
      ra == a % c
      s[k \in 0..n] ==
        IF k = 0 THEN <<0, 0>>
        ELSE LET prev == s[k - 1]
                 bit  == Bit(b, n - k)
                 d    == AddMod(prev[2], prev[2], c)
                 e    == IF bit = 1 THEN AddMod(d[2], ra, c) ELSE <<0, d[2]>>
             IN  <<2 * prev[1] + d[1] + bit * qa + e[1], e[2]>>
  IN  s[n][1]

\* floor(a * b / c) for 0 <= a, b < 2^31 and c > 0, when the result fits;
\* the digits walked are those of the smaller factor.
MulDiv(a, b, c) == IF a < b THEN MulDivDigits(b, a, c) ELSE MulDivDigits(a, b, c)

=============================================================================
