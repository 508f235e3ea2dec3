-------------------------------- MODULE ClkFd ---------------------------------
(***************************************************************************)
(* The Pegmatite fractional divider for the UART clocks                  *)
(* (src/pegmatite/clkfd.c): out = in * D / (2 * N), with a 16-bit         *)
(* numerator N and denominator D in the register at offset 8.  The        *)
(* register is a record [num, den] of the two fields.  The u64 products  *)
(* of a rate and the denominator are MulDiv of Div64.                     *)
(***************************************************************************)
EXTENDS Integers, Div64

FD_MASK == 65535

\* The value set_rate writes when no division is asked (line 53).
FdNoDivide == [num |-> 32768, den |-> 32768]

\* pegmatite_clkfd_recalc_rate (lines 35-48)
FdRecalcRate(p, reg) == MulDiv(p, reg.den, 2 * reg.num)

(* The approximation loop of set_rate (lines 66-72) and round_rate        *)
(* (lines 105-111): double a = p * denom and denom until a / rate leaves  *)
(* the 16 bits, keeping the last quotient that fitted as num.  Result     *)
(* <<num, denom>>.                                                        *)
RECURSIVE FdApprox(_, _, _, _, _)
FdApprox(p, den, num, tmp, r) ==
  IF tmp > FD_MASK THEN <<num, den>>
  ELSE FdApprox(p, 2 * den, tmp, MulDiv(p, 2 * den, r), r)

FdStart(p, r) == FdApprox(p, 1, p \div r, p \div r, r)

(* The rein-in loop (lines 79-84 and 113-119): increment num while the   *)
(* output is above the requested rate, stopping at num = 0xffff.          *)
RECURSIVE FdReinIn(_, _, _, _)
FdReinIn(p, r, num, den) ==
  IF MulDiv(p, den, 2 * num) > r /\ num < FD_MASK
    THEN FdReinIn(p, r, num + 1, den)
    ELSE num

(* pegmatite_clkfd_set_rate (lines 50-94): below the parent rate,        *)
(* approximate and rein in, then write num << 16 | (denom & 0xffff);      *)
(* otherwise write 0x80008000.  num fits in 16 bits by the loop; denom    *)
(* reaches 0x10000 when the loop runs its sixteenth doubling.             *)
FdSetRate(r, p) ==
  IF p > r
    THEN LET s == FdStart(p, r)
         IN  [num |-> FdReinIn(p, r, s[1], s[2]), den |-> s[2] % (FD_MASK + 1)]
    ELSE FdNoDivide

(* pegmatite_clkfd_round_rate (lines 96-122): the same approximation and *)
(* rein-in for any rate, with the unmasked denominator, returning the     *)
(* output rate they give.                                                 *)
FdRoundRate(r, p) ==
  LET s == FdStart(p, r)
  IN  MulDiv(p, s[2], 2 * FdReinIn(p, r, s[1], s[2]))

=============================================================================
