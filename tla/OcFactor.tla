------------------------------- MODULE OcFactor -------------------------------
(***************************************************************************)
(* The off-chip factor clock (src/pegmatite/off-chip-factor-clock.c): a   *)
(* software multiplier of the parent rate, kept in the driver's struct.   *)
(***************************************************************************)
EXTENDS Integers

\* The kernel's abs() on an unsigned long difference (rates below 2^31).
OAbs(x) == IF x < 0 THEN -x ELSE x

\* m = r / p, moved to m + 1 when r is not a multiple of p and p * (m + 1)
\* is strictly nearer (lines 33-40 and 55-62).
NearestMult(r, p) ==
  LET m == r \div p
  IN  IF r % p # 0 /\ OAbs(r - p * m) > OAbs(r - p * (m + 1)) THEN m + 1 ELSE m

\* pegmatite_oc_factor_recalc_rate (lines 15-22)
OcRecalcRate(p, mult) == p * mult

\* pegmatite_oc_factor_set_rate (lines 24-45): a rate below the parent's
\* is raised to it; the multiplier is stored.
OcSetRate(r, p) == NearestMult(IF r < p THEN p ELSE r, p)

\* pegmatite_oc_factor_round_rate (lines 47-65)
OcRoundRate(r, p) == IF r < p THEN p ELSE p * NearestMult(r, p)

\* A setup that leaves the kzalloc'd multiplier at 0.
OcInitMultZero == 0

\* of_oc_factor_clk_setup (lines 80-133): the multiplier starts at 1.
OcInitMult == 1

=============================================================================
