------------------------------- MODULE ClockTree ------------------------------
(***************************************************************************)
(* A Pegmatite clock tree built from the drivers' clk_ops:                *)
(*                                                                         *)
(*   osc -+- pll "pll" -- sscg -- clkgen "gen" -- clkfd "fd"              *)
(*        +- pll "lpll" (deskew) -- clkgate "gate" -- clklvdsafe "lvds"   *)
(*        +- off-chip factor "ocf"                                        *)
(*                                                                         *)
(* The common clock framework (not part of this repository) is the        *)
(* environment: clk_set_rate asks the clock's round_rate for the rate it  *)
(* can make at its parent's rate, hands that to set_rate and              *)
(* caches what recalc_rate then reports for the clock and every cached    *)
(* clock below it.  The gate has no rate operations and passes its        *)
(* parent's rate.  clk_enable enables a parent before its child and       *)
(* disables it after.  Each call runs under the framework's prepare or    *)
(* enable lock, so each is one step.  clklvdsafe is registered            *)
(* CLK_GET_RATE_NOCACHE: its rate is recalculated whenever it is read.    *)
(* Rates are in Hz.                                                       *)
(***************************************************************************)
EXTENDS Integers, ClkPll, ClkSscg, ClkGen, ClkFd, ClkLvdsafe, ClkGate, OcFactor

CONSTANTS
  OscRate,     \* the fixed rate of the oscillator
  PllBoot,     \* PLL registers (both PLLs) as the boot loader left them
  PllDefaults, \* per PLL, the node's "clock-frequency" (0: none): the choices
  SscgConfs,   \* sscg node configurations (see ClkSscg)
  GenConfs,    \* clkgen node configurations (see ClkGen)
  GenBoot,     \* clkgen register contents left by the boot loader
  FdBoot,      \* clkfd register contents left by the boot loader
  GateReset,   \* the gate node has the "reset" property
  PllReqs, LPllReqs, GenReqs, FdReqs, LvdsReqs, OcfReqs   \* rates asked for

VARIABLES
  pllReg,      \* per PLL, its register fields
  sscgConf,    \* the sscg node's configuration
  conf,        \* the clkgen node's configuration
  genReg, fdReg, lvdsReg, gateReg,
  ocMult,      \* oc_factor->mult
  rate,        \* the framework's cached rates
  users,       \* who holds the gate enabled
  lvdsOn,      \* lvds's enable count is non-zero
  promise      \* per clock: its last clk_set_rate, the rate asked and the
               \* rate round_rate promised

vars == <<pllReg, sscgConf, conf, genReg, fdReg, lvdsReg, gateReg, ocMult,
          rate, users, lvdsOn, promise>>

Plls == {"pll", "lpll"}
Cached == Plls \cup {"sscg", "gen", "fd", "ocf"}
Clocks == Plls \cup {"gen", "fd", "lvds", "ocf"}
NoPromise == [req |-> 0, rate |-> -1, on |-> FALSE]
GateOff == [en |-> 0, rst |-> 0]

\* The "deskew" property of each PLL's node.
Deskew == [c \in Plls |-> c = "lpll"]

\* The clocks whose promise stands on a PLL's rate.
Below == [pll |-> {"gen", "fd"}, lpll |-> {"lvds"}]

GateOn == GateIsEnabled(gateReg, GateReset)

\* What clk_get_rate returns: the cache, or for lvds a fresh recalc at the
\* gate's rate, which is lpll's.
Reported(c) ==
  IF c = "lvds" THEN LvdsRecalcRate(rate["lpll"], GateOn, lvdsReg) ELSE rate[c]

\* The rates the framework caches below the main PLL at rate pr.
MainChain(pr, preg, sconf, greg, gconf, freg) ==
  LET s == SscgRecalcRate(pr, sconf, preg.bypass)
      g == GenRecalcRate(s, greg, gconf)
  IN  [sscg |-> s, gen |-> g, fd |-> FdRecalcRate(g, freg)]

-----------------------------------------------------------------------------
(* clk_set_rate on a PLL: round, set, recalc the PLL and the cached       *)
(* clocks below it; the promises below no longer stand.  Each result is   *)
(* bound once, as a value, so that the next call does not recompute it.   *)
SetPll(c, r) ==
  /\ \E nr \in {PllRoundRate(r, OscRate, Deskew[c])} :
     \E reg \in {PllSetRate(nr, OscRate, pllReg[c], Deskew[c])} :
     \E pr \in {PllRecalcRate(OscRate, reg, Deskew[c])} :
     LET ch == MainChain(pr, reg, sscgConf, genReg, conf, fdReg)
     IN  /\ pllReg' = [pllReg EXCEPT ![c] = reg]
         /\ rate' = [x \in Cached |->
                       CASE x = c -> pr
                         [] c = "pll" /\ x \in {"sscg", "gen", "fd"} -> ch[x]
                         [] OTHER -> rate[x]]
         /\ promise' = [x \in Clocks |->
                          CASE x = c -> [req |-> r, rate |-> nr, on |-> TRUE]
                            [] x \in Below[c] -> NoPromise
                            [] OTHER -> promise[x]]
  /\ UNCHANGED <<sscgConf, conf, genReg, fdReg, lvdsReg, gateReg, ocMult, users, lvdsOn>>

(* clk_set_rate on gen at the sscg's cached rate: round, set, then recalc *)
(* gen and its child fd.  fd's promise no longer stands.                  *)
SetGen(r) ==
  /\ LET p    == rate["sscg"]
         nr   == GenRoundRate(r, p, conf)
         reg  == GenSetRate(nr, p, genReg, conf)
         grate == GenRecalcRate(p, reg, conf)
     IN  /\ genReg' = reg
         /\ rate' = [rate EXCEPT !["gen"] = grate, !["fd"] = FdRecalcRate(grate, fdReg)]
         /\ promise' = [promise EXCEPT !["gen"] = [req |-> r, rate |-> nr, on |-> TRUE],
                                       !["fd"] = NoPromise]
  /\ UNCHANGED <<pllReg, sscgConf, conf, fdReg, lvdsReg, gateReg, ocMult, users, lvdsOn>>

\* clk_set_rate on fd at gen's cached rate.
SetFd(r) ==
  /\ LET nr  == FdRoundRate(r, rate["gen"])
         reg == FdSetRate(nr, rate["gen"])
     IN  /\ fdReg' = reg
         /\ rate' = [rate EXCEPT !["fd"] = FdRecalcRate(rate["gen"], reg)]
         /\ promise' = [promise EXCEPT !["fd"] = [req |-> r, rate |-> nr, on |-> TRUE]]
  /\ UNCHANGED <<pllReg, sscgConf, conf, genReg, lvdsReg, gateReg, ocMult, users, lvdsOn>>

(* clk_set_rate on lvds at the gate's rate; round and set see whether the *)
(* gate is enabled.                                                       *)
SetLvds(r) ==
  /\ LET nr == LvdsRoundRate(r, rate["lpll"], GateOn)
     IN  /\ lvdsReg' = LvdsSetRate(nr, rate["lpll"], GateOn, lvdsReg)
         /\ promise' = [promise EXCEPT !["lvds"] = [req |-> r, rate |-> nr, on |-> GateOn]]
  /\ UNCHANGED <<pllReg, sscgConf, conf, genReg, fdReg, gateReg, ocMult, rate, users, lvdsOn>>

\* clk_set_rate on ocf.
SetOcf(r) ==
  /\ LET nr == OcRoundRate(r, OscRate)
         m  == OcSetRate(nr, OscRate)
     IN  /\ ocMult' = m
         /\ rate' = [rate EXCEPT !["ocf"] = OcRecalcRate(OscRate, m)]
         /\ promise' = [promise EXCEPT !["ocf"] = [req |-> r, rate |-> nr, on |-> TRUE]]
  /\ UNCHANGED <<pllReg, sscgConf, conf, genReg, fdReg, lvdsReg, gateReg, users, lvdsOn>>

-----------------------------------------------------------------------------
\* The gate's enable count going up from, or down to, zero runs its op.
GateUp(u) ==
  /\ users' = users \cup {u}
  /\ gateReg' = IF users = {} THEN GateEnable(gateReg, GateReset) ELSE gateReg

GateDown(u) ==
  /\ users' = users \ {u}
  /\ gateReg' = IF users = {u} THEN GateDisable(gateReg, GateReset) ELSE gateReg

\* A consumer of the gate itself enables or disables it.
ConsumerEnable ==
  /\ "consumer" \notin users
  /\ GateUp("consumer")
  /\ UNCHANGED <<pllReg, sscgConf, conf, genReg, fdReg, lvdsReg, ocMult, rate, lvdsOn, promise>>

ConsumerDisable ==
  /\ "consumer" \in users
  /\ GateDown("consumer")
  /\ UNCHANGED <<pllReg, sscgConf, conf, genReg, fdReg, lvdsReg, ocMult, rate, lvdsOn, promise>>

\* clk_enable(lvds): the parent first, then clklvdsafe's enable.
LvdsClkEnable ==
  /\ ~lvdsOn
  /\ GateUp("lvds")
  /\ lvdsReg' = LvdsEnable(lvdsReg)
  /\ lvdsOn' = TRUE
  /\ UNCHANGED <<pllReg, sscgConf, conf, genReg, fdReg, ocMult, rate, promise>>

\* clk_disable(lvds): clklvdsafe's disable while the parent is on, then
\* the parent.
LvdsClkDisable ==
  /\ lvdsOn
  /\ lvdsReg' = LvdsDisable(GateOn, lvdsReg)
  /\ GateDown("lvds")
  /\ lvdsOn' = FALSE
  /\ UNCHANGED <<pllReg, sscgConf, conf, genReg, fdReg, ocMult, rate, promise>>

-----------------------------------------------------------------------------
(* of_pegmatite_pll_setup (lines 859-926): the PLL is registered with the *)
(* boot loader's register, and a "clock-frequency" of the node is set at  *)
(* once with clk_set_rate, before any clock below it is registered: its   *)
(* register after setup, and the promise that set made.                   *)
PllSetup(c, boot, dflt) ==
  IF dflt[c] = 0 THEN boot
  ELSE PllSetRate(PllRoundRate(dflt[c], OscRate, Deskew[c]), OscRate, boot, Deskew[c])

PllSetupPromise(c, dflt) ==
  IF dflt[c] = 0 THEN NoPromise
  ELSE [req |-> dflt[c], rate |-> PllRoundRate(dflt[c], OscRate, Deskew[c]), on |-> TRUE]

(* Registration: the configurations from the nodes, the registers as boot *)
(* left them, the rates recalc_rate reports at clk_register, parent       *)
(* before child, ocf's mult at 1, and an "always-used" gate enabled by    *)
(* clk_prepare_enable.                                                    *)
Init ==
  /\ \E boot \in [Plls -> PllBoot], dflt \in PllDefaults :
       /\ pllReg = [c \in Plls |-> PllSetup(c, boot[c], dflt)]
       /\ promise = [c \in Clocks |-> IF c \in Plls THEN PllSetupPromise(c, dflt)
                                                   ELSE NoPromise]
  /\ sscgConf \in SscgConfs
  /\ conf \in GenConfs
  /\ genReg \in GenBoot
  /\ fdReg \in FdBoot
  /\ lvdsReg = [hi |-> 0, lo |-> 0, out |-> 0]
  /\ \E always \in BOOLEAN :
       /\ users = IF always THEN {"always"} ELSE {}
       /\ gateReg = IF always THEN GateEnable(GateOff, GateReset) ELSE GateOff
  /\ ocMult = OcInitMult
  /\ rate = LET pr == PllRecalcRate(OscRate, pllReg["pll"], FALSE)
                ch == MainChain(pr, pllReg["pll"], sscgConf, genReg, conf, fdReg)
            IN  [pll |-> pr, lpll |-> PllRecalcRate(OscRate, pllReg["lpll"], TRUE),
                 sscg |-> ch.sscg, gen |-> ch.gen, fd |-> ch.fd,
                 ocf |-> OcRecalcRate(OscRate, OcInitMult)]
  /\ lvdsOn = FALSE

Next ==
  \/ \E r \in PllReqs : SetPll("pll", r)
  \/ \E r \in LPllReqs : SetPll("lpll", r)
  \/ \E r \in GenReqs : SetGen(r)
  \/ \E r \in FdReqs : SetFd(r)
  \/ \E r \in LvdsReqs : SetLvds(r)
  \/ \E r \in OcfReqs : SetOcf(r)
  \/ ConsumerEnable \/ ConsumerDisable
  \/ LvdsClkEnable \/ LvdsClkDisable

Spec == Init /\ [][Next]_vars

-----------------------------------------------------------------------------
TypeOK ==
  /\ pllReg \in [Plls -> [bypass : 0..1, pu : 0..1, rst : 0..1, refdiv : 0..511,
                          sel : 0..7, fbdiv : 0..511, offEn : 0..1, offset : 0..131071]]
  /\ sscgConf \in SscgConfs
  /\ conf \in GenConfs
  /\ genReg \in [ds : 0..1, enb : 0..1, hi : 0..HIDIV_MASK, lo : 0..LODIV_MASK]
  /\ fdReg \in [num : 0..FD_MASK, den : 0..FD_MASK]
  /\ lvdsReg \in [hi : 0..LHIDIV_MASK, lo : 0..LLODIV_MASK, out : 0..1]
  /\ gateReg \in [en : 0..1, rst : 0..1]
  /\ ocMult \in Nat \ {0}
  /\ rate \in [Cached -> Nat]
  /\ users \subseteq {"always", "consumer", "lvds"}
  /\ lvdsOn \in BOOLEAN
  /\ promise \in [Clocks -> [req : Nat, rate : Int, on : BOOLEAN]]

(* What clk_set_rate promises: the rate round_rate answered is the rate   *)
(* the clock runs at once set_rate has written its registers, as long as *)
(* the clock's parent has not moved since.  For clklvdsafe, whose rate    *)
(* operations depend on whether the gate is enabled, this is asked of a   *)
(* rate set with the gate enabled, while it is enabled.  round_rate and   *)
(* set_rate of each driver compute their dividers separately, with their *)
(* own rounding, clamping, predivider and PLL divider decisions, and     *)
(* recalc_rate decodes what set_rate encoded.                             *)
RoundedRateDelivered ==
  \A c \in Clocks :
    promise[c] # NoPromise /\ (c = "lvds" => promise[c].on /\ GateOn)
      => Reported(c) = promise[c].rate

(* A rate set on clklvdsafe before it is enabled takes effect: once the  *)
(* consumer has enabled lvds after clk_set_rate(lvds, r), and while the   *)
(* deskew PLL keeps the rate it had then, lvds runs at the rate           *)
(* round_rate answers for r with its parent gate enabled.  The clk API    *)
(* lets a rate be set on a disabled clock; clklvdsafe's round_rate and    *)
(* set_rate return without writing the divider while the gate is off, so  *)
(* the usual clk_set_rate then clk_prepare_enable keeps the old divider.  *)
LvdsRateAfterEnable ==
  promise["lvds"] # NoPromise /\ lvdsOn /\ GateOn
    => Reported("lvds") = LvdsRoundRate(promise["lvds"].req, rate["lpll"], TRUE)

\* The reference: the rate nearest to r among p / d for d in 1..maxDivide.
NearestByDivider(r, p, max) ==
  CHOOSE x \in {p \div d : d \in 1..max} :
    \A d \in 1..max : Abs(r - x) <= Abs(r - p \div d)

(* clkgen's round_rate, when neither the divide select nor the            *)
(* predivider is in play, answers the divided rate nearest to the request *)
(* (the clk_ops contract of round_rate) at the rate the sscg hands it,    *)
(* for every request consumers make.                                      *)
GenRoundNearest ==
  \A r \in GenReqs :
    ~conf.divSel /\ ~PredivEngaged(rate["sscg"], r, conf)
      => Abs(r - GenRoundRate(r, rate["sscg"], conf))
           = Abs(r - NearestByDivider(r, rate["sscg"], conf.maxDivide))

=============================================================================
