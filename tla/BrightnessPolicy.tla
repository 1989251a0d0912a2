-------------------------- MODULE BrightnessPolicy --------------------------
(***************************************************************************)
(* The hardware-independent brightness policy (crates/wlight-core), the    *)
(* conversion between percentages and raw VCP values (wlight-backend,      *)
(* ddc.rs) and the ordering of the adjustments of one transition           *)
(* (wlight-daemon, state.rs), as operators without state.                  *)
(*                                                                         *)
(* Full is the top of the integer percentage scale (100 in the code) and   *)
(* Unit the number of gamma steps that make the multiplier 1.0 (the code   *)
(* uses an f64, whose steps are finer than any model needs).  An effective *)
(* target in [0.0, 1.0] is a number of 1/(Full * Unit) parts, so that one  *)
(* percent is Unit parts and the product of a DDC percentage and a gamma   *)
(* level is directly an effective brightness.                              *)
(***************************************************************************)
EXTENDS Integers, FiniteSets

CONSTANTS Full, Unit

ASSUME ScaleAssumption == Full \in Nat \ {0} /\ Unit \in Nat \ {0}

None == -1                          \* Rust's Option::None

Percents == 0 .. Full
Levels   == 0 .. Unit
Targets  == 0 .. Full * Unit

AtMost(a, b)  == IF a <= b THEN a ELSE b
AtLeast(a, b) == IF a >= b THEN a ELSE b

-----------------------------------------------------------------------------
(* Splitting a target between DDC and gamma                                *)

CeilPercent(t)  == (t + Unit - 1) \div Unit
RoundPercent(t) == (2 * t + Unit) \div (2 * Unit)

\* The hardware level of unified control: never below the floor, and the
\* target quantized upward above it.
HardwareRounded(t, floor) ==         \* a bug: may undershoot the target
    AtLeast(CeilPercent(floor), RoundPercent(t))
HardwarePercent(t, floor) == AtLeast(CeilPercent(floor), CeilPercent(t))

\* The gamma multiplier that supplies the remainder.
GammaRemainder(t, hardware) ==
    IF hardware = 0 THEN Unit ELSE AtMost(t \div hardware, Unit)

ForTarget(t, floor, hasDdc, hasGamma) ==
    CASE hasDdc /\ hasGamma ->
            LET h == HardwarePercent(t, floor)
            IN  [ddc |-> h, gamma |-> GammaRemainder(t, h)]
      [] hasDdc /\ ~hasGamma -> [ddc |-> RoundPercent(t), gamma |-> None]
      [] ~hasDdc -> [ddc |-> None, gamma |-> t \div Full]

\* DisplayInfo::effective_percent: an absent control counts as 1.0.
Effective(ddc, gamma) ==
    (IF ddc = None THEN Full ELSE ddc) * (IF gamma = None THEN Unit ELSE gamma)

-----------------------------------------------------------------------------
(* One channel of the gamma lookup table, entries scaled to 0 .. Peak      *)

GammaTableOverSize(size, level, Peak) ==         \* a bug: divides by size
    [i \in 0 .. size - 1 |->
        (2 * i * level * Peak + size * Unit) \div (2 * size * Unit)]

GammaTable(size, level, Peak) ==
    [i \in 0 .. size - 1 |->
        (2 * i * level * Peak + (size - 1) * Unit) \div (2 * (size - 1) * Unit)]

-----------------------------------------------------------------------------
(* Percentages and raw VCP values; max is the monitor's VCP maximum        *)

RawOfTruncating(percent, max) == (percent * max) \div Full   \* a bug
RawOf(percent, max) == (percent * max + (Full \div 2)) \div Full

PercentOf(raw, max) ==
    IF max = 0 THEN 0 ELSE (AtMost(raw, max) * Full + (max \div 2)) \div max

-----------------------------------------------------------------------------
(* The adjustments of one transition: at most one per control              *)

Adjustment(control, from, to) == [control |-> control, from |-> from, to |-> to]

AllAdjustments ==
    [control : {"ddc"}, from : Percents, to : Percents] \cup
    [control : {"gamma"}, from : Levels, to : Levels]

BrightenFirstKey(a) == IF a.to < a.from THEN 1 ELSE 0        \* a bug
OrderKey(a) ==
    CASE a.control = "gamma" /\ a.to < a.from -> 0
      [] a.control = "ddc"   /\ a.to < a.from -> 1
      [] a.control = "ddc"   /\ a.to >= a.from -> 2
      [] a.control = "gamma" /\ a.to >= a.from -> 3

\* What takes current to plan: only the controls the plan names and whose
\* value differs.
Adjustments(current, plan) ==
    {Adjustment(c, current[c], plan[c]) :
        c \in {k \in {"ddc", "gamma"} : plan[k] # None /\ plan[k] # current[k]}}

First(S) == CHOOSE a \in S : \A b \in S : OrderKey(a) <= OrderKey(b)
Last(S)  == CHOOSE a \in S : \A b \in S : OrderKey(a) >= OrderKey(b)
=============================================================================
