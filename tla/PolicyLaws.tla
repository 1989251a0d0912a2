----------------------------- MODULE PolicyLaws -----------------------------
(***************************************************************************)
(* What the pure parts of the policy promise for every target, hardware    *)
(* floor and percentage, on monitors with the VCP maxima in Maxima and     *)
(* outputs with the gamma ramp sizes in Sizes.  A gamma table has at least *)
(* two entries (gamma_table refuses others, lib.rs:120); its brightest     *)
(* entry is Peak.  The scales are written out, not named Targets, Percents *)
(* and Levels: TLC evaluates a definition without parameters once, for all *)
(* instances.                                                              *)
(***************************************************************************)
EXTENDS BrightnessPolicy

CONSTANTS Maxima, Sizes, Peak

\* With both controls the hardware alone never undershoots the target nor the
\* floor, and gamma brings the result to the target, up to the last gamma step
\* (lib.rs:83-98); a hardware level of zero is the target zero with no floor.
PlanMeetsTarget ==
    \A target, floor \in 0 .. Full * Unit :
        LET plan == ForTarget(target, floor, TRUE, TRUE)
            emitted == Effective(plan.ddc, plan.gamma)
        IN  /\ plan.ddc \in 0 .. Full /\ plan.gamma \in 0 .. Unit
            /\ plan.ddc * Unit >= target /\ plan.ddc * Unit >= floor
            /\ IF plan.ddc = 0 THEN target = 0 /\ floor = 0
               ELSE emitted <= target /\ target < emitted + plan.ddc

\* What is written is on the monitor's scale, a higher percentage never gives a
\* lower raw value, and what a refresh reads back is what was written if the
\* monitor has at least as many steps as percentages (ddc.rs:41-50, 150).
VcpRoundTrip ==
    \A max \in Maxima, p \in 0 .. Full :
        /\ RawOf(p, max) \in 0 .. max
        /\ max >= Full => PercentOf(RawOf(p, max), max) = p
        /\ \A q \in 0 .. p : RawOf(q, max) <= RawOf(p, max)

\* A gamma table starts at black, ends at the multiplied peak, never descends,
\* and a lower multiplier lowers or keeps every entry (lib.rs:119-139).
GammaTableShape ==
    \A size \in Sizes, level \in 0 .. Unit :
        LET table == GammaTable(size, level, Peak) IN
        /\ table[0] = 0
        /\ table[size - 1] = (2 * level * Peak + Unit) \div (2 * Unit)
        /\ \A i \in 1 .. size - 1 : table[i - 1] <= table[i]
        /\ \A dimmer \in 0 .. level, i \in 0 .. size - 1 :
              GammaTable(size, dimmer, Peak)[i] <= table[i]
=============================================================================
