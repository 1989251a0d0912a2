--------------------------- MODULE PolicyLawsProofs ---------------------------
(***************************************************************************)
(* PolicyLaws holds on every scale, the code's of 100 percent and a gamma  *)
(* as fine as f64 included, and for all targets, floors, VCP maxima and    *)
(* ramp sizes.                                                             *)
(***************************************************************************)
EXTENDS PolicyLaws, PolicyProofs

\* On any scale, for any target and floor: the plan of unified control meets
\* the target from above with the hardware alone and to the last gamma step
\* with both (BrightnessPlan::for_target, lib.rs:83-98).
THEOREM PlansMeetTargets == PlanMeetsTarget
<1> SUFFICES ASSUME NEW target \in Targets, NEW floor \in Targets
             PROVE  LET plan == ForTarget(target, floor, TRUE, TRUE)
                        emitted == Effective(plan.ddc, plan.gamma)
                    IN  /\ plan.ddc \in 0 .. Full /\ plan.gamma \in 0 .. Unit
                        /\ plan.ddc * Unit >= target /\ plan.ddc * Unit >= floor
                        /\ IF plan.ddc = 0 THEN target = 0 /\ floor = 0
                           ELSE emitted <= target /\ target < emitted + plan.ddc
  BY DEF PlanMeetsTarget, Targets
<1> DEFINE plan == ForTarget(target, floor, TRUE, TRUE)
<1>1. Unit \in Nat \ {0} /\ Targets \subseteq Nat
  BY ScaleAssumption DEF Targets
<1>2. /\ plan.ddc \in Percents /\ plan.gamma \in Levels
      /\ plan.ddc * Unit >= target /\ plan.ddc * Unit >= floor
      /\ plan.ddc = 0 => target = 0
      /\ plan.ddc # 0 => /\ plan.ddc * plan.gamma <= target
                         /\ target < plan.ddc * plan.gamma + plan.ddc
  BY PlanNeverUndershoots
<1> HIDE DEF plan
<1>3. Percents \subseteq Nat /\ Levels \subseteq Nat
  BY ScaleAssumption DEF Percents, Levels
<1>4. Effective(plan.ddc, plan.gamma) = plan.ddc * plan.gamma
  BY <1>2, <1>3 DEF Effective, None
<1>5. plan.ddc = 0 => floor = 0
  BY <1>1, <1>2
<1> QED
  BY <1>2, <1>4, <1>5 DEF plan, Percents, Levels

\* For any monitor: raw values are on its scale and keep the order of the
\* percentages, and with enough steps are read back as written.
THEOREM VcpIsFaithful ==
    ASSUME Maxima \subseteq Nat
    PROVE  VcpRoundTrip
<1> SUFFICES ASSUME NEW max \in Nat, NEW p \in Percents
             PROVE  /\ RawOf(p, max) \in 0 .. max
                    /\ max >= Full => PercentOf(RawOf(p, max), max) = p
                    /\ \A q \in 0 .. p : RawOf(q, max) <= RawOf(p, max)
  BY DEF VcpRoundTrip, Percents
<1> QED
  BY RawOfType, VcpReadsBack, RawOfMonotone

\* For any ramp size and peak: a gamma table is a ramp from black to the
\* multiplied peak, and a lower multiplier brightens no entry.
THEOREM GammaTablesAreRamps ==
    ASSUME Sizes \subseteq Nat \ {0, 1}, Peak \in Nat
    PROVE  GammaTableShape
BY TableShape DEF GammaTableShape, Levels
=============================================================================
