----------------------------- MODULE PolicyProofs -----------------------------
(***************************************************************************)
(* Facts about the operators of BrightnessPolicy, for every scale.         *)
(***************************************************************************)
EXTENDS BrightnessPolicy, TLAPS

-----------------------------------------------------------------------------
(* Integer division                                                        *)

\* A quotient is the number of whole divisors in the dividend.
LEMMA DivBounds ==
    ASSUME NEW a \in Int, NEW b \in Nat \ {0}
    PROVE  /\ a \div b \in Int
           /\ (a \div b) * b <= a
           /\ a < (a \div b) * b + b
BY SMT

\* Products respect the order of their factors.
LEMMA ProductMonotone ==
    ASSUME NEW a \in Nat, NEW b \in Nat, NEW c \in Nat, a <= b
    PROVE  a * c <= b * c
BY SMT

\* and a strict order is lost on neither side when the factor is positive.
LEMMA ProductCancels ==
    ASSUME NEW a \in Int, NEW b \in Int, NEW c \in Nat \ {0}, a * c < b * c
    PROVE  a < b
BY SMT

\* How to bound a quotient from both sides.
LEMMA QuotientBetween ==
    ASSUME NEW a \in Int, NEW b \in Nat \ {0}, NEW lo \in Int, NEW hi \in Int,
           lo * b <= a, a < (hi + 1) * b
    PROVE  a \div b \in lo .. hi
<1> DEFINE q == a \div b
<1>1. q \in Int /\ q * b <= a /\ a < q * b + b
  BY DivBounds
<1>2. q * b + b = (q + 1) * b
  BY <1>1, SMT
<1>3. lo * b < (q + 1) * b
  BY <1>1, <1>2, SMT
<1>4. lo < q + 1
  BY <1>1, <1>3, ProductCancels
<1>5. q * b < (hi + 1) * b
  BY <1>1, SMT
<1>6. q < hi + 1
  BY <1>1, <1>5, ProductCancels
<1> QED
  BY <1>1, <1>4, <1>6

\* Quotients by one divisor respect the order of the dividends.
LEMMA QuotientMonotone ==
    ASSUME NEW a \in Int, NEW b \in Int, NEW c \in Nat \ {0}, a <= b
    PROVE  a \div c <= b \div c
<1> DEFINE p == a \div c
           q == b \div c
<1>1. /\ p \in Int /\ p * c <= a
      /\ q \in Int /\ b < q * c + c
  BY DivBounds
<1>2. q * c + c = (q + 1) * c
  BY <1>1, SMT
<1> HIDE DEF p, q
<1>3. p * c < (q + 1) * c
  BY <1>1, <1>2, SMT
<1>4. p < q + 1
  BY <1>1, <1>3, ProductCancels
<1>5. p <= q
  BY <1>1, <1>4
<1> QED
  BY <1>5 DEF p, q

\* A factor common to dividend and divisor cancels.
LEMMA QuotientReduces ==
    ASSUME NEW a \in Int, NEW b \in Nat \ {0}, NEW n \in Nat \ {0}
    PROVE  (n * a) \div (n * b) = a \div b
<1> DEFINE q == a \div b
<1>1. q \in Int /\ q * b <= a /\ a < q * b + b
  BY DivBounds
<1> HIDE DEF q
<1>2. n * b \in Nat \ {0} /\ n * a \in Int
  BY SMT
<1>3. q * (n * b) = n * (q * b) /\ (q + 1) * (n * b) = n * (q * b + b)
  BY <1>1, SMT
<1>4. n * (q * b) <= n * a
  BY <1>1, SMT
<1>5. n * a < n * (q * b + b)
  BY <1>1, SMT
<1>6. (n * a) \div (n * b) \in q .. q
  <2> DEFINE x == n * a
             y == n * b
  <2>1. x \in Int /\ y \in Nat \ {0} /\ q * y <= x /\ x < (q + 1) * y
    BY <1>2, <1>3, <1>4, <1>5
  <2> HIDE DEF x, y
  <2>2. x \div y \in q .. q
    BY <1>1, <2>1, QuotientBetween
  <2> QED
    BY <2>2 DEF x, y
<1>7. (n * a) \div (n * b) = q
  BY <1>1, <1>6
<1> QED
  BY <1>7 DEF q

-----------------------------------------------------------------------------
(* Splitting a target                                                      *)

\* The percentage a target is quantized to: large enough, and the least such.
LEMMA CeilPercentBounds ==
    ASSUME NEW t \in Targets
    PROVE  /\ CeilPercent(t) \in Percents
           /\ CeilPercent(t) * Unit >= t
<1>1. Unit \in Nat \ {0} /\ Full \in Nat \ {0} /\ Full * Unit \in Nat
  BY ScaleAssumption
<1>2. t \in Nat /\ t <= Full * Unit
  BY <1>1 DEF Targets
<1>3. t + Unit - 1 \in Int /\ 0 * Unit <= t + Unit - 1
  BY <1>1, <1>2
<1>4. t + Unit - 1 < (Full + 1) * Unit
  <2>1. (Full + 1) * Unit = Full * Unit + Unit
    BY <1>1
  <2> QED
    BY <1>1, <1>2, <2>1
<1>5. CeilPercent(t) \in 0 .. Full
  BY <1>1, <1>3, <1>4, QuotientBetween DEF CeilPercent
<1>6. t + Unit - 1 < CeilPercent(t) * Unit + Unit
  BY <1>1, <1>3, DivBounds DEF CeilPercent
<1> QED
  BY <1>1, <1>2, <1>5, <1>6 DEF Percents

\* A rounded percentage stays on the scale.
LEMMA RoundPercentType ==
    ASSUME NEW t \in Targets
    PROVE  RoundPercent(t) \in Percents
<1>1. Unit \in Nat \ {0} /\ Full \in Nat \ {0} /\ Full * Unit \in Nat
  BY ScaleAssumption
<1>2. t \in Nat /\ t <= Full * Unit
  BY <1>1 DEF Targets
<1>3. 2 * Unit \in Nat \ {0} /\ 2 * t + Unit \in Int /\ 0 * (2 * Unit) <= 2 * t + Unit
  BY <1>1, <1>2
<1>4. (Full + 1) * (2 * Unit) = 2 * (Full * Unit) + 2 * Unit
  BY <1>1
<1>5. 2 * t + Unit < (Full + 1) * (2 * Unit)
  BY <1>1, <1>2, <1>4
<1> QED
  BY <1>1, <1>3, <1>5, QuotientBetween DEF RoundPercent, Percents

\* A target shared by no hardware is a gamma level.
LEMMA SoftwareLevelType ==
    ASSUME NEW t \in Targets
    PROVE  t \div Full \in Levels
<1>1. Unit \in Nat \ {0} /\ Full \in Nat \ {0} /\ Full * Unit \in Nat
  BY ScaleAssumption
<1>2. t \in Nat /\ t <= Full * Unit
  BY <1>1 DEF Targets
<1>3. (Unit + 1) * Full = Full * Unit + Full
  BY <1>1
<1>4. t < (Unit + 1) * Full /\ 0 * Full <= t
  BY <1>1, <1>2, <1>3
<1> QED
  BY <1>1, <1>2, <1>4, QuotientBetween DEF Levels

\* The two halves of a split target.
LEMMA SplitBounds ==
    ASSUME NEW t \in Targets, NEW floor \in Targets
    PROVE  LET h == HardwarePercent(t, floor)
               g == GammaRemainder(t, h)
           IN  /\ h \in Percents /\ g \in Levels
               /\ h * Unit >= t /\ h * Unit >= floor
               /\ h = 0 => t = 0
               /\ h # 0 => h * g <= t /\ t < h * g + h
<1> DEFINE h == HardwarePercent(t, floor)
           g == GammaRemainder(t, h)
<1>1. Unit \in Nat \ {0} /\ Full \in Nat \ {0} /\ Full * Unit \in Nat
  BY ScaleAssumption
<1>2. t \in Nat /\ t <= Full * Unit /\ floor \in Nat
  BY <1>1 DEF Targets
<1>3. h \in Percents /\ CeilPercent(t) <= h /\ CeilPercent(floor) <= h
      /\ CeilPercent(t) \in Nat /\ CeilPercent(floor) \in Nat
  BY <1>1, CeilPercentBounds DEF HardwarePercent, AtLeast, Percents
<1>4. h \in Nat
  BY <1>1, <1>3 DEF Percents
<1>5. h * Unit >= t
  <2>1. CeilPercent(t) * Unit <= h * Unit
    BY <1>1, <1>3, <1>4, ProductMonotone
  <2> QED
    BY <1>1, <1>2, <1>3, <1>4, <2>1, CeilPercentBounds
<1>6. h * Unit >= floor
  <2>1. CeilPercent(floor) * Unit <= h * Unit
    BY <1>1, <1>3, <1>4, ProductMonotone
  <2> QED
    BY <1>1, <1>2, <1>3, <1>4, <2>1, CeilPercentBounds
<1>7. CASE h = 0
  <2>1. g = Unit /\ t = 0
    BY <1>1, <1>2, <1>5, <1>7 DEF GammaRemainder
  <2> QED
    BY <1>1, <1>3, <1>5, <1>6, <1>7, <2>1 DEF Levels
<1>8. CASE h # 0
  <2> DEFINE q == t \div h
  <2>1. q \in Int /\ q * h <= t /\ t < q * h + h
    BY <1>2, <1>4, <1>8, DivBounds
  <2>2. (Unit + 1) * h = h * Unit + h
    BY <1>1, <1>4
  <2>3. 0 * h <= t /\ t < (Unit + 1) * h
    <3>1. t < h * Unit + h /\ h \in Nat /\ t \in Nat
      BY <1>1, <1>2, <1>4, <1>5, <1>8
    <3> HIDE DEF h
    <3> QED
      BY <2>2, <3>1
  <2>4. q \in 0 .. Unit
    BY <1>1, <1>2, <1>4, <1>8, <2>3, QuotientBetween
  <2>5. g = q
    BY <1>1, <1>8, <2>4 DEF GammaRemainder, AtMost
  <2>6. h * g <= t /\ t < h * g + h
    BY <1>4, <2>1, <2>5
  <2> QED
    BY <1>3, <1>5, <1>6, <1>8, <2>4, <2>5, <2>6 DEF Levels
<1> QED
  BY <1>7, <1>8

\* The plan for a display with both controls: on the scale, the hardware alone
\* undershoots neither the target nor the floor, and gamma brings the product
\* to the target up to the last gamma step.  With a level of zero the target
\* is zero.
THEOREM PlanNeverUndershoots ==
    ASSUME NEW t \in Targets, NEW floor \in Targets
    PROVE  LET plan == ForTarget(t, floor, TRUE, TRUE) IN
           /\ plan.ddc \in Percents /\ plan.gamma \in Levels
           /\ plan.ddc * Unit >= t /\ plan.ddc * Unit >= floor
           /\ plan.ddc = 0 => t = 0
           /\ plan.ddc # 0 => /\ plan.ddc * plan.gamma <= t
                              /\ t < plan.ddc * plan.gamma + plan.ddc
BY SplitBounds DEF ForTarget

\* A plan names values of the scales, and only the controls the display has.
LEMMA ForTargetType ==
    ASSUME NEW t \in Targets, NEW floor \in Targets,
           NEW hasDdc \in BOOLEAN, NEW hasGamma \in BOOLEAN
    PROVE  /\ ForTarget(t, floor, hasDdc, hasGamma)
                 \in [ddc : Percents \cup {None}, gamma : Levels \cup {None}]
           /\ ~hasDdc => ForTarget(t, floor, hasDdc, hasGamma).ddc = None
           /\ hasDdc /\ ~hasGamma => ForTarget(t, floor, hasDdc, hasGamma).gamma = None
<1>1. CASE hasDdc /\ hasGamma
  BY <1>1, SplitBounds DEF ForTarget
<1>2. CASE hasDdc /\ ~hasGamma
  BY <1>2, RoundPercentType DEF ForTarget
<1>3. CASE ~hasDdc
  BY <1>3, SoftwareLevelType DEF ForTarget
<1> QED
  BY <1>1, <1>2, <1>3

-----------------------------------------------------------------------------
(* Raw VCP values                                                          *)

\* Half the percentage scale, as RawOf rounds with it.
LEMMA HalfScale ==
    /\ Full \div 2 \in Nat
    /\ 2 * (Full \div 2) <= Full
    /\ Full < 2 * (Full \div 2) + 2
BY ScaleAssumption, SMT

\* A percentage becomes a raw value the monitor accepts.
LEMMA RawOfType ==
    ASSUME NEW p \in Percents, NEW max \in Nat
    PROVE  RawOf(p, max) \in 0 .. max
<1> DEFINE h == Full \div 2
<1>1. Full \in Nat \ {0} /\ p \in Nat /\ p <= Full
  BY ScaleAssumption DEF Percents
<1>2. h \in Nat /\ h < Full
  BY <1>1, HalfScale
<1>3. p * max \in Nat /\ p * max <= Full * max
  BY <1>1, ProductMonotone
<1>4. (max + 1) * Full = Full * max + Full
  BY <1>1
<1> HIDE DEF h
<1>5. 0 * Full <= p * max + h /\ p * max + h < (max + 1) * Full /\ p * max + h \in Int
  BY <1>1, <1>2, <1>3, <1>4
<1>6. (p * max + h) \div Full \in 0 .. max
  BY <1>1, <1>5, QuotientBetween
<1> QED
  BY <1>6 DEF RawOf, h

\* A higher percentage never becomes a lower raw value.
LEMMA RawOfMonotone ==
    ASSUME NEW p \in Percents, NEW q \in 0 .. p, NEW max \in Nat
    PROVE  RawOf(q, max) <= RawOf(p, max)
<1> DEFINE h == Full \div 2
<1>1. Full \in Nat \ {0} /\ p \in Nat /\ q \in Nat /\ q <= p
  BY ScaleAssumption DEF Percents
<1>2. h \in Nat
  BY HalfScale
<1>3. q * max <= p * max
  BY <1>1, ProductMonotone
<1> HIDE DEF h
<1>4. q * max + h \in Int /\ p * max + h \in Int /\ q * max + h <= p * max + h
  BY <1>1, <1>2, <1>3
<1>5. (q * max + h) \div Full <= (p * max + h) \div Full
  BY <1>1, <1>4, QuotientMonotone
<1> QED
  BY <1>5 DEF RawOf, h

\* Any raw value reads as a percentage.
LEMMA PercentOfType ==
    ASSUME NEW raw \in Nat, NEW max \in Nat
    PROVE  PercentOf(raw, max) \in Percents
<1> DEFINE h == max \div 2
           r == AtMost(raw, max)
<1>1. Full \in Nat \ {0}
  BY ScaleAssumption
<1>2. CASE max = 0
  BY <1>1, <1>2 DEF PercentOf, Percents
<1>3. CASE max # 0
  <2>1. h \in Nat /\ h < max /\ r \in Nat /\ r <= max
    BY <1>3 DEF AtMost
  <2>2. r * Full \in Nat /\ r * Full <= max * Full
    BY <1>1, <2>1, ProductMonotone
  <2>3. (Full + 1) * max = max * Full + max
    BY <1>1
  <2>4. (r * Full + h) \div max = PercentOf(raw, max)
    BY <1>3 DEF PercentOf
  <2> HIDE DEF h, r
  <2>5. 0 * max <= r * Full + h /\ r * Full + h < (Full + 1) * max /\ r * Full + h \in Int
    BY <1>1, <2>1, <2>2, <2>3
  <2>6. (r * Full + h) \div max \in 0 .. Full
    BY <1>1, <1>3, <2>5, QuotientBetween
  <2> QED
    BY <2>4, <2>6 DEF Percents
<1> QED
  BY <1>2, <1>3

\* On a monitor with at least as many steps as the percentage scale, what is
\* read back is what was written.  With fewer steps it is not, which is why a
\* refresh of such a monitor writes again.
THEOREM VcpReadsBack ==
    ASSUME NEW p \in Percents, NEW max \in Nat, max >= Full
    PROVE  PercentOf(RawOf(p, max), max) = p
<1> DEFINE h == Full \div 2
           m == max \div 2
           r == RawOf(p, max)
<1>1. Full \in Nat \ {0} /\ p \in Nat /\ p <= Full /\ max # 0
  BY ScaleAssumption DEF Percents
<1>2. h \in Nat /\ 2 * h <= Full /\ Full < 2 * h + 2
  BY HalfScale
<1>3. m \in Nat /\ 2 * m <= max /\ max < 2 * m + 2
  BY SMT
<1>4. r \in Nat /\ r <= max
  BY RawOfType
<1>5. p * max + h \in Int /\ r = (p * max + h) \div Full
  BY <1>1, <1>2 DEF RawOf
<1>6. r * Full <= p * max + h /\ p * max + h < r * Full + Full
  BY <1>1, <1>5, DivBounds
<1>7. PercentOf(r, max) = (r * Full + m) \div max
  BY <1>1, <1>4 DEF PercentOf, AtMost
<1>8. p * max \in Nat /\ r * Full \in Nat
  BY <1>1, <1>4
<1>9. (p + 1) * max = p * max + max
  BY <1>1
<1> HIDE DEF h, m, r
<1>10. p * max <= r * Full + m
  BY <1>1, <1>2, <1>3, <1>6, <1>8
<1>11. r * Full + m < p * max + max
  <2>1. CASE max > Full
    BY <1>1, <1>2, <1>3, <1>6, <1>8, <2>1
  <2>2. CASE max = Full
    <3>1. r = p
      <4>1. h < Full /\ (p + 1) * Full = p * Full + Full
        BY <1>1, <1>2
      <4>0. p * max = p * Full /\ p * Full \in Nat
        BY <1>1, <2>2
      <4>2. r * Full < (p + 1) * Full
        BY <1>1, <1>2, <1>6, <1>8, <4>0, <4>1
      <4>3. r < p + 1
        BY <1>1, <1>4, <4>2, ProductCancels
      <4>4. (r + 1) * Full = r * Full + Full
        BY <1>1, <1>4
      <4>5. p * Full < (r + 1) * Full
        BY <1>1, <1>2, <1>6, <1>8, <4>0, <4>4
      <4>6. p < r + 1
        BY <1>1, <1>4, <4>5, ProductCancels
      <4> QED
        BY <1>1, <1>4, <4>3, <4>6
    <3> QED
      BY <1>1, <1>3, <1>8, <2>2, <3>1
  <2> QED
    BY <1>1, <2>1, <2>2
<1>12. (r * Full + m) \div max \in p .. p
  <2> DEFINE a == r * Full + m
  <2>1. a \in Int /\ p \in Int /\ max \in Nat \ {0}
    BY <1>1, <1>3, <1>8
  <2>2. p * max <= a /\ a < (p + 1) * max
    BY <1>9, <1>10, <1>11
  <2> HIDE DEF a
  <2>3. a \div max \in p .. p
    BY <2>1, <2>2, QuotientBetween
  <2> QED
    BY <2>3 DEF a
<1>13. PercentOf(r, max) = p
  BY <1>1, <1>7, <1>12
<1> QED
  BY <1>13 DEF r

-----------------------------------------------------------------------------
(* Gamma tables                                                            *)

\* An entry of a gamma table as a quotient of n + 1 = size: the numerator is a
\* natural number that grows with the index and with the level.
LEMMA TableEntry ==
    ASSUME NEW size \in Nat \ {0, 1}, NEW level \in Levels, NEW Peak \in Nat,
           NEW i \in 0 .. size - 1
    PROVE  LET n == size - 1 IN
           /\ GammaTable(size, level, Peak)[i] =
                 (i * (2 * level * Peak) + n * Unit) \div (n * (2 * Unit))
           /\ n \in Nat \ {0} /\ level \in Nat /\ 2 * level * Peak \in Nat
           /\ n * Unit \in Nat \ {0} /\ n * (2 * Unit) \in Nat \ {0}
           /\ i * (2 * level * Peak) + n * Unit \in Int
<1> DEFINE n == size - 1
<1>1. Unit \in Nat \ {0} /\ level \in Nat /\ n \in Nat \ {0} /\ i \in Nat
  BY ScaleAssumption DEF Levels
<1>2. GammaTable(size, level, Peak)[i] =
         (2 * i * level * Peak + n * Unit) \div (2 * n * Unit)
  BY DEF GammaTable
<1> HIDE DEF n
<1>3. 2 * i * level * Peak = i * (2 * level * Peak) /\ 2 * n * Unit = n * (2 * Unit)
  BY <1>1, SMT
<1>4. 2 * level * Peak \in Nat /\ i * (2 * level * Peak) \in Nat
  BY <1>1, SMT
<1>5. n * Unit \in Nat \ {0} /\ n * (2 * Unit) \in Nat \ {0}
  BY <1>1, SMT
<1> QED
  BY <1>1, <1>2, <1>3, <1>4, <1>5 DEF n

\* A gamma table starts at black, ends at the rounded multiple of the peak,
\* never descends, and is nowhere above the table of a higher level.
THEOREM TableShape ==
    ASSUME NEW size \in Nat \ {0, 1}, NEW level \in Levels, NEW Peak \in Nat
    PROVE  /\ GammaTable(size, level, Peak)[0] = 0
           /\ GammaTable(size, level, Peak)[size - 1] =
                 (2 * level * Peak + Unit) \div (2 * Unit)
           /\ \A i \in 1 .. size - 1 :
                 GammaTable(size, level, Peak)[i - 1] <= GammaTable(size, level, Peak)[i]
           /\ \A dimmer \in 0 .. level, i \in 0 .. size - 1 :
                 GammaTable(size, dimmer, Peak)[i] <= GammaTable(size, level, Peak)[i]
<1> DEFINE n == size - 1
           c == 2 * level * Peak
           d == n * (2 * Unit)
<1>1. /\ Unit \in Nat \ {0} /\ n \in Nat \ {0} /\ level \in Nat /\ level <= Unit
      /\ 0 \in 0 .. size - 1 /\ n \in 0 .. size - 1
  BY ScaleAssumption DEF Levels
<1>2. /\ c \in Nat /\ d \in Nat \ {0} /\ n * Unit \in Nat \ {0}
      /\ \A i \in 0 .. size - 1 :
            /\ GammaTable(size, level, Peak)[i] = (i * c + n * Unit) \div d
            /\ i * c + n * Unit \in Int
  BY <1>1, TableEntry
<1>3. GammaTable(size, level, Peak)[0] = 0
  <2> DEFINE x == n * Unit
  <2>1. d = 2 * x
    BY <1>1, SMT
  <2>2. GammaTable(size, level, Peak)[0] = (0 * c + x) \div d
    BY <1>1, <1>2
  <2>3. x \in Nat \ {0}
    BY <1>2
  <2> HIDE DEF x, d, c
  <2>4. 0 * c + x = x
    BY <1>2, <2>3
  <2>5. x \div d \in 0 .. 0
    BY <1>2, <2>1, <2>3, QuotientBetween
  <2> QED
    BY <2>2, <2>4, <2>5
<1>4. GammaTable(size, level, Peak)[n] = (c + Unit) \div (2 * Unit)
  <2>1. GammaTable(size, level, Peak)[n] = (n * c + n * Unit) \div (n * (2 * Unit))
    BY <1>1, <1>2
  <2> HIDE DEF n, c, d
  <2>2. n * c + n * Unit = n * (c + Unit) /\ c + Unit \in Int /\ 2 * Unit \in Nat \ {0}
    BY <1>1, <1>2, SMT
  <2> QED
    BY <1>1, <2>1, <2>2, QuotientReduces
<1>5. ASSUME NEW i \in 1 .. size - 1
      PROVE  GammaTable(size, level, Peak)[i - 1] <= GammaTable(size, level, Peak)[i]
  <2>1. i - 1 \in 0 .. size - 1 /\ i \in 0 .. size - 1 /\ i - 1 \in Nat /\ i \in Nat /\ i - 1 <= i
    BY <1>1
  <2> HIDE DEF n, c, d
  <2>2. (i - 1) * c <= i * c
    BY <1>2, <2>1, ProductMonotone
  <2>3. (i - 1) * c + n * Unit <= i * c + n * Unit
    BY <1>2, <2>1, <2>2
  <2>4. ((i - 1) * c + n * Unit) \div d <= (i * c + n * Unit) \div d
    BY <1>2, <2>1, <2>3, QuotientMonotone
  <2> QED
    BY <1>2, <2>1, <2>4
<1>6. ASSUME NEW dimmer \in 0 .. level, NEW i \in 0 .. size - 1
      PROVE  GammaTable(size, dimmer, Peak)[i] <= GammaTable(size, level, Peak)[i]
  <2> DEFINE b == 2 * dimmer * Peak
  <2>1. dimmer \in Levels /\ dimmer \in Nat /\ dimmer <= level /\ i \in Nat
    BY <1>1 DEF Levels
  <2>2. /\ GammaTable(size, dimmer, Peak)[i] = (i * b + n * Unit) \div d
        /\ b \in Nat /\ i * b + n * Unit \in Int
    BY <2>1, TableEntry
  <2>3. b <= c
    <3>1. dimmer * (2 * Peak) <= level * (2 * Peak)
      BY <1>1, <2>1, ProductMonotone
    <3>2. dimmer * (2 * Peak) = b /\ level * (2 * Peak) = c
      BY <1>1, <2>1, SMT
    <3> QED
      BY <3>1, <3>2
  <2> HIDE DEF n, b, c, d
  <2>4. i * b <= i * c
    <3>1. b * i <= c * i
      BY <1>2, <2>1, <2>2, <2>3, ProductMonotone
    <3> QED
      BY <1>2, <2>1, <2>2, <3>1, SMT
  <2>5. i * b + n * Unit <= i * c + n * Unit
    BY <1>2, <2>1, <2>2, <2>4
  <2>6. (i * b + n * Unit) \div d <= (i * c + n * Unit) \div d
    BY <1>2, <2>2, <2>5, QuotientMonotone
  <2> QED
    BY <1>2, <2>2, <2>6
<1> QED
  BY <1>3, <1>4, <1>5, <1>6

-----------------------------------------------------------------------------
(* Adjustments                                                             *)

\* The adjustments between two settings are well formed.
LEMMA AdjustmentsType ==
    ASSUME NEW current, current.ddc \in Percents \cup {None},
           current.gamma \in Levels \cup {None},
           NEW plan, plan.ddc \in Percents \cup {None},
           plan.gamma \in Levels \cup {None},
           plan.ddc # None => current.ddc # None,
           plan.gamma # None => current.gamma # None
    PROVE  Adjustments(current, plan) \subseteq AllAdjustments
BY DEF Adjustments, Adjustment, AllAdjustments

\* Every adjustment has its place in the order.
LEMMA OrderKeyType ==
    ASSUME NEW a \in AllAdjustments
    PROVE  OrderKey(a) \in 0 .. 3
<1>1. Unit \in Nat \ {0} /\ Full \in Nat \ {0}
  BY ScaleAssumption
<1> QED
  BY <1>1 DEF AllAdjustments, OrderKey, Percents, Levels

\* A nonempty set of adjustments has a first and a last one.
LEMMA FirstIsMember ==
    ASSUME NEW S \in SUBSET AllAdjustments, S # {}
    PROVE  First(S) \in S /\ \A b \in S : OrderKey(First(S)) <= OrderKey(b)
<1>1. \A a \in S : OrderKey(a) \in 0 .. 3
  BY OrderKeyType
<1>2. \E a \in S : \A b \in S : OrderKey(a) <= OrderKey(b)
  <2>1. CASE \E a \in S : OrderKey(a) = 0
    BY <1>1, <2>1
  <2>2. CASE (\A a \in S : OrderKey(a) # 0) /\ \E a \in S : OrderKey(a) = 1
    BY <1>1, <2>2
  <2>3. CASE (\A a \in S : OrderKey(a) \notin {0, 1}) /\ \E a \in S : OrderKey(a) = 2
    BY <1>1, <2>3
  <2>4. CASE \A a \in S : OrderKey(a) \notin {0, 1, 2}
    BY <1>1, <2>4
  <2> QED
    BY <2>1, <2>2, <2>3, <2>4
<1> QED
  BY <1>2 DEF First

\* The same for the last one, from which a rollback starts.
LEMMA LastIsMember ==
    ASSUME NEW S \in SUBSET AllAdjustments, S # {}
    PROVE  Last(S) \in S /\ \A b \in S : OrderKey(Last(S)) >= OrderKey(b)
<1>1. \A a \in S : OrderKey(a) \in 0 .. 3
  BY OrderKeyType
<1>2. \E a \in S : \A b \in S : OrderKey(a) >= OrderKey(b)
  <2>1. CASE \E a \in S : OrderKey(a) = 3
    BY <1>1, <2>1
  <2>2. CASE (\A a \in S : OrderKey(a) # 3) /\ \E a \in S : OrderKey(a) = 2
    BY <1>1, <2>2
  <2>3. CASE (\A a \in S : OrderKey(a) \notin {3, 2}) /\ \E a \in S : OrderKey(a) = 1
    BY <1>1, <2>3
  <2>4. CASE \A a \in S : OrderKey(a) \notin {3, 2, 1}
    BY <1>1, <2>4
  <2> QED
    BY <2>1, <2>2, <2>3, <2>4
<1> QED
  BY <1>2 DEF Last

\* With the adjustments of a transition in effect up to some point of their
\* order, a display is no brighter than before all or after all of them.
LEMMA PartWayNeverBrighter ==
    ASSUME NEW current, current.ddc \in Percents \cup {None},
           current.gamma \in Levels \cup {None},
           NEW plan, plan.ddc \in Percents \cup {None},
           plan.gamma \in Levels \cup {None},
           \A k \in {"ddc", "gamma"} : plan[k] # None => current[k] # None,
           NEW E \in SUBSET Adjustments(current, plan),
           \A a \in E, b \in Adjustments(current, plan) \ E : OrderKey(a) <= OrderKey(b)
    PROVE  LET mid == [k \in {"ddc", "gamma"} |->
                         IF \E a \in E : a.control = k THEN plan[k] ELSE current[k]]
               target == [k \in {"ddc", "gamma"} |->
                            IF plan[k] # None THEN plan[k] ELSE current[k]]
           IN  Effective(mid.ddc, mid.gamma) <=
                 AtLeast(Effective(current.ddc, current.gamma),
                         Effective(target.ddc, target.gamma))
<1> DEFINE mid == [k \in {"ddc", "gamma"} |->
                     IF \E a \in E : a.control = k THEN plan[k] ELSE current[k]]
           target == [k \in {"ddc", "gamma"} |->
                        IF plan[k] # None THEN plan[k] ELSE current[k]]
           hardware(d) == IF d = None THEN Full ELSE d
           software(g) == IF g = None THEN Unit ELSE g
           adjust(k) == Adjustment(k, current[k], plan[k])
           differs(k) == plan[k] # None /\ plan[k] # current[k]
<1>1. /\ hardware(current.ddc) \in Nat /\ software(current.gamma) \in Nat
      /\ hardware(target.ddc) \in Nat /\ software(target.gamma) \in Nat
      /\ current.ddc # None => current.ddc \in Nat
      /\ current.gamma # None => current.gamma \in Nat
      /\ plan.ddc # None => plan.ddc \in Nat
      /\ plan.gamma # None => plan.gamma \in Nat
  BY ScaleAssumption DEF Percents, Levels
<1>2. ASSUME NEW k \in {"ddc", "gamma"}
      PROVE  /\ adjust(k) \in Adjustments(current, plan) <=> differs(k)
             /\ mid[k] # target[k] => differs(k) /\ adjust(k) \notin E
             /\ mid[k] # current[k] => adjust(k) \in E
  <2>1. adjust(k).control = k
    BY DEF Adjustment
  <2>2. adjust(k) \in Adjustments(current, plan) <=> differs(k)
    BY DEF Adjustments, Adjustment
  <2>3. \A a \in E : a.control = k => a = adjust(k)
    BY DEF Adjustments, Adjustment
  <2>4. mid[k] = IF adjust(k) \in E THEN plan[k] ELSE current[k]
    BY <2>1, <2>3
  <2> HIDE DEF adjust, mid
  <2> QED
    BY <2>2, <2>4
<1>3. CASE mid.ddc = current.ddc /\ mid.gamma = current.gamma
  BY <1>1, <1>3 DEF Effective, AtLeast
<1>4. CASE mid.ddc = target.ddc /\ mid.gamma = target.gamma
  BY <1>1, <1>4 DEF Effective, AtLeast
<1>5. CASE mid.ddc # current.ddc /\ mid.gamma # target.gamma
  <2>1. adjust("ddc") \in E /\ adjust("gamma") \in Adjustments(current, plan) \ E
    BY <1>2, <1>5
  <2>2. OrderKey(adjust("ddc")) <= OrderKey(adjust("gamma"))
    BY <2>1
  <2>3. plan.ddc # None /\ plan.gamma # None
    BY <1>2, <2>1
  <2>4. current.gamma <= plan.gamma
    BY <1>1, <2>2, <2>3 DEF OrderKey, Adjustment
  <2>5. mid.ddc = target.ddc /\ mid.gamma = current.gamma
    BY <1>2, <2>1
  <2>6. software(current.gamma) <= software(target.gamma)
    BY <2>3, <2>4
  <2>7. hardware(target.ddc) * software(current.gamma) <= hardware(target.ddc) * software(target.gamma)
    BY <1>1, <2>6, ProductMonotone
  <2> QED
    BY <1>1, <2>5, <2>7 DEF Effective, AtLeast
<1>6. CASE mid.gamma # current.gamma /\ mid.ddc # target.ddc
  <2>1. adjust("gamma") \in E /\ adjust("ddc") \in Adjustments(current, plan) \ E
    BY <1>2, <1>6
  <2>2. OrderKey(adjust("gamma")) <= OrderKey(adjust("ddc"))
    BY <2>1
  <2>3. plan.ddc # None /\ plan.gamma # None
    BY <1>2, <2>1
  <2>4. plan.gamma <= current.gamma
    BY <1>1, <2>2, <2>3 DEF OrderKey, Adjustment
  <2>5. mid.ddc = current.ddc /\ mid.gamma = target.gamma
    BY <1>2, <2>1
  <2>6. software(target.gamma) <= software(current.gamma)
    BY <2>3, <2>4
  <2>7. hardware(current.ddc) * software(target.gamma) <= hardware(current.ddc) * software(current.gamma)
    BY <1>1, <2>6, ProductMonotone
  <2> QED
    BY <1>1, <2>5, <2>7 DEF Effective, AtLeast
<1>7. \A k \in {"ddc", "gamma"} : mid[k] \in {current[k], target[k]}
  BY <1>2
<1> QED
  BY <1>3, <1>4, <1>5, <1>6, <1>7
=============================================================================
