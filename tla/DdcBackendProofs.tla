--------------------------- MODULE DdcBackendProofs ---------------------------
(***************************************************************************)
(* The DDC backend, for any connectors, buses and monitors, wherever the   *)
(* monitors move during a scan or a call: no two displays get one id, a    *)
(* call fails only when every handle of its display has, a scan of a room  *)
(* at rest identifies every monitor, and the whole is no more to the       *)
(* daemon than DdcControl.                                                 *)
(***************************************************************************)
EXTENDS DdcBackend, PolicyProofs, FiniteSetTheorems, SequenceTheorems

-----------------------------------------------------------------------------
(* Arithmetic of the handle order                                          *)

\* A remainder is smaller than its divisor, and a smaller number is its own
\* remainder, once around the ring as well.
LEMMA Remainders ==
    ASSUME NEW n \in Nat \ {0}
    PROVE  /\ \A x \in Nat : x % n \in 0 .. n - 1
           /\ \A x \in 0 .. n - 1 : x % n = x /\ (x + n) % n = x
BY SMT

\* Starting anywhere, n handles in ring order are all n.
LEMMA RingIsComplete ==
    ASSUME NEW n \in Nat \ {0}, NEW a \in 1 .. n, NEW i \in 1 .. n
    PROVE  \E t \in 0 .. n - 1 : ((a - 1 + t) % n) + 1 = i
<1> DEFINE t == IF i >= a THEN i - a ELSE i - a + n
<1>1. t \in 0 .. n - 1 /\ i - 1 \in 0 .. n - 1
  OBVIOUS
<1>2. a - 1 + t = i - 1 \/ a - 1 + t = (i - 1) + n
  OBVIOUS
<1> HIDE DEF t
<1>3. (a - 1 + t) % n = i - 1
  BY <1>1, <1>2, Remainders
<1>4. ((a - 1 + t) % n) + 1 = i
  BY <1>1, <1>3
<1> QED
  BY <1>1, <1>4

\* A set of buses has a least one.
LEMMA LeastBus ==
    ASSUME NEW T, T \subseteq Buses, T # {}
    PROVE  Minimum(T) \in T
<1>1. T \subseteq Nat
  BY TopologyAssumption
<1>2. PICK x \in T : \A y \in T : ~ (<<y, x>> \in OpToRel(<, Nat))
  BY <1>1, NatLessThanWellFounded, WFMin
<1>3. \A y \in T : ~ (y < x)
  BY <1>1, <1>2 DEF OpToRel
<1>4. \A y \in T : x <= y
  BY <1>1, <1>3
<1> QED
  BY <1>4 DEF Minimum

-----------------------------------------------------------------------------
(* Groups and their order                                                  *)

\* What a scan has read, one reading for each bus.
Readings == [bus : Buses, edid : Edids, connector : Connectors \cup {NoConnector},
             current : Nat, maximum : Nat \ {0}, of : Monitors \cup {Nobody}]
Scan(readings) ==
    /\ readings \subseteq Readings
    /\ \A j, k \in readings : j.bus = k.bus => j = k

\* A group is a part of the scan, and no larger than the set of buses.
LEMMA GroupFacts ==
    ASSUME NEW readings, Scan(readings), NEW group \in Groups(readings)
    PROVE  /\ group # {} /\ group \subseteq readings /\ Scan(group)
           /\ IsFiniteSet(group)
           /\ Cardinality(group) \in Nat \ {0} /\ Cardinality(group) <= Cardinality(Buses)
           /\ \A k \in group : group = {j \in readings : GroupKey(j) = GroupKey(k)}
<1>1. PICK k \in readings : group = {j \in readings : GroupKey(j) = GroupKey(k)}
  BY DEF Groups
<1>2. k \in group /\ group \subseteq readings /\ Scan(group)
  BY <1>1 DEF Scan
<1>3. IsFiniteSet(Buses)
  BY TopologyAssumption
<1> DEFINE f == [j \in group |-> j.bus]
<1>4. f \in Injection(group, Buses)
  <2>1. f \in [group -> Buses]
    BY <1>2 DEF Scan, Readings
  <2>2. IsInjective(f)
    BY <1>2 DEF Scan, IsInjective
  <2> QED
    BY <2>1, <2>2 DEF Injection
<1>5. IsFiniteSet(group) /\ Cardinality(group) <= Cardinality(Buses)
  BY <1>3, <1>4, FS_Injection
<1>6. Cardinality(group) \in Nat \ {0}
  BY <1>2, <1>5, FS_CardinalityType, FS_EmptySet
<1> QED
  BY <1>1, <1>2, <1>5, <1>6

\* Preference and bus number order the readings of a scan strictly and totally.
LEMMA BeforeIsOrder ==
    ASSUME NEW readings, Scan(readings), NEW j \in readings, NEW k \in readings, NEW l \in readings
    PROVE  /\ ~Before(j, j)
           /\ j # k => Before(j, k) \/ Before(k, j)
           /\ Before(j, k) /\ Before(k, l) => Before(j, l)
<1>1. \A c, b : Preference(c, b) \in 0 .. 3
  BY DEF Preference
<1>2. j.bus \in Nat /\ k.bus \in Nat /\ l.bus \in Nat
  BY TopologyAssumption DEF Scan, Readings
<1>3. j # k => j.bus # k.bus
  BY DEF Scan
<1> QED
  BY <1>1, <1>2, <1>3 DEF Before

\* So each position of a group's order is taken, by one reading.
LEMMA EveryRank ==
    ASSUME NEW group, Scan(group), IsFiniteSet(group)
    PROVE  /\ \A r \in 0 .. Cardinality(group) - 1 :
                 \E k \in group : Cardinality({j \in group : Before(j, k)}) = r
           /\ \A k \in group :
                 Cardinality({j \in group : Before(j, k)}) \in 0 .. Cardinality(group) - 1
           /\ \A k, l \in group :
                 Cardinality({j \in group : Before(j, k)}) = Cardinality({j \in group : Before(j, l)})
                     => k = l
<1> DEFINE n == Cardinality(group)
           Below(k) == {j \in group : Before(j, k)}
           rank == [k \in group |-> Cardinality(Below(k))]
<1>1. n \in Nat /\ IsFiniteSet(0 .. n - 1) /\ Cardinality(0 .. n - 1) = n
  <2>1. n \in Nat
    BY FS_CardinalityType
  <2> HIDE DEF n
  <2> QED
    BY <2>1, FS_Interval
<1>2. \A k \in group : IsFiniteSet(Below(k)) /\ Cardinality(Below(k)) \in Nat
  BY FS_Subset, FS_CardinalityType
<1>3. ASSUME NEW k \in group PROVE Cardinality(Below(k)) \in 0 .. n - 1
  <2>1. IsFiniteSet(group \ {k}) /\ Cardinality(group \ {k}) = n - 1
    BY FS_RemoveElement
  <2>2. Below(k) \in SUBSET (group \ {k})
    BY BeforeIsOrder
  <2>3. Cardinality(Below(k)) <= n - 1
    BY <2>1, <2>2, FS_Subset
  <2> HIDE DEF n, Below
  <2> QED
    BY <1>1, <1>2, <2>3
<1>4. ASSUME NEW j \in group, NEW k \in group, Before(j, k)
      PROVE  Cardinality(Below(j)) < Cardinality(Below(k))
  <2>1. j \in Below(k) /\ j \notin Below(j)
    BY <1>4, BeforeIsOrder
  <2>2. \A i \in group : Before(i, j) => Before(i, k)
    BY <1>4, BeforeIsOrder
  <2>3. Below(j) \in SUBSET (Below(k) \ {j})
    BY <2>1, <2>2
  <2>4. IsFiniteSet(Below(k) \ {j}) /\ Cardinality(Below(k) \ {j}) = Cardinality(Below(k)) - 1
    BY <1>2, <2>1, FS_RemoveElement
  <2>5. Cardinality(Below(j)) <= Cardinality(Below(k)) - 1
    BY <2>3, <2>4, FS_Subset
  <2> QED
    BY <1>2, <2>5
<1> HIDE DEF Below
<1>5. rank \in Injection(group, 0 .. n - 1)
  <2>1. rank \in [group -> 0 .. n - 1]
    BY <1>3
  <2>2. \A j, k \in group : rank[j] = rank[k] => j = k
    BY <1>2, <1>4, BeforeIsOrder
  <2> QED
    BY <2>1, <2>2 DEF Injection, IsInjective
<1>6. rank \in Surjection(group, 0 .. n - 1)
  BY <1>1, <1>5, FS_Injection
<1>7. \A r \in 0 .. n - 1 : \E k \in group : rank[k] = r
  BY <1>6 DEF Surjection
<1>8. \A k, l \in group : rank[k] = rank[l] => k = l
  BY <1>5 DEF Injection, IsInjective
<1> QED
  BY <1>3, <1>7, <1>8 DEF Below

\* The ordered handles of a group are all handles of the group, and its primary
\* is the first of its readings.
LEMMA OrderedFacts ==
    ASSUME NEW group, Scan(group), IsFiniteSet(group), group # {}
    PROVE  /\ \A i \in 1 .. Cardinality(group) : Ordered(group)[i] \in group
           /\ \A k \in group : \E i \in 1 .. Cardinality(group) : Ordered(group)[i] = k
           /\ Primary(group) \in group
           /\ \A j \in group : j = Primary(group) <=> \A k \in group \ {j} : Before(j, k)
<1>1. ASSUME NEW i \in 1 .. Cardinality(group) PROVE Ordered(group)[i] \in group
  <2>1. i - 1 \in 0 .. Cardinality(group) - 1
    BY FS_CardinalityType
  <2>2. \E k \in group : Cardinality({j \in group : Before(j, k)}) = i - 1
    BY <2>1, EveryRank
  <2> QED
    BY <2>2 DEF Ordered
<1>2. \E j \in group : \A k \in group \ {j} : Before(j, k)
  <2>1. 0 \in 0 .. Cardinality(group) - 1
    BY FS_CardinalityType, FS_EmptySet
  <2>2. PICK k \in group : Cardinality({j \in group : Before(j, k)}) = 0
    BY <2>1, EveryRank
  <2>3. {j \in group : Before(j, k)} = {}
    <3>1. IsFiniteSet({j \in group : Before(j, k)})
      BY FS_Subset
    <3> QED
      BY <2>2, <3>1, FS_EmptySet
  <2>4. \A j \in group \ {k} : Before(k, j)
    BY <2>3, BeforeIsOrder
  <2> QED
    BY <2>4
<1>3. Primary(group) \in group /\ \A k \in group \ {Primary(group)} : Before(Primary(group), k)
  BY <1>2 DEF Primary
<1>4. ASSUME NEW j \in group, \A k \in group \ {j} : Before(j, k) PROVE j = Primary(group)
  BY <1>3, <1>4, BeforeIsOrder
<1>5. ASSUME NEW k \in group
      PROVE  \E i \in 1 .. Cardinality(group) : Ordered(group)[i] = k
  <2> DEFINE r == Cardinality({j \in group : Before(j, k)})
  <2>1. r \in 0 .. Cardinality(group) - 1 /\ Cardinality(group) \in Nat
    BY EveryRank, FS_CardinalityType
  <2> DEFINE l == CHOOSE l \in group : Cardinality({j \in group : Before(j, l)}) = r
  <2>2. l \in group /\ Cardinality({j \in group : Before(j, l)}) = r
    BY <1>5
  <2>3. l = k
    BY <2>2, EveryRank
  <2> HIDE DEF l, r
  <2>4. r + 1 \in 1 .. Cardinality(group) /\ (r + 1) - 1 = r
    BY <2>1
  <2>5. Ordered(group)[r + 1] = l
    BY <2>4 DEF Ordered, l
  <2> QED
    BY <2>3, <2>4, <2>5
<1> QED
  BY <1>1, <1>3, <1>4, <1>5

\* Two groups of one scan never get one id: with the same EDID each is the
\* other's twin, and what is appended tells connectors and buses apart.
LEMMA IdsDiffer ==
    ASSUME NEW readings, Scan(readings),
           NEW g \in Groups(readings), NEW h \in Groups(readings),
           IdOf(g, Groups(readings)) = IdOf(h, Groups(readings))
    PROVE  g = h
<1> SUFFICES ASSUME g # h PROVE FALSE
  OBVIOUS
<1> DEFINE j == Primary(g)  k == Primary(h)
<1>1. j \in g /\ k \in h
  BY GroupFacts, OrderedFacts
<1>2. g = {l \in readings : GroupKey(l) = GroupKey(j)} /\ h = {l \in readings : GroupKey(l) = GroupKey(k)}
  BY <1>1, GroupFacts
<1> HIDE DEF j, k
<1>3. IdOf(g, Groups(readings)).edid = j.edid /\ IdOf(h, Groups(readings)).edid = k.edid
  BY DEF IdOf, Id, j, k
<1>4. j.edid = k.edid
  BY <1>3
<1>5. /\ IdOf(g, Groups(readings)).suffix =
            IF j.connector # NoConnector THEN <<"at", j.connector>> ELSE <<"bus", j.bus>>
      /\ IdOf(h, Groups(readings)).suffix =
            IF k.connector # NoConnector THEN <<"at", k.connector>> ELSE <<"bus", k.bus>>
  BY <1>4 DEF IdOf, Id, j, k
<1>6. j.connector = k.connector /\ (j.connector = NoConnector => j.bus = k.bus)
  BY <1>5
<1>7. GroupKey(j) = GroupKey(k)
  BY <1>4, <1>6 DEF GroupKey
<1> QED
  BY <1>2, <1>7

-----------------------------------------------------------------------------
(* The invariant                                                           *)

\* A display has a handle that is active, and a maximum for each handle.
Maxima == UNION {[B -> Nat \ {0}] : B \in SUBSET Buses}
WellFormed(d) ==
    /\ d \in [id : Ids, connector : Connectors \cup {NoConnector}, handles : Seq(Buses),
              maxima : Maxima, active : Nat, current : Nat]
    /\ Len(d.handles) <= Cardinality(Buses)
    /\ d.active \in 1 .. Len(d.handles)
    /\ \A i \in 1 .. Len(d.handles) : d.handles[i] \in DOMAIN d.maxima

RoomInv ==
    /\ edidOf \in [Monitors -> Edids]
    /\ at \in [Monitors -> Sockets \cup {Nowhere}]
    /\ vcp \in [Monitors -> Nat] /\ \A m \in Monitors : vcp[m] <= VcpMax[m]

\* Each bus is read at most once in a scan, and only when it has an EDID.
ScanInv ==
    /\ pc \in {"idle", "probe", "read", "call"} /\ clean \in BOOLEAN
    /\ drm \in [Connectors -> Scanned]
    /\ edids \in [Buses -> Edids \cup {NoEdid}]
    /\ todo \subseteq Buses
    /\ pc = "read" => \A b \in todo : edids[b] \in Edids
    /\ Scan(found) /\ \A k \in found : k.bus \notin todo
    /\ origin \in [Buses -> Monitors \cup {Nobody}]

DisplayInv == NoIdNeedsCounter /\ \A d \in displays : WellFormed(d)

\* The handle a call tries next, as a position in the ring.
Nth(d, t) == d.handles[((d.active - 1 + t) % Len(d.handles)) + 1]

\* A call is at a display that is listed, and has asked the handles before the
\* one it is at.
CallInv ==
    /\ call \in Calls
    /\ pc = "call" =>
          /\ call # NoCall
          /\ \E d \in displays : d.id = call.id
          /\ call.tried < Len(Called.handles)
          /\ call.asked = {Nth(Called, t) : t \in 0 .. call.tried - 1}

IInv == RoomInv /\ ScanInv /\ DisplayInv /\ CallInv

\* A table of maxima stays one when an entry changes.
LEMMA MaximaFacts ==
    ASSUME NEW m \in Maxima
    PROVE  /\ \A b \in DOMAIN m : m[b] \in Nat \ {0}
           /\ \A b, v : v \in Nat \ {0} =>
                 [m EXCEPT ![b] = v] \in Maxima /\ DOMAIN [m EXCEPT ![b] = v] = DOMAIN m
<1>1. PICK B \in SUBSET Buses : m \in [B -> Nat \ {0}]
  BY DEF Maxima
<1>2. \A b, v : v \in Nat \ {0} => [m EXCEPT ![b] = v] \in [B -> Nat \ {0}]
  BY <1>1
<1> QED
  BY <1>1, <1>2 DEF Maxima

\* The invariant implies the types.
LEMMA IInvType == IInv => TypeOK
<1> SUFFICES ASSUME IInv PROVE TypeOK
  OBVIOUS
<1>1. \A m \in Monitors : vcp[m] \in 0 .. VcpMax[m]
  BY BackendAssumption DEF IInv, RoomInv
<1>2. ASSUME NEW d \in displays
      PROVE  /\ d.id \in Ids /\ d.connector \in Connectors \cup {NoConnector}
             /\ d.active \in 1 .. Len(d.handles)
             /\ \A i \in 1 .. Len(d.handles) : d.maxima[d.handles[i]] \in Nat \ {0}
             /\ d.current \in Nat
  <2>1. WellFormed(d)
    BY <1>2 DEF IInv, DisplayInv
  <2>2. d.maxima \in Maxima /\ \A i \in 1 .. Len(d.handles) : d.handles[i] \in DOMAIN d.maxima
    BY <2>1 DEF WellFormed
  <2>3. \A i \in 1 .. Len(d.handles) : d.maxima[d.handles[i]] \in Nat \ {0}
    BY <2>2, MaximaFacts
  <2> QED
    BY <2>1, <2>3 DEF WellFormed
<1> QED
  BY <1>1, <1>2 DEF IInv, RoomInv, ScanInv, CallInv, TypeOK

\* Every display of a scan is well formed.
LEMMA ScannedWellFormed ==
    ASSUME NEW readings, Scan(readings), NEW group \in Groups(readings)
    PROVE  WellFormed(Display(group, Groups(readings)))
<1> DEFINE d == Display(group, Groups(readings))
           n == Cardinality(group)
           k == Primary(group)
           B == {j.bus : j \in group}
<1>1. /\ group # {} /\ IsFiniteSet(group) /\ Scan(group)
      /\ n \in Nat \ {0} /\ n <= Cardinality(Buses)
  BY GroupFacts
<1>2. k \in group /\ \A i \in 1 .. n : Ordered(group)[i] \in group
  BY <1>1, OrderedFacts
<1>3. \A j \in group : j \in Readings
  BY <1>1 DEF Scan
<1> HIDE DEF n, k
<1>4. /\ d.connector = k.connector /\ d.active = 1 /\ d.current = k.current
      /\ d.id = IdOf(group, Groups(readings))
      /\ d.handles = [i \in 1 .. n |-> Ordered(group)[i].bus]
      /\ d.maxima = [b \in B |-> (CHOOSE j \in group : j.bus = b).maximum]
  BY DEF Display, n, k
<1>4b. d = [id |-> d.id, connector |-> d.connector, handles |-> d.handles,
            maxima |-> d.maxima, active |-> d.active, current |-> d.current]
  BY DEF Display
<1>5. d.id \in Ids
  <2>1. k.edid \in Edids /\ k.connector \in Connectors \cup {NoConnector} /\ k.bus \in Buses
    BY <1>2, <1>3 DEF Readings
  <2>2. IdOf(group, Groups(readings)).edid = k.edid
    BY DEF IdOf, Id, k
  <2>3. \E suffix \in {Plain, <<"at", k.connector>>, <<"bus", k.bus>>} :
           /\ suffix = <<"at", k.connector>> => k.connector # NoConnector
           /\ IdOf(group, Groups(readings)) = Id(k.edid, suffix)
    BY DEF IdOf, k, Plain
  <2> QED
    BY <1>4, <2>1, <2>3 DEF Id, Ids
<1>6. d.handles \in Seq(Buses) /\ Len(d.handles) = n
  <2>1. d.handles \in [1 .. n -> Buses]
    BY <1>2, <1>3, <1>4 DEF Readings
  <2>2. d.handles \in Seq(Buses)
    BY <1>1, <2>1, SeqDef
  <2> QED
    BY <1>1, <2>1, <2>2, LenProperties
<1>7. d.maxima \in [B -> Nat \ {0}] /\ B \in SUBSET Buses
  <2>1. \A b \in B : (CHOOSE j \in group : j.bus = b) \in group
    OBVIOUS
  <2> QED
    BY <1>3, <1>4, <2>1 DEF Readings
<1>8. \A i \in 1 .. n : d.handles[i] \in B
  BY <1>2, <1>4
<1>9. d.connector \in Connectors \cup {NoConnector} /\ d.current \in Nat
  BY <1>2, <1>3, <1>4 DEF Readings
<1> HIDE DEF d, B
<1>10. DOMAIN d.maxima = B /\ d.maxima \in Maxima
  BY <1>7 DEF Maxima
<1>11. d \in [id : Ids, connector : Connectors \cup {NoConnector}, handles : Seq(Buses),
              maxima : Maxima, active : Nat, current : Nat]
  <2>1. d.active \in Nat
    BY <1>4
  <2> QED
    BY <1>5, <1>6, <1>9, <1>10, <1>4b, <2>1
<1>12. WellFormed(d)
  BY <1>1, <1>4, <1>6, <1>8, <1>10, <1>11 DEF WellFormed
<1> QED
  BY <1>12 DEF d

\* What a scan finds keeps the promises about displays.
LEMMA ScannedDisplays ==
    ASSUME Scan(found), displays' = DisplaysOf(found)
    PROVE  DisplayInv'
<1>1. \A d \in displays' : \E g \in Groups(found) : d = Display(g, Groups(found))
  BY DEF DisplaysOf
<1>2. \A g \in Groups(found) : Display(g, Groups(found)).id = IdOf(g, Groups(found))
  BY DEF Display
<1>3. NoIdNeedsCounter'
  BY <1>1, <1>2, IdsDiffer DEF NoIdNeedsCounter
<1>4. \A d \in displays' : WellFormed(d)
  BY <1>1, ScannedWellFormed
<1> QED
  BY <1>3, <1>4 DEF DisplayInv

\* The position a call is at in the ring is that of a handle.
LEMMA IndexFacts ==
    ASSUME NEW d, WellFormed(d), call.tried \in Nat
    PROVE  /\ Len(d.handles) \in Nat \ {0}
           /\ Index(d) \in 1 .. Len(d.handles)
           /\ d.handles[Index(d)] \in Buses /\ d.handles[Index(d)] \in DOMAIN d.maxima
<1> DEFINE n == Len(d.handles)
           x == d.active - 1 + call.tried
<1>1. d.handles \in Seq(Buses) /\ d.active \in 1 .. n
  BY DEF WellFormed
<1>2. n \in Nat /\ d.handles \in [1 .. n -> Buses]
  BY <1>1, LenProperties
<1>3. \A i \in 1 .. n : d.handles[i] \in DOMAIN d.maxima
  BY DEF WellFormed
<1> HIDE DEF n
<1>4. n \in Nat \ {0} /\ x \in Nat
  BY <1>1, <1>2
<1> HIDE DEF x
<1>5. x % n \in 0 .. n - 1
  BY <1>4, Remainders
<1>6. (x % n) + 1 \in 1 .. n
  BY <1>4, <1>5
<1>7. Index(d) = (x % n) + 1
  BY DEF Index, x, n
<1> QED
  BY <1>2, <1>3, <1>4, <1>6, <1>7 DEF n

\* The display a call is at, and the handle it tries.
LEMMA CalledFacts ==
    ASSUME IInv, pc = "call"
    PROVE  /\ Called \in displays /\ Called.id = call.id /\ WellFormed(Called)
           /\ Len(Called.handles) \in Nat \ {0}
           /\ Bus = Nth(Called, call.tried)
           /\ Bus \in Buses /\ Bus \in DOMAIN Called.maxima /\ Called.maxima[Bus] \in Nat \ {0}
           /\ call.kind \in {"get", "set"} /\ call.tried \in Nat /\ call.attempt \in 1 .. Attempts
           /\ call.asked \subseteq Buses /\ call.id \in Ids /\ call.percent \in Percents
           /\ Raw \in Nat
<1>1. Called \in displays /\ Called.id = call.id
  BY DEF IInv, CallInv, Called
<1>2. WellFormed(Called)
  BY <1>1 DEF IInv, DisplayInv
<1>3. /\ call.kind \in {"get", "set"} /\ call.tried \in Nat /\ call.attempt \in 1 .. Attempts
      /\ call.asked \subseteq Buses /\ call.id \in Ids /\ call.percent \in Percents
  BY DEF IInv, CallInv, Calls
<1>4. /\ Len(Called.handles) \in Nat \ {0}
      /\ Called.handles[Index(Called)] \in Buses
      /\ Called.handles[Index(Called)] \in DOMAIN Called.maxima
  BY <1>2, <1>3, IndexFacts
<1>5. Bus = Called.handles[Index(Called)] /\ Bus = Nth(Called, call.tried)
  BY DEF Bus, Nth, Index
<1>6. Called.maxima \in Maxima
  BY <1>2 DEF WellFormed
<1>7. Bus \in Buses /\ Bus \in DOMAIN Called.maxima /\ Called.maxima[Bus] \in Nat \ {0}
  BY <1>4, <1>5, <1>6, MaximaFacts
<1>8. Raw \in Nat
  BY <1>3, <1>7, RawOfType DEF Raw
<1> QED
  BY <1>1, <1>2, <1>3, <1>4, <1>5, <1>7, <1>8

-----------------------------------------------------------------------------
(* What the steps keep                                                     *)

\* A call that is not under way has no promise to keep.
LEMMA NoCallInv == (pc' # "call" /\ call' \in Calls) => CallInv'
BY DEF CallInv

\* The next attempt is at the same handle; the next handle is asked after all
\* before it have been.
LEMMA NextAttemptKeeps ==
    ASSUME IInv, pc = "call", NextAttempt \/ NextHandle
    PROVE  DisplayInv' /\ CallInv'
<1>1. DisplayInv'
  BY DEF NextAttempt, NextHandle, IInv, DisplayInv, NoIdNeedsCounter
<1>2. /\ Called \in displays /\ Called.id = call.id /\ WellFormed(Called)
      /\ Bus = Nth(Called, call.tried) /\ Bus \in Buses
      /\ call.kind \in {"get", "set"} /\ call.tried \in Nat /\ call.attempt \in 1 .. Attempts
      /\ call.asked \subseteq Buses /\ call.id \in Ids /\ call.percent \in Percents
  BY CalledFacts
<1>3. /\ call \in Calls /\ call # NoCall /\ call.tried < Len(Called.handles)
      /\ call.asked = {Nth(Called, t) : t \in 0 .. call.tried - 1}
  BY DEF IInv, CallInv
<1>4. Attempts \in Nat
  BY BackendAssumption
<1>5. CASE call' = [call EXCEPT !.attempt = @ + 1] /\ call.attempt < Attempts
              /\ UNCHANGED <<displays, pc>>
  <2>1. /\ call'.kind = call.kind /\ call'.id = call.id /\ call'.percent = call.percent
        /\ call'.tried = call.tried /\ call'.attempt = call.attempt + 1 /\ call'.asked = call.asked
        /\ call' \in Calls /\ call' # NoCall
    BY <1>2, <1>3, <1>4, <1>5 DEF Calls, NoCall
  <2>2. Called' = Called
    BY <1>5, <2>1 DEF Called
  <2> HIDE DEF Called
  <2> QED
    BY <1>1, <1>2, <1>3, <1>5, <2>1, <2>2 DEF CallInv, Nth
<1>6. CASE /\ call.tried + 1 < Len(Called.handles)
           /\ call' = [call EXCEPT !.tried = @ + 1, !.attempt = 1, !.asked = @ \cup {Bus}]
           /\ UNCHANGED <<displays, pc>>
  <2>1. call.tried + 1 \in 0 .. Cardinality(Buses) - 1
    <3>1. Len(Called.handles) <= Cardinality(Buses) /\ Len(Called.handles) \in Nat
      BY <1>2, CalledFacts DEF WellFormed
    <3>2. Cardinality(Buses) \in Nat
      BY TopologyAssumption, FS_CardinalityType
    <3> QED
      BY <1>2, <1>6, <3>1, <3>2
  <2>2. 1 \in 1 .. Attempts
    BY BackendAssumption
  <2>3. /\ call'.kind = call.kind /\ call'.id = call.id /\ call'.percent = call.percent
        /\ call'.tried = call.tried + 1 /\ call'.attempt = 1 /\ call'.asked = call.asked \cup {Bus}
        /\ call' \in Calls /\ call' # NoCall
    BY <1>2, <1>3, <1>6, <2>1, <2>2 DEF Calls, NoCall
  <2>4. Called' = Called
    BY <1>6, <2>3 DEF Called
  <2>5. call'.asked = {Nth(Called, t) : t \in 0 .. call'.tried - 1}
    <3>1. 0 .. call'.tried - 1 = (0 .. call.tried - 1) \cup {call.tried}
      BY <1>2, <2>3
    <3> HIDE DEF Bus, Called
    <3> QED
      BY <1>2, <1>3, <2>3, <3>1
  <2> HIDE DEF Called
  <2> QED
    BY <1>1, <1>2, <1>6, <2>3, <2>4, <2>5 DEF CallInv, Nth
<1>7. CASE Finish
  BY <1>1, <1>7, NoCallInv DEF Finish, Calls
<1> QED
  BY <1>5, <1>6, <1>7 DEF NextAttempt, NextHandle

\* An answer changes the display it is from and not its id.
LEMMA AnsweredKeeps ==
    ASSUME IInv, pc = "call", NEW current \in Nat, NEW maximum \in Nat \ {0},
           Answered(current, maximum)
    PROVE  DisplayInv' /\ CallInv'
<1> DEFINE d == Called
           e == [d EXCEPT !.active = Index(d), !.current = current,
                          !.maxima = [@ EXCEPT ![Bus] = maximum]]
<1>1. /\ d \in displays /\ WellFormed(d) /\ Len(d.handles) \in Nat \ {0}
      /\ call.tried \in Nat
  BY CalledFacts
<1>2. displays' = (displays \ {d}) \cup {e} /\ Finish
  BY DEF Answered
<1> HIDE DEF d
<1>3. Index(d) \in 1 .. Len(d.handles)
  BY <1>1, IndexFacts
<1>4. /\ d.maxima \in Maxima /\ Len(d.handles) <= Cardinality(Buses)
      /\ \A i \in 1 .. Len(d.handles) : d.handles[i] \in DOMAIN d.maxima
  BY <1>1 DEF WellFormed
<1> DEFINE table == [d.maxima EXCEPT ![Bus] = maximum]
<1>5. table \in Maxima /\ DOMAIN table = DOMAIN d.maxima
  BY <1>4, MaximaFacts
<1> HIDE DEF table
<1>6. /\ e \in [id : Ids, connector : Connectors \cup {NoConnector}, handles : Seq(Buses),
                maxima : Maxima, active : Nat, current : Nat]
      /\ e.id = d.id /\ e.handles = d.handles /\ e.active = Index(d) /\ e.maxima = table
  <2>1. d \in [id : Ids, connector : Connectors \cup {NoConnector}, handles : Seq(Buses),
               maxima : Maxima, active : Nat, current : Nat]
    BY <1>1 DEF WellFormed
  <2>2. e = [d EXCEPT !.active = Index(d), !.current = current, !.maxima = table]
    BY DEF table
  <2>3. Index(d) \in Nat
    BY <1>1, <1>3
  <2> HIDE DEF e
  <2> QED
    BY <1>5, <2>1, <2>2, <2>3
<1> HIDE DEF e
<1>10. WellFormed(e)
  BY <1>3, <1>4, <1>5, <1>6 DEF WellFormed
<1>7. \A x \in displays : WellFormed(x)
  BY DEF IInv, DisplayInv
<1>8. NoIdNeedsCounter'
  BY <1>1, <1>2, <1>6 DEF IInv, DisplayInv, NoIdNeedsCounter
<1>9. CallInv'
  BY <1>2, NoCallInv DEF Finish, Calls
<1> QED
  BY <1>2, <1>7, <1>8, <1>9, <1>10 DEF DisplayInv

-----------------------------------------------------------------------------
(* Every step                                                              *)

\* Before the first scan nothing is listed and nothing goes on.
LEMMA IInvInit == Init => IInv
<1> SUFFICES ASSUME Init PROVE IInv
  OBVIOUS
<1>1. UNION {0 .. VcpMax[m] : m \in Monitors} \subseteq Nat
  BY BackendAssumption
<1>2. RoomInv
  BY <1>1 DEF Init, RoomInv
<1>3. ScanInv
  BY DEF Init, ScanInv, Scan, Scanned
<1> QED
  BY <1>2, <1>3 DEF Init, IInv, DisplayInv, NoIdNeedsCounter, CallInv, Calls

\* The monitors in the room keep their kind, and no write takes one off its
\* scale.
LEMMA RoomStep == IInv /\ [Next]_vars => RoomInv'
<1> SUFFICES ASSUME IInv, [Next]_vars PROVE RoomInv'
  OBVIOUS
<1> USE DEF IInv, RoomInv
<1>1. CASE UNCHANGED roomVars
  BY <1>1 DEF roomVars
<1>2. CASE \E m \in Monitors : Takes(m) /\ UNCHANGED <<edidOf, at>> /\ pc = "call"
  <2>1. PICK m \in Monitors : Takes(m) /\ UNCHANGED <<edidOf, at>> /\ pc = "call"
    BY <1>2
  <2>2. Raw \in Nat
    BY <2>1, CalledFacts
  <2>3. AtMost(Raw, VcpMax[m]) \in Nat /\ AtMost(Raw, VcpMax[m]) <= VcpMax[m]
    BY <2>2, BackendAssumption DEF AtMost
  <2> QED
    BY <2>1, <2>3 DEF Takes
<1>3. CASE SetSucceeds
  BY <1>2, <1>3 DEF SetSucceeds, Calling, Answered, Reached, At
<1>4. CASE GetSucceeds \/ GetZero
  BY <1>1, <1>4 DEF GetSucceeds, GetZero, Answered, NextHandle, roomVars
<1>5. CASE AttemptFails
  <2>1. UNCHANGED <<edidOf, at>> /\ pc = "call"
    BY <1>5 DEF AttemptFails, NextAttempt, NextHandle
  <2>2. UNCHANGED vcp \/ \E m \in Monitors : Takes(m)
    BY <1>5 DEF AttemptFails, Reached, At
  <2> QED
    BY <1>1, <1>2, <2>1, <2>2 DEF roomVars
<1>6. CASE Begin \/ Probe \/ ReadVcp \/ ReadNothing \/ EndScan
  BY <1>1, <1>6 DEF Begin, BeginScan, BeginCall, Probe, ReadVcp, ReadNothing, EndScan
<1>7. CASE Environment
  BY <1>7 DEF Environment, Plug, Unplug, Turn, Forget
<1>8. CASE UNCHANGED vars
  BY <1>1, <1>8 DEF vars, roomVars
<1> QED
  BY <1>3, <1>4, <1>5, <1>6, <1>7, <1>8 DEF Next, Work

\* A connector that is associated exists.
LEMMA MatchType ==
    ASSUME NEW d, NEW e, NEW b
    PROVE  MatchConnector(d, e, b) \in Connectors \cup {NoConnector}
<1>1. \A S : IsOne(S) => TheOne(S) \in S
  <2> SUFFICES ASSUME NEW S, IsOne(S) PROVE TheOne(S) \in S
    OBVIOUS
  <2>1. S # {}
    BY FS_EmptySet DEF IsOne
  <2> QED
    BY <2>1 DEF TheOne
<1>2. /\ Exact(d, e, b) \subseteq Connectors /\ SameEdid(d, e) \subseteq Connectors
      /\ BusOnly(d, b) \subseteq Connectors
  BY DEF Exact, SameEdid, BusOnly, Connected
<1> QED
  BY <1>1, <1>2 DEF MatchConnector

\* Forgetting where a reading is from leaves its bus and its kind.
LEMMA ForgetKeeps ==
    ASSUME NEW m \in Monitors, ScanInv, Forget(m)
    PROVE  ScanInv'
<1> DEFINE f(k) == IF k.of = m THEN [k EXCEPT !.of = Nobody] ELSE k
<1>1. \A k \in found : f(k) \in Readings /\ f(k).bus = k.bus
  BY DEF ScanInv, Scan, Readings
<1>2. found' = {f(k) : k \in found} /\ UNCHANGED <<pc, drm, edids, todo>> /\ clean' = FALSE
  BY DEF Forget
<1> HIDE DEF f
<1>3. Scan(found)' /\ \A k \in found' : k.bus \notin todo
  BY <1>1, <1>2 DEF ScanInv, Scan
<1>4. origin' \in [Buses -> Monitors \cup {Nobody}]
  BY DEF Forget, ScanInv
<1> QED
  BY <1>2, <1>3, <1>4 DEF ScanInv

\* A scan reads each bus once, in any state of the room.
LEMMA ScanStep == IInv /\ [Next]_vars => ScanInv'
<1> SUFFICES ASSUME IInv, [Next]_vars PROVE ScanInv'
  OBVIOUS
<1>0. ScanInv /\ RoomInv
  BY DEF IInv
<1>1. CASE /\ UNCHANGED <<scanVars, origin, clean>>
           /\ pc' = pc \/ pc' \in {"idle", "call"}
  BY <1>0, <1>1 DEF ScanInv, scanVars
<1>2. CASE \E unread \in SUBSET Sockets : BeginScan(unread)
  <2>1. PICK unread \in SUBSET Sockets : BeginScan(unread)
    BY <1>2
  <2>2. \A c : At(c) # {} => TheOne(At(c)) \in Monitors
    BY DEF TheOne, At
  <2>3. drm' \in [Connectors -> Scanned]
    BY <1>0, <2>1, <2>2 DEF BeginScan, Scanned, RoomInv
  <2> QED
    BY <1>0, <2>1, <2>3 DEF BeginScan, ScanInv
<1>3. CASE Probe
  <2>1. \A b : Reached(b) # {} => TheOne(Reached(b)) \in Monitors
    BY DEF TheOne, Reached, At
  <2>2. edids' \in [Buses -> Edids \cup {NoEdid}] /\ \A b \in todo' : edids'[b] \in Edids
    BY <1>0, <1>3, <2>1 DEF Probe, RoomInv
  <2> QED
    BY <1>0, <1>3, <2>2 DEF Probe, ScanInv, Scan
<1>4. CASE ReadVcp
  <2> DEFINE b == Minimum(todo)
  <2>1. b \in todo /\ b \in Buses /\ edids[b] \in Edids
    BY <1>0, <1>4, LeastBus DEF ReadVcp, ScanInv
  <2>2. PICK m \in Reached(b) : found' = found \cup {Candidate(b, m)}
    BY <1>4 DEF ReadVcp
  <2>3. m \in Monitors /\ vcp[m] \in Nat /\ VcpMax[m] \in Nat \ {0}
    BY <1>0, <2>2, BackendAssumption DEF Reached, At, RoomInv
  <2>4. Candidate(b, m) \in Readings /\ Candidate(b, m).bus = b
    BY <2>1, <2>3, MatchType DEF Candidate, Readings
  <2> HIDE DEF b
  <2>5. todo' = todo \ {b} /\ UNCHANGED <<pc, drm, edids, origin, clean>>
    BY <1>4 DEF ReadVcp, b
  <2>6. Scan(found)' /\ \A k \in found' : k.bus \notin todo'
    BY <1>0, <2>1, <2>2, <2>4, <2>5 DEF ScanInv, Scan
  <2> QED
    BY <1>0, <2>5, <2>6 DEF ScanInv
<1>5. CASE ReadNothing
  BY <1>0, <1>5 DEF ReadNothing, ScanInv
<1>6. CASE EndScan
  <2>1. \A b \in Buses : (\E k \in found : k.bus = b) =>
           (CHOOSE k \in found : k.bus = b).of \in Monitors \cup {Nobody}
    BY <1>0 DEF ScanInv, Scan, Readings
  <2>2. origin' \in [Buses -> Monitors \cup {Nobody}]
    BY <1>6, <2>1 DEF EndScan
  <2>3. drm' \in [Connectors -> Scanned] /\ edids' \in [Buses -> Edids \cup {NoEdid}]
    BY <1>6 DEF EndScan, Scanned
  <2> QED
    BY <1>0, <1>6, <2>2, <2>3 DEF EndScan, ScanInv, Scan
<1>7. CASE Environment
  <2>1. CASE \E m \in Monitors : Forget(m)
    BY <1>0, <2>1, ForgetKeeps
  <2>2. CASE \E m \in Monitors : \E raw \in 0 .. VcpMax[m] : Turn(m, raw)
    BY <1>1, <2>2 DEF Turn
  <2> QED
    BY <1>7, <2>1, <2>2 DEF Environment, Plug, Unplug
<1>8. CASE SetSucceeds \/ GetSucceeds \/ GetZero \/ AttemptFails
  BY <1>1, <1>8 DEF SetSucceeds, GetSucceeds, GetZero, AttemptFails, Answered, NextAttempt,
                    NextHandle, Finish
<1>9. CASE \E d \in displays : \/ BeginCall("get", d, 0)
                               \/ \E percent \in Percents : BeginCall("set", d, percent)
  BY <1>1, <1>9 DEF BeginCall
<1>10. CASE UNCHANGED vars
  BY <1>1, <1>10 DEF vars, scanVars
<1> QED
  BY <1>2, <1>3, <1>4, <1>5, <1>6, <1>7, <1>8, <1>9, <1>10 DEF Next, Begin, Work

\* A call starts at the active handle.
LEMMA BeginCallKeeps ==
    ASSUME IInv, NEW kind \in {"get", "set"}, NEW d \in displays, NEW percent \in Percents,
           BeginCall(kind, d, percent)
    PROVE  CallInv'
<1>1. /\ d.id \in Ids /\ Len(d.handles) \in Nat /\ Len(d.handles) <= Cardinality(Buses)
      /\ d.active \in 1 .. Len(d.handles)
  <2>1. WellFormed(d)
    BY DEF IInv, DisplayInv
  <2>2. Len(d.handles) \in Nat
    BY <2>1, LenProperties DEF WellFormed
  <2> QED
    BY <2>1, <2>2 DEF WellFormed
<1>2. 0 \in 0 .. Cardinality(Buses) - 1 /\ 1 \in 1 .. Attempts
  <2>1. Cardinality(Buses) \in Nat
    BY TopologyAssumption, FS_CardinalityType
  <2> QED
    BY <1>1, <2>1, BackendAssumption
<1>3. /\ call' = [kind |-> kind, id |-> d.id, percent |-> percent, tried |-> 0,
                  attempt |-> 1, asked |-> {}]
      /\ UNCHANGED displays
  BY DEF BeginCall
<1>4. call' \in Calls /\ call' # NoCall
  BY <1>1, <1>2, <1>3 DEF Calls, NoCall
<1>5. Called' = d
  BY <1>3 DEF Called, IInv, DisplayInv, NoIdNeedsCounter
<1> QED
  BY <1>1, <1>3, <1>4, <1>5 DEF CallInv

\* Displays and the call in progress keep their promises in every step.
LEMMA CallStep == IInv /\ [Next]_vars => DisplayInv' /\ CallInv'
<1> SUFFICES ASSUME IInv, [Next]_vars PROVE DisplayInv' /\ CallInv'
  OBVIOUS
<1>1. CASE UNCHANGED <<displays, pc, call>>
  BY <1>1 DEF IInv, DisplayInv, NoIdNeedsCounter, CallInv, Called, Nth
<1>2. CASE UNCHANGED <<displays, call>> /\ pc' # "call"
  BY <1>2, NoCallInv DEF IInv, DisplayInv, NoIdNeedsCounter, CallInv
<1>3. CASE EndScan
  BY <1>3, ScannedDisplays, NoCallInv DEF EndScan, IInv, ScanInv, CallInv
<1>4. CASE \E d \in displays : \/ BeginCall("get", d, 0)
                               \/ \E percent \in Percents : BeginCall("set", d, percent)
  <2>1. DisplayInv'
    BY <1>4 DEF BeginCall, IInv, DisplayInv, NoIdNeedsCounter
  <2>2. 0 \in Percents
    BY ScaleAssumption DEF Percents
  <2> QED
    BY <1>4, <2>1, <2>2, BeginCallKeeps
<1>5. CASE SetSucceeds
  <2>1. pc = "call" /\ Raw \in Nat /\ Called.maxima[Bus] \in Nat \ {0}
    BY <1>5, CalledFacts DEF SetSucceeds, Calling
  <2> QED
    BY <1>5, <2>1, AnsweredKeeps DEF SetSucceeds
<1>6. CASE GetSucceeds
  <2>1. PICK m \in Reached(Bus) : Answered(vcp[m], VcpMax[m])
    BY <1>6 DEF GetSucceeds
  <2>2. vcp[m] \in Nat /\ VcpMax[m] \in Nat \ {0}
    BY <2>1, BackendAssumption DEF IInv, RoomInv, Reached, At
  <2>3. pc = "call"
    BY <1>6 DEF GetSucceeds, Calling
  <2> QED
    BY <2>1, <2>2, <2>3, AnsweredKeeps
<1>7. CASE GetZero \/ AttemptFails
  BY <1>7, NextAttemptKeeps DEF GetZero, AttemptFails, Calling
<1>8. CASE Probe \/ ReadVcp \/ ReadNothing \/ \E unread \in SUBSET Sockets : BeginScan(unread)
  BY <1>2, <1>8 DEF Probe, ReadVcp, ReadNothing, BeginScan
<1>9. CASE Environment \/ UNCHANGED vars
  BY <1>1, <1>9 DEF Environment, Plug, Unplug, Turn, Forget, vars
<1> QED
  BY <1>3, <1>4, <1>5, <1>6, <1>7, <1>8, <1>9 DEF Next, Begin, Work

\* Its four parts carry each other through every step.
LEMMA IInvHolds == Spec => []IInv
<1>1. IInv /\ [Next]_vars => IInv'
  BY RoomStep, ScanStep, CallStep DEF IInv
<1> QED
  BY <1>1, IInvInit, PTL DEF Spec

\* Every variable of the backend has its type; every display has an active
\* handle and a maximum for each of its handles.
THEOREM BackendTypeCorrect == Spec => []TypeOK
BY IInvHolds, IInvType, PTL

\* No two displays are given one id before ensure_unique_id looks at them,
\* whatever is plugged and unplugged during the scan.
THEOREM NoCounters == Spec => []NoIdNeedsCounter
<1>1. IInv => NoIdNeedsCounter
  BY DEF IInv, DisplayInv
<1> QED
  BY <1>1, IInvHolds, PTL

\* A call that fails has asked every handle of its display, whichever was
\* active.
THEOREM FailureIsComplete == Spec => FailedCallAskedAll
<1> DEFINE Asked == (AttemptFails \/ GetZero) /\ pc' = "idle" =>
                       \A i \in 1 .. Len(Called.handles) :
                          Called.handles[i] \in call.asked \cup {Bus}
<1>1. IInv => [Asked]_pc
  <2> SUFFICES ASSUME IInv, AttemptFails \/ GetZero, pc' = "idle",
                      NEW i \in 1 .. Len(Called.handles)
               PROVE  Called.handles[i] \in call.asked \cup {Bus}
    OBVIOUS
  <2>1. pc = "call"
    BY DEF AttemptFails, GetZero, Calling
  <2>2. call.tried + 1 >= Len(Called.handles)
    <3>1. Len(Called.handles) \in Nat /\ call.tried \in Nat
      BY <2>1, CalledFacts
    <3> QED
      BY <2>1, <3>1 DEF AttemptFails, GetZero, NextAttempt, NextHandle
  <2> DEFINE d == Called  n == Len(d.handles)
  <2>3. /\ n \in Nat \ {0} /\ d.active \in 1 .. n /\ call.tried = n - 1
        /\ Bus = Nth(d, call.tried) /\ call.asked = {Nth(d, t) : t \in 0 .. call.tried - 1}
    BY <2>1, <2>2, CalledFacts DEF IInv, CallInv, WellFormed
  <2> HIDE DEF d
  <2>4. PICK t \in 0 .. n - 1 : ((d.active - 1 + t) % n) + 1 = i
    BY <2>3, RingIsComplete DEF d
  <2>5. d.handles[i] = Nth(d, t)
    BY <2>4 DEF Nth
  <2>6. t \in 0 .. call.tried - 1 \/ t = call.tried
    BY <2>3
  <2>7. d.handles[i] \in call.asked \cup {Bus}
    BY <2>3, <2>5, <2>6
  <2> QED
    BY <2>7 DEF d
<1> QED
  BY <1>1, IInvHolds, PTL DEF FailedCallAskedAll

-----------------------------------------------------------------------------
(* Which monitor a handle reaches                                          *)

\* A handle known to have been opened on a monitor still reaches it, has its
\* maximum, and nobody else is at its socket; readings are only kept during a
\* scan.
OriginInv ==
    /\ \A m, n \in Monitors : at[m] = at[n] /\ at[m] # Nowhere => m = n
    /\ \A b \in Buses : origin[b] # Nobody => at[origin[b]] = Behind[b]
    /\ \A d \in displays : \A i \in 1 .. Len(d.handles) :
          LET b == d.handles[i]
          IN  origin[b] # Nobody => d.maxima[b] = VcpMax[origin[b]]
    /\ \A k \in found : k.of # Nobody => at[k.of] = Behind[k.bus] /\ k.maximum = VcpMax[k.of]
    /\ pc # "read" => found = {}

\* A monitor behind the bus of a handle is the one the handle was opened on, if
\* that is known.
LEMMA ReachedIsOrigin ==
    ASSUME OriginInv, NEW b \in Buses, NEW n \in Reached(b), origin[b] \in Monitors
    PROVE  n = origin[b]
<1>1. origin[b] # Nobody /\ Behind[b] \in Sockets /\ Behind[b] # Nowhere
  BY BackendAssumption
<1>2. n \in Monitors /\ at[n] = Behind[b]
  BY DEF Reached, At
<1> QED
  BY <1>1, <1>2 DEF OriginInv

\* The readings of a scan are told apart by their buses.
LEMMA ReadingOf ==
    ASSUME NEW readings, Scan(readings), NEW k \in readings
    PROVE  (CHOOSE j \in readings : j.bus = k.bus) = k
BY DEF Scan

\* The display of a group has the handles of its readings, each with the
\* maximum that was read with it.
LEMMA DisplayHandles ==
    ASSUME NEW readings, Scan(readings), NEW group \in Groups(readings),
           NEW d, d = Display(group, Groups(readings))
    PROVE  /\ d.current = Primary(group).current /\ Primary(group) \in group
           /\ \A i \in 1 .. Len(d.handles) :
                 \E k \in group : d.handles[i] = k.bus /\ d.maxima[k.bus] = k.maximum
           /\ \A k \in group : \E i \in 1 .. Len(d.handles) : d.handles[i] = k.bus
<1> DEFINE n == Cardinality(group)
           B == {j.bus : j \in group}
<1>1. Scan(group) /\ IsFiniteSet(group) /\ group # {} /\ n \in Nat
  BY GroupFacts
<1>2. /\ d.handles = [i \in 1 .. n |-> Ordered(group)[i].bus]
      /\ d.maxima = [b \in B |-> (CHOOSE j \in group : j.bus = b).maximum]
      /\ d.current = Primary(group).current
  BY DEF Display
<1>3. Len(d.handles) = n
  <2> HIDE DEF n
  <2> QED
    BY <1>1, <1>2
<1>4. ASSUME NEW k \in group PROVE d.maxima[k.bus] = k.maximum
  <2>1. (CHOOSE j \in group : j.bus = k.bus) = k
    BY <1>1, ReadingOf
  <2>2. k.bus \in B
    OBVIOUS
  <2> QED
    BY <1>2, <2>1, <2>2
<1> HIDE DEF n
<1>5. \A i \in 1 .. n : d.handles[i] = Ordered(group)[i].bus
  BY <1>2
<1>6. /\ \A i \in 1 .. n : Ordered(group)[i] \in group
      /\ \A k \in group : \E i \in 1 .. n : Ordered(group)[i] = k
      /\ Primary(group) \in group
  BY <1>1, OrderedFacts DEF n
<1>7. ASSUME NEW i \in 1 .. Len(d.handles)
      PROVE  \E k \in group : d.handles[i] = k.bus /\ d.maxima[k.bus] = k.maximum
  BY <1>3, <1>4, <1>5, <1>6
<1>8. ASSUME NEW k \in group PROVE \E i \in 1 .. Len(d.handles) : d.handles[i] = k.bus
  BY <1>3, <1>5, <1>6
<1> QED
  BY <1>2, <1>6, <1>7, <1>8

\* The end of a scan: what was known of the readings is known of the handles.
LEMMA EndScanOrigin ==
    ASSUME IInv, OriginInv, EndScan
    PROVE  OriginInv' /\ \A k \in found : origin'[k.bus] = k.of
<1>1. Scan(found) /\ UNCHANGED at /\ found' = {} /\ displays' = DisplaysOf(found)
  BY DEF IInv, ScanInv, EndScan, roomVars
<1>2. \A k \in found : k.bus \in Buses /\ k.of \in Monitors \cup {Nobody}
  BY <1>1 DEF Scan, Readings
<1>3. \A b \in Buses : origin'[b] = IF \E k \in found : k.bus = b
                                     THEN (CHOOSE k \in found : k.bus = b).of ELSE Nobody
  BY DEF EndScan
<1>4. \A k \in found : origin'[k.bus] = k.of
  BY <1>1, <1>2, <1>3, ReadingOf
<1>5. \A b \in Buses : origin'[b] # Nobody => at[origin'[b]] = Behind[b]
  <2> SUFFICES ASSUME NEW b \in Buses, origin'[b] # Nobody PROVE at[origin'[b]] = Behind[b]
    OBVIOUS
  <2>1. PICK k \in found : k.bus = b
    BY <1>3
  <2> QED
    BY <1>4, <2>1 DEF OriginInv
<1>6. ASSUME NEW d \in displays', NEW i \in 1 .. Len(d.handles), origin'[d.handles[i]] # Nobody
      PROVE  d.maxima[d.handles[i]] = VcpMax[origin'[d.handles[i]]]
  <2>1. PICK g \in Groups(found) : d = Display(g, Groups(found))
    BY <1>1 DEF DisplaysOf
  <2>2. PICK k \in g : d.handles[i] = k.bus /\ d.maxima[k.bus] = k.maximum
    BY <1>1, <1>6, <2>1, DisplayHandles
  <2>3. k \in found
    BY <1>1, GroupFacts
  <2> QED
    BY <1>4, <1>6, <2>2, <2>3 DEF OriginInv
<1> QED
  BY <1>1, <1>4, <1>5, <1>6 DEF OriginInv

\* An answer leaves the handle with the maximum of the monitor behind it.
LEMMA AnsweredOrigin ==
    ASSUME IInv, OriginInv, pc = "call", NEW current, NEW maximum, Answered(current, maximum),
           origin[Bus] # Nobody => maximum = VcpMax[origin[Bus]]
    PROVE  OriginInv'
<1> DEFINE d == Called
           table == [d.maxima EXCEPT ![Bus] = maximum]
           e == [d EXCEPT !.active = Index(d), !.current = current, !.maxima = table]
<1>1. /\ displays' = (displays \ {d}) \cup {e} /\ UNCHANGED <<at, origin, found>>
      /\ found = {}
  BY DEF Answered, scanVars, OriginInv
<1>2. d \in displays /\ WellFormed(d) /\ Bus \in DOMAIN d.maxima
  BY CalledFacts
<1> HIDE DEF d
<1>3. /\ e.handles = d.handles /\ e.maxima = table
      /\ \A b \in DOMAIN d.maxima : table[b] = IF b = Bus THEN maximum ELSE d.maxima[b]
      /\ \A i \in 1 .. Len(d.handles) : d.handles[i] \in DOMAIN d.maxima
  <2>1. d \in [id : Ids, connector : Connectors \cup {NoConnector}, handles : Seq(Buses),
               maxima : Maxima, active : Nat, current : Nat]
    BY <1>2 DEF WellFormed
  <2>2. \A i \in 1 .. Len(d.handles) : d.handles[i] \in DOMAIN d.maxima
    BY <1>2 DEF WellFormed
  <2>3. PICK B : d.maxima \in [B -> Nat \ {0}]
    BY <2>1 DEF Maxima
  <2>4. \A b \in DOMAIN d.maxima : table[b] = IF b = Bus THEN maximum ELSE d.maxima[b]
    BY <2>3
  <2> HIDE DEF table
  <2>5. e.handles = d.handles /\ e.maxima = table
    BY <2>1
  <2> QED
    BY <2>2, <2>4, <2>5
<1> HIDE DEF e, table
<1>4. ASSUME NEW i \in 1 .. Len(e.handles), origin[e.handles[i]] # Nobody
      PROVE  e.maxima[e.handles[i]] = VcpMax[origin[e.handles[i]]]
  BY <1>2, <1>3, <1>4 DEF OriginInv
<1> QED
  BY <1>1, <1>4 DEF OriginInv

\* In every step a handle reaches the monitor it is known to have been opened
\* on, or is no longer known to.
LEMMA OriginStep == IInv /\ OriginInv /\ [Next]_vars => OriginInv'
<1> SUFFICES ASSUME IInv, OriginInv, [Next]_vars PROVE OriginInv'
  OBVIOUS
<1>1. CASE UNCHANGED <<at, origin, displays, found>> /\ (pc' = pc \/ pc # "read")
  BY <1>1 DEF OriginInv
<1>2. CASE Probe
  BY <1>2 DEF Probe, roomVars, OriginInv
<1>3. CASE ReadVcp
  <2>1. PICK b \in Buses : \E m \in Reached(b) : found' = found \cup {Candidate(b, m)}
    <3>1. Minimum(todo) \in Buses
      BY <1>3, LeastBus DEF ReadVcp, IInv, ScanInv
    <3> QED
      BY <1>3, <3>1 DEF ReadVcp
  <2>2. PICK m \in Reached(b) : found' = found \cup {Candidate(b, m)}
    BY <2>1
  <2>3. /\ Candidate(b, m).bus = b /\ Candidate(b, m).of = m
        /\ Candidate(b, m).maximum = VcpMax[m] /\ at[m] = Behind[b]
    BY DEF Candidate, Reached, At
  <2>4. UNCHANGED <<at, origin, displays, pc>> /\ pc = "read"
    BY <1>3 DEF ReadVcp, roomVars
  <2> QED
    BY <2>2, <2>3, <2>4 DEF OriginInv
<1>4. CASE EndScan
  BY <1>4, EndScanOrigin
<1>5. CASE SetSucceeds
  <2>1. pc = "call" /\ Answered(Raw, Called.maxima[Bus])
    BY <1>5 DEF SetSucceeds, Calling
  <2>2. origin[Bus] # Nobody => Called.maxima[Bus] = VcpMax[origin[Bus]]
    <3>1. Called \in displays /\ WellFormed(Called) /\ call.tried \in Nat
      BY <2>1, CalledFacts
    <3>2. Index(Called) \in 1 .. Len(Called.handles) /\ Bus = Called.handles[Index(Called)]
      BY <3>1, IndexFacts DEF Bus
    <3> QED
      BY <3>1, <3>2 DEF OriginInv
  <2> QED
    BY <2>1, <2>2, AnsweredOrigin
<1>6. CASE GetSucceeds
  <2>1. PICK m \in Reached(Bus) : Answered(vcp[m], VcpMax[m])
    BY <1>6 DEF GetSucceeds
  <2>2. pc = "call" /\ Bus \in Buses
    BY <1>6, CalledFacts DEF GetSucceeds, Calling
  <2>3. origin[Bus] # Nobody => m = origin[Bus]
    BY <2>1, <2>2, ReachedIsOrigin DEF IInv, ScanInv
  <2> QED
    BY <2>1, <2>2, <2>3, AnsweredOrigin
<1>7. CASE Environment
  <2>1. CASE \E m \in Monitors : \E raw \in 0 .. VcpMax[m] : Turn(m, raw)
    BY <1>1, <2>1 DEF Turn, scanVars
  <2>2. ASSUME NEW m \in Monitors, NEW c \in Sockets \cup {Nowhere},
               at' = [at EXCEPT ![m] = c], Forget(m), c # Nowhere => At(c) = {}
        PROVE  OriginInv'
    <3>1. /\ at \in [Monitors -> Sockets \cup {Nowhere}]
          /\ origin \in [Buses -> Monitors \cup {Nobody}]
          /\ Scan(found)
      BY DEF IInv, RoomInv, ScanInv
    <3>2. /\ \A b \in Buses : origin'[b] = IF origin[b] = m THEN Nobody ELSE origin[b]
          /\ found' = {IF k.of = m THEN [k EXCEPT !.of = Nobody] ELSE k : k \in found}
          /\ UNCHANGED <<displays, pc>>
      BY <2>2 DEF Forget
    <3>3. Nobody \notin Monitors
      BY BackendAssumption
    <3>4. \A p, q \in Monitors : at'[p] = at'[q] /\ at'[p] # Nowhere => p = q
      BY <2>2, <3>1 DEF OriginInv, At
    <3>5. \A b \in Buses : origin'[b] # Nobody => origin'[b] = origin[b] /\ at'[origin[b]] = Behind[b]
      BY <2>2, <3>1, <3>2, <3>3 DEF OriginInv
    <3>6. ASSUME NEW d \in displays, NEW i \in 1 .. Len(d.handles), origin'[d.handles[i]] # Nobody
          PROVE  d.maxima[d.handles[i]] = VcpMax[origin'[d.handles[i]]]
      <4>1. d.handles[i] \in Buses
        <5>1. d.handles \in Seq(Buses)
          BY DEF IInv, DisplayInv, WellFormed
        <5> QED
          BY <5>1, LenProperties
      <4>2. origin'[d.handles[i]] = origin[d.handles[i]]
        BY <3>5, <3>6, <4>1
      <4> QED
        BY <3>6, <4>2 DEF OriginInv
    <3>7. ASSUME NEW k \in found', k.of # Nobody
          PROVE  at'[k.of] = Behind[k.bus] /\ k.maximum = VcpMax[k.of]
      <4>1. PICK j \in found : k = IF j.of = m THEN [j EXCEPT !.of = Nobody] ELSE j
        BY <3>2
      <4>2. j \in Readings
        BY <3>1 DEF Scan
      <4>3. j.of # m /\ k = j
        BY <3>7, <4>1, <4>2 DEF Readings
      <4>4. k.of \in Monitors /\ at'[k.of] = at[k.of]
        BY <2>2, <3>1, <3>7, <4>2, <4>3 DEF Readings
      <4> QED
        BY <3>7, <4>3, <4>4 DEF OriginInv
    <3>8. pc' # "read" => found' = {}
      BY <3>2 DEF OriginInv
    <3> QED
      BY <3>2, <3>4, <3>5, <3>6, <3>7, <3>8 DEF OriginInv
  <2>3. ASSUME NEW m \in Monitors, NEW c \in Sockets, Plug(m, c) PROVE OriginInv'
    BY <2>2, <2>3, BackendAssumption DEF Plug
  <2>4. ASSUME NEW m \in Monitors, Unplug(m) PROVE OriginInv'
    BY <2>2, <2>4 DEF Unplug
  <2> QED
    BY <1>7, <2>1, <2>3, <2>4 DEF Environment
<1>8. CASE Begin \/ ReadNothing \/ UNCHANGED vars
  BY <1>1, <1>8 DEF Begin, BeginScan, BeginCall, ReadNothing, vars, roomVars, scanVars
<1>9. CASE GetZero \/ AttemptFails
  <2>1. pc = "call" /\ (NextHandle \/ NextAttempt)
    BY <1>9 DEF GetZero, AttemptFails, Calling
  <2> QED
    BY <1>1, <2>1 DEF NextAttempt, NextHandle, scanVars
<1> QED
  BY <1>2, <1>3, <1>4, <1>5, <1>6, <1>7, <1>8, <1>9 DEF Next, Work

\* Before the first scan no handle is open.
LEMMA OriginInit == Init => OriginInv
BY DEF Init, OriginInv

\* Both invariants hold together.
LEMMA OriginHolds == Spec => [](IInv /\ OriginInv)
<1>1. Init => OriginInv
  BY OriginInit
<1>2. IInv /\ OriginInv /\ [Next]_vars => OriginInv'
  BY OriginStep
<1> QED
  BY <1>1, <1>2, IInvHolds, PTL DEF Spec

-----------------------------------------------------------------------------
(* What a scan of a room at rest knows                                     *)

\* While nothing moves the scan knows each monitor that answers by its EDID:
\* what sysfs said of the connectors, and what the buses answered.
ScanTrue ==
    pc \in {"probe", "read"} =>
        \A c \in Connectors :
            /\ drm[c].connected <=> At(c) # {}
            /\ At(c) # {} => drm[c].edid = edidOf[TheOne(At(c))]
BusesTrue ==
    pc = "read" => \A b \in todo : \A m \in Reached(b) : edids[b] = edidOf[m]

\* A reading is of the monitor it was taken from, and is associated with no
\* connector but the one that monitor is at, and with that unless it has a twin.
Placed(k) ==
    /\ k.of \in Monitors
    /\ k.edid = edidOf[k.of]
    /\ k.connector \in {at[k.of], NoConnector}
    /\ HasTwin(k.of) \/ k.connector = at[k.of]
CleanInv == clean => ScanTrue /\ BusesTrue /\ (\A k \in found : Placed(k)) /\ Identified

\* A set is of one element when it has one and no other.
LEMMA OneElement ==
    ASSUME NEW S, NEW x \in S, \A y \in S : y = x
    PROVE  IsOne(S) /\ TheOne(S) = x
<1>1. S = {x}
  OBVIOUS
<1>2. Cardinality({x}) = 1
  BY FS_Singleton
<1> QED
  BY <1>1, <1>2 DEF IsOne, TheOne

LEMMA TheOneIn ==
    ASSUME NEW S, IsOne(S)
    PROVE  TheOne(S) \in S
<1>1. S # {}
  BY FS_EmptySet DEF IsOne
<1> QED
  BY <1>1 DEF TheOne

\* The one monitor at a socket.
LEMMA TheMonitorAt ==
    ASSUME OriginInv, NEW c, c # Nowhere, NEW m \in At(c)
    PROVE  TheOne(At(c)) = m
BY OneElement DEF OriginInv, At

\* When sysfs told the truth of every connector, a bus is associated with no
\* connector but that of the monitor it reaches, whatever other monitors have
\* its EDID; with none of those, it is associated with that connector.
LEMMA MatchIsRight ==
    ASSUME IInv, OriginInv, NEW b \in Buses, NEW m \in Reached(b),
           \A c \in Connectors :
              /\ drm[c].connected <=> At(c) # {}
              /\ At(c) # {} => drm[c].edid = edidOf[TheOne(At(c))]
    PROVE  /\ MatchConnector(drm, edidOf[m], b) \in {at[m], NoConnector}
           /\ HasTwin(m) \/ MatchConnector(drm, edidOf[m], b) = at[m]
<1> DEFINE e == edidOf[m]
           s == Behind[b]
<1>1. /\ s \in Sockets /\ s \in Connectors /\ s # Nowhere /\ m \in Monitors /\ at[m] = s
      /\ m \in At(s) /\ Nowhere \notin Connectors
  BY BackendAssumption DEF Reached, At
<1>2. s \in SameEdid(drm, e)
  <2>1. TheOne(At(s)) = m
    BY <1>1, TheMonitorAt
  <2> QED
    BY <1>1, <2>1 DEF SameEdid, Connected
<1>3. Exact(drm, e, b) \subseteq {s}
  BY BackendAssumption DEF Exact, Connected
<1>4. BusOnly(drm, b) = {}
  <2> SUFFICES ASSUME NEW c \in Connectors, At(c) # {}, edidOf[TheOne(At(c))] = NoEdid
               PROVE  FALSE
    BY DEF BusOnly, Connected
  <2>1. TheOne(At(c)) \in Monitors
    BY DEF TheOne, At
  <2> QED
    BY <2>1, TopologyAssumption DEF IInv, RoomInv
<1>5. ~IsOne(BusOnly(drm, b))
  BY <1>4, FS_EmptySet DEF IsOne
<1>6. IsOne(Exact(drm, e, b)) => TheOne(Exact(drm, e, b)) = s
  BY <1>3, TheOneIn
<1>7. HasTwin(m) \/ SameEdid(drm, e) = {s}
  <2> SUFFICES ASSUME NEW c \in SameEdid(drm, e), c # s PROVE HasTwin(m)
    BY <1>2
  <2>1. PICK t \in At(c) : TRUE
    BY DEF SameEdid, Connected
  <2>2. c # Nowhere /\ TheOne(At(c)) = t /\ t \in Monitors /\ at[t] = c
    BY <1>1, <2>1, TheMonitorAt DEF SameEdid, Connected, At
  <2>3. edidOf[t] = edidOf[m]
    BY <2>2, <2>1 DEF SameEdid, Connected
  <2> QED
    BY <1>1, <2>2, <2>3 DEF HasTwin
<1>8. IsOne(SameEdid(drm, e)) => TheOne(SameEdid(drm, e)) = s
  <2> SUFFICES ASSUME IsOne(SameEdid(drm, e)) PROVE TheOne(SameEdid(drm, e)) = s
    OBVIOUS
  <2>1. PICK x : SameEdid(drm, e) = {x}
    <3>1. IsFiniteSet(SameEdid(drm, e))
      BY TopologyAssumption, FS_Subset DEF SameEdid, Connected
    <3> QED
      BY <3>1, FS_Singleton DEF IsOne
  <2> QED
    BY <1>2, <2>1 DEF TheOne
<1>9. SameEdid(drm, e) = {s} => IsOne(SameEdid(drm, e))
  BY FS_Singleton DEF IsOne
<1> HIDE DEF e, s
<1> QED
  BY <1>1, <1>5, <1>6, <1>7, <1>8, <1>9 DEF MatchConnector, e

\* The buses of one group that were all read as placed are one monitor's: one
\* connector has one monitor, and so has one bus.
LEMMA GroupIsOneMonitor ==
    ASSUME IInv, OriginInv, \A k \in found : Placed(k),
           NEW g \in Groups(found), NEW j \in g, NEW k \in g
    PROVE  j.of = k.of
<1>1. j \in found /\ k \in found /\ GroupKey(j) = GroupKey(k)
  BY GroupFacts DEF IInv, ScanInv
<1>2. /\ j.connector = k.connector
      /\ j.connector = NoConnector => j.bus = k.bus
  BY <1>1 DEF GroupKey
<1>3. CASE j.connector = NoConnector
  BY <1>1, <1>2, <1>3 DEF IInv, ScanInv, Scan
<1>4. CASE j.connector # NoConnector
  <2>1. at[j.of] = at[k.of] /\ j.of \in Monitors /\ k.of \in Monitors
    BY <1>1, <1>2, <1>4 DEF Placed
  <2>2. at[j.of] = Behind[j.bus] /\ j.bus \in Buses
    BY <1>1, <2>1, BackendAssumption DEF OriginInv, IInv, ScanInv, Scan, Readings
  <2>3. at[j.of] # Nowhere
    BY <2>2, BackendAssumption
  <2> QED
    BY <2>1, <2>3 DEF OriginInv
<1> QED
  BY <1>3, <1>4

\* Without a twin, all readings of a monitor are of one group.
LEMMA OneGroup ==
    ASSUME IInv, OriginInv, \A k \in found : Placed(k),
           NEW g \in Groups(found), NEW h \in Groups(found), NEW j \in g, NEW k \in h,
           j.edid = k.edid, ~HasTwin(j.of)
    PROVE  g = h
<1>1. /\ j \in found /\ k \in found
      /\ g = {l \in found : GroupKey(l) = GroupKey(j)}
      /\ h = {l \in found : GroupKey(l) = GroupKey(k)}
  BY GroupFacts DEF IInv, ScanInv
<1>2. j.of \in Monitors /\ k.of \in Monitors /\ edidOf[j.of] = edidOf[k.of]
  BY <1>1 DEF Placed
<1>3. at[k.of] = Behind[k.bus] /\ k.bus \in Buses
  BY <1>1, <1>2, BackendAssumption DEF OriginInv, IInv, ScanInv, Scan, Readings
<1>4. j.of = k.of
  BY <1>2, <1>3, BackendAssumption DEF HasTwin
<1>5. j.connector = k.connector /\ j.connector # NoConnector
  <2>1. j.connector = at[j.of] /\ k.connector = at[k.of]
    BY <1>1, <1>4 DEF Placed
  <2>2. at[k.of] # NoConnector
    BY <1>3, BackendAssumption, TopologyAssumption
  <2> QED
    BY <1>4, <2>1, <2>2
<1>6. GroupKey(j) = GroupKey(k)
  BY <1>5 DEF GroupKey
<1> QED
  BY <1>1, <1>6

\* The handles of the display of a group were all opened on the monitor its
\* readings are of.
LEMMA DisplayIsFrom ==
    ASSUME IInv, OriginInv, EndScan, \A k \in found : Placed(k),
           NEW g \in Groups(found), NEW k \in g,
           NEW d, d = Display(g, Groups(found))
    PROVE  From(d)' = {k.of}
<1>1. \A j \in found : origin'[j.bus] = j.of
  BY EndScanOrigin
<1>2. g \subseteq found /\ Scan(found)
  BY GroupFacts DEF IInv, ScanInv
<1>3. /\ \A i \in 1 .. Len(d.handles) : \E j \in g : d.handles[i] = j.bus
      /\ \E i \in 1 .. Len(d.handles) : d.handles[i] = k.bus
  BY <1>2, DisplayHandles
<1>4. \A j \in g : origin'[j.bus] = k.of
  BY <1>1, <1>2, GroupIsOneMonitor
<1>5. From(d)' = {origin'[d.handles[i]] : i \in 1 .. Len(d.handles)}
  BY DEF From
<1> QED
  BY <1>3, <1>4, <1>5

\* So a scan of a room at rest identifies every display.
LEMMA EndScanIdentifies ==
    ASSUME IInv, OriginInv, EndScan, \A k \in found : Placed(k)
    PROVE  Identified'
<1>1. /\ Scan(found) /\ displays' = DisplaysOf(found)
      /\ UNCHANGED <<edidOf, at>>
  BY DEF IInv, ScanInv, EndScan, roomVars
<1> SUFFICES ASSUME NEW d \in displays'
             PROVE  \E m \in Monitors :
                       /\ From(d)' = {m}
                       /\ d.id.edid = edidOf[m]
                       /\ d.connector \in {at[m], NoConnector}
                       /\ ~HasTwin(m) => /\ d.id.suffix = Plain
                                         /\ d.connector = at[m]
                                         /\ \A e \in displays' \ {d} : m \notin From(e)'
  BY <1>1 DEF Identified, HasTwin
<1>2. PICK g \in Groups(found) : d = Display(g, Groups(found))
  BY <1>1 DEF DisplaysOf
<1> DEFINE k == Primary(g)
<1>3. k \in g /\ k \in found
  BY <1>1, GroupFacts, OrderedFacts
<1>4. Placed(k) /\ From(d)' = {k.of}
  BY <1>2, <1>3, DisplayIsFrom
<1>5. d.connector = k.connector /\ d.id = IdOf(g, Groups(found))
  BY <1>2 DEF Display
<1>6. d.id.edid = k.edid
  BY <1>5 DEF IdOf, Id
<1>7. ASSUME ~HasTwin(k.of)
      PROVE  d.id.suffix = Plain /\ d.connector = at[k.of]
             /\ \A e \in displays' \ {d} : k.of \notin From(e)'
  <2>1. \A h \in Groups(found) \ {g} : Primary(h).edid # k.edid
    <3> SUFFICES ASSUME NEW h \in Groups(found), Primary(h).edid = k.edid PROVE h = g
      OBVIOUS
    <3>1. Primary(h) \in h
      BY <1>1, GroupFacts, OrderedFacts
    <3> HIDE DEF k
    <3> QED
      BY <1>3, <1>7, <3>1, OneGroup
  <2>2. d.id.suffix = Plain
    BY <1>5, <2>1 DEF IdOf, Id
  <2>3. ASSUME NEW e \in displays' \ {d} PROVE k.of \notin From(e)'
    <3>1. PICK h \in Groups(found) : e = Display(h, Groups(found))
      BY <1>1 DEF DisplaysOf
    <3>2. h # g
      BY <1>2, <2>3, <3>1
    <3>3. PICK l \in h : l \in found
      BY <1>1, GroupFacts
    <3>4. From(e)' = {l.of}
      BY <3>1, <3>3, DisplayIsFrom
    <3>5. l.of # k.of
      <4> HIDE DEF k
      <4> QED
        BY <1>3, <1>4, <1>7, <3>2, <3>3, OneGroup DEF Placed
    <3> QED
      BY <3>4, <3>5
  <2> QED
    BY <1>4, <1>5, <1>7, <2>2, <2>3 DEF Placed
<1> HIDE DEF k
<1> QED
  BY <1>4, <1>5, <1>6, <1>7 DEF Placed

\* An answer changes neither the handles of a display nor what it is.
LEMMA AnsweredIdentifies ==
    ASSUME IInv, pc = "call", Identified, clean, NEW current, NEW maximum,
           Answered(current, maximum)
    PROVE  Identified'
<1>1. UNCHANGED <<edidOf, at, origin>>
  BY DEF Answered
<1>2. PICK c, n :
          /\ c \in displays /\ displays' = (displays \ {c}) \cup {n}
          /\ n.id = c.id /\ n.connector = c.connector /\ n.handles = c.handles
  <2> DEFINE c == Called
             table == [c.maxima EXCEPT ![Bus] = maximum]
             n == [c EXCEPT !.active = Index(c), !.current = current, !.maxima = table]
  <2>1. displays' = (displays \ {c}) \cup {n} /\ c \in displays /\ WellFormed(c)
    BY CalledFacts DEF Answered
  <2> HIDE DEF c, table
  <2>2. n.id = c.id /\ n.connector = c.connector /\ n.handles = c.handles
    BY <2>1 DEF WellFormed
  <2> QED
    BY <2>1, <2>2
<1>3. From(n)' = From(c) /\ \A d : From(d)' = From(d)
  BY <1>1, <1>2 DEF From
<1> SUFFICES ASSUME NEW d \in displays'
             PROVE  \E m \in Monitors :
                       /\ From(d)' = {m}
                       /\ d.id.edid = edidOf[m]
                       /\ d.connector \in {at[m], NoConnector}
                       /\ ~HasTwin(m) => /\ d.id.suffix = Plain
                                         /\ d.connector = at[m]
                                         /\ \A e \in displays' \ {d} : m \notin From(e)'
  BY <1>1 DEF Identified, HasTwin
<1>4. PICK o \in displays : /\ o.id = d.id /\ o.connector = d.connector /\ From(o) = From(d)'
                            /\ d = n => o = c
                            /\ d # n => o = d
  BY <1>2, <1>3
<1>5. PICK m \in Monitors :
          /\ From(o) = {m}
          /\ o.id.edid = edidOf[m]
          /\ o.connector \in {at[m], NoConnector}
          /\ ~HasTwin(m) => /\ o.id.suffix = Plain
                            /\ o.connector = at[m]
                            /\ \A e \in displays \ {o} : m \notin From(e)
  BY <1>1 DEF Identified, Settled
<1>6. ASSUME ~HasTwin(m), NEW e \in displays' \ {d} PROVE m \notin From(e)'
  <2>1. CASE e = n
    BY <1>2, <1>3, <1>4, <1>5, <1>6, <2>1
  <2>2. CASE e # n
    BY <1>2, <1>3, <1>4, <1>5, <1>6, <2>2
  <2> QED
    BY <2>1, <2>2
<1> QED
  BY <1>4, <1>5, <1>6

\* Every step keeps what a scan of a room at rest knows.
LEMMA CleanStep == IInv /\ OriginInv /\ CleanInv /\ [Next]_vars => CleanInv'
<1> SUFFICES ASSUME IInv, OriginInv, CleanInv, [Next]_vars, clean' PROVE CleanInv'
  BY DEF CleanInv
<1>0. Nobody \notin Monitors /\ Nowhere \notin Connectors /\ Behind \in [Buses -> Sockets]
      /\ Sockets \subseteq Connectors
  BY BackendAssumption
<1>1. CASE /\ UNCHANGED <<edidOf, at, displays, drm, edids, todo, found, origin, clean>>
           /\ pc' = pc \/ (pc \in {"idle", "call"} /\ pc' \in {"idle", "call"})
  <2>1. clean /\ ScanTrue /\ BusesTrue /\ (\A k \in found : Placed(k)) /\ Identified
    BY <1>1 DEF CleanInv
  <2>2. ScanTrue' /\ BusesTrue'
    BY <1>1, <2>1 DEF ScanTrue, BusesTrue, At, Reached
  <2>3. \A k \in found' : Placed(k)'
    BY <1>1, <2>1 DEF Placed, HasTwin
  <2>4. Identified'
    <3>1. \A d : From(d)' = From(d)
      BY <1>1 DEF From
    <3>2. \A m : HasTwin(m)' = HasTwin(m)
      BY <1>1 DEF HasTwin
    <3>3. displays' = displays /\ edidOf' = edidOf /\ at' = at /\ (Settled' => Settled)
      BY <1>1 DEF Settled
    <3> QED
      BY <2>1, <3>1, <3>2, <3>3, Zenon DEF Identified
  <2> QED
    BY <2>2, <2>3, <2>4 DEF CleanInv
<1>2. CASE \E unread \in SUBSET Sockets : BeginScan(unread)
  <2>1. PICK unread \in SUBSET Sockets : BeginScan(unread)
    BY <1>2
  <2>2. ScanTrue'
    BY <2>1 DEF BeginScan, ScanTrue, At, roomVars
  <2>3. found' = {} /\ pc' = "probe"
    BY <2>1 DEF BeginScan, OriginInv
  <2> QED
    BY <2>2, <2>3 DEF CleanInv, BusesTrue, Identified, Settled
<1>3. CASE Probe
  <2>1. clean /\ UNCHANGED <<edidOf, at, drm>> /\ pc = "probe" /\ pc' = "read" /\ found' = {}
    BY <1>3 DEF Probe, roomVars
  <2>2. ScanTrue'
    BY <2>1 DEF CleanInv, ScanTrue, At
  <2>3. ASSUME NEW b \in todo', NEW m \in Reached(b) PROVE edids'[b] = edidOf[m]
    <3>1. b \in Buses /\ edids'[b] = edidOf[TheOne(Reached(b))]
      BY <1>3, <2>3 DEF Probe
    <3>2. Behind[b] # Nowhere /\ Reached(b) = At(Behind[b])
      BY <1>0, <3>1 DEF Reached
    <3> QED
      BY <2>3, <3>1, <3>2, TheMonitorAt
  <2>4. BusesTrue'
    BY <2>1, <2>3 DEF BusesTrue, Reached, At
  <2> QED
    BY <2>1, <2>2, <2>4 DEF CleanInv, Identified, Settled
<1>4. CASE ReadVcp
  <2>1. clean /\ UNCHANGED <<edidOf, at, drm, edids, pc>> /\ pc = "read" /\ todo' \subseteq todo
    BY <1>4 DEF ReadVcp, roomVars
  <2>2. ScanTrue' /\ BusesTrue'
    BY <2>1 DEF CleanInv, ScanTrue, BusesTrue, Reached, At
  <2> DEFINE b == Minimum(todo)
  <2>3. b \in todo /\ b \in Buses
    BY <1>4, LeastBus DEF ReadVcp, IInv, ScanInv
  <2>4. PICK m \in Reached(b) : found' = found \cup {Candidate(b, m)}
    BY <1>4 DEF ReadVcp
  <2> HIDE DEF b
  <2>5. edids[b] = edidOf[m] /\ m \in Monitors
    BY <2>1, <2>3, <2>4 DEF CleanInv, BusesTrue, Reached, At
  <2>6. Candidate(b, m).of = m /\ Candidate(b, m).edid = edidOf[m]
        /\ Candidate(b, m).connector = MatchConnector(drm, edidOf[m], b)
    BY <2>5 DEF Candidate
  <2>7. Placed(Candidate(b, m))
    <3>1. \A c \in Connectors : /\ drm[c].connected <=> At(c) # {}
                                /\ At(c) # {} => drm[c].edid = edidOf[TheOne(At(c))]
      BY <2>1 DEF CleanInv, ScanTrue
    <3>2. /\ MatchConnector(drm, edidOf[m], b) \in {at[m], NoConnector}
          /\ HasTwin(m) \/ MatchConnector(drm, edidOf[m], b) = at[m]
      BY <2>3, <2>4, <3>1, MatchIsRight
    <3> QED
      BY <2>5, <2>6, <3>2 DEF Placed
  <2>8. \A k \in found' : Placed(k)'
    BY <2>1, <2>4, <2>7 DEF CleanInv, Placed, HasTwin
  <2> QED
    BY <2>1, <2>2, <2>8 DEF CleanInv, Identified, Settled
<1>5. CASE ReadNothing
  <2>1. clean /\ UNCHANGED <<edidOf, at, drm, edids, pc, found>> /\ pc = "read" /\ todo' \subseteq todo
    BY <1>5 DEF ReadNothing, roomVars
  <2>2. ScanTrue' /\ BusesTrue' /\ \A k \in found' : Placed(k)'
    BY <2>1 DEF CleanInv, ScanTrue, BusesTrue, Reached, At, Placed, HasTwin
  <2> QED
    BY <2>1, <2>2 DEF CleanInv, Identified, Settled
<1>6. CASE EndScan
  <2>1. clean /\ pc' = "idle" /\ found' = {}
    BY <1>6 DEF EndScan
  <2>2. Identified'
    BY <1>6, <2>1, EndScanIdentifies DEF CleanInv
  <2> QED
    BY <2>1, <2>2 DEF CleanInv, ScanTrue, BusesTrue
<1>7. CASE SetSucceeds \/ GetSucceeds
  <2>1. PICK current, maximum : pc = "call" /\ Answered(current, maximum)
    BY <1>7 DEF SetSucceeds, GetSucceeds, Calling
  <2>2. clean /\ pc' = "idle" /\ found' = {}
    BY <2>1 DEF Answered, Finish, scanVars, OriginInv
  <2>3. Identified'
    BY <2>1, <2>2, AnsweredIdentifies DEF CleanInv
  <2> QED
    BY <2>2, <2>3 DEF CleanInv, ScanTrue, BusesTrue
<1>8. CASE GetZero \/ AttemptFails
  <2>1. pc = "call" /\ (NextHandle \/ NextAttempt)
    BY <1>8 DEF GetZero, AttemptFails, Calling
  <2> QED
    BY <1>1, <2>1 DEF NextAttempt, NextHandle, Finish, scanVars
<1>9. CASE \E d \in displays : \/ BeginCall("get", d, 0)
                               \/ \E percent \in Percents : BeginCall("set", d, percent)
  BY <1>1, <1>9 DEF BeginCall, roomVars, scanVars
<1>10. CASE Environment
  <2>1. \A m \in Monitors : \A raw \in 0 .. VcpMax[m] : Turn(m, raw) => CleanInv'
    BY <1>1 DEF Turn, scanVars
  <2>2. \A m \in Monitors : ~Forget(m)
    BY DEF Forget
  <2> QED
    BY <1>10, <2>1, <2>2 DEF Environment, Plug, Unplug
<1>11. CASE UNCHANGED vars
  BY <1>1, <1>11 DEF vars
<1> QED
  BY <1>2, <1>3, <1>4, <1>5, <1>6, <1>7, <1>8, <1>9, <1>10, <1>11 DEF Next, Begin, Work

\* For any connectors, buses and monitors, however many are twins: after a scan
\* that nothing disturbed every display is one monitor, under its EDID and at no
\* other connector than its own, and a monitor without a twin is one
\* display with the plain id (enumerate_from, match_connector,
\* group_candidates).
THEOREM DisplaysAreIdentified == Spec => []Identified
<1>1. Init => CleanInv
  BY DEF Init, CleanInv
<1>2. IInv /\ OriginInv /\ CleanInv /\ [Next]_vars => CleanInv'
  BY CleanStep
<1>3. CleanInv => Identified
  BY DEF CleanInv, Identified
<1> QED
  BY <1>1, <1>2, <1>3, OriginHolds, PTL DEF Spec

-----------------------------------------------------------------------------
(* The refinement                                                          *)

\* DdcControl's values are these.
LEMMA SameValues ==
    /\ Control!None = None /\ Control!Percents = Percents
    /\ Control!RawValues = UNION {0 .. VcpMax[m] : m \in Monitors}
    /\ \A p, max : Control!RawOf(p, max) = RawOf(p, max)
BY DEF None, Percents, RawOf, Control!None, Control!Percents, Control!RawValues, Control!RawOf

\* A step that shows nothing.
LEMMA Unseen ==
    ASSUME vcp' = vcp, \A m \in Monitors : Known(m)' = Known(m)
    PROVE  [Control!DdcNext]_(Control!hardwareVars)
BY DEF Control!hardwareVars, DdcSeen

\* Another value of a monitor, and nothing of it known to the backend.
LEMMA TurnRefines ==
    ASSUME RoomInv, NEW n \in Monitors, NEW raw \in 0 .. VcpMax[n],
           vcp' = [vcp EXCEPT ![n] = raw], \A m \in Monitors : Known(m)' = Known(m)
    PROVE  [Control!DdcNext]_(Control!hardwareVars)
<1>1. VcpMax[n] \in Nat /\ vcp \in [Monitors -> Nat]
  BY BackendAssumption DEF RoomInv
<1>2. CASE raw = vcp[n]
  BY <1>1, <1>2, Unseen
<1>3. CASE raw # vcp[n]
  <2>1. raw \in Control!RawValues /\ raw <= VcpMax[n] /\ DdcSeen' = DdcSeen
    BY <1>1, SameValues DEF DdcSeen
  <2>2. Control!Turn(n, raw)
    BY <1>3, <2>1 DEF Control!Turn
  <2> QED
    BY <2>1, <2>2 DEF Control!DdcNext
<1> QED
  BY <1>2, <1>3

\* What is known of some monitors is lost.
LEMMA LossRefines ==
    ASSUME vcp' = vcp, \A m \in Monitors : Known(m)' \in {Known(m), None}
    PROVE  [Control!DdcNext]_(Control!hardwareVars)
<1> DEFINE lost == {m \in Monitors : Known(m)' = None}
<1>1. DdcSeen' = [m \in Monitors |-> CASE m \in {}        -> vcp[m]
                                       [] m \in lost \ {} -> None
                                       [] OTHER           -> DdcSeen[m]]
  BY DEF DdcSeen
<1>2. Control!Look(lost, {})
  BY <1>1, SameValues DEF Control!Look
<1> QED
  BY <1>2 DEF Control!DdcNext

\* A monitor is read, and nothing is learnt of the others.
LEMMA ReadRefines ==
    ASSUME vcp' = vcp, NEW n \in Monitors, Known(n)' = vcp[n],
           \A m \in Monitors \ {n} : Known(m)' = Known(m)
    PROVE  [Control!DdcNext]_(Control!hardwareVars)
<1>1. DdcSeen' = [m \in Monitors |-> CASE m \in {n}         -> vcp[m]
                                       [] m \in {n} \ {n} -> None
                                       [] OTHER           -> DdcSeen[m]]
  BY DEF DdcSeen
<1>2. Control!Look({n}, {n})
  BY <1>1, SameValues DEF Control!Look
<1> QED
  BY <1>2 DEF Control!DdcNext

\* What is known is known from the readings, the displays and their origins.
LEMMA KnownStays ==
    ASSUME UNCHANGED <<found, displays, origin>>
    PROVE  \A m \in Monitors : Known(m)' = Known(m)
BY DEF Known, ReadOf, Alone, Shown, From

\* There are no more readings than buses.
LEMMA ScanFinite ==
    ASSUME NEW readings, Scan(readings)
    PROVE  IsFiniteSet(readings)
<1> DEFINE f == [j \in readings |-> j.bus]
<1>1. f \in Injection(readings, Buses)
  <2>1. f \in [readings -> Buses]
    BY DEF Scan, Readings
  <2>2. IsInjective(f)
    BY DEF Scan, IsInjective
  <2> QED
    BY <2>1, <2>2 DEF Injection
<1> QED
  BY <1>1, FS_Injection, TopologyAssumption

\* A reading of n either comes first of n's or tells nothing new.
LEMMA ReadVcpRefines ==
    ASSUME IInv, ReadVcp
    PROVE  [Control!DdcNext]_(Control!hardwareVars)
<1>1. PICK b \in Buses : /\ \E n \in Reached(b) : found' = found \cup {Candidate(b, n)}
                         /\ b \in todo /\ edids[b] \in Edids
  <2>1. Minimum(todo) \in Buses /\ Minimum(todo) \in todo /\ edids[Minimum(todo)] \in Edids
    BY LeastBus DEF ReadVcp, IInv, ScanInv
  <2> QED
    BY <2>1 DEF ReadVcp
<1>2. PICK n \in Reached(b) : found' = found \cup {Candidate(b, n)}
  BY <1>1
<1>3. /\ n \in Monitors /\ vcp[n] \in Nat /\ VcpMax[n] \in Nat \ {0}
      /\ UNCHANGED <<vcp, displays, origin>>
  BY BackendAssumption DEF Reached, At, IInv, RoomInv, ReadVcp, roomVars
<1> DEFINE c == Candidate(b, n)
<1>4. c \in Readings /\ c.bus = b /\ c.of = n /\ c.current = vcp[n]
  BY <1>1, <1>3, MatchType DEF Candidate, Readings
<1> HIDE DEF c
<1>5. found' = found \cup {c} /\ Scan(found) /\ Scan(found')
  BY <1>1, <1>2, <1>4 DEF c, IInv, ScanInv, Scan
<1>6. ASSUME NEW m \in Monitors \ {n} PROVE Known(m)' = Known(m)
  <2>1. ReadOf(m)' = ReadOf(m)
    BY <1>4, <1>5 DEF ReadOf
  <2> QED
    BY <1>3, <2>1 DEF Known, Alone, Shown, From
<1> DEFINE R == ReadOf(n)
           S == R \cup {c}
<1>7. S = ReadOf(n)' /\ Scan(S) /\ Scan(R)
  BY <1>4, <1>5 DEF ReadOf, Scan
<1>8. IsFiniteSet(S) /\ IsFiniteSet(R)
  BY <1>7, ScanFinite
<1>9. Known(n)' = Primary(S).current
  BY <1>7 DEF Known
<1> HIDE DEF R
<1>10. Primary(S) \in S /\ \A k \in S \ {Primary(S)} : Before(Primary(S), k)
  BY <1>7, <1>8, OrderedFacts
<1>11. CASE Primary(S) = c
  BY <1>3, <1>4, <1>6, <1>9, <1>11, ReadRefines
<1>12. CASE Primary(S) # c
  <2>1. Primary(S) \in R /\ \A k \in R \ {Primary(S)} : Before(Primary(S), k)
    BY <1>10, <1>12
  <2>2. Primary(S) = Primary(R)
    BY <1>7, <1>8, <2>1, OrderedFacts
  <2>3. Known(n) = Primary(R).current
    BY <2>1 DEF Known, R
  <2> QED
    BY <1>3, <1>6, <1>9, <2>2, <2>3, Unseen
<1> QED
  BY <1>11, <1>12

\* After a scan a monitor that is one display has the value that was read.
LEMMA EndScanRefines ==
    ASSUME IInv, OriginInv, EndScan
    PROVE  [Control!DdcNext]_(Control!hardwareVars)
<1>1. Scan(found) /\ vcp' = vcp /\ found' = {} /\ displays' = DisplaysOf(found)
  BY DEF IInv, ScanInv, EndScan, roomVars
<1>2. \A k \in found : origin'[k.bus] = k.of
  BY EndScanOrigin
<1>3. ASSUME NEW m \in Monitors PROVE Known(m)' \in {Known(m), None}
  <2>1. ReadOf(m)' = {}
    BY <1>1 DEF ReadOf
  <2>2. CASE Alone(m)' = {}
    BY <2>1, <2>2 DEF Known
  <2>3. CASE Alone(m)' # {}
    <3>1. PICK d \in displays' : Shown(m)' = {d} /\ From(d)' = {m}
      BY <2>3 DEF Alone
    <3>2. PICK g \in Groups(found) : d = Display(g, Groups(found))
      BY <1>1 DEF DisplaysOf
    <3>3. g \subseteq found
      BY <1>1, GroupFacts
    <3>4. ASSUME NEW k \in g PROVE k.of = m
      <4>1. PICK i \in 1 .. Len(d.handles) : d.handles[i] = k.bus
        BY <1>1, <3>2, DisplayHandles
      <4>2. k.of \in From(d)'
        BY <1>2, <3>3, <4>1 DEF From
      <4> QED
        BY <3>1, <4>2
    <3>5. ASSUME NEW k \in found, k.of = m PROVE k \in g
      <4>1. PICK h \in Groups(found) : k \in h
        <5>1. {j \in found : GroupKey(j) = GroupKey(k)} \in Groups(found)
          BY DEF Groups
        <5> QED
          BY <5>1
      <4>7. PICK e : e = Display(h, Groups(found))
        OBVIOUS
      <4>2. e \in displays'
        BY <1>1, <4>7 DEF DisplaysOf
      <4>3. PICK i \in 1 .. Len(e.handles) : e.handles[i] = k.bus
        BY <1>1, <4>1, <4>7, DisplayHandles
      <4>4. m \in From(e)'
        BY <1>2, <3>5, <4>3 DEF From
      <4>5. e = d
        BY <3>1, <4>2, <4>4 DEF Shown
      <4>6. IdOf(h, Groups(found)) = IdOf(g, Groups(found))
        BY <3>2, <4>7, <4>5 DEF Display
      <4> QED
        BY <1>1, <4>1, <4>6, IdsDiffer
    <3>6. g = ReadOf(m) /\ g # {}
      BY <1>1, <3>3, <3>4, <3>5, GroupFacts DEF ReadOf
    <3>7. Known(m) = Primary(g).current
      BY <3>6 DEF Known
    <3>8. d.current = Primary(g).current
      BY <1>1, <3>2, DisplayHandles
    <3>9. Alone(m)' = {d}
      BY <3>1 DEF Alone
    <3>10. Known(m)' = d.current
      BY <2>1, <3>9 DEF Known, TheOne
    <3> QED
      BY <3>7, <3>8, <3>10
  <2> QED
    BY <2>2, <2>3
<1> QED
  BY <1>1, <1>3, LossRefines

\* What an answer changes is known of the monitor whose one display it is.
LEMMA AnsweredKnown ==
    ASSUME IInv, OriginInv, pc = "call", NEW current, NEW maximum, Answered(current, maximum)
    PROVE  \A m \in Monitors :
              /\ Known(m)' = IF Called \in Alone(m) THEN current ELSE Known(m)
              /\ Called \in Alone(m) => Known(m) = Called.current /\ origin[Bus] = m
<1>0. PICK d : d = Called
  OBVIOUS
<1>9. PICK e : e = [d EXCEPT !.active = Index(d), !.current = current,
                              !.maxima = [@ EXCEPT ![Bus] = maximum]]
  OBVIOUS
<1>1. /\ displays' = (displays \ {d}) \cup {e} /\ UNCHANGED <<origin, found>> /\ found = {}
  BY <1>0, <1>9 DEF Answered, scanVars, OriginInv
<1>2. d \in displays /\ WellFormed(d) /\ call.tried \in Nat
  BY <1>0, CalledFacts
<1>3. Bus = d.handles[Index(d)]
  BY <1>0 DEF Bus
<1>4. e.handles = d.handles /\ e.id = d.id /\ e.current = current
  <2>1. d \in [id : Ids, connector : Connectors \cup {NoConnector}, handles : Seq(Buses),
               maxima : Maxima, active : Nat, current : Nat]
    BY <1>2 DEF WellFormed
  <2> QED
    BY <1>9, <2>1
<1>5. Bus \in {d.handles[i] : i \in 1 .. Len(d.handles)}
  BY <1>2, <1>3, IndexFacts
<1>6. From(e)' = From(d) /\ \A x : From(x)' = From(x)
  BY <1>1, <1>4 DEF From
<1>7. \A x \in displays : x.id = d.id => x = d
  BY <1>2 DEF IInv, DisplayInv, NoIdNeedsCounter
<1>8. ASSUME NEW m \in Monitors
      PROVE  /\ Known(m)' = IF d \in Alone(m) THEN current ELSE Known(m)
             /\ d \in Alone(m) => Known(m) = d.current /\ origin[Bus] = m
  <2>1. ReadOf(m) = {} /\ ReadOf(m)' = {}
    BY <1>1 DEF ReadOf
  <2>2. Shown(m)' = (Shown(m) \ {d}) \cup (IF d \in Shown(m) THEN {e} ELSE {})
    <3>1. \A x \in displays : x \in Shown(m) <=> m \in From(x)
      BY DEF Shown
    <3>2. Shown(m)' = {x \in displays' : m \in From(x)}
      BY <1>6 DEF Shown
    <3>3. m \in From(e) <=> m \in From(d)
      BY <1>6
    <3>4. Shown(m) \subseteq displays
      BY DEF Shown
    <3> QED
      BY <1>1, <1>2, <3>1, <3>2, <3>3, <3>4
  <2>3. CASE d \in Alone(m)
    <3>1. Shown(m) = {d} /\ From(d) = {m}
      BY <2>3 DEF Alone
    <3>2. Shown(m)' = {e} /\ From(e)' = {m} /\ e \in displays'
      BY <1>1, <1>6, <2>2, <3>1
    <3>3. Alone(m) = {d} /\ Alone(m)' = {e}
      BY <2>3, <3>1, <3>2 DEF Alone
    <3>4. Known(m) = d.current /\ Known(m)' = current
      BY <1>4, <2>1, <3>3 DEF Known, TheOne
    <3>5. origin[Bus] = m
      BY <1>5, <3>1 DEF From
    <3> QED
      BY <2>3, <3>4, <3>5
  <2>4. CASE d \notin Alone(m)
    <3>1. Alone(m)' = Alone(m)
      <4>1. ASSUME NEW x \in Alone(m) PROVE x \in Alone(m)'
        <5>1. Shown(m) = {x} /\ From(x) = {m} /\ x # d /\ x \in displays
          BY <2>4, <4>1 DEF Alone
        <5>2. d \notin Shown(m) /\ Shown(m)' = {x}
          BY <2>2, <5>1
        <5> QED
          BY <1>1, <1>6, <5>1, <5>2 DEF Alone
      <4>2. ASSUME NEW x \in Alone(m)' PROVE x \in Alone(m)
        <5>1. Shown(m)' = {x} /\ From(x) = {m} /\ x \in displays'
          BY <1>6, <4>2 DEF Alone
        <5>2. x # e \/ x \in displays \ {d}
          <6> SUFFICES ASSUME x = e PROVE x \in displays \ {d}
            OBVIOUS
          <6>1. CASE d \in Shown(m)
            <7>1. Shown(m) \ {d} \subseteq {e}
              BY <2>2, <5>1
            <7>2. \A y \in Shown(m) \ {d} : y \in displays /\ y # d /\ y.id = d.id
              BY <1>4, <7>1 DEF Shown
            <7>3. Shown(m) = {d}
              BY <1>7, <6>1, <7>2
            <7>4. From(d) = {m}
              BY <1>4, <1>6, <5>1
            <7> QED
              BY <1>2, <2>4, <7>3, <7>4 DEF Alone
          <6>2. CASE d \notin Shown(m)
            BY <2>2, <5>1, <6>2 DEF Shown
          <6> QED
            BY <6>1, <6>2
        <5>3. x \in displays /\ x # d
          BY <1>1, <5>1, <5>2
        <5>4. d \notin Shown(m)
          <6> SUFFICES ASSUME d \in Shown(m) PROVE FALSE
            OBVIOUS
          <6>1. e = x
            BY <2>2, <5>1
          <6> QED
            BY <1>4, <1>7, <5>3, <6>1
        <5>5. Shown(m) = {x}
          BY <2>2, <5>1, <5>4
        <5> QED
          BY <5>1, <5>3, <5>5 DEF Alone
      <4> QED
        BY <4>1, <4>2
    <3> QED
      BY <2>1, <2>4, <3>1 DEF Known
  <2> QED
    BY <2>3, <2>4
<1> QED
  BY <1>0, <1>8

\* An answered write is DdcControl's of the monitor whose one display it is, or
\* somebody else's doing.
LEMMA SetRefines ==
    ASSUME IInv, OriginInv, SetSucceeds
    PROVE  [Control!DdcNext]_(Control!hardwareVars)
<1>1. /\ pc = "call" /\ Bus \in Buses /\ Raw \in Nat /\ call.percent \in Percents
      /\ Called \in displays /\ WellFormed(Called) /\ call.tried \in Nat
      /\ Raw = RawOf(call.percent, Called.maxima[Bus])
  BY CalledFacts DEF SetSucceeds, Calling, Raw
<1>2. PICK n \in Reached(Bus) : Takes(n)
  BY DEF SetSucceeds
<1>3. n \in Monitors /\ VcpMax[n] \in Nat \ {0} /\ vcp \in [Monitors -> Nat] /\ RoomInv
  BY BackendAssumption DEF Reached, At, IInv, RoomInv
<1>4. \A m \in Monitors :
         /\ Known(m)' = IF Called \in Alone(m) THEN Raw ELSE Known(m)
         /\ Called \in Alone(m) => Known(m) = Called.current /\ origin[Bus] = m
  BY <1>1, AnsweredKnown DEF SetSucceeds
<1>5. CASE Called \in Alone(n)
  <2>1. /\ Known(n) \in Nat /\ origin[Bus] = n
        /\ \A m \in Monitors : Known(m)' = IF m = n THEN Raw ELSE Known(m)
    BY <1>1, <1>3, <1>4, <1>5 DEF WellFormed
  <2>2. Called.maxima[Bus] = VcpMax[n]
    <3>1. Index(Called) \in 1 .. Len(Called.handles) /\ Bus = Called.handles[Index(Called)]
      BY <1>1, IndexFacts DEF Bus
    <3>2. origin[Bus] # Nobody
      BY <1>3, <2>1, BackendAssumption
    <3> QED
      BY <1>1, <2>1, <3>1, <3>2 DEF OriginInv
  <2>3. Raw = RawOf(call.percent, VcpMax[n]) /\ Raw <= VcpMax[n]
    BY <1>1, <1>3, <2>2, RawOfType
  <2>4. vcp' = [vcp EXCEPT ![n] = Raw]
    BY <1>1, <1>2, <1>3, <2>3 DEF Takes, AtMost
  <2>5. DdcSeen' = [DdcSeen EXCEPT ![n] = Raw] /\ DdcSeen[n] # None
    <3>1. \A m \in Monitors : DdcSeen'[m] = IF m = n THEN Raw ELSE DdcSeen[m]
      BY <2>1, Zenon DEF DdcSeen
    <3>2. DdcSeen' = [m \in Monitors |-> DdcSeen'[m]] /\ DdcSeen = [m \in Monitors |-> DdcSeen[m]]
      BY Zenon DEF DdcSeen
    <3>3. Known(n) # None /\ DdcSeen[n] = Known(n)
      BY <1>3, <2>1 DEF DdcSeen, None
    <3> HIDE DEF DdcSeen, Raw
    <3> QED
      BY <3>1, <3>2, <3>3
  <2>6. Control!SetVcp(n, call.percent)
    BY <1>3, <2>3, <2>4, <2>5, SameValues DEF Control!SetVcp, Control!Managed
  <2> QED
    BY <1>1, <1>3, <2>6, SameValues DEF Control!DdcNext
<1>6. CASE Called \notin Alone(n)
  <2>1. \A m \in Monitors : Known(m)' = Known(m)
    <3> SUFFICES ASSUME NEW m \in Monitors, Called \in Alone(m) PROVE FALSE
      BY <1>4
    <3>1. origin[Bus] = m
      BY <1>4
    <3>2. n = m
      BY <1>1, <1>2, <3>1, ReachedIsOrigin
    <3> QED
      BY <1>6, <3>2
  <2>2. AtMost(Raw, VcpMax[n]) \in 0 .. VcpMax[n]
    BY <1>1, <1>3 DEF AtMost
  <2> QED
    BY <1>2, <1>3, <2>1, <2>2, TurnRefines DEF Takes
<1> QED
  BY <1>5, <1>6

\* An answered read is a look at the monitor whose one display it is.
LEMMA GetRefines ==
    ASSUME IInv, OriginInv, GetSucceeds
    PROVE  [Control!DdcNext]_(Control!hardwareVars)
<1>1. pc = "call" /\ Bus \in Buses /\ vcp' = vcp
  BY CalledFacts DEF GetSucceeds, Calling
<1>2. PICK n \in Reached(Bus) : Answered(vcp[n], VcpMax[n])
  BY DEF GetSucceeds
<1>3. n \in Monitors
  BY DEF Reached, At
<1>4. \A m \in Monitors :
         /\ Known(m)' = IF Called \in Alone(m) THEN vcp[n] ELSE Known(m)
         /\ Called \in Alone(m) => origin[Bus] = m
  BY <1>1, <1>2, AnsweredKnown
<1>5. \A m \in Monitors \ {n} : Known(m)' = Known(m)
  <2> SUFFICES ASSUME NEW m \in Monitors \ {n}, Called \in Alone(m) PROVE FALSE
    BY <1>4
  <2>1. origin[Bus] = m
    BY <1>4
  <2> QED
    BY <1>1, <1>2, <2>1, ReachedIsOrigin
<1>6. CASE Called \in Alone(n)
  BY <1>1, <1>3, <1>4, <1>5, <1>6, ReadRefines
<1>7. CASE Called \notin Alone(n)
  BY <1>1, <1>3, <1>4, <1>5, <1>7, Unseen
<1> QED
  BY <1>6, <1>7

\* A write that was not answered may have been taken.
LEMMA AttemptRefines ==
    ASSUME IInv, OriginInv, AttemptFails \/ GetZero
    PROVE  [Control!DdcNext]_(Control!hardwareVars)
<1>1. pc = "call" /\ UNCHANGED <<displays, origin, found>>
  BY DEF AttemptFails, GetZero, Calling, NextAttempt, NextHandle, scanVars
<1>2. \A m \in Monitors : Known(m)' = Known(m)
  BY <1>1, KnownStays
<1>3. CASE vcp' = vcp
  BY <1>2, <1>3, Unseen
<1>4. CASE \E n \in Reached(Bus) : Takes(n)
  <2>1. PICK n \in Reached(Bus) : Takes(n)
    BY <1>4
  <2>2. n \in Monitors /\ VcpMax[n] \in Nat /\ Raw \in Nat
    BY <1>1, CalledFacts, BackendAssumption DEF Reached, At
  <2>3. AtMost(Raw, VcpMax[n]) \in 0 .. VcpMax[n]
    BY <2>2 DEF AtMost
  <2> QED
    BY <1>2, <2>1, <2>2, <2>3, TurnRefines DEF Takes, IInv
<1> QED
  BY <1>3, <1>4 DEF AttemptFails, GetZero

\* Nothing is known of a monitor that was moved, and the others are not
\* concerned.
LEMMA ForgetRefines ==
    ASSUME IInv, NEW m \in Monitors, Forget(m)
    PROVE  [Control!DdcNext]_(Control!hardwareVars)
<1>1. /\ \A b \in Buses : origin'[b] = IF origin[b] = m THEN Nobody ELSE origin[b]
      /\ found' = {IF k.of = m THEN [k EXCEPT !.of = Nobody] ELSE k : k \in found}
      /\ UNCHANGED <<vcp, displays>>
  BY DEF Forget
<1>2. Nobody \notin Monitors /\ \A k \in found : k \in Readings
  BY BackendAssumption DEF IInv, ScanInv, Scan
<1>3. \A k \in found : k.of = m => [k EXCEPT !.of = Nobody].of = Nobody
  BY <1>2 DEF Readings
<1>4. \A d \in displays : \A i \in 1 .. Len(d.handles) : d.handles[i] \in Buses
  <2> SUFFICES ASSUME NEW d \in displays PROVE \A i \in 1 .. Len(d.handles) : d.handles[i] \in Buses
    OBVIOUS
  <2>1. d.handles \in Seq(Buses)
    BY DEF IInv, DisplayInv, WellFormed
  <2> QED
    BY <2>1, LenProperties
<1>5. ASSUME NEW d \in displays
      PROVE  /\ m \notin From(d)'
             /\ \A p \in Monitors \ {m} : p \in From(d)' <=> p \in From(d)
             /\ \A p \in Monitors \ {m} : From(d)' = {p} <=> From(d) = {p}
  <2>1. From(d)' = {IF x = m THEN Nobody ELSE x : x \in From(d)}
    BY <1>1, <1>4 DEF From
  <2> QED
    BY <1>2, <2>1
<1>6. ASSUME NEW p \in Monitors \ {m} PROVE Known(p)' = Known(p)
  <2>1. ReadOf(p)' = ReadOf(p)
    BY <1>1, <1>2, <1>3 DEF ReadOf
  <2>2. Shown(p)' = Shown(p)
    BY <1>1, <1>5 DEF Shown
  <2>3. Alone(p)' = Alone(p)
    BY <1>1, <1>5, <2>2 DEF Alone
  <2> QED
    BY <2>1, <2>3 DEF Known
<1>7. Known(m)' = None
  <2>1. ReadOf(m)' = {}
    BY <1>1, <1>2, <1>3 DEF ReadOf
  <2>2. Shown(m)' = {}
    BY <1>1, <1>5 DEF Shown
  <2>3. Alone(m)' = {}
    BY <2>2 DEF Alone
  <2> QED
    BY <2>1, <2>3 DEF Known
<1> QED
  BY <1>1, <1>6, <1>7, LossRefines

\* Every step is one DdcControl allows, or shows nothing.
LEMMA StepRefines == IInv /\ OriginInv /\ [Next]_vars => [Control!DdcNext]_(Control!hardwareVars)
<1> SUFFICES ASSUME IInv, OriginInv, [Next]_vars PROVE [Control!DdcNext]_(Control!hardwareVars)
  OBVIOUS
<1>1. CASE UNCHANGED <<vcp, displays, origin, found>>
  BY <1>1, KnownStays, Unseen
<1>2. CASE Begin \/ Probe \/ ReadNothing \/ UNCHANGED vars
  <2>1. CASE Probe
    BY <1>1, <2>1 DEF Probe, roomVars, OriginInv
  <2>2. CASE Begin \/ ReadNothing \/ UNCHANGED vars
    BY <1>1, <2>2 DEF Begin, BeginScan, BeginCall, ReadNothing, vars, roomVars, scanVars
  <2> QED
    BY <1>2, <2>1, <2>2
<1>3. CASE Environment
  <2>1. ASSUME NEW m \in Monitors, NEW raw \in 0 .. VcpMax[m], Turn(m, raw)
        PROVE  [Control!DdcNext]_(Control!hardwareVars)
    <3>1. vcp' = [vcp EXCEPT ![m] = raw] /\ UNCHANGED <<displays, origin, found>>
      BY <2>1 DEF Turn, scanVars
    <3> QED
      BY <3>1, KnownStays, TurnRefines DEF IInv
  <2>2. ASSUME NEW m \in Monitors, Forget(m) PROVE [Control!DdcNext]_(Control!hardwareVars)
    BY <2>2, ForgetRefines
  <2> QED
    BY <1>3, <2>1, <2>2 DEF Environment, Plug, Unplug
<1> QED
  BY <1>2, <1>3, ReadVcpRefines, EndScanRefines, SetRefines, GetRefines, AttemptRefines
     DEF Next, Work

\* Before the first scan nothing is known.
LEMMA InitRefines == Init => Control!DdcInit
<1> SUFFICES ASSUME Init PROVE Control!DdcInit
  OBVIOUS
<1>1. \A m \in Monitors : Known(m) = None
  BY DEF Init, Known, ReadOf, Alone
<1>2. DdcSeen = [m \in Monitors |-> None]
  BY <1>1 DEF DdcSeen
<1> QED
  BY <1>2, SameValues DEF Init, Control!DdcInit

\* What the daemon can rely on of the DDC backend is DdcControl: a value it has
\* of a monitor was read there or answered from there (ddc.rs as a whole).
THEOREM DdcRefines == Spec => ImplementsDdcControl
<1>1. Init => Control!DdcInit
  BY InitRefines
<1>2. IInv /\ OriginInv /\ [Next]_vars => [Control!DdcNext]_(Control!hardwareVars)
  BY StepRefines
<1> QED
  BY <1>1, <1>2, OriginHolds, PTL DEF Spec, ImplementsDdcControl, Control!DdcSpec

=============================================================================
