------------------------------ MODULE DdcTopology ------------------------------
(***************************************************************************)
(* Which display a DDC handle belongs to (wlight-backend, ddc.rs): a scan  *)
(* associates each i2c bus that answered with a DRM connector, groups the  *)
(* buses of one monitor and gives every group an id.  Operators without    *)
(* state.                                                                  *)
(*                                                                         *)
(* An EDID is its fingerprint, a bus its adapter number (ddc-hi gives one  *)
(* to every Linux handle).  A connector is its name without the card: the  *)
(* kernel numbers connectors of one type across cards.                     *)
(***************************************************************************)
EXTENDS Integers, FiniteSets

CONSTANTS
    Connectors,     \* directories of /sys/class/drm
    Buses,          \* i2c adapter numbers
    Direct,         \* [Connectors -> SUBSET Buses]: the connector's AUX channel
    Legacy,         \* [Connectors -> SUBSET Buses]: its ddc link
    Edids

NoEdid      == "no EDID"
NoConnector == "no connector"
Plain       == <<"plain">>          \* an id without a suffix

ASSUME TopologyAssumption ==
    /\ Buses \subseteq Nat /\ IsFiniteSet(Buses) /\ IsFiniteSet(Connectors)
    /\ Direct \in [Connectors -> SUBSET Buses]
    /\ Legacy \in [Connectors -> SUBSET Buses]
    /\ NoEdid \notin Edids /\ NoConnector \notin Connectors

\* DrmConnector, what scan_drm_connectors reads of one.
Scanned == [connected : BOOLEAN, edid : Edids \cup {NoEdid}]
OnBus(c, bus) == bus \in Direct[c] \cup Legacy[c]

\* DdcCandidate: a bus that answered, with the connector found for it.
Candidates == [bus : Buses, edid : Edids, connector : Connectors \cup {NoConnector},
               current : Nat, maximum : Nat]

-----------------------------------------------------------------------------
(* Association (match_connector)                                           *)

Connected(drm) == {c \in Connectors : drm[c].connected}

Exact(drm, edid, bus) == {c \in Connected(drm) : drm[c].edid = edid /\ OnBus(c, bus)}
SameEdid(drm, edid)   == {c \in Connected(drm) : drm[c].edid = edid}
BusOnly(drm, bus)     == {c \in Connected(drm) : drm[c].edid = NoEdid /\ OnBus(c, bus)}

IsOne(S) == Cardinality(S) = 1
TheOne(S) == CHOOSE c \in S : TRUE

MatchAny(drm, edid, bus) ==         \* a bug: twins are assigned by order
    IF SameEdid(drm, edid) # {} THEN TheOne(SameEdid(drm, edid)) ELSE NoConnector
MatchConnector(drm, edid, bus) ==
    CASE IsOne(Exact(drm, edid, bus)) -> TheOne(Exact(drm, edid, bus))
      [] ~IsOne(Exact(drm, edid, bus)) /\ IsOne(SameEdid(drm, edid)) ->
            TheOne(SameEdid(drm, edid))
      [] ~IsOne(Exact(drm, edid, bus)) /\ ~IsOne(SameEdid(drm, edid))
            /\ IsOne(BusOnly(drm, bus)) -> TheOne(BusOnly(drm, bus))
      [] OTHER -> NoConnector

\* handle_preference: the connector's own AUX channel, its legacy link, a bus
\* nobody owns, one that another connector owns.
Preference(c, bus) ==
    CASE c # NoConnector /\ bus \in Direct[c] -> 0
      [] c # NoConnector /\ bus \in Legacy[c] \ Direct[c] -> 1
      [] ~(c # NoConnector /\ OnBus(c, bus))
            /\ \E o \in Connectors : o # c /\ OnBus(o, bus) -> 3
      [] OTHER -> 2

-----------------------------------------------------------------------------
(* Groups (physical_group_key, group_candidates)                           *)

GroupByEdid(k) == <<k.edid>>        \* a bug: twins are one group
GroupKey(k) ==
    IF k.connector = NoConnector THEN <<"bus", k.bus, k.edid>>
                                 ELSE <<"connector", k.connector, k.edid>>

Groups(candidates) ==
    {{k \in candidates : GroupKey(k) = key} : key \in {GroupKey(k) : k \in candidates}}

Before(j, k) ==
    LET p == Preference(j.connector, j.bus)
        q == Preference(k.connector, k.bus)
    IN  p < q \/ (p = q /\ j.bus < k.bus)
Ordered(group) == [i \in 1 .. Cardinality(group) |->
    CHOOSE k \in group : Cardinality({j \in group : Before(j, k)}) = i - 1]
Primary(group) == CHOOSE j \in group : \A k \in group \ {j} : Before(j, k)

\* The id before ensure_unique_id: the EDID alone names a monitor, unless two
\* groups of the scan have it.  That these ids never need the counter it would
\* append is NoIdNeedsCounter; with it the id is the final one.
Id(edid, suffix) == [edid |-> edid, suffix |-> suffix]
Ids == [edid : Edids, suffix : {Plain} \cup {<<"at", c>> : c \in Connectors}
                                       \cup {<<"bus", b>> : b \in Buses}]
IdAlwaysPlain(group, groups) == Id(Primary(group).edid, Plain)     \* a bug
IdOf(group, groups) ==
    LET k == Primary(group)
        twin == \E other \in groups \ {group} : Primary(other).edid = k.edid
    IN  Id(k.edid, CASE ~twin -> Plain
                     [] twin /\ k.connector # NoConnector -> <<"at", k.connector>>
                     [] twin /\ k.connector = NoConnector -> <<"bus", k.bus>>)

\* ManagedDisplay, as a scan creates it.
Display(group, groups) ==
    LET k == Primary(group) IN
    [id        |-> IdOf(group, groups),
     connector |-> k.connector,
     handles   |-> [i \in 1 .. Cardinality(group) |-> Ordered(group)[i].bus],
     maxima    |-> [bus \in {j.bus : j \in group} |->
                       (CHOOSE j \in group : j.bus = bus).maximum],
     active    |-> 1,
     current   |-> k.current]

DisplaysOf(candidates) == {Display(g, Groups(candidates)) : g \in Groups(candidates)}
=============================================================================
