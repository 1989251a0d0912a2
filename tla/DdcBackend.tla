------------------------------ MODULE DdcBackend ------------------------------
(***************************************************************************)
(* The DDC backend (wlight-backend, ddc.rs): a scan reads the connectors   *)
(* from sysfs, the EDIDs of all i2c buses and then VCP feature 0x10 on one *)
(* bus after the other; reads and writes retry and fall back from handle   *)
(* to handle of a display.  Between any two of these steps monitors are    *)
(* plugged, unplugged and turned.                                          *)
(*                                                                         *)
(* A monitor sits at a socket, a connector that has one, and answers on    *)
(* the buses behind it.  An acknowledged write has taken effect.  origin,  *)
(* and the monitor a candidate was read from, are history: which monitor   *)
(* a handle was opened on, Nobody once it has been moved.  clean says that *)
(* nothing moved since the last scan began and that it read every EDID     *)
(* sysfs has.                                                              *)
(***************************************************************************)
EXTENDS BrightnessPolicy, DdcTopology, Sequences

CONSTANTS
    Monitors,
    VcpMax,         \* [Monitors -> the monitor's maximum of VCP 0x10]
    Sockets,        \* the connectors a monitor can be plugged into
    Behind,         \* [Buses -> the socket whose monitor answers on the bus]
    Attempts        \* DDC_ATTEMPTS

Nowhere == "nowhere"
Nobody  == "nobody"

ASSUME BackendAssumption ==
    /\ VcpMax \in [Monitors -> Nat \ {0}]
    /\ Sockets \subseteq Connectors
    /\ Behind \in [Buses -> Sockets]
    /\ \A c \in Connectors, b \in Buses : OnBus(c, b) => Behind[b] = c
    /\ Attempts \in Nat \ {0}
    /\ Nowhere \notin Connectors /\ Nobody \notin Monitors

VARIABLES
    edidOf,         \* of each monitor, never changes
    at,             \* the socket of each monitor
    vcp,            \* VCP feature 0x10 of each monitor
    displays,       \* DdcBackend.displays
    pc,             \* idle, or what goes on: probe and read (a scan), call
    drm,            \* a scan: what sysfs said of the connectors
    edids,          \* a scan: the EDID read on each bus
    todo,           \* a scan: the buses still to read
    found,          \* a scan: the candidates
    call,           \* the request, the handle and the attempt it is at
    origin, clean   \* history

roomVars == <<edidOf, at, vcp>>
scanVars == <<drm, edids, todo, found>>
vars == <<edidOf, at, vcp, displays, pc, drm, edids, todo, found, call, origin, clean>>

At(c) == {m \in Monitors : at[m] = c}
Reached(b) == At(Behind[b])         \* one monitor or none
Minimum(S) == CHOOSE b \in S : \A other \in S : b <= other

\* asked, the buses the call has used, is history.
NoCall == [kind |-> "none", id |-> Id(NoEdid, Plain), percent |-> 0, tried |-> 0,
           attempt |-> 0, asked |-> {}]
Calls == {NoCall} \cup
    [kind : {"get", "set"}, id : Ids, percent : Percents,
     tried : 0 .. Cardinality(Buses) - 1, attempt : 1 .. Attempts, asked : SUBSET Buses]

Init ==
    /\ edidOf \in [Monitors -> Edids]
    /\ at \in [Monitors -> Sockets \cup {Nowhere}]
    /\ \A m, n \in Monitors : at[m] = at[n] /\ at[m] # Nowhere => m = n
    /\ vcp \in [Monitors -> UNION {0 .. VcpMax[m] : m \in Monitors}]
    /\ \A m \in Monitors : vcp[m] <= VcpMax[m]
    /\ displays = {}
    /\ pc = "idle"
    /\ drm = [c \in Connectors |-> [connected |-> FALSE, edid |-> NoEdid]]
    /\ edids = [b \in Buses |-> NoEdid]
    /\ todo = {} /\ found = {}
    /\ call = NoCall
    /\ origin = [b \in Buses |-> Nobody]
    /\ clean = FALSE

-----------------------------------------------------------------------------
(* A scan (enumerate_from)                                                 *)

\* scan_drm_connectors; the EDID of a connector in unread cannot be read.
BeginScan(unread) ==
    /\ pc = "idle"
    /\ drm' = [c \in Connectors |->
          [connected |-> At(c) # {},
           edid |-> IF At(c) = {} \/ c \in unread THEN NoEdid ELSE edidOf[TheOne(At(c))]]]
    /\ clean' = (\A c \in unread : At(c) = {})
    /\ pc' = "probe"
    /\ UNCHANGED <<roomVars, displays, edids, todo, found, call, origin>>

\* Display::enumerate of ddc-hi.  A bus that does not answer here is one that
\* does not answer the read below.
Probe ==
    /\ pc = "probe"
    /\ edids' = [b \in Buses |->
          IF Reached(b) = {} THEN NoEdid ELSE edidOf[TheOne(Reached(b))]]
    /\ todo' = {b \in Buses : Reached(b) # {}}
    /\ found' = {}
    /\ pc' = "read"
    /\ UNCHANGED <<roomVars, displays, drm, call, origin, clean>>

Candidate(b, m) ==
    [bus |-> b, edid |-> edids[b], connector |-> MatchConnector(drm, edids[b], b),
     current |-> vcp[m], maximum |-> VcpMax[m], of |-> m]

\* get_vcp_with_retry in the scan: the attempt that is answered.
ReadVcp ==
    /\ pc = "read" /\ todo # {}
    /\ \E m \in Reached(Minimum(todo)) :
          found' = found \cup {Candidate(Minimum(todo), m)}
    /\ todo' = todo \ {Minimum(todo)}
    /\ UNCHANGED <<roomVars, displays, pc, drm, edids, call, origin, clean>>

\* No attempt is, or the monitor reports the maximum 0.
ReadNothing ==
    /\ pc = "read" /\ todo # {}
    /\ todo' = todo \ {Minimum(todo)}
    /\ UNCHANGED <<roomVars, displays, pc, drm, edids, found, call, origin, clean>>

EndScan ==
    /\ pc = "read" /\ todo = {}
    /\ displays' = DisplaysOf(found)
    /\ origin' = [b \in Buses |->
          IF \E k \in found : k.bus = b THEN (CHOOSE k \in found : k.bus = b).of ELSE Nobody]
    /\ pc' = "idle"
    /\ drm' = [c \in Connectors |-> [connected |-> FALSE, edid |-> NoEdid]]
    /\ edids' = [b \in Buses |-> NoEdid]
    /\ found' = {}
    /\ UNCHANGED <<roomVars, todo, call, clean>>

-----------------------------------------------------------------------------
(* set_brightness and get_brightness                                       *)

BeginCallOptimistic(kind, d, percent) ==     \* a bug: the snapshot before the write
    /\ pc = "idle"
    /\ call' = [kind |-> kind, id |-> d.id, percent |-> percent, tried |-> 0,
                attempt |-> 1, asked |-> {}]
    /\ displays' = (displays \ {d}) \cup {[d EXCEPT !.current = percent]}
    /\ pc' = "call"
    /\ UNCHANGED <<roomVars, scanVars, origin, clean>>
BeginCall(kind, d, percent) ==
    /\ pc = "idle"
    /\ call' = [kind |-> kind, id |-> d.id, percent |-> percent, tried |-> 0,
                attempt |-> 1, asked |-> {}]
    /\ pc' = "call"
    /\ UNCHANGED <<roomVars, displays, scanVars, origin, clean>>

\* find_mut, and the next handle of handle_order.
Called == CHOOSE d \in displays : d.id = call.id
IndexNoWrap(d) == AtMost(d.active + call.tried, Len(d.handles))     \* a bug
Index(d) == ((d.active - 1 + call.tried) % Len(d.handles)) + 1
Bus == Called.handles[Index(Called)]
Raw == RawOf(call.percent, Called.maxima[Bus])
Calling(kind) == pc = "call" /\ call.kind = kind

Finish ==
    /\ pc' = "idle"
    /\ call' = NoCall

\* The handle that answered becomes the active one.
AnsweredByBus(current, maximum) ==                       \* a bug: not an index
    /\ displays' = (displays \ {Called}) \cup
          {[Called EXCEPT !.active = Bus, !.current = current]}
    /\ Finish
    /\ UNCHANGED <<edidOf, at, scanVars, origin, clean>>
Answered(current, maximum) ==
    /\ displays' = (displays \ {Called}) \cup
          {[Called EXCEPT !.active = Index(Called), !.current = current,
                          !.maxima = [@ EXCEPT ![Bus] = maximum]]}
    /\ Finish
    /\ UNCHANGED <<edidOf, at, scanVars, origin, clean>>

\* A monitor clamps what is above its own maximum.
Takes(m) == vcp' = [vcp EXCEPT ![m] = AtMost(Raw, VcpMax[m])]

SetSucceeds ==
    /\ Calling("set")
    /\ \E m \in Reached(Bus) : Takes(m)
    /\ Answered(Raw, Called.maxima[Bus])

GetSucceeds ==
    /\ Calling("get")
    /\ \E m \in Reached(Bus) : Answered(vcp[m], VcpMax[m])
    /\ UNCHANGED vcp

NextHandle ==
    /\ IF call.tried + 1 < Len(Called.handles)
       THEN /\ call' = [call EXCEPT !.tried = @ + 1, !.attempt = 1,
                                    !.asked = @ \cup {Bus}]
            /\ UNCHANGED pc
       ELSE Finish
    /\ UNCHANGED <<edidOf, at, displays, scanVars, origin, clean>>

\* The monitor reports the maximum 0.
GetZero ==
    /\ Calling("get") /\ Reached(Bus) # {}
    /\ NextHandle
    /\ UNCHANGED vcp

\* An attempt that is not acknowledged, or by nobody; the monitor may have
\* taken a write all the same.
NextAttemptForever == UNCHANGED <<call, edidOf, at, displays, pc, scanVars,
                                  origin, clean>>                        \* a bug
NextAttempt ==
    IF call.attempt < Attempts
    THEN /\ call' = [call EXCEPT !.attempt = @ + 1]
         /\ UNCHANGED <<edidOf, at, displays, pc, scanVars, origin, clean>>
    ELSE NextHandle
AttemptFails ==
    /\ pc = "call"
    /\ \/ UNCHANGED vcp
       \/ call.kind = "set" /\ \E m \in Reached(Bus) : Takes(m)
    /\ NextAttempt

-----------------------------------------------------------------------------
(* The environment                                                         *)

\* Handles opened on m are no longer known to reach it.
Forget(m) ==
    /\ origin' = [b \in Buses |-> IF origin[b] = m THEN Nobody ELSE origin[b]]
    /\ found' = {IF k.of = m THEN [k EXCEPT !.of = Nobody] ELSE k : k \in found}
    /\ clean' = FALSE
    /\ UNCHANGED <<edidOf, vcp, displays, pc, drm, edids, todo, call>>

Plug(m, c) ==
    /\ at[m] = Nowhere /\ At(c) = {}
    /\ at' = [at EXCEPT ![m] = c]
    /\ Forget(m)

Unplug(m) ==
    /\ at[m] # Nowhere
    /\ at' = [at EXCEPT ![m] = Nowhere]
    /\ Forget(m)

Turn(m, raw) ==
    /\ raw <= VcpMax[m] /\ raw # vcp[m]
    /\ vcp' = [vcp EXCEPT ![m] = raw]
    /\ UNCHANGED <<edidOf, at, displays, pc, scanVars, call, origin, clean>>

-----------------------------------------------------------------------------

Begin ==
    \/ \E unread \in SUBSET Sockets : BeginScan(unread)
    \/ \E d \in displays : \/ BeginCall("get", d, 0)
                           \/ \E percent \in Percents : BeginCall("set", d, percent)

Work == \/ Probe
        \/ ReadVcp
        \/ ReadNothing
        \/ EndScan
        \/ SetSucceeds
        \/ GetSucceeds
        \/ GetZero
        \/ AttemptFails

Environment ==
    \E m \in Monitors : \/ \E c \in Sockets : Plug(m, c)
                        \/ Unplug(m)
                        \/ \E raw \in 0 .. VcpMax[m] : Turn(m, raw)

Next == Begin \/ Work \/ Environment

Spec == Init /\ [][Next]_vars

\* Every i2c transfer ends, answered or not, and the thread goes on.
FairSpec == Spec /\ WF_vars(Work)

-----------------------------------------------------------------------------
(* Properties                                                              *)

From(d) == {origin[d.handles[i]] : i \in 1 .. Len(d.handles)}
Settled == pc \in {"idle", "call"}

\* Every variable has its type; the active handle is one of the display's.
TypeOK ==
    /\ edidOf \in [Monitors -> Edids]
    /\ at \in [Monitors -> Sockets \cup {Nowhere}]
    /\ \A m \in Monitors : vcp[m] \in 0 .. VcpMax[m]
    /\ \A d \in displays :
          /\ d.id \in Ids /\ d.connector \in Connectors \cup {NoConnector}
          /\ d.active \in 1 .. Len(d.handles)
          /\ \A i \in 1 .. Len(d.handles) : d.maxima[d.handles[i]] \in Nat \ {0}
          /\ d.current \in Nat
    /\ pc \in {"idle", "probe", "read", "call"}
    /\ drm \in [Connectors -> Scanned]
    /\ edids \in [Buses -> Edids \cup {NoEdid}]
    /\ todo \subseteq Buses
    /\ call \in Calls
    /\ origin \in [Buses -> Monitors \cup {Nobody}]
    /\ clean \in BOOLEAN

\* The ids made of EDID, connector and bus differ by themselves, whatever was
\* plugged during the scan: ensure_unique_id (ddc.rs:284) never appends its
\* counter, which would give saved settings to the displays in the order of the
\* scan.
NoIdNeedsCounter ==
    \A d, e \in displays : d.id = e.id => d = e

\* After a scan that nothing disturbed, every display is one monitor: all its
\* handles reach it, its id has that monitor's EDID and its connector is not
\* another's.  A monitor without a twin is one display, with the plain id and
\* at its connector, whichever of its buses answered ("D-Bus exposes only one
\* logical monitor for the group", docs/architecture.md:42).
HasTwin(m) == \E t \in Monitors \ {m} : at[t] # Nowhere /\ edidOf[t] = edidOf[m]
Identified ==
    clean /\ Settled =>
        \A d \in displays : \E m \in Monitors :
            /\ From(d) = {m}
            /\ d.id.edid = edidOf[m]
            /\ d.connector \in {at[m], NoConnector}
            /\ ~HasTwin(m) => /\ d.id.suffix = Plain
                              /\ d.connector = at[m]
                              /\ \A e \in displays \ {d} : m \notin From(e)

\* A request fails only when every handle of the display has failed: it does
\* not stop at the last one when the active one is in the middle ("the
\* backend falls back to them automatically", docs/architecture.md:92-94).
FailedCallAskedAll ==
    [][(AttemptFails \/ GetZero) /\ pc' = "idle" =>
          \A i \in 1 .. Len(Called.handles) :
              Called.handles[i] \in call.asked \cup {Bus}]_pc

\* Every scan and every request comes to an end.
CallsEnd == (pc # "idle") ~> (pc = "idle")

\* The detailed backend implements DdcControl.  The backend's value for a
\* monitor is the best reading of the scan in progress or else that of the one
\* display whose handles all reach it; none when it has moved, is known twice
\* or shares a display.
ReadOf(m) == {k \in found : k.of = m}
Shown(m)  == {d \in displays : m \in From(d)}
Alone(m)  == {d \in displays : Shown(m) = {d} /\ From(d) = {m}}
Known(m) ==
    CASE ReadOf(m) # {}                  -> Primary(ReadOf(m)).current
      [] ReadOf(m) = {} /\ Alone(m) # {} -> TheOne(Alone(m)).current
      [] OTHER                           -> None
DdcSeen == [m \in Monitors |-> Known(m)]
Control == INSTANCE DdcControl WITH DdcOutputs <- Monitors, ddc <- DdcSeen
ImplementsDdcControl == Control!DdcSpec

\* "Distinct DDC monitors with identical EDIDs and no unique serial number are
\* disambiguated by connector or I2C bus" (docs/architecture.md:50-51): no
\* display has handles of two monitors.
MonitorsApart == \A d \in displays : Cardinality(From(d) \ {Nobody}) <= 1
=============================================================================
