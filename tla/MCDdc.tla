-------------------------------- MODULE MCDdc --------------------------------
(***************************************************************************)
(* DdcBackend on two monitors, which may have one EDID, and two sockets.   *)
(* Bus 1 is the first socket's AUX channel, bus 2 the legacy link of the   *)
(* second and bus 3 an MST adapter behind the first that no connector      *)
(* owns.  Two moves of the monitors, their knobs included, are enough for  *)
(* one to be replaced by the other; sysfs hides at most one EDID from a    *)
(* scan.                                                                   *)
(***************************************************************************)
EXTENDS DdcBackend

CONSTANTS m1, m2, s1, s2, e1, MaxMoves

MCDirect == [c \in {s1, s2} |-> IF c = s1 THEN {1} ELSE {}]
MCLegacy == [c \in {s1, s2} |-> IF c = s2 THEN {2} ELSE {}]
MCBehind == [b \in {1, 2, 3} |-> IF b = 2 THEN s2 ELSE s1]
MCVcpMax == [m \in {m1, m2} |-> IF m = m1 THEN 2 ELSE 1]

VARIABLE moves
mcvars == <<vars, moves>>

MCInit == Init /\ vcp = VcpMax /\ edidOf[m1] = e1 /\ at[m1] = s1 /\ moves = 0
Hidden == {c \in Sockets : drm'[c].connected /\ drm'[c].edid = NoEdid}
MCNext == \/ (Begin \/ Work) /\ Cardinality(Hidden) <= 1 /\ UNCHANGED moves
          \/ Environment /\ moves < MaxMoves /\ moves' = moves + 1
MCSpec == MCInit /\ [][MCNext]_mcvars
MCFairSpec == MCSpec /\ WF_mcvars(Work /\ UNCHANGED moves)
=============================================================================
