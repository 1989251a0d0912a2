------------------------------ MODULE DdcControl ------------------------------
(***************************************************************************)
(* What the DDC backend (wlight-backend, ddc.rs) promises the daemon: for  *)
(* each monitor the raw value the backend last read or wrote, beside the   *)
(* register itself, which others change too.  DdcBackend implements it.    *)
(***************************************************************************)
EXTENDS BrightnessPolicy

CONSTANTS
    DdcOutputs,     \* outputs whose monitor answers DDC
    VcpMax          \* [DdcOutputs -> the monitor's maximum of VCP 0x10]

ASSUME VcpAssumption == VcpMax \in [DdcOutputs -> Nat \ {0}]

VARIABLES
    vcp,            \* VCP feature 0x10 of each monitor
    ddc             \* DdcBackend: cached raw value, None when not enumerated

hardwareVars == <<vcp, ddc>>

RawValues == UNION {0 .. VcpMax[o] : o \in DdcOutputs}

DdcTypeOK ==
    /\ vcp \in [DdcOutputs -> RawValues]
    /\ ddc \in [DdcOutputs -> RawValues \cup {None}]
    /\ \A o \in DdcOutputs : vcp[o] <= VcpMax[o] /\ ddc[o] <= VcpMax[o]

DdcInit ==
    /\ vcp \in [DdcOutputs -> RawValues] /\ \A o \in DdcOutputs : vcp[o] <= VcpMax[o]
    /\ ddc = [o \in DdcOutputs |-> None]

\* The backend reads the monitors in asked.  Those in seen answer, the others
\* are left out of the list.
Look(asked, seen) ==
    /\ ddc' = [o \in DdcOutputs |-> CASE o \in seen         -> vcp[o]
                                      [] o \in asked \ seen -> None
                                      [] OTHER              -> ddc[o]]
    /\ UNCHANGED vcp

\* find_mut: the last scan found the monitor.
Managed(o) == o \in {p \in DdcOutputs : ddc[p] # None}

\* A write that was answered, and one that was not although it took effect.
SetVcp(o, percent) ==
    /\ Managed(o)
    /\ vcp' = [vcp EXCEPT ![o] = RawOf(percent, VcpMax[o])]
    /\ ddc' = [ddc EXCEPT ![o] = RawOf(percent, VcpMax[o])]
SetUnanswered(o, percent) ==
    /\ Managed(o) /\ vcp[o] # RawOf(percent, VcpMax[o])
    /\ vcp' = [vcp EXCEPT ![o] = RawOf(percent, VcpMax[o])]
    /\ UNCHANGED ddc

\* Somebody uses the monitor's own controls, or it returns from a power cut
\* with another value.
Turn(o, raw) ==
    /\ raw <= VcpMax[o] /\ raw # vcp[o]
    /\ vcp' = [vcp EXCEPT ![o] = raw]
    /\ UNCHANGED ddc

DdcNext ==
    \/ \E asked \in SUBSET DdcOutputs : \E seen \in SUBSET asked : Look(asked, seen)
    \/ \E o \in DdcOutputs :
          \/ \E percent \in Percents : SetVcp(o, percent) \/ SetUnanswered(o, percent)
          \/ \E raw \in RawValues : Turn(o, raw)

DdcSpec == DdcInit /\ [][DdcNext]_hardwareVars
=============================================================================
