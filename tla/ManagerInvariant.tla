--------------------------- MODULE ManagerInvariant ---------------------------
(***************************************************************************)
(* The inductive invariants behind the safety properties of Manager.  The  *)
(* properties speak of a moment (the daemon is idle, a transition ended);  *)
(* the invariants say what every step in between keeps.                    *)
(***************************************************************************)
EXTENDS Manager

-----------------------------------------------------------------------------
(* Transitions                                                             *)

\* The backends' caches tell what the hardware does, except for the controls
\* that were touched.  A gamma control that is gone is the only thing
\* the worker's cache may be wrong about.
CachesTrue ==
    /\ \A o \in Outputs : lut[o] \in {None, cache[o]}
    /\ worker # "running" => lut = NoControls
    /\ \A o \in Outputs : Untouched("gamma", o) => cache[o] = lut[o]
    /\ \A o \in DdcOutputs : Untouched("ddc", o) /\ ddc[o] # None => ddc[o] = vcp[o]

\* No control is listed under two ids, and "wayland" ids have no DDC.
OneOwner ==
    \A id, other \in Ids, k \in Kinds :
        Has(id, k) =>
            /\ k = "ddc" => id.kind = "edid"
            /\ Has(other, k) /\ other.output = id.output => other = id

\* The entry of id is the truth about its controls.
TrueEntry(id) ==
    \A k \in Kinds : Has(id, k) /\ Untouched(k, id.output) =>
        displays[id][k] = LevelOf(k, id.output)

\* No gamma control held is missing from the list.
AllListed ==
    \A o \in Outputs : lut[o] # None /\ Untouched("gamma", o) =>
        \E id \in Ids : id.output = o /\ Has(id, "gamma")

\* After a rebuild the whole list is true until the next operation; while a
\* refresh goes through it, the entries it has not come to are.
Quiet == pc \in {"idle", "save", "write", "rename"}
ListTrue ==
    /\ Quiet => AllListed /\ \A id \in Ids : TrueEntry(id)
    /\ pc \in {"restore", "adjust", "rollback"} => \A id \in rest : TrueEntry(id)
    /\ pc = "idle" => rest = {}

\* The adjustments of the transition in progress, and those in effect now.
Planned  == Adjustments(displays[op.id], op.plan)
InEffect == IF pc = "adjust" THEN applied ELSE todo \cup applied

\* Adjustments take effect in their order, and are undone from the last.
InOrder ==
    InTransition =>
        /\ op.id \notin rest
        /\ \A k \in Kinds : op.plan[k] # None => Has(op.id, k)
        /\ todo \subseteq Planned /\ applied \subseteq Planned
        /\ pc = "adjust" => applied = Planned \ todo
        /\ pc = "rollback" => todo \cap applied = {} /\ \A a, b \in InEffect : a = b
        /\ \A a \in InEffect, b \in Planned \ InEffect : OrderKey(a) <= OrderKey(b)

\* On a monitor with at least as many raw values as percents, a level that is
\* written reads back as the same level.
FineMonitors == \A o \in DdcOutputs : VcpMax[o] >= Full

\* A control has the planned level when its adjustment is in effect and the
\* listed one when it is not.
LevelsKnown ==
    FineMonitors /\ InTransition =>
        \A k \in Kinds : Has(op.id, k) /\ Untouched(k, op.id.output) =>
            LevelOf(k, op.id.output) =
                IF \E a \in InEffect : a.control = k THEN op.plan[k] ELSE displays[op.id][k]

\* Together they are inductive: every step of Manager keeps them, which is how
\* the truth of the list at the start of a transition (state.rs:128) becomes
\* known levels at its end.
ListInv == OneOwner /\ ListTrue /\ InOrder /\ LevelsKnown
ListingInv == CachesTrue /\ ListInv

-----------------------------------------------------------------------------
(* Restoring                                                               *)

\* A saved control of the display has its saved value, or the display carries
\* an error.
Restored(id) ==
    \A k \in Kinds : Has(id, k) /\ config[id][k] # None /\ Untouched(k, id.output) =>
        LevelOf(k, id.output) = config[id][k] \/ id \in errors

\* A refresh has restored every display it has come to, but for the one whose
\* transition is in progress, and that one's plan is what is saved of it.
RestoreInv ==
    /\ pc = "restore" => \A id \in Ids \ rest : Restored(id)
    /\ InTransition /\ op.kind \in RestoreKinds =>
          /\ op.plan = Wanted(config[op.id], displays[op.id])
          /\ \A id \in Ids \ (rest \cup {op.id}) : Restored(id)

-----------------------------------------------------------------------------
(* Saving                                                                  *)

Saving == pc \in {"save", "write", "rename"}

\* The temporary file is complete when it replaces the old one, and the
\* settings in memory hold what the request set (config.rs:67, state.rs:141).
SaveInv ==
    /\ DiskNeverTorn
    /\ AckedSettingsSaved
    /\ pc = "rename" => tmp = Whole(config)
    /\ Saving => op.kind \in SetKinds
    /\ pc \in {"enumerate", "connect", "restore"} => op.kind \in RestoreKinds
    /\ Saving => \A k \in Kinds : op.plan[k] # None => config[op.id][k] = op.plan[k]
=============================================================================
