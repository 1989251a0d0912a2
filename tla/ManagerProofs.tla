---------------------------- MODULE ManagerProofs ----------------------------
(***************************************************************************)
(* Theorems about Manager, for any outputs, monitors, scales and floor.    *)
(***************************************************************************)
EXTENDS Manager, PolicyProofs, SequenceTheorems

-----------------------------------------------------------------------------
(* The register level keeps its types: no sequence of scans, writes,       *)
(* unanswered writes and turned knobs takes a value off its scale.         *)

\* The maxima and the raw values in the form the proofs use.
LEMMA VcpFacts ==
    /\ \A o \in DdcOutputs : VcpMax[o] \in Nat \ {0} /\ 0 .. VcpMax[o] \subseteq RawValues
    /\ RawValues \subseteq Nat /\ None \notin RawValues
BY VcpAssumption DEF None, RawValues

\* Every step keeps both variables in their type.
LEMMA DdcStepType ==
    ASSUME DdcTypeOK, [DdcNext]_hardwareVars
    PROVE  DdcTypeOK'
<1>1. CASE \E asked \in SUBSET DdcOutputs : \E seen \in SUBSET asked : Look(asked, seen)
  BY <1>1, VcpFacts DEF Look, DdcTypeOK, None
<1>2. CASE \E o \in DdcOutputs, percent \in Percents : SetVcp(o, percent) \/ SetUnanswered(o, percent)
  <2>1. PICK o \in DdcOutputs, percent \in Percents :
            SetVcp(o, percent) \/ SetUnanswered(o, percent)
    BY <1>2
  <2>2. /\ RawOf(percent, VcpMax[o]) \in RawValues
        /\ RawOf(percent, VcpMax[o]) <= VcpMax[o]
    BY VcpFacts, RawOfType
  <2> QED
    BY <2>1, <2>2 DEF SetVcp, SetUnanswered, DdcTypeOK
<1>3. CASE \E o \in DdcOutputs, raw \in RawValues : Turn(o, raw)
  BY <1>3 DEF Turn, DdcTypeOK
<1>4. CASE UNCHANGED hardwareVars
  BY <1>4 DEF hardwareVars, DdcTypeOK
<1> QED
  BY <1>1, <1>2, <1>3, <1>4 DEF DdcNext

\* Before the first scan every variable has its type.
LEMMA DdcInitType == DdcInit => DdcTypeOK
BY VcpFacts DEF DdcInit, DdcTypeOK, None

\* What the backend caches is a raw value of the monitor's scale or nothing,
\* and so is what the monitor shows, however the writes end.
THEOREM DdcTypeCorrect == DdcSpec => []DdcTypeOK
<1>1. DdcTypeOK /\ [DdcNext]_hardwareVars => DdcTypeOK'
  BY DdcStepType
<1> QED
  BY <1>1, DdcInitType, PTL DEF DdcSpec

-----------------------------------------------------------------------------
(* Types of the operators                                                  *)

\* The constants in the form the proofs use.
LEMMA ConstantFacts ==
    /\ Full \in Nat \ {0} /\ Unit \in Nat \ {0} /\ Floor \in Targets
    /\ None \notin Percents /\ None \notin Levels /\ Unit \in Levels
    /\ DdcOutputs \subseteq Outputs /\ Located \subseteq DdcOutputs
    /\ \A o \in DdcOutputs : VcpMax[o] \in Nat \ {0} /\ 0 .. VcpMax[o] \subseteq RawValues
    /\ RawValues \subseteq Nat /\ None \notin RawValues
BY ScaleAssumption, MonitorAssumption, VcpFacts DEF None, Percents, Levels

\* An id names an output, one with DDC when it is of kind "edid".
LEMMA IdFacts ==
    ASSUME NEW id \in Ids
    PROVE  /\ id.output \in Outputs
           /\ id.kind = "edid" => id.output \in DdcOutputs
BY ConstantFacts DEF Ids

\* There is an id, because there is an output.
LEMMA IdsNonempty == AnyId \in Ids
<1>1. PICK o \in Outputs : TRUE
  BY MonitorAssumption
<1>2. [kind |-> "wayland", output |-> o] \in Ids
  BY <1>1 DEF Ids
<1> QED
  BY <1>2 DEF AnyId

\* The records of "nothing asked" and "nothing saved" are well formed.
LEMMA NoOpType == NoOp \in Ops /\ NoSetting \in Settings /\ NoConfig \in Configs
BY IdsNonempty DEF NoOp, Ops, NoSetting, Settings, NoConfig, Configs

\* What a rebuild makes of the two caches is a display list.
LEMMA SnapshotType ==
    ASSUME NEW d \in [DdcOutputs -> RawValues \cup {None}],
           NEW c \in [Outputs -> Levels \cup {None}],
           NEW e
    PROVE  Snapshot(d, c, e) \in [Ids -> DisplayInfos]
<1>1. SUFFICES ASSUME NEW id \in Ids PROVE InfoOf(id, d, c, e) \in DisplayInfos
  BY DEF Snapshot
<1> DEFINE o == id.output
           percent == IF id.kind = "edid" /\ d[o] # None
                      THEN PercentOf(d[o], VcpMax[o]) ELSE None
           level == IF ShowsGamma(id, d) THEN c[o] ELSE None
<1>2. percent \in Percents \cup {None}
  <2>1. CASE id.kind = "edid" /\ d[o] # None
    <3>1. d[o] \in Nat /\ VcpMax[o] \in Nat
      BY <2>1, IdFacts, ConstantFacts
    <3> QED
      BY <2>1, <3>1, PercentOfType
  <2> QED
    BY <2>1
<1>3. level \in Levels \cup {None}
  BY IdFacts
<1>4. InfoOf(id, d, c, e) =
         LET info == [ddc |-> percent, gamma |-> level, error |-> id \in e]
         IN  IF Listed(info) THEN info ELSE Unlisted
  BY DEF InfoOf
<1> HIDE DEF percent, level
<1> QED
  BY <1>2, <1>3, <1>4 DEF DisplayInfos, Unlisted

\* A set request's plan, and the adjustments that carry it out.
LEMMA SetPlanType ==
    ASSUME NEW kind \in SetKinds, NEW info \in DisplayInfos, Supports(info, kind),
           NEW value \in Values(kind)
    PROVE  /\ PlanOf(kind, info, value) \in Settings
           /\ Adjustments(info, PlanOf(kind, info, value)) \subseteq AllAdjustments
           /\ \A k \in {"ddc", "gamma"} : PlanOf(kind, info, value)[k] # None => info[k] # None
<1> DEFINE plan == PlanOf(kind, info, value)
<1>1. plan \in Settings /\ \A k \in {"ddc", "gamma"} : plan[k] # None => info[k] # None
  <2>1. CASE kind = "unified"
    <3>1. value \in Targets /\ Floor \in Targets /\ Listed(info)
      BY <2>1, ConstantFacts DEF Values, Supports
    <3>2. plan = ForTarget(value, Floor, info.ddc # None, info.gamma # None)
      BY <2>1 DEF PlanOf
    <3>3. /\ ForTarget(value, Floor, info.ddc # None, info.gamma # None)
                \in [ddc : Percents \cup {None}, gamma : Levels \cup {None}]
          /\ info.ddc = None => ForTarget(value, Floor, info.ddc # None, info.gamma # None).ddc = None
          /\ info.ddc # None /\ info.gamma = None =>
                ForTarget(value, Floor, info.ddc # None, info.gamma # None).gamma = None
      BY <3>1, ForTargetType
    <3> QED
      BY <3>1, <3>2, <3>3 DEF Settings, Listed
  <2>2. CASE kind = "ddc"
    BY <2>2 DEF PlanOf, Values, Supports, NoSetting, Settings
  <2>3. CASE kind = "gamma"
    BY <2>3 DEF PlanOf, Values, Supports, NoSetting, Settings
  <2> QED
    BY <2>1, <2>2, <2>3 DEF SetKinds
<1> HIDE DEF plan
<1>2. Adjustments(info, plan) \subseteq AllAdjustments
  BY <1>1, AdjustmentsType DEF Settings, DisplayInfos
<1> QED
  BY <1>1, <1>2 DEF plan

\* The plan of a restore.
LEMMA RestorePlanType ==
    ASSUME NEW saved \in Settings, NEW info \in DisplayInfos
    PROVE  /\ Wanted(saved, info) \in Settings
           /\ Adjustments(info, Wanted(saved, info)) \subseteq AllAdjustments
           /\ \A k \in {"ddc", "gamma"} : Wanted(saved, info)[k] # None => info[k] # None
<1> DEFINE plan == Wanted(saved, info)
<1>1. plan \in Settings /\ \A k \in {"ddc", "gamma"} : plan[k] # None => info[k] # None
  BY DEF Wanted, Settings
<1> HIDE DEF plan
<1>2. Adjustments(info, plan) \subseteq AllAdjustments
  BY <1>1, AdjustmentsType DEF Settings, DisplayInfos
<1> QED
  BY <1>1, <1>2 DEF plan

\* The adjustment an apply step works on.
LEMMA CurrentFacts ==
    ASSUME TypeOK, NEW control, Busy(control)
    PROVE  /\ Current \in todo /\ Current \in AllAdjustments
           /\ Current.control = control
           /\ control = "ddc"   => Goal(Current) \in Percents
           /\ control = "gamma" => Goal(Current) \in Levels
<1>1. todo \in SUBSET AllAdjustments /\ todo # {}
  BY DEF TypeOK, Busy
<1>2. Current \in todo
  BY <1>1, FirstIsMember, LastIsMember DEF Current
<1>3. Current \in AllAdjustments /\ Current.control = control
  BY <1>1, <1>2 DEF Busy
<1> QED
  BY <1>2, <1>3 DEF AllAdjustments, Goal

\* A rebuilt list has its type, whatever error set it is built from.
LEMMA RebuildType ==
    ASSUME TypeOK, NEW e, Rebuild(e),
           ddc' \in [DdcOutputs -> RawValues \cup {None}],
           cache' \in [Outputs -> Levels \cup {None}]
    PROVE  displays' \in [Ids -> DisplayInfos] /\ touched' \subseteq Controls
BY SnapshotType DEF Rebuild, LostAtOnce, GammaControls, TypeOK, DdcTypeOK

\* The bookkeeping of apply_plan keeps its sets well formed.
LEMMA ProgressType ==
    ASSUME TypeOK, NEW control, Busy(control), Succeeded \/ Failed
    PROVE  /\ todo' \subseteq AllAdjustments /\ applied' \subseteq AllAdjustments
           /\ pc' \in {"adjust", "rollback"}
           /\ UNCHANGED <<errors, displays>>
<1>1. Current \in AllAdjustments
  BY CurrentFacts
<1> QED
  BY <1>1 DEF Succeeded, Failed, Busy, TypeOK

-----------------------------------------------------------------------------
(* Type correctness of the gamma backend's steps                           *)

\* Every step of the gamma backend keeps its variables in their types.
LEMMA GammaStepType ==
    ASSUME GammaTypeOK,
           [GammaNext]_gammaVars
    PROVE  GammaTypeOK'
<1>0. Unit \in Levels
  BY ConstantFacts
<1>1. CASE \E granted, held \in SUBSET Outputs, failed \in BOOLEAN :
             Connect(granted, held, failed)
  BY <1>0, <1>1 DEF GammaTypeOK, Connect
<1>2. CASE ConnectRefused
  BY <1>2 DEF GammaTypeOK, ConnectRefused, NoControls
<1>3. CASE Close
  BY <1>3, EmptySeq DEF GammaTypeOK, Close, NoControls
<1>4. CASE \E o \in Outputs, level \in Levels : Apply(o, level)
  BY <1>4 DEF GammaTypeOK, Apply, Written
<1>5. CASE \E o \in Outputs, level \in Levels : TimeOut(o, level)
  <2>1. PICK o \in Outputs, level \in Levels : TimeOut(o, level)
    BY <1>5
  <2>2. [output |-> o, level |-> level] \in Command
    BY DEF Command
  <2>3. late' \in Seq(Command)
    BY <2>1, <2>2, AppendProperties DEF TimeOut, GammaTypeOK
  <2> QED
    BY <2>1, <2>3 DEF GammaTypeOK, TimeOut
<1>6. CASE \E o \in Outputs : Refuse(o)
  BY <1>6 DEF GammaTypeOK, Refuse, gammaVars
<1>7. CASE CatchUp
  <2>1. Head(late) \in Command /\ Tail(late) \in Seq(Command)
    BY <1>7, HeadTailProperties DEF CatchUp, GammaTypeOK
  <2> QED
    BY <1>7, <2>1 DEF GammaTypeOK, CatchUp, Written, Command
<1>8. CASE \E o \in Outputs : Withdrawn(o) \/ ControlFailed(o)
  BY <1>8 DEF GammaTypeOK, Withdrawn, ControlFailed
<1>9. CASE \E added, gone \in SUBSET Outputs : Publish(added, gone)
  BY <1>0, <1>9 DEF GammaTypeOK, Publish
<1>10. CASE ConnectionLost
  BY <1>10, EmptySeq DEF GammaTypeOK, ConnectionLost, NoControls
<1>11. CASE ThreadEnds
  BY <1>11 DEF GammaTypeOK, ThreadEnds, NoControls
<1>12. CASE UNCHANGED gammaVars
  BY <1>12 DEF GammaTypeOK, gammaVars
<1> QED
  BY <1>1, <1>2, <1>3, <1>4, <1>5, <1>6, <1>7, <1>8, <1>9, <1>10, <1>11, <1>12
     DEF GammaNext, CompositorActs, WorkerActs

-----------------------------------------------------------------------------
(* Type correctness                                                        *)

\* The daemon that is not running yet has everything in its type.
LEMMA TypeInit == Init => TypeOK
<1> SUFFICES ASSUME Init PROVE TypeOK
  OBVIOUS
<1>1. GammaTypeOK
  BY EmptySeq DEF Init, GammaInit, GammaTypeOK, NoControls
<1>2. NoOp \in Ops /\ NoConfig \in Configs
  BY NoOpType
<1>3. DdcTypeOK
  BY DdcInitType DEF Init
<1> QED
  BY <1>1, <1>2, <1>3 DEF Init, TypeOK, Unlisted, DisplayInfos, Files, Whole, Torn

\* The gamma part of every step is a step of the gamma backend.
LEMMA GammaPart ==
    ASSUME TypeOK, [Next]_vars
    PROVE  [GammaNext]_gammaVars
<1>2. CASE Request
  BY <1>2 DEF Request, BeginRefresh, BeginSet, RefuseSet
<1>3. CASE Work
  <2>1. CASE \E granted \in SUBSET Outputs, failed \in BOOLEAN :
               \E held \in SUBSET granted : Reconnect(granted, held, failed)
    BY <2>1 DEF Reconnect, GammaNext
  <2>2. CASE ConnectFails
    BY <2>2 DEF ConnectFails, GammaNext
  <2>3. CASE GammaWrite
    <3>1. Busy("gamma") /\ Apply(op.id.output, Goal(Current))
      BY <2>3 DEF GammaWrite
    <3>2. Goal(Current) \in Levels
      BY <3>1, CurrentFacts
    <3>3. op.id.output \in Outputs
      BY IdFacts DEF TypeOK, Ops
    <3> QED
      BY <3>1, <3>2, <3>3 DEF GammaNext
  <2> QED
    BY <1>3, <2>1, <2>2, <2>3
       DEF Work, Enumerate, ReuseGamma, RestoreNext, RestoreDone, DdcWrite, SetSucceeds,
           SetFails, RestoreSucceeds, RestoreFails, SaveOpen, SaveWrite, SaveRename
<1>4. CASE WriteFails
  <2>1. CASE GammaWriteTimesOut
    <3>1. Busy("gamma") /\ TimeOut(op.id.output, Goal(Current))
      BY <2>1 DEF GammaWriteTimesOut
    <3>2. Goal(Current) \in Levels
      BY <3>1, CurrentFacts
    <3>3. op.id.output \in Outputs
      BY IdFacts DEF TypeOK, Ops
    <3> QED
      BY <3>1, <3>2, <3>3 DEF GammaNext
  <2> QED
    BY <1>4, <2>1 DEF WriteFails, DdcWriteFails, GammaWriteFails, Refuse
<1>5. CASE SaveFails \/ Start
  BY <1>5 DEF SaveFails, Start
<1>6. CASE Stop \/ Exit \/ Crash
  BY <1>6 DEF Stop, Exit, Crash, Halt, GammaNext
<1>7. CASE WorkerMoves
  BY <1>7 DEF WorkerMoves, GammaNext
<1>8. CASE Environment
  <2>1. CASE CompositorMoves
    BY <2>1 DEF CompositorMoves, GammaNext
  <2> QED
    BY <1>8, <2>1 DEF Environment, MonitorChanges
<1>9. CASE UNCHANGED vars
  BY <1>9 DEF vars, gammaVars
<1> QED
  BY <1>2, <1>3, <1>4, <1>5, <1>6, <1>7, <1>8, <1>9 DEF Next

\* The DDC part of every step is a step of the DDC backend.
LEMMA DdcPart ==
    ASSUME TypeOK, [Next]_vars
    PROVE  [DdcNext]_hardwareVars
<1> USE DEF hardwareVars
<1>1. CASE Request
  BY <1>1 DEF Request, BeginRefresh, BeginSet, RefuseSet
<1>2. CASE Work
  <2>1. CASE \E seen \in SUBSET DdcOutputs : Enumerate(seen)
    BY <2>1 DEF Enumerate, DdcNext
  <2>2. CASE DdcWrite
    <3>1. Busy("ddc") /\ SetVcp(op.id.output, Goal(Current))
      BY <2>2 DEF DdcWrite
    <3>2. op.id.output \in DdcOutputs /\ Goal(Current) \in Percents
      BY <3>1, CurrentFacts DEF SetVcp, Managed
    <3> QED
      BY <3>1, <3>2 DEF DdcNext
  <2>3. CASE ReuseGamma \/ ConnectFails
          \/ \E granted \in SUBSET Outputs, failed \in BOOLEAN :
                \E held \in SUBSET granted : Reconnect(granted, held, failed)
    BY <2>3 DEF ReuseGamma, ConnectFails, Reconnect, BeginReconcile
  <2> QED
    BY <1>2, <2>1, <2>2, <2>3
       DEF Work, RestoreNext, RestoreDone, GammaWrite, SetSucceeds, SetFails,
           RestoreSucceeds, RestoreFails, SaveOpen, SaveWrite, SaveRename
<1>3. CASE WriteFails
  <2>1. CASE DdcWriteFails
    <3>1. CASE SetUnanswered(op.id.output, Goal(Current))
      <4>1. op.id.output \in DdcOutputs /\ Goal(Current) \in Percents
        BY <2>1, <3>1, CurrentFacts DEF DdcWriteFails, SetUnanswered, Managed
      <4> QED
        BY <3>1, <4>1 DEF DdcNext
    <3> QED
      BY <2>1, <3>1 DEF DdcWriteFails
  <2> QED
    BY <1>3, <2>1 DEF WriteFails, GammaWriteFails, GammaWriteTimesOut
<1>4. CASE SaveFails \/ Start \/ WorkerMoves
  BY <1>4 DEF SaveFails, Start, WorkerMoves, GammaMoves
<1>5. CASE Stop \/ Exit \/ Crash
  BY <1>5 DEF Stop, GammaMoves, Exit, Crash, Halt, DdcNext
<1>6. CASE Environment
  BY <1>6 DEF Environment, MonitorChanges, CompositorMoves, GammaMoves, DdcNext
<1>7. CASE UNCHANGED vars
  BY <1>7 DEF vars
<1> QED
  BY <1>1, <1>2, <1>3, <1>4, <1>5, <1>6, <1>7 DEF Next

\* Every step keeps every variable in its type.
LEMMA TypeStep == TypeOK /\ [Next]_vars => TypeOK'
<1> SUFFICES ASSUME TypeOK, [Next]_vars PROVE TypeOK'
  OBVIOUS
<1> USE DEF hardwareVars, storageVars, controlVars
<1>1. GammaTypeOK' /\ DdcTypeOK'
  BY GammaPart, DdcPart, GammaStepType, DdcStepType DEF TypeOK
<1>2. op \in Ops /\ op.id \in Ids /\ op.id.output \in Outputs
  BY IdFacts DEF TypeOK, Ops
<1>3. \A e : Rebuild(e) => displays' \in [Ids -> DisplayInfos] /\ touched' \subseteq Controls
  BY <1>1, RebuildType DEF GammaTypeOK, DdcTypeOK
<1>4. NoOp \in Ops /\ NoConfig \in Configs
  BY NoOpType
<1>5. CASE BeginRefresh
  BY <1>1, <1>4, <1>5 DEF BeginRefresh, TypeOK, Ops
<1>6. CASE \E kind \in SetKinds, id \in Ids : \E value \in Values(kind) : BeginSet(kind, id, value)
  <2>0. PICK kind \in SetKinds, id \in Ids : \E value \in Values(kind) : BeginSet(kind, id, value)
    BY <1>6
  <2>1. PICK value \in Values(kind) : BeginSet(kind, id, value)
    BY <2>0
  <2>2. displays[id] \in DisplayInfos /\ Supports(displays[id], kind)
    BY <2>1 DEF TypeOK, BeginSet
  <2>3. /\ PlanOf(kind, displays[id], value) \in Settings
        /\ Adjustments(displays[id], PlanOf(kind, displays[id], value)) \subseteq AllAdjustments
    BY <2>2, SetPlanType
  <2>4. op' \in Ops /\ todo' \subseteq AllAdjustments /\ applied' = {} /\ pc' = "adjust"
    BY <2>1, <2>3 DEF BeginSet, BeginPlan, Ops
  <2> QED
    BY <1>1, <2>1, <2>4 DEF BeginSet, TypeOK
<1>7. CASE \E kind \in SetKinds, id \in Ids : RefuseSet(kind, id)
  BY <1>1, <1>4, <1>7 DEF RefuseSet, TypeOK
<1>8. CASE \E seen \in SUBSET DdcOutputs : Enumerate(seen)
  BY <1>1, <1>8 DEF Enumerate, TypeOK
<1>9. CASE BeginReconcile
  BY <1>1, <1>3, <1>9 DEF BeginReconcile, TypeOK
<1>10. CASE \E id \in Ids : RestoreNext(id)
  <2>1. PICK id \in Ids : RestoreNext(id)
    BY <1>10
  <2> DEFINE plan == Wanted(config[id], displays[id])
  <2>2. config[id] \in Settings /\ displays[id] \in DisplayInfos
    BY DEF TypeOK, Configs
  <2>3. plan \in Settings /\ Adjustments(displays[id], plan) \subseteq AllAdjustments
    BY <2>2, RestorePlanType
  <2> HIDE DEF plan
  <2>4. \/ UNCHANGED <<op, todo, applied, pc>>
        \/ BeginPlan(op.kind, id, plan)
    BY <2>1 DEF RestoreNext, plan
  <2>5. /\ op' \in Ops /\ todo' \subseteq AllAdjustments /\ applied' \subseteq AllAdjustments
        /\ pc' \in {pc, "adjust"}
    BY <1>2, <2>3, <2>4 DEF BeginPlan, Ops, TypeOK
  <2> QED
    BY <1>1, <2>1, <2>5 DEF RestoreNext, TypeOK
<1>11. CASE RestoreDone
  BY <1>1, <1>3, <1>11 DEF RestoreDone, Answer, TypeOK
<1>12. CASE DdcWrite
  <2>1. Busy("ddc") /\ Succeeded
    BY <1>12 DEF DdcWrite
  <2> QED
    BY <1>1, <1>12, <2>1, ProgressType DEF DdcWrite, TypeOK
<1>13. CASE GammaWrite
  BY <1>1, <1>13, ProgressType DEF GammaWrite, TypeOK
<1>14. CASE DdcWriteFails
  <2>1. Busy("ddc") /\ Failed
    BY <1>14 DEF DdcWriteFails
  <2>2. touched' \subseteq Controls
    BY <1>2, <1>14 DEF DdcWriteFails, SetUnanswered, Managed, TypeOK, Control, Controls
  <2> QED
    BY <1>1, <1>14, <2>1, <2>2, ProgressType DEF DdcWriteFails, TypeOK
<1>15. CASE GammaWriteFails
  BY <1>1, <1>15, ProgressType DEF GammaWriteFails, TypeOK
<1>16. CASE GammaWriteTimesOut
  BY <1>1, <1>16, ProgressType DEF GammaWriteTimesOut, TypeOK
<1>17. CASE SetSucceeds
  <2>1. config[op.id] \in Settings /\ op.plan \in Settings
    BY <1>2 DEF TypeOK, Configs, Ops
  <2>2. Merge(config[op.id], op.plan) \in Settings
    BY <2>1 DEF Merge, Settings
  <2>3. config' = [config EXCEPT ![op.id] = Merge(config[op.id], op.plan)]
    BY <1>17 DEF SetSucceeds
  <2>4. config' \in Configs
    BY <1>2, <2>2, <2>3 DEF TypeOK, Configs
  <2> QED
    BY <1>1, <1>3, <1>17, <2>4 DEF SetSucceeds, TypeOK
<1>18. CASE SetFails
  BY <1>1, <1>2, <1>3, <1>18 DEF SetFails, RecordError, Answer, TypeOK
<1>19. CASE RestoreSucceeds
  BY <1>1, <1>19 DEF RestoreSucceeds, TypeOK
<1>20. CASE RestoreFails
  BY <1>1, <1>2, <1>20 DEF RestoreFails, TypeOK
<1>21. CASE SaveOpen
  BY <1>1, <1>4, <1>21 DEF SaveOpen, TypeOK, Files, Torn
<1>22. CASE SaveWrite
  BY <1>1, <1>22 DEF SaveWrite, TypeOK, Files, Whole
<1>23. CASE SaveRename
  BY <1>1, <1>4, <1>23 DEF SaveRename, Answer, TypeOK, Files, Torn
<1>24. CASE SaveFails
  BY <1>1, <1>2, <1>3, <1>24 DEF SaveFails, RecordError, Answer, TypeOK
<1>25. CASE Start
  BY <1>1, <1>4, <1>25 DEF Start, TypeOK, Ops, Files
<1>26. CASE Halt
  BY <1>1, <1>4, <1>26 DEF Halt, TypeOK, DisplayInfos, Unlisted
<1>27. CASE GammaMoves
  BY <1>1, <1>27 DEF GammaMoves, TypeOK, Control, Controls
<1>28. CASE \E o \in DdcOutputs, raw \in RawValues : MonitorChanges(o, raw)
  BY <1>1, <1>28 DEF MonitorChanges, TypeOK, Control, Controls
<1>29. CASE UNCHANGED vars
  BY <1>1, <1>29 DEF vars, TypeOK
<1> QED
  BY <1>5, <1>6, <1>7, <1>8, <1>9, <1>10, <1>11, <1>12, <1>13, <1>14, <1>15, <1>16, <1>17,
     <1>18, <1>19, <1>20, <1>21, <1>22, <1>23, <1>24, <1>25, <1>26, <1>27, <1>28, <1>29
     DEF Next, Request, Work, WriteFails, Stop, Exit, Crash, WorkerMoves, Environment,
         CompositorMoves, ReuseGamma, Reconnect, ConnectFails

\* In every reachable state every variable has its type: no sequence of
\* requests, failures and outside changes takes a percentage or a gamma level
\* off its scale or a raw value off the monitor's.
THEOREM TypeCorrect == Spec => []TypeOK
<1>1. Init => TypeOK
  BY TypeInit
<1>2. TypeOK /\ [Next]_vars => TypeOK'
  BY TypeStep
<1> QED
  BY <1>1, <1>2, PTL DEF Spec

\* Whatever it does, the daemon uses its two backends as GammaControl and
\* DdcControl allow; the detailed backends implement these.
THEOREM DrivesBackends == Spec => GammaSpec /\ DdcSpec
<1>1. Init => GammaInit /\ DdcInit
  BY DEF Init
<1>2. TypeOK /\ [Next]_vars => [GammaNext]_gammaVars /\ [DdcNext]_hardwareVars
  BY GammaPart, DdcPart
<1> QED
  BY <1>1, <1>2, TypeCorrect, PTL DEF Spec, GammaSpec, DdcSpec
=============================================================================
