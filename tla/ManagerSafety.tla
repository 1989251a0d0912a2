---------------------------- MODULE ManagerSafety ----------------------------
(***************************************************************************)
(* The safety properties of Manager, for any outputs, monitors, scales and *)
(* floor, from the invariants of ManagerInvariant: what is saved and what  *)
(* is listed, and of the requests that failures are shown, settings are    *)
(* kept and restored, and a write is left out exactly where it would       *)
(* change nothing.                                                         *)
(***************************************************************************)
EXTENDS ManagerProofs, ManagerInvariant

-----------------------------------------------------------------------------
(* Saving                                                                  *)

\* The invariant of saving holds before the daemon is started.
LEMMA SaveInit == Init => SaveInv
BY DEF Init, SaveInv, DiskNeverTorn, AckedSettingsSaved, Saving, Whole

\* Every step keeps it: only SetSucceeds enters a save, only SaveWrite reaches
\* the rename, and what is saved does not change on the way.
LEMMA SaveStep == TypeOK /\ SaveInv /\ [Next]_vars => SaveInv'
<1> SUFFICES ASSUME TypeOK, SaveInv, [Next]_vars PROVE SaveInv'
  OBVIOUS
<1> USE DEF storageVars, controlVars, SaveInv, DiskNeverTorn, AckedSettingsSaved, Saving
<1>1. CASE UNCHANGED <<config, disk, tmp, pc, op, reply>>
  BY <1>1
<1>2. CASE /\ UNCHANGED <<config, disk, tmp>>
           /\ \/ pc' \in {"adjust", "rollback"}
              \/ pc' \in {"enumerate", "connect", "restore"} /\ op'.kind \in RestoreKinds
  BY <1>2 DEF RestoreKinds, SetKinds
<1>3. CASE SetSucceeds
  <2>1. config' = [config EXCEPT ![op.id] = Merge(config[op.id], op.plan)]
    BY <1>3 DEF SetSucceeds
  <2>2. config[op.id] \in Settings /\ op.plan \in Settings /\ op.id \in Ids
    BY DEF TypeOK, Configs, Ops
  <2>3. config'[op.id] = Merge(config[op.id], op.plan)
    BY <2>1, <2>2 DEF TypeOK, Configs
  <2>4. \A k \in Kinds : op.plan[k] # None => config'[op.id][k] = op.plan[k]
    BY <2>2, <2>3 DEF Merge, Kinds
  <2> QED
    BY <1>3, <2>4 DEF SetSucceeds, Settled
<1>4. CASE SaveOpen
  BY <1>4 DEF SaveOpen
<1>5. CASE SaveWrite
  BY <1>5 DEF SaveWrite
<1>6. CASE SaveRename
  BY <1>6 DEF SaveRename, Answer, Whole
<1>7. CASE SaveFails \/ SetFails
  BY <1>7 DEF SaveFails, SetFails, Answer
<1>8. CASE RestoreDone
  BY <1>8 DEF RestoreDone, Answer, RestoreKinds, SetKinds
<1>9. CASE Start \/ Halt
  BY <1>9, NoOpType DEF Start, Halt, RestoreKinds, NoOp
<1>10. CASE \E kind \in SetKinds, id \in Ids : RefuseSet(kind, id)
  BY <1>10 DEF RefuseSet
<1>11. CASE WriteFails \/ DdcWrite \/ GammaWrite
  BY <1>2, <1>11 DEF WriteFails, DdcWriteFails, GammaWriteFails, GammaWriteTimesOut,
                     DdcWrite, GammaWrite, Failed, Succeeded, Busy
<1>12. CASE Request
  <2>1. CASE BeginRefresh
    BY <1>2, <2>1 DEF BeginRefresh, NoOp, RestoreKinds
  <2>2. CASE \E kind \in SetKinds, id \in Ids : \E value \in Values(kind) : BeginSet(kind, id, value)
    BY <1>2, <2>2 DEF BeginSet, BeginPlan
  <2> QED
    BY <1>10, <1>12, <2>1, <2>2 DEF Request
<1>13. CASE \E seen \in SUBSET DdcOutputs : Enumerate(seen)
  BY <1>2, <1>13 DEF Enumerate
<1>14. CASE BeginReconcile
  BY <1>2, <1>14 DEF BeginReconcile
<1>15. CASE \E id \in Ids : RestoreNext(id)
  BY <1>2, <1>15 DEF RestoreNext, BeginPlan
<1>16. CASE RestoreSucceeds \/ RestoreFails
  BY <1>2, <1>16 DEF RestoreSucceeds, RestoreFails, Settled
<1>17. CASE Stop \/ WorkerMoves \/ Environment \/ UNCHANGED vars
  BY <1>1, <1>17 DEF Stop, WorkerMoves, Environment, CompositorMoves, GammaMoves, MonitorChanges, vars
<1> QED
  BY <1>3, <1>4, <1>5, <1>6, <1>7, <1>8, <1>9, <1>11, <1>12, <1>13, <1>14, <1>15, <1>16, <1>17
     DEF Next, Work, ReuseGamma, Reconnect, ConnectFails, Exit, Crash

\* At each point of a save the files hold what the code has written so far.
THEOREM SavingHolds == Spec => []SaveInv
<1>1. TypeOK /\ SaveInv /\ [Next]_vars => SaveInv'
  BY SaveStep
<1> QED
  BY <1>1, SaveInit, TypeCorrect, PTL DEF Spec

\* The settings file is never torn, whatever is killed or fails and when.
THEOREM FileAlwaysWhole == Spec => []DiskNeverTorn
<1>1. SaveInv => DiskNeverTorn
  BY DEF SaveInv
<1> QED
  BY <1>1, SavingHolds, PTL

\* A set request is answered with success only when its settings, and all
\* others in memory, are in the file.
THEOREM SuccessIsSaved == Spec => []AckedSettingsSaved
<1>1. SaveInv => AckedSettingsSaved
  BY DEF SaveInv
<1> QED
  BY <1>1, SavingHolds, PTL

-----------------------------------------------------------------------------
(* The settings as a store                                                 *)

\* A start and an end are those of the store.
LEMMA StartStopRefine ==
    ASSUME TypeOK, SaveInv, Start \/ Exit \/ Crash
    PROVE  Store!StoreNext
<1> USE DEF SaveInv, RestoreKinds, SetKinds
<1>1. CASE Start
  <2>1. op'.kind = "start" /\ pc = "down" /\ pc' = "enumerate"
    BY <1>1 DEF Start, NoOp
  <2>2. disk.whole /\ config' = disk.settings /\ UNCHANGED disk
    BY <1>1 DEF Start
  <2>3. Store!Load
    BY <2>1, <2>2 DEF Store!Load
  <2> QED
    BY <2>3 DEF Store!StoreNext
<1>2. CASE Exit \/ Crash
  <2>1. Store!Stop
    BY <1>2, NoOpType DEF Exit, Crash, Halt, NoOp, NoConfig, Store!Stop, Store!NoSettings
  <2> QED
    BY <2>1 DEF Store!StoreNext
<1> QED
  BY <1>1, <1>2

\* A request is asked, or refused, or a refresh ends the last answer's time.
LEMMA RequestRefines ==
    ASSUME TypeOK, SaveInv, Request
    PROVE  Store!StoreNext
<1> USE DEF SaveInv, RestoreKinds, SetKinds, storageVars
<1>1. CASE BeginRefresh
  <2>1. Store!Pass
    BY <1>1 DEF BeginRefresh, NoOp, Store!Pass
  <2> QED
    BY <2>1 DEF Store!StoreNext
<1>2. ASSUME NEW kind \in SetKinds, NEW id \in Ids, NEW value \in Values(kind),
             BeginSet(kind, id, value)
      PROVE  Store!StoreNext
  <2> DEFINE plan == PlanOf(kind, displays[id], value)
  <2>1. plan \in Settings
    BY <1>2, SetPlanType DEF BeginSet, TypeOK, SetKinds
  <2>2. op' = [kind |-> kind, id |-> id, plan |-> plan] /\ pc = "idle" /\ pc' = "adjust"
    BY <1>2 DEF BeginSet, BeginPlan
  <2>3. reply' = "none" /\ UNCHANGED <<config, disk>>
    BY <1>2 DEF BeginSet
  <2>4. op'.kind \in SetKinds /\ op'.id = id /\ op'.plan = plan
    BY <2>2, <1>2
  <2> HIDE DEF plan
  <2>5. Store!Ask(id, plan)
    BY <2>2, <2>3, <2>4 DEF Store!Ask, InTransition
  <2> QED
    BY <1>2, <2>1, <2>5 DEF Store!StoreNext
<1>3. ASSUME NEW kind \in SetKinds, NEW id \in Ids, RefuseSet(kind, id)
      PROVE  Store!StoreNext
  <2>1. op'.kind = "none" /\ reply' = "error" /\ UNCHANGED <<config, disk, pc>>
    BY <1>3 DEF RefuseSet, NoOp
  <2>2. pc = "idle"
    BY <1>3 DEF RefuseSet
  <2>3. Store!Pass
    BY <2>1, <2>2 DEF Store!Pass
  <2> QED
    BY <2>3 DEF Store!StoreNext
<1> QED
  BY <1>1, <1>2, <1>3 DEF Request

\* What a request set replaces what memory had of its controls.
LEMMA SuccessRefines ==
    ASSUME TypeOK, SetSucceeds
    PROVE  Store!StoreNext
<1>1. config[op.id] \in Settings /\ op.plan \in Settings /\ op.id \in Ids
  BY DEF TypeOK, Configs, Ops
<1>2. Merge(config[op.id], op.plan) = Store!Updated(config[op.id], op.plan)
  BY <1>1 DEF Merge, Store!Updated, Settings, Kinds
<1>3. config' = [config EXCEPT ![op.id] = Store!Updated(config[op.id], op.plan)]
  BY <1>2 DEF SetSucceeds
<1>4. op.kind \in SetKinds /\ pc = "adjust" /\ pc' = "save" /\ UNCHANGED <<op, reply, disk>>
  BY DEF SetSucceeds, Settled, controlVars
<1>5. Store!Record
  <2> DEFINE request == [profile |-> op.id, plan |-> op.plan, stage |-> "asked"]
  <2>1. request.stage = "asked" /\ request.profile = op.id /\ request.plan = op.plan
    OBVIOUS
  <2>2. [request EXCEPT !.stage = "recorded"] =
            [profile |-> op.id, plan |-> op.plan, stage |-> "recorded"]
    OBVIOUS
  <2>3. config' = [config EXCEPT ![request.profile] = Store!Updated(@, request.plan)]
    BY <2>1, <1>3
  <2>4. op'.kind \in SetKinds /\ ~InTransition' /\ InTransition
    BY <1>4 DEF InTransition
  <2> HIDE DEF request
  <2> QED
    BY <2>1, <2>2, <2>3, <2>4, <1>4 DEF request, RestoreKinds, SetKinds, Store!Record
<1> QED
  BY <1>5 DEF Store!StoreNext

\* A request ends with all of memory saved, or as a failure.
LEMMA AnswerRefines ==
    ASSUME TypeOK, SaveInv, SaveRename \/ SaveFails \/ SetFails
    PROVE  Store!StoreNext
<1> USE DEF SaveInv, RestoreKinds, SetKinds, Saving, InTransition, Answer, storageVars
<1>1. CASE SaveRename
  <2>1. pc = "rename" /\ op.kind \in SetKinds /\ disk' = Whole(config)
    BY <1>1 DEF SaveRename
  <2>2. pc' = "idle" /\ reply' \in {"ok", "error"} /\ UNCHANGED <<config, op>>
    BY <1>1 DEF SaveRename
  <2>3. disk'.whole /\ disk'.settings = config
    BY <2>1 DEF Whole
  <2>4. Store!Save
    BY <2>1, <2>2, <2>3 DEF Store!Save
  <2> QED
    BY <2>4 DEF Store!StoreNext
<1>2. CASE SaveFails \/ SetFails
  <2>1. Store!Fail
    BY <1>2 DEF SaveFails, SetFails, Settled, Store!Fail
  <2> QED
    BY <2>1 DEF Store!StoreNext
<1> QED
  BY <1>1, <1>2

\* Every other step leaves the store as it is.
LEMMA StoreStep == TypeOK /\ SaveInv /\ [Next]_vars => [Store!StoreNext]_(Store!storeVars)
<1> SUFFICES ASSUME TypeOK, SaveInv, [Next]_vars
             PROVE  [Store!StoreNext]_(Store!storeVars)
  OBVIOUS
<1> USE DEF storageVars, controlVars, SaveInv, Saving, SetKinds, RestoreKinds, InTransition
<1>1. CASE UNCHANGED <<config, disk, pc, op, reply>>
  BY <1>1 DEF Store!storeVars
<1>2. CASE /\ UNCHANGED <<config, disk, reply>>
           /\ op.kind \in RestoreKinds /\ op'.kind \in RestoreKinds
           /\ pc # "down" /\ pc' # "down"
  BY <1>2 DEF Store!storeVars
<1>3. CASE /\ UNCHANGED <<config, disk, reply, op>>
           /\ {pc, pc'} \subseteq {"adjust", "rollback"}
  BY <1>3 DEF Store!storeVars
<1>4. CASE SaveOpen \/ SaveWrite
  BY <1>4 DEF SaveOpen, SaveWrite, Store!storeVars
<1>5. CASE WriteFails \/ DdcWrite \/ GammaWrite
  BY <1>3, <1>5 DEF WriteFails, DdcWriteFails, GammaWriteFails, GammaWriteTimesOut,
                    DdcWrite, GammaWrite, Failed, Succeeded, Busy
<1>6. CASE \E seen \in SUBSET DdcOutputs : Enumerate(seen)
  BY <1>2, <1>6 DEF Enumerate
<1>7. CASE BeginReconcile
  BY <1>2, <1>7 DEF BeginReconcile
<1>8. CASE \E id \in Ids : RestoreNext(id)
  BY <1>2, <1>8 DEF RestoreNext, BeginPlan
<1>9. CASE RestoreSucceeds \/ RestoreFails
  BY <1>2, <1>9 DEF RestoreSucceeds, RestoreFails, Settled
<1>10. CASE RestoreDone
  BY <1>10 DEF RestoreDone, Answer, Store!storeVars
<1>11. CASE Stop \/ WorkerMoves \/ Environment \/ UNCHANGED vars
  BY <1>1, <1>11 DEF Stop, WorkerMoves, Environment, CompositorMoves, GammaMoves, MonitorChanges, vars
<1> QED
  BY <1>4, <1>5, <1>6, <1>7, <1>8, <1>9, <1>10, <1>11,
     StartStopRefine, RequestRefines, SuccessRefines, AnswerRefines
     DEF Next, Work, ReuseGamma, Reconnect, ConnectFails

\* To its callers the daemon is a store of settings: one that never loses what
\* is saved, never saves a part, and says "ok" of nothing it has not saved.
THEOREM StoreRefines == Spec => ImplementsSettingsStore
<1>1. Init => Store!StoreInit
  BY DEF Init, NoOp, Whole, SetKinds, RestoreKinds, NoConfig, Store!StoreInit, Store!NoSettings
<1>2. TypeOK /\ SaveInv /\ [Next]_vars => [Store!StoreNext]_(Store!storeVars)
  BY StoreStep
<1> QED
  BY <1>1, <1>2, TypeCorrect, SavingHolds, PTL DEF Spec, ImplementsSettingsStore, Store!StoreSpec

-----------------------------------------------------------------------------
(* The caches and the list                                                 *)

\* What the worker and the compositor do by themselves marks what it changes.
LEMMA CachesGammaMoves ==
    ASSUME TypeOK, CachesTrue, GammaMoves,
           WorkerActs \/ CompositorActs \/ Close
    PROVE  CachesTrue'
<1>1. \A o \in Outputs : Untouched("gamma", o)' =>
         Untouched("gamma", o) /\ lut'[o] = lut[o] /\ cache'[o] = cache[o]
  BY DEF GammaMoves, Untouched, Control
<1>2. \A o \in DdcOutputs : Untouched("ddc", o)' => Untouched("ddc", o)
  BY DEF GammaMoves, Untouched, Control
<1>3. UNCHANGED <<vcp, ddc>>
  BY DEF GammaMoves, hardwareVars
<1>4. /\ \A o \in Outputs : lut'[o] \in {None, cache'[o]}
      /\ worker' # "running" => lut' = NoControls
  <2>1. CASE CatchUp
    BY <2>1 DEF CatchUp, Written, CachesTrue, NoControls, TypeOK, GammaTypeOK
  <2>2. CASE ThreadEnds
    BY <2>2 DEF ThreadEnds, CachesTrue, NoControls
  <2>3. CASE \E o \in Outputs : Withdrawn(o) \/ ControlFailed(o)
    BY <2>3 DEF Withdrawn, ControlFailed, CachesTrue, TypeOK, GammaTypeOK
  <2>4. CASE \E added, gone \in SUBSET Outputs : Publish(added, gone)
    BY <2>4 DEF Publish, CachesTrue, TypeOK, GammaTypeOK
  <2>5. CASE ConnectionLost
    BY <2>5 DEF ConnectionLost, NoControls
  <2>6. CASE Close
    BY <2>6 DEF Close, NoControls
  <2> QED
    BY <2>1, <2>2, <2>3, <2>4, <2>5, <2>6 DEF WorkerActs, CompositorActs
<1> QED
  BY <1>1, <1>2, <1>3, <1>4 DEF CachesTrue

\* A rebuild forgets what was touched of gamma only where the cache is true.
LEMMA CachesRebuild ==
    ASSUME TypeOK, CachesTrue, NEW e, Rebuild(e), UNCHANGED <<vcp, ddc>>,
           \/ UNCHANGED <<lut, worker, cache>>
           \/ /\ pc = "connect" /\ NeedsReconnect
              /\ \A o \in Outputs : lut'[o] \in {None, cache'[o]}
              /\ worker' # "running" => lut' = NoControls
    PROVE  CachesTrue'
<1>1. \A o \in DdcOutputs : Untouched("ddc", o)' => Untouched("ddc", o)
  BY DEF Rebuild, Untouched, Control, GammaControls, Controls
<1>2. \A o \in Outputs : Untouched("gamma", o)' =>
         /\ Untouched("gamma", o) \/ cache'[o] = lut'[o]
         /\ pc = "connect" /\ NeedsReconnect => cache'[o] = lut'[o]
  BY DEF Rebuild, LostAtOnce, Untouched, Control, GammaControls, Controls
<1> QED
  BY <1>1, <1>2 DEF CachesTrue

\* Every step keeps the caches true.
LEMMA CachesStep == TypeOK /\ CachesTrue /\ [Next]_vars => CachesTrue'
<1> SUFFICES ASSUME TypeOK, CachesTrue, [Next]_vars PROVE CachesTrue'
  OBVIOUS
<1> USE DEF hardwareVars
<1>1. CASE UNCHANGED <<lut, worker, cache, vcp, ddc, touched>>
  BY <1>1 DEF CachesTrue, Untouched, LevelOf
<1>2. CASE Stop \/ WorkerMoves \/ CompositorMoves
  BY <1>2, CachesGammaMoves DEF Stop, WorkerMoves, CompositorMoves
<1>3. CASE ReuseGamma \/ RestoreDone \/ SetSucceeds \/ SetFails \/ SaveFails
  <2>1. /\ UNCHANGED <<lut, worker, cache, vcp, ddc>>
        /\ \E e : Rebuild(e)
    BY <1>3 DEF ReuseGamma, BeginReconcile, RestoreDone, SetSucceeds, SetFails, SaveFails,
                RecordError, gammaVars
  <2> QED
    BY <2>1, CachesRebuild
<1>4. CASE \/ ConnectFails
           \/ \E granted \in SUBSET Outputs, failed \in BOOLEAN :
                 \E held \in SUBSET granted : Reconnect(granted, held, failed)
  <2>1. /\ pc = "connect" /\ NeedsReconnect
        /\ \A o \in Outputs : lut'[o] \in {None, cache'[o]}
        /\ worker' # "running" => lut' = NoControls
        /\ UNCHANGED <<vcp, ddc>>
        /\ Rebuild(errors)
    BY <1>4 DEF ConnectFails, ConnectRefused, Reconnect, Connect, BeginReconcile, NoControls
  <2> QED
    BY <2>1, CachesRebuild
<1>5. CASE \E seen \in SUBSET DdcOutputs : Enumerate(seen)
  BY <1>5 DEF Enumerate, Look, gammaVars, CachesTrue, Untouched, Control
<1>6. CASE DdcWrite
  BY <1>6 DEF DdcWrite, SetVcp, Managed, gammaVars, CachesTrue, Untouched, Control, TypeOK,
               DdcTypeOK
<1>7. CASE DdcWriteFails
  BY <1>7 DEF DdcWriteFails, SetUnanswered, Managed, gammaVars, CachesTrue, Untouched, Control,
               TypeOK, DdcTypeOK
<1>8. CASE GammaWrite
  <2> DEFINE out == op.id.output
  <2>1. /\ worker' = "running" /\ UNCHANGED <<vcp, ddc>>
        /\ lut'   = [lut EXCEPT ![out] = IF @ = None THEN None ELSE Goal(Current)]
        /\ cache' = [cache EXCEPT ![out] = Goal(Current)]
        /\ touched' = touched \ {c \in GammaControls : c.output = out /\ lut'[c.output] # None}
    BY <1>8 DEF GammaWrite, Apply, Written, Responsive
  <2>2. out \in Outputs
    BY IdFacts DEF TypeOK, Ops
  <2>3. \A o \in Outputs : lut'[o] \in {None, cache'[o]}
    BY <2>1 DEF CachesTrue, TypeOK, GammaTypeOK
  <2>4. ASSUME NEW o \in Outputs, Untouched("gamma", o)' PROVE cache'[o] = lut'[o]
    <3>1. CASE Untouched("gamma", o)
      <4>1. cache[o] = lut[o]
        BY <3>1 DEF CachesTrue
      <4>2. CASE o = out
        <5>1. cache[o] # None
          BY <1>8, <4>2 DEF GammaWrite, Apply
        <5> QED
          BY <2>1, <4>1, <4>2, <5>1 DEF TypeOK, GammaTypeOK
      <4> QED
        BY <2>1, <4>1, <4>2 DEF TypeOK, GammaTypeOK
    <3>2. CASE ~Untouched("gamma", o)
      <4>1. lut'[o] # None
        BY <2>1, <2>4, <3>2 DEF Untouched, Control
      <4> QED
        BY <2>3, <4>1
    <3> QED
      BY <3>1, <3>2
  <2>5. \A o \in DdcOutputs : Untouched("ddc", o)' => Untouched("ddc", o)
    BY <2>1 DEF Untouched, Control, GammaControls
  <2> QED
    BY <2>1, <2>3, <2>4, <2>5 DEF CachesTrue
<1>9. CASE \E o \in DdcOutputs, raw \in RawValues : MonitorChanges(o, raw)
  BY <1>9 DEF MonitorChanges, Turn, gammaVars, CachesTrue, Untouched, Control, TypeOK,
               DdcTypeOK
<1>10. CASE Halt
  BY <1>10 DEF Halt, Look, Close, CachesTrue
<1>11. CASE Request \/ Start
  BY <1>1, <1>11 DEF Request, BeginRefresh, BeginSet, RefuseSet, Start, gammaVars
<1>12. CASE GammaWriteFails \/ GammaWriteTimesOut
  BY <1>1, <1>12 DEF GammaWriteFails, Refuse, GammaWriteTimesOut, TimeOut, gammaVars
<1>13. CASE \/ \E id \in Ids : RestoreNext(id)
            \/ RestoreSucceeds \/ RestoreFails \/ SaveOpen \/ SaveWrite \/ SaveRename
            \/ UNCHANGED vars
  BY <1>1, <1>13 DEF RestoreNext, RestoreSucceeds, RestoreFails, SaveOpen, SaveWrite,
                     SaveRename, gammaVars, vars
<1> QED
  BY <1>2, <1>3, <1>4, <1>5, <1>6, <1>7, <1>8, <1>9, <1>10, <1>11, <1>12, <1>13
     DEF Next, Work, WriteFails, Environment, Exit, Crash

\* A rebuilt list is true and complete.
LEMMA RebuiltTrue ==
    ASSUME TypeOK', CachesTrue', NEW e, Rebuild(e)
    PROVE  OneOwner' /\ AllListed' /\ \A id \in Ids : TrueEntry(id)'
<1>1. \A id \in Ids : displays'[id] = InfoOf(id, ddc', cache', e)
  BY DEF Rebuild, Snapshot
<1>2. ASSUME NEW id \in Ids
      PROVE  /\ displays'[id].ddc = IF id.kind = "edid" /\ ddc'[id.output] # None
                                    THEN PercentOf(ddc'[id.output], VcpMax[id.output]) ELSE None
             /\ displays'[id].gamma = IF ShowsGamma(id, ddc') THEN cache'[id.output] ELSE None
  <2> DEFINE percent == IF id.kind = "edid" /\ ddc'[id.output] # None
                        THEN PercentOf(ddc'[id.output], VcpMax[id.output]) ELSE None
             level == IF ShowsGamma(id, ddc') THEN cache'[id.output] ELSE None
             info == [ddc |-> percent, gamma |-> level, error |-> id \in e]
  <2>1. displays'[id] = IF Listed(info) THEN info ELSE Unlisted
    BY <1>1 DEF InfoOf
  <2> HIDE DEF percent, level
  <2> QED
    BY <2>1 DEF Listed, Unlisted, percent, level
<1>3. OneOwner'
  BY <1>2 DEF OneOwner, Has, Kinds, ShowsGamma, Ids
<1>4. ASSUME NEW id \in Ids PROVE TrueEntry(id)'
  <2>1. id.output \in Outputs /\ (id.kind = "edid" => id.output \in DdcOutputs)
    BY IdFacts
  <2>2. Has(id, "ddc")' /\ Untouched("ddc", id.output)' =>
           displays'[id].ddc = PercentOf(vcp'[id.output], VcpMax[id.output])
    BY <1>2, <2>1 DEF Has, CachesTrue
  <2>3. Has(id, "gamma")' /\ Untouched("gamma", id.output)' =>
           displays'[id].gamma = lut'[id.output]
    BY <1>2, <2>1 DEF Has, CachesTrue
  <2> QED
    BY <2>2, <2>3 DEF TrueEntry, Kinds, LevelOf
<1>5. AllListed'
  <2> SUFFICES ASSUME NEW o \in Outputs, lut'[o] # None, Untouched("gamma", o)'
               PROVE  \E id \in Ids : id.output = o /\ Has(id, "gamma")'
    BY DEF AllListed
  <2>1. cache'[o] # None
    BY DEF CachesTrue
  <2>2. CASE o \in Located /\ ddc'[o] # None
    <3>1. [kind |-> "edid", output |-> o] \in Ids
      BY <2>2, ConstantFacts DEF Ids
    <3> QED
      BY <1>2, <2>1, <2>2, <3>1 DEF Has, ShowsGamma
  <2>3. CASE ~(o \in Located /\ ddc'[o] # None)
    <3>1. [kind |-> "wayland", output |-> o] \in Ids
      BY DEF Ids
    <3> QED
      BY <1>2, <2>1, <2>3, <3>1 DEF Has, ShowsGamma
  <2> QED
    BY <2>2, <2>3
<1> QED
  BY <1>3, <1>4, <1>5

-----------------------------------------------------------------------------
(* Transitions                                                             *)

\* A step keeps what is known of a control.
Kept(k, o) == Untouched(k, o)' => Untouched(k, o) /\ LevelOf(k, o)' = LevelOf(k, o)

\* What happens outside the daemon leaves the truth of everything it does not
\* touch.
LEMMA OutsideKeeps ==
    ASSUME TypeOK, ListInv, UNCHANGED <<displays, pc, op, todo, applied, rest>>,
           \A id \in Ids, k \in Kinds : Has(id, k) => Kept(k, id.output),
           \A o \in Outputs : Kept("gamma", o)
    PROVE  ListInv'
<1>1. \A id \in Ids : id.output \in Outputs
  BY IdFacts
<1>2. op.id \in Ids /\ rest \subseteq Ids
  BY DEF TypeOK, Ops
<1>3. OneOwner'
  BY DEF ListInv, OneOwner, Has
<1>4. \A id \in Ids : TrueEntry(id) => TrueEntry(id)'
  BY <1>1 DEF TrueEntry, Has, Kept
<1>5. AllListed => AllListed'
  BY DEF AllListed, Has, Kept, LevelOf, Kinds
<1>6. ListTrue'
  BY <1>2, <1>4, <1>5 DEF ListInv, ListTrue, Quiet
<1>7. Planned' = Planned /\ InEffect' = InEffect /\ (InTransition' <=> InTransition)
  BY DEF Planned, InEffect, InTransition
<1>8. InOrder'
  BY <1>7 DEF ListInv, InOrder, Has
<1>9. LevelsKnown'
  BY <1>1, <1>2, <1>7 DEF ListInv, LevelsKnown, Has, Kept
<1> QED
  BY <1>3, <1>6, <1>8, <1>9 DEF ListInv

\* A transition starts from a true entry with nothing in effect.
LEMMA TransitionBegins ==
    ASSUME TypeOK, NEW kind, NEW id \in Ids, NEW plan, TrueEntry(id),
           \A k \in Kinds : plan[k] # None => Has(id, k),
           BeginPlan(kind, id, plan), UNCHANGED <<displays, vcp, lut, touched>>,
           id \notin rest'
    PROVE  InOrder' /\ LevelsKnown'
<1>1. /\ op'.id = id /\ op'.plan = plan /\ pc' = "adjust" /\ applied' = {}
      /\ todo' = Planned'
  BY DEF BeginPlan, Planned
<1>2. InEffect' = {}
  BY <1>1 DEF InEffect
<1>3. InOrder'
  BY <1>1, <1>2 DEF InOrder, Has
<1>4. LevelsKnown'
  BY <1>1, <1>2 DEF LevelsKnown, TrueEntry, Has, Untouched, LevelOf
<1> QED
  BY <1>3, <1>4

\* An adjustment of the plan takes its control from the listed level to the
\* planned one, and is the only one of that control.
LEMMA PlannedFacts ==
    ASSUME NEW a \in Planned
    PROVE  /\ a.control \in Kinds
           /\ a.from = displays[op.id][a.control]
           /\ a.to = op.plan[a.control]
           /\ op.plan[a.control] # None
           /\ \A b \in Planned : b.control = a.control => b = a
BY DEF Planned, Adjustments, Adjustment, Kinds

\* A write that succeeds brings one adjustment into effect or out of it.
LEMMA WriteKeeps ==
    ASSUME TypeOK, ListInv, NEW k \in Kinds, Busy(k), Succeeded, UNCHANGED <<op, rest>>,
           FineMonitors /\ Untouched(k, op.id.output)' =>
              LevelOf(k, op.id.output)' = Goal(Current),
           \A id \in Ids, c \in Kinds :
              Has(id, c) /\ (c # k \/ id.output # op.id.output) => Kept(c, id.output)
    PROVE  ListInv'
<1> DEFINE a == Current
<1>1. a \in todo /\ a.control = k /\ InTransition
  BY CurrentFacts DEF Busy, InTransition
<1>2. a \in Planned /\ todo \subseteq Planned /\ applied \subseteq Planned
  BY <1>1 DEF ListInv, InOrder
<1>3. Has(op.id, k) /\ op.id \in Ids /\ op.id \notin rest /\ rest \subseteq Ids
  BY <1>1, <1>2, PlannedFacts DEF ListInv, InOrder, TypeOK, Ops
<1>4. displays' = displays /\ Planned' = Planned /\ pc' = pc /\ InTransition'
  BY <1>1 DEF Succeeded, Planned, InTransition
<1>5. todo \in SUBSET AllAdjustments /\ todo # {}
  BY DEF TypeOK, Busy
<1>6. OneOwner'
  BY <1>4 DEF ListInv, OneOwner, Has
<1>7. \A id \in rest : TrueEntry(id)'
  <2> SUFFICES ASSUME NEW id \in rest, NEW c \in Kinds, Has(id, c)', Untouched(c, id.output)'
               PROVE  displays'[id][c] = LevelOf(c, id.output)'
    BY DEF TrueEntry
  <2>1. id \in Ids /\ id.output \in Outputs /\ id # op.id /\ Has(id, c)
    BY <1>3, <1>4, IdFacts DEF Has
  <2>2. c # k \/ id.output # op.id.output
    BY <1>3, <2>1 DEF ListInv, OneOwner
  <2>3. TrueEntry(id)
    BY <1>1 DEF ListInv, ListTrue, InTransition
  <2> QED
    BY <1>4, <2>1, <2>2, <2>3 DEF TrueEntry, Kept
<1>8. ListTrue'
  BY <1>1, <1>4, <1>7 DEF ListTrue, Quiet, InTransition
<1>9. CASE pc = "adjust"
  <2>1. /\ todo' = todo \ {a} /\ applied' = applied \cup {a}
        /\ InEffect = applied /\ InEffect' = applied \cup {a}
    BY <1>4, <1>9 DEF Succeeded, InEffect
  <2>2. \A b \in todo : OrderKey(a) <= OrderKey(b)
    BY <1>5, <1>9, FirstIsMember DEF Current
  <2>3. applied = Planned \ todo
    BY <1>1, <1>9 DEF ListInv, InOrder
  <2>4. \A e \in applied, b \in todo : OrderKey(e) <= OrderKey(b)
    BY <1>1, <2>1, <2>3, <1>2 DEF ListInv, InOrder
  <2> HIDE DEF a
  <2>5. InOrder'
    BY <1>1, <1>2, <1>3, <1>4, <1>9, <2>1, <2>2, <2>3, <2>4 DEF ListInv, InOrder, Has
  <2>6. LevelsKnown'
    <3> SUFFICES ASSUME FineMonitors, NEW c \in Kinds, Has(op.id, c), Untouched(c, op.id.output)'
                 PROVE  LevelOf(c, op.id.output)' =
                          IF \E b \in applied \cup {a} : b.control = c
                          THEN op.plan[c] ELSE displays[op.id][c]
      BY <1>4, <2>1 DEF LevelsKnown, Has
    <3>1. CASE c = k
      <4>1. Goal(a) = op.plan[k]
        BY <1>1, <1>2, <1>9, PlannedFacts DEF Goal
      <4> QED
        BY <1>1, <3>1, <4>1 DEF a
    <3>2. CASE c # k
      <4>1. Kept(c, op.id.output)
        BY <1>3, <3>2
      <4>2. LevelOf(c, op.id.output) =
               IF \E b \in applied : b.control = c THEN op.plan[c] ELSE displays[op.id][c]
        BY <1>1, <2>1, <4>1 DEF ListInv, LevelsKnown, Kept
      <4> QED
        BY <1>1, <3>2, <4>1, <4>2 DEF Kept
    <3> QED
      BY <3>1, <3>2
  <2> QED
    BY <1>6, <1>8, <2>5, <2>6 DEF ListInv
<1>10. CASE pc = "rollback"
  <2>1. InEffect = todo \cup applied /\ \A b \in InEffect : b = a
    BY <1>1, <1>10 DEF InEffect, ListInv, InOrder
  <2>2. todo = {a} /\ applied = {}
    BY <1>1, <1>10, <2>1 DEF ListInv, InOrder
  <2>3. todo' = {} /\ applied' = {} /\ InEffect = {a} /\ InEffect' = {}
    BY <1>4, <1>10, <2>1, <2>2 DEF Succeeded, InEffect
  <2> HIDE DEF a
  <2>4. InOrder'
    BY <1>2, <1>3, <1>4, <1>10, <2>3, <1>1 DEF ListInv, InOrder, Has
  <2>5. LevelsKnown'
    <3> SUFFICES ASSUME FineMonitors, NEW c \in Kinds, Has(op.id, c), Untouched(c, op.id.output)'
                 PROVE  LevelOf(c, op.id.output)' = displays[op.id][c]
      BY <1>4, <2>3 DEF LevelsKnown, Has
    <3>1. CASE c = k
      BY <1>1, <1>2, <1>10, <3>1, PlannedFacts DEF Goal, a
    <3>2. CASE c # k
      <4>1. Kept(c, op.id.output)
        BY <1>3, <3>2
      <4> QED
        BY <1>1, <2>3, <3>2, <4>1 DEF ListInv, LevelsKnown, Kept
    <3> QED
      BY <3>1, <3>2
  <2> QED
    BY <1>6, <1>8, <2>4, <2>5 DEF ListInv
<1> QED
  BY <1>1, <1>9, <1>10 DEF InTransition

\* A write that fails turns a transition around; what is in effect stays.
LEMMA FailKeeps ==
    ASSUME TypeOK, ListInv, NEW k \in Kinds, Busy(k), Failed, UNCHANGED <<op, rest>>,
           \A id \in Ids, c \in Kinds : Has(id, c) => Kept(c, id.output)
    PROVE  ListInv'
<1> DEFINE a == Current
<1>1. a \in todo /\ InTransition /\ op.id \in Ids /\ rest \subseteq Ids
  BY CurrentFacts DEF Busy, InTransition, TypeOK, Ops
<1>2. displays' = displays /\ Planned' = Planned /\ pc' = "rollback" /\ InTransition'
  BY <1>1 DEF Failed, Planned, InTransition
<1>3. OneOwner'
  BY <1>2 DEF ListInv, OneOwner, Has
<1>4. \A id \in rest : TrueEntry(id)'
  <2>1. \A id \in Ids : id.output \in Outputs
    BY IdFacts
  <2>2. \A id \in rest : TrueEntry(id)
    BY <1>1 DEF ListInv, ListTrue, InTransition
  <2> QED
    BY <1>1, <1>2, <2>1, <2>2 DEF TrueEntry, Has, Kept
<1>5. ListTrue'
  BY <1>2, <1>4 DEF ListTrue, Quiet
<1>6. InEffect' = InEffect
  BY <1>1, <1>2 DEF Failed, InEffect, InTransition
<1>7. todo' \cap applied' = {} /\ todo' \subseteq Planned /\ applied' \subseteq Planned
  BY <1>1 DEF Failed, InTransition, ListInv, InOrder
<1>8. \A b, c \in InEffect : b = c
  <2>1. CASE pc = "adjust"
    <3>1. InEffect = Planned \ todo /\ a \in Planned
      BY <1>1, <2>1 DEF InEffect, ListInv, InOrder
    <3> SUFFICES ASSUME NEW b \in InEffect, NEW c \in InEffect PROVE b = c
      OBVIOUS
    <3> HIDE DEF a
    <3>2. b \in Planned /\ c \in Planned /\ b # a /\ c # a
      BY <1>1, <3>1
    <3>3. b.control # a.control /\ c.control # a.control
      BY <3>1, <3>2, PlannedFacts
    <3>4. b.control = c.control
      BY <3>1, <3>2, <3>3, PlannedFacts DEF Kinds
    <3> QED
      BY <3>2, <3>4, PlannedFacts
  <2>2. CASE pc = "rollback"
    BY <1>1, <2>2 DEF ListInv, InOrder
  <2> QED
    BY <1>1, <2>1, <2>2 DEF InTransition
<1>9. InOrder'
  BY <1>1, <1>2, <1>6, <1>7, <1>8 DEF ListInv, InOrder, Has
<1>10. LevelsKnown'
  <2>1. op.id.output \in Outputs
    BY <1>1, IdFacts
  <2> QED
    BY <1>1, <1>2, <1>6, <2>1 DEF ListInv, LevelsKnown, Has, Kept
<1> QED
  BY <1>3, <1>5, <1>9, <1>10 DEF ListInv

\* A control a display has exists.
LEMMA ShownControls ==
    ASSUME OneOwner, NEW id \in Ids, NEW k \in Kinds, Has(id, k)
    PROVE  id.output \in Outputs /\ (k = "ddc" => id.output \in DdcOutputs)
BY IdFacts DEF OneOwner

\* A rebuild ends an operation or a transition with a true list.
LEMMA RebuildKeeps ==
    ASSUME TypeOK', CachesTrue', NEW e, Rebuild(e),
           \/ pc' = "idle" /\ rest' = {}
           \/ pc' \in {"save", "restore"}
    PROVE  ListInv'
<1>1. OneOwner' /\ AllListed' /\ \A id \in Ids : TrueEntry(id)'
  BY RebuiltTrue
<1>2. rest' \subseteq Ids
  BY DEF TypeOK
<1> QED
  BY <1>1, <1>2 DEF ListInv, ListTrue, InOrder, LevelsKnown, InTransition, Quiet

\* The list and the transition in progress stay true under every step.
LEMMA ListStep ==
    ASSUME TypeOK, TypeOK', CachesTrue, CachesTrue', ListInv, [Next]_vars
    PROVE  ListInv'
<1> USE DEF controlVars, hardwareVars, storageVars
<1>0. op.id \in Ids /\ rest \subseteq Ids
  BY DEF TypeOK, Ops
<1>1. CASE UNCHANGED <<vcp, lut, touched, displays, pc, op, todo, applied, rest>>
  <2>1. \A k \in Kinds, o \in Outputs : Kept(k, o)
    BY <1>1 DEF Kept, Untouched, LevelOf
  <2> QED
    BY <1>1, <2>1, ShownControls, OutsideKeeps DEF ListInv, Kinds
<1>2. CASE GammaMoves
  <2>1. \A o \in Outputs : Kept("gamma", o)
    BY <1>2 DEF GammaMoves, Kept, Untouched, LevelOf, Control
  <2>2. \A o : Kept("ddc", o)
    BY <1>2 DEF GammaMoves, Kept, Untouched, LevelOf, Control
  <2> QED
    BY <1>2, <2>1, <2>2, ShownControls, OutsideKeeps DEF GammaMoves, ListInv, Kinds
<1>3. CASE \E o \in DdcOutputs, raw \in RawValues : MonitorChanges(o, raw)
  <2>1. \A o \in Outputs : Kept("gamma", o)
    BY <1>3 DEF MonitorChanges, Turn, Kept, Untouched, LevelOf, Control, gammaVars
  <2>2. \A o \in DdcOutputs : Kept("ddc", o)
    BY <1>3 DEF MonitorChanges, Turn, Kept, Untouched, LevelOf, Control, TypeOK, DdcTypeOK
  <2> QED
    BY <1>3, <2>1, <2>2, ShownControls, OutsideKeeps DEF MonitorChanges, ListInv, Kinds
<1>4. CASE DdcWrite
  <2> DEFINE out == op.id.output
             raw == RawOf(Goal(Current), VcpMax[out])
  <2>1. /\ Busy("ddc") /\ Succeeded /\ out \in DdcOutputs
        /\ vcp' = [vcp EXCEPT ![out] = raw] /\ UNCHANGED <<lut, op, rest>>
        /\ touched' = touched \ {Control("ddc", out)}
    BY <1>4 DEF DdcWrite, SetVcp, Managed, gammaVars
  <2>2. ASSUME FineMonitors PROVE LevelOf("ddc", out)' = Goal(Current)
    <3>1. Goal(Current) \in Percents
      BY <2>1, CurrentFacts
    <3>2. VcpMax[out] \in Nat /\ VcpMax[out] >= Full
      BY <2>1, <2>2, ConstantFacts DEF FineMonitors
    <3>3. vcp'[out] = raw
      BY <2>1 DEF TypeOK, DdcTypeOK
    <3> QED
      BY <2>1, <3>1, <3>2, <3>3, VcpReadsBack DEF LevelOf
  <2> HIDE DEF raw
  <2>3. ASSUME NEW id \in Ids, NEW c \in Kinds, Has(id, c), c # "ddc" \/ id.output # out
        PROVE  Kept(c, id.output)
    <3>1. c = "ddc" => vcp'[id.output] = vcp[id.output]
      BY <2>1, <2>3, ShownControls DEF TypeOK, DdcTypeOK, ListInv
    <3> QED
      BY <2>1, <2>3, <3>1 DEF Kept, Untouched, LevelOf, Control
  <2> QED
    BY <2>1, <2>2, <2>3, WriteKeeps DEF Kinds
<1>5. CASE GammaWrite
  <2> DEFINE out == op.id.output
             level == Goal(Current)
  <2>1. /\ Busy("gamma") /\ Succeeded /\ out \in Outputs
        /\ lut' = [lut EXCEPT ![out] = IF @ = None THEN None ELSE level]
        /\ cache' = [cache EXCEPT ![out] = level] /\ UNCHANGED <<vcp, op, rest>>
        /\ touched' = touched \ {c \in GammaControls : c.output = out /\ lut'[c.output] # None}
    BY <1>0, <1>5, IdFacts DEF GammaWrite, Apply, Written
  <2>2. Untouched("gamma", out)' => LevelOf("gamma", out)' = level
    <3>1. cache'[out] = level
      BY <2>1 DEF TypeOK, GammaTypeOK
    <3> QED
      BY <2>1, <3>1 DEF CachesTrue, LevelOf
  <2> HIDE DEF level
  <2>3. ASSUME NEW id \in Ids, NEW c \in Kinds, Has(id, c), c # "gamma" \/ id.output # out
        PROVE  Kept(c, id.output)
    <3>1. c = "gamma" => lut'[id.output] = lut[id.output]
      BY <2>1, <2>3, IdFacts DEF TypeOK, GammaTypeOK
    <3>2. Untouched(c, id.output)' => Untouched(c, id.output)
      BY <2>1, <2>3 DEF Untouched, Control, GammaControls
    <3>3. LevelOf(c, id.output)' = LevelOf(c, id.output)
      BY <2>1, <3>1 DEF LevelOf, Kinds
    <3> QED
      BY <3>2, <3>3 DEF Kept
  <2> QED
    BY <2>1, <2>2, <2>3, WriteKeeps DEF Kinds, level
<1>6. CASE DdcWriteFails
  <2> DEFINE out == op.id.output
  <2>1. /\ Busy("ddc") /\ Failed /\ UNCHANGED <<lut, op, rest>>
        /\ \/ UNCHANGED <<vcp, touched>>
           \/ \E raw : /\ vcp' = [vcp EXCEPT ![out] = raw]
                       /\ touched' = touched \cup {Control("ddc", out)}
    BY <1>6 DEF DdcWriteFails, SetUnanswered, gammaVars
  <2>2. ASSUME NEW id \in Ids, NEW c \in Kinds, Has(id, c) PROVE Kept(c, id.output)
    <3>1. c = "ddc" => id.output \in DdcOutputs
      BY <2>2, ShownControls DEF ListInv
    <3> QED
      BY <2>1, <3>1 DEF Kept, Untouched, LevelOf, Control, TypeOK, DdcTypeOK
  <2> QED
    BY <2>1, <2>2, FailKeeps DEF Kinds
<1>7. CASE GammaWriteFails \/ GammaWriteTimesOut
  <2>1. Busy("gamma") /\ Failed /\ UNCHANGED <<vcp, lut, touched, op, rest>>
    BY <1>7 DEF GammaWriteFails, Refuse, GammaWriteTimesOut, TimeOut, gammaVars
  <2>2. \A id \in Ids, c \in Kinds : Kept(c, id.output)
    BY <2>1 DEF Kept, Untouched, LevelOf
  <2> QED
    BY <2>1, <2>2, FailKeeps DEF Kinds
<1>8. CASE RestoreDone \/ SetFails \/ SaveFails \/ SetSucceeds \/ BeginReconcile
  <2>1. /\ \E e : Rebuild(e)
        /\ \/ pc' = "idle" /\ rest' = {}
           \/ pc' \in {"save", "restore"}
    BY <1>8 DEF RestoreDone, SetFails, SaveFails, RecordError, Answer, SetSucceeds, BeginReconcile
  <2> QED
    BY <2>1, RebuildKeeps
<1>9. CASE \E kind \in SetKinds, id \in Ids : \E value \in Values(kind) : BeginSet(kind, id, value)
  <2>1. PICK kind \in SetKinds, id \in Ids : \E value \in Values(kind) : BeginSet(kind, id, value)
    BY <1>9
  <2>2. PICK value \in Values(kind) : BeginSet(kind, id, value)
    BY <2>1
  <2> DEFINE plan == PlanOf(kind, displays[id], value)
  <2>3. \A k \in Kinds : plan[k] # None => Has(id, k)
    BY <2>2, SetPlanType DEF BeginSet, TypeOK, Has, Kinds
  <2> HIDE DEF plan
  <2>4. /\ BeginPlan(kind, id, plan) /\ pc = "idle"
        /\ UNCHANGED <<displays, vcp, lut, touched, rest>>
    BY <2>2 DEF BeginSet, gammaVars, plan
  <2>5. TrueEntry(id) /\ rest' = {}
    BY <2>4 DEF ListInv, ListTrue, Quiet
  <2>6. InOrder' /\ LevelsKnown'
    BY <2>3, <2>4, <2>5, TransitionBegins
  <2>7. OneOwner'
    BY <2>4 DEF ListInv, OneOwner, Has
  <2>8. ListTrue'
    BY <2>4, <2>5 DEF BeginPlan, ListTrue, Quiet
  <2> QED
    BY <2>6, <2>7, <2>8 DEF ListInv
<1>10. CASE \E id \in Ids : RestoreNext(id)
  <2>1. PICK id \in Ids : RestoreNext(id)
    BY <1>10
  <2> DEFINE plan == Wanted(config[id], displays[id])
  <2>2. \A k \in Kinds : plan[k] # None => Has(id, k)
    BY RestorePlanType DEF TypeOK, Configs, Has, Kinds
  <2> HIDE DEF plan
  <2>3. /\ pc = "restore" /\ id \in rest /\ rest' = rest \ {id}
        /\ UNCHANGED <<displays, vcp, lut, touched>>
        /\ \/ UNCHANGED <<op, todo, applied, pc>>
           \/ BeginPlan(op.kind, id, plan)
    BY <2>1 DEF RestoreNext, gammaVars, plan
  <2>4. TrueEntry(id) /\ \A other \in rest' : TrueEntry(other)
    BY <2>3 DEF ListInv, ListTrue
  <2>5. OneOwner'
    BY <2>3 DEF ListInv, OneOwner, Has
  <2>6. ListTrue'
    <3>1. \A other \in rest' : TrueEntry(other)'
      BY <2>3, <2>4 DEF TrueEntry, Has, Untouched, LevelOf
    <3>2. pc' \in {"restore", "adjust"}
      BY <2>3 DEF BeginPlan
    <3> QED
      BY <3>1, <3>2 DEF ListTrue, Quiet
  <2>7. InOrder' /\ LevelsKnown'
    <3>1. CASE BeginPlan(op.kind, id, plan)
      BY <2>2, <2>3, <2>4, <3>1, TransitionBegins
    <3>2. CASE UNCHANGED pc
      BY <2>3, <3>2 DEF InOrder, LevelsKnown, InTransition
    <3> QED
      BY <2>3, <3>1, <3>2
  <2> QED
    BY <2>5, <2>6, <2>7 DEF ListInv
<1>11. CASE RestoreSucceeds \/ RestoreFails
  <2>1. UNCHANGED <<displays, vcp, lut, touched, rest>> /\ pc' = "restore" /\ InTransition
    BY <1>11 DEF RestoreSucceeds, RestoreFails, Settled, InTransition, gammaVars
  <2>2. \A id \in rest : TrueEntry(id)'
    BY <2>1 DEF ListInv, ListTrue, InTransition, TrueEntry, Has, Untouched, LevelOf
  <2> QED
    BY <2>1, <2>2 DEF ListInv, OneOwner, Has, ListTrue, Quiet, InOrder, LevelsKnown, InTransition
<1>12. CASE SaveOpen \/ SaveWrite \/ SaveRename \/ \E kind \in SetKinds, id \in Ids : RefuseSet(kind, id)
  <2>1. /\ UNCHANGED <<displays, vcp, lut, touched>>
        /\ Quiet /\ Quiet'
        /\ pc' = "idle" => rest' = {}
    <3>1. CASE SaveOpen \/ SaveWrite
      BY <3>1 DEF SaveOpen, SaveWrite, Quiet, gammaVars
    <3>2. CASE SaveRename
      BY <3>2 DEF SaveRename, Answer, Quiet, gammaVars
    <3>3. CASE \E kind \in SetKinds, id \in Ids : RefuseSet(kind, id)
      BY <3>3 DEF RefuseSet, Quiet, gammaVars, ListInv, ListTrue
    <3> QED
      BY <1>12, <3>1, <3>2, <3>3
  <2>2. AllListed' /\ \A id \in Ids : TrueEntry(id)'
    BY <2>1 DEF ListInv, ListTrue, AllListed, TrueEntry, Has, Untouched, LevelOf
  <2> QED
    BY <2>1, <2>2 DEF ListInv, OneOwner, Has, ListTrue, Quiet, InOrder, LevelsKnown, InTransition
<1>13. CASE BeginRefresh \/ Start \/ \E seen \in SUBSET DdcOutputs : Enumerate(seen)
  <2>1. UNCHANGED displays /\ pc' \in {"enumerate", "connect"}
    BY <1>13 DEF BeginRefresh, Start, Enumerate
  <2> QED
    BY <2>1 DEF ListInv, OneOwner, Has, ListTrue, Quiet, InOrder, LevelsKnown, InTransition
<1>14. CASE Halt
  <2>1. pc' = "down" /\ \A id \in Ids, k \in Kinds : ~Has(id, k)'
    BY <1>14 DEF Halt, Has, Unlisted, Kinds
  <2> QED
    BY <2>1 DEF ListInv, OneOwner, ListTrue, Quiet, InOrder, LevelsKnown, InTransition
<1>15. CASE UNCHANGED vars
  BY <1>1, <1>15 DEF vars, gammaVars
<1> QED
  BY <1>2, <1>3, <1>4, <1>5, <1>6, <1>7, <1>8, <1>9, <1>10, <1>11, <1>12, <1>13, <1>14, <1>15
     DEF Next, Request, Work, WriteFails, ReuseGamma, Reconnect, ConnectFails, Stop, Exit, Crash,
         WorkerMoves, Environment, CompositorMoves

\* Before the daemon is started nothing is listed and nothing is in progress.
LEMMA ListingInit == Init => ListingInv
<1> SUFFICES ASSUME Init PROVE ListingInv
  OBVIOUS
<1>1. CachesTrue
  BY DEF Init, GammaInit, DdcInit, CachesTrue
<1>2. \A id \in Ids, k \in Kinds : ~Has(id, k)
  BY DEF Init, Has, Unlisted, Kinds
<1> QED
  BY <1>1, <1>2 DEF Init, ListingInv, ListInv, OneOwner, ListTrue, Quiet, InOrder, LevelsKnown,
                    InTransition

\* Every step keeps the caches and the list true.
LEMMA ListingStep == TypeOK /\ TypeOK' /\ ListingInv /\ [Next]_vars => ListingInv'
BY CachesStep, ListStep DEF ListingInv

\* The invariant of caches, list and transitions holds in every reachable state
\* and for every monitor.
THEOREM ListingHolds == Spec => []ListingInv
<1>1. Init => ListingInv
  BY ListingInit
<1>2. TypeOK /\ TypeOK' /\ ListingInv /\ [Next]_vars => ListingInv'
  BY ListingStep
<1> QED
  BY <1>1, <1>2, TypeCorrect, PTL DEF Spec

\* Between operations the display list is true and complete, whatever
\* failed, came and went before: only a control somebody else moved since can
\* differ from what a client is shown.
THEOREM ListIsTrue == Spec => []SnapshotTruth
<1>1. ListingInv => SnapshotTruth
  BY DEF ListingInv, ListInv, ListTrue, Quiet, TrueEntry, AllListed, SnapshotTruth
<1> QED
  BY <1>1, ListingHolds, PTL

\* At the end of a transition the known levels are those of one end.
LEMMA AtomicFromInv ==
    ASSUME FineMonitors
    PROVE  TypeOK /\ ListingInv => AllOrNothing
<1> SUFFICES ASSUME TypeOK, ListingInv, InTransition, todo = {},
                    NEW k \in Kinds, Has(op.id, k), Untouched(k, op.id.output)
             PROVE  CASE pc = "adjust" -> LevelOf(k, op.id.output) = Target(op.id)[k]
                      [] pc = "rollback" ->
                            applied = {} => LevelOf(k, op.id.output) = displays[op.id][k]
  BY DEF AllOrNothing
<1>1. LevelOf(k, op.id.output) =
         IF \E a \in InEffect : a.control = k THEN op.plan[k] ELSE displays[op.id][k]
  BY DEF ListingInv, ListInv, LevelsKnown
<1>2. CASE pc = "adjust"
  <2>1. InEffect = Planned
    BY <1>2 DEF InEffect, ListingInv, ListInv, InOrder
  <2>2. (\E a \in Planned : a.control = k) <=>
           op.plan[k] # None /\ op.plan[k] # displays[op.id][k]
    <3>1. op.plan[k] # None /\ op.plan[k] # displays[op.id][k] =>
             Adjustment(k, displays[op.id][k], op.plan[k]) \in Planned
      BY DEF Planned, Adjustments, Kinds
    <3>2. Adjustment(k, displays[op.id][k], op.plan[k]).control = k
      BY DEF Adjustment
    <3>3. \A a \in Planned : a.control = k =>
             op.plan[k] # None /\ op.plan[k] # displays[op.id][k]
      BY DEF Planned, Adjustments, Adjustment
    <3> QED
      BY <3>1, <3>2, <3>3
  <2>3. LevelOf(k, op.id.output) = Target(op.id)[k]
    BY <1>1, <2>1, <2>2 DEF Target
  <2> QED
    BY <1>2, <2>3
<1>3. CASE pc = "rollback"
  BY <1>1, <1>3 DEF InEffect
<1> QED
  BY <1>2, <1>3 DEF InTransition

\* When every monitor has at least Full raw values, a transition ends with
\* all of the plan in effect or, when every undo of the rollback worked, with
\* nothing of it.
THEOREM TransitionIsAtomic ==
    ASSUME FineMonitors
    PROVE  Spec => []AllOrNothing
<1>1. TypeOK /\ ListingInv => AllOrNothing
  BY AtomicFromInv
<1> QED
  BY <1>1, ListingHolds, TypeCorrect, PTL

\* When every monitor has at least Full raw values, no state on the way of a
\* transition, forward or back, is brighter than both its ends.
THEOREM TransitionNeverOvershoots ==
    ASSUME FineMonitors
    PROVE  Spec => []NeverBrighterThanEnds
<1>1. TypeOK /\ ListingInv => NeverBrighterThanEnds
  <2> SUFFICES ASSUME TypeOK, ListingInv, InTransition, AllUntouched(op.id)
               PROVE  Emitted(op.id) <=
                        AtLeast(Effective(displays[op.id].ddc, displays[op.id].gamma),
                                Effective(Target(op.id).ddc, Target(op.id).gamma))
    BY DEF NeverBrighterThanEnds
  <2> DEFINE current == displays[op.id]
             plan == op.plan
             mid == [k \in Kinds |-> IF \E a \in InEffect : a.control = k
                                     THEN plan[k] ELSE current[k]]
  <2>1. op.id \in Ids /\ current \in DisplayInfos /\ plan \in Settings
    BY DEF TypeOK, Ops
  <2>2. \A k \in Kinds : plan[k] # None => current[k] # None
    BY DEF ListingInv, ListInv, InOrder, Has
  <2>3. /\ InEffect \subseteq Adjustments(current, plan)
        /\ \A a \in InEffect, b \in Adjustments(current, plan) \ InEffect :
              OrderKey(a) <= OrderKey(b)
    BY DEF ListingInv, ListInv, InOrder, InTransition, InEffect, Planned
  <2>4. Emitted(op.id) = Effective(mid.ddc, mid.gamma)
    <3>1. \A k \in Kinds : Has(op.id, k) => LevelOf(k, op.id.output) = mid[k]
      BY DEF ListingInv, ListInv, LevelsKnown, AllUntouched
    <3>2. \A k \in Kinds : ~Has(op.id, k) => mid[k] = None
      BY <2>2, <2>3 DEF Has, Adjustments, Adjustment
    <3> QED
      BY <3>1, <3>2 DEF Emitted, Kinds
  <2>5. Target(op.id) = [k \in Kinds |-> IF plan[k] # None THEN plan[k] ELSE current[k]]
    BY DEF Target
  <2>6. /\ current.ddc \in Percents \cup {None} /\ current.gamma \in Levels \cup {None}
        /\ plan.ddc \in Percents \cup {None} /\ plan.gamma \in Levels \cup {None}
    BY <2>1 DEF DisplayInfos, Settings
  <2>7. InEffect \in SUBSET Adjustments(current, plan)
    BY <2>3
  <2> DEFINE target == [k \in Kinds |-> IF plan[k] # None THEN plan[k] ELSE current[k]]
  <2> HIDE DEF current, plan
  <2>8. Kinds = {"ddc", "gamma"}
    BY DEF Kinds
  <2>9. Effective(mid.ddc, mid.gamma) <=
          AtLeast(Effective(current.ddc, current.gamma), Effective(target.ddc, target.gamma))
    BY <2>2, <2>3, <2>6, <2>7, <2>8, PartWayNeverBrighter
  <2> HIDE DEF mid, target
  <2> QED
    BY <2>4, <2>5, <2>9 DEF current, target
<1> QED
  BY <1>1, ListingHolds, TypeCorrect, PTL

-----------------------------------------------------------------------------
(* Failed requests                                                         *)

\* A rebuilt list shows the errors it was built with.
LEMMA RebuiltErrors ==
    ASSUME NEW e, Rebuild(e), NEW id \in Ids, id \in e, Listed(displays'[id])
    PROVE  displays'[id].error
<1>1. displays'[id] = InfoOf(id, ddc', cache', e)
  BY DEF Rebuild, Snapshot
<1> DEFINE percent == IF id.kind = "edid" /\ ddc'[id.output] # None
                      THEN PercentOf(ddc'[id.output], VcpMax[id.output]) ELSE None
           level == IF ShowsGamma(id, ddc') THEN cache'[id.output] ELSE None
           info == [ddc |-> percent, gamma |-> level, error |-> id \in e]
<1>2. displays'[id] = IF Listed(info) THEN info ELSE Unlisted
  BY <1>1 DEF InfoOf
<1> HIDE DEF percent, level
<1>3. ~Listed(Unlisted)
  BY DEF Listed, Unlisted
<1>4. displays'[id] = info
  BY <1>2, <1>3
<1>5. info.error = (id \in e)
  OBVIOUS
<1> HIDE DEF info
<1> QED
  BY <1>4, <1>5

\* Every step keeps the error of a failed request in the list: an answer
\* "error" comes with a rebuild, or for a display that is not listed.
LEMMA ErrorStep == TypeOK /\ ErrorVisible /\ [Next]_vars => ErrorVisible'
<1> SUFFICES ASSUME TypeOK, ErrorVisible, [Next]_vars PROVE ErrorVisible'
  OBVIOUS
<1> USE DEF storageVars, controlVars, ErrorVisible
<1>0. op.id \in Ids
  BY DEF TypeOK, Ops
<1>1. CASE UNCHANGED <<displays, pc, op, reply>>
  BY <1>1
<1>2. CASE pc' # "idle" \/ reply' # "error" \/ op'.kind \notin SetKinds
  BY <1>2
<1>3. CASE SetFails \/ SaveFails
  <2>1. op' = op /\ Rebuild(errors') /\ op.id \in errors'
    BY <1>3 DEF SetFails, SaveFails, RecordError, Answer
  <2> QED
    BY <1>0, <2>1, RebuiltErrors
<1>4. CASE SaveRename
  BY <1>4 DEF SaveRename, Answer
<1>5. CASE Request
  <2>1. CASE BeginRefresh
    BY <1>2, <2>1 DEF BeginRefresh
  <2>2. CASE \E kind \in SetKinds, id \in Ids : \E value \in Values(kind) : BeginSet(kind, id, value)
    BY <1>2, <2>2 DEF BeginSet
  <2>3. CASE \E kind \in SetKinds, id \in Ids : RefuseSet(kind, id)
    BY <1>2, <2>3 DEF RefuseSet, NoOp, SetKinds
  <2> QED
    BY <1>5, <2>1, <2>2, <2>3 DEF Request
<1>6. CASE RestoreDone
  BY <1>2, <1>6 DEF RestoreDone, Answer
<1>7. CASE Start \/ Halt
  BY <1>2, <1>7 DEF Start, Halt
<1>8. CASE WriteFails \/ DdcWrite \/ GammaWrite
  BY <1>2, <1>8 DEF WriteFails, DdcWriteFails, GammaWriteFails, GammaWriteTimesOut,
                    DdcWrite, GammaWrite, Failed, Succeeded, Busy
<1>9. CASE BeginReconcile \/ \E seen \in SUBSET DdcOutputs : Enumerate(seen)
  BY <1>2, <1>9 DEF BeginReconcile, Enumerate
<1>10. CASE \E id \in Ids : RestoreNext(id)
  BY <1>2, <1>10 DEF RestoreNext, BeginPlan
<1>11. CASE SetSucceeds \/ RestoreSucceeds \/ RestoreFails \/ SaveOpen \/ SaveWrite
  BY <1>2, <1>11 DEF SetSucceeds, RestoreSucceeds, RestoreFails, SaveOpen, SaveWrite
<1>12. CASE Stop \/ WorkerMoves \/ Environment \/ UNCHANGED vars
  BY <1>1, <1>12 DEF Stop, WorkerMoves, Environment, CompositorMoves, GammaMoves, MonitorChanges, vars
<1> QED
  BY <1>3, <1>4, <1>5, <1>6, <1>7, <1>8, <1>9, <1>10, <1>11, <1>12
     DEF Next, Work, ReuseGamma, Reconnect, ConnectFails, Exit, Crash

\* Whatever fails in a set request, the writes, their undoing or the save, a
\* client that lists the displays afterwards is shown the error.
THEOREM FailuresAreShown == Spec => []ErrorVisible
<1>1. Init => ErrorVisible
  BY DEF Init, ErrorVisible
<1>2. TypeOK /\ ErrorVisible /\ [Next]_vars => ErrorVisible'
  BY ErrorStep
<1> QED
  BY <1>1, <1>2, TypeCorrect, PTL DEF Spec

-----------------------------------------------------------------------------
(* Settings                                                                *)

\* The settings in memory change only where the daemon starts or stops, and
\* where a set request has succeeded.
LEMMA ConfigStep ==
    ASSUME TypeOK, [Next]_vars, config' # config
    PROVE  pc = "down" \/ pc' = "down" \/ SetSucceeds
<1> USE DEF storageVars
<1>1. CASE Request
  BY <1>1 DEF Request, BeginRefresh, BeginSet, RefuseSet
<1>2. CASE Work
  BY <1>2 DEF Work, Enumerate, ReuseGamma, Reconnect, ConnectFails, BeginReconcile, RestoreNext,
              RestoreDone, DdcWrite, GammaWrite, SetFails, RestoreSucceeds, RestoreFails,
              SaveOpen, SaveWrite, SaveRename
<1>3. CASE WriteFails \/ SaveFails
  BY <1>3 DEF WriteFails, DdcWriteFails, GammaWriteFails, GammaWriteTimesOut, SaveFails
<1>4. CASE Start \/ Exit \/ Crash
  BY <1>4 DEF Start, Exit, Crash, Halt
<1>5. CASE Stop \/ WorkerMoves \/ Environment \/ UNCHANGED vars
  BY <1>5 DEF Stop, WorkerMoves, Environment, CompositorMoves, GammaMoves, MonitorChanges, vars
<1> QED
  BY <1>1, <1>2, <1>3, <1>4, <1>5 DEF Next

\* No request, refresh or failure ever changes a saved value but that of a
\* control the request itself set.
THEOREM SettingsAreKept == Spec => OtherSettingsKept
<1> DEFINE OthersKept == pc # "down" /\ pc' # "down" =>
                       \A id \in Ids, k \in Kinds :
                          config'[id][k] # config[id][k] => id = op.id /\ op.plan[k] # None
<1>1. TypeOK /\ [Next]_vars => [OthersKept]_config
  <2> SUFFICES ASSUME TypeOK, [Next]_vars, config' # config, pc # "down", pc' # "down",
                      NEW id \in Ids, NEW k \in Kinds, config'[id][k] # config[id][k]
               PROVE  id = op.id /\ op.plan[k] # None
    OBVIOUS
  <2>1. config' = [config EXCEPT ![op.id] = Merge(config[op.id], op.plan)]
    BY ConfigStep DEF SetSucceeds
  <2>2. config[op.id] \in Settings /\ op.plan \in Settings /\ op.id \in Ids
    BY DEF TypeOK, Configs, Ops
  <2>3. id = op.id /\ config'[id] = Merge(config[id], op.plan)
    BY <2>1, <2>2 DEF TypeOK, Configs
  <2> QED
    BY <2>2, <2>3 DEF Merge, Kinds
<1> QED
  BY <1>1, TypeCorrect, PTL DEF Spec, OtherSettingsKept

-----------------------------------------------------------------------------
(* Restored settings                                                       *)

\* A display stays restored while its controls do what they did.
LEMMA StaysRestored ==
    ASSUME NEW id \in Ids, Restored(id), UNCHANGED <<displays, config>>,
           id \in errors => id \in errors',
           \A k \in Kinds : Has(id, k) => Kept(k, id.output)
    PROVE  Restored(id)'
BY DEF Restored, Has, Kept

\* So does all that was restored in a step that at most moves the controls of
\* the display in transition.
LEMMA RestoringGoesOn ==
    ASSUME TypeOK, RestoreInv, UNCHANGED <<displays, config, errors, op, rest>>,
           pc' = pc \/ (InTransition /\ InTransition'),
           \A id \in Ids, k \in Kinds :
              Has(id, k) /\ (InTransition => id # op.id) => Kept(k, id.output)
    PROVE  RestoreInv'
<1>1. pc' = "restore" => \A id \in Ids \ rest : Restored(id)'
  BY StaysRestored DEF RestoreInv, InTransition
<1>2. ASSUME InTransition', op.kind \in RestoreKinds
      PROVE  /\ op.plan = Wanted(config[op.id], displays[op.id])
             /\ \A id \in Ids \ (rest \cup {op.id}) : Restored(id)'
  <2>1. InTransition
    BY <1>2 DEF InTransition
  <2> QED
    BY <1>2, <2>1, StaysRestored DEF RestoreInv
<1> QED
  BY <1>1, <1>2 DEF RestoreInv

\* A write moves no control of another display, because no control is listed
\* twice.
LEMMA WriteIsLocal ==
    ASSUME TypeOK, ListInv, DdcWrite \/ GammaWrite \/ WriteFails,
           NEW id \in Ids, id # op.id, NEW c \in Kinds, Has(id, c)
    PROVE  Kept(c, id.output)
<1>0. op.id \in Ids /\ op.id.output \in Outputs /\ id.output \in Outputs
  BY IdFacts DEF TypeOK, Ops
<1>1. c = "ddc" => id.output \in DdcOutputs
  BY ShownControls DEF ListInv
<1>2. ASSUME NEW k \in Kinds, Busy(k), c = k PROVE id.output # op.id.output
  <2>1. Current \in Planned /\ Current.control = k
    BY <1>2, CurrentFacts DEF Busy, InTransition, ListInv, InOrder
  <2>2. Has(op.id, k)
    BY <1>2, <2>1, PlannedFacts DEF Busy, InTransition, ListInv, InOrder
  <2> QED
    BY <1>0, <1>2, <2>2 DEF ListInv, OneOwner
<1>3. CASE DdcWrite \/ DdcWriteFails
  <2> DEFINE out == op.id.output
  <2>1. /\ Busy("ddc") /\ UNCHANGED lut
        /\ \/ UNCHANGED <<vcp, touched>>
           \/ \E raw : /\ vcp' = [vcp EXCEPT ![out] = raw]
                       /\ \/ touched' = touched \ {Control("ddc", out)}
                          \/ touched' = touched \cup {Control("ddc", out)}
    BY <1>3 DEF DdcWrite, DdcWriteFails, SetVcp, SetUnanswered, gammaVars, hardwareVars
  <2>2. c = "ddc" => id.output # out
    BY <1>2, <2>1 DEF Kinds
  <2>3. c = "ddc" => vcp'[id.output] = vcp[id.output]
    BY <1>1, <2>1, <2>2 DEF TypeOK, DdcTypeOK
  <2>4. Untouched(c, id.output)' => Untouched(c, id.output)
    BY <2>1, <2>2 DEF Untouched, Control
  <2> QED
    BY <2>1, <2>3, <2>4 DEF Kept, LevelOf
<1>4. CASE GammaWrite \/ GammaWriteFails \/ GammaWriteTimesOut
  <2> DEFINE out == op.id.output
  <2>1. /\ Busy("gamma") /\ UNCHANGED vcp
        /\ \/ UNCHANGED <<lut, touched>>
           \/ /\ \E level : lut' = [lut EXCEPT ![out] = level]
              /\ touched' = touched \ {d \in GammaControls : d.output = out /\ lut'[d.output] # None}
    BY <1>4 DEF GammaWrite, Apply, Written, GammaWriteFails, Refuse, GammaWriteTimesOut, TimeOut,
                gammaVars, hardwareVars
  <2>2. c = "gamma" => id.output # out
    BY <1>2, <2>1 DEF Kinds
  <2>3. c = "gamma" => lut'[id.output] = lut[id.output]
    BY <1>0, <2>1, <2>2 DEF TypeOK, GammaTypeOK
  <2>4. Untouched(c, id.output)' => Untouched(c, id.output)
    BY <2>1, <2>2 DEF Untouched, Control, GammaControls
  <2> QED
    BY <2>1, <2>3, <2>4 DEF Kept, LevelOf, Kinds
<1> QED
  BY <1>3, <1>4 DEF WriteFails

\* Every step of a daemon keeps what it has restored.  The monitors are fine
\* enough to read back the level that was written.
LEMMA RestoreStep ==
    ASSUME FineMonitors, TypeOK, ListingInv, SaveInv, RestoreInv, [Next]_vars
    PROVE  RestoreInv'
<1> USE DEF controlVars, hardwareVars, storageVars
<1>1. CASE UNCHANGED <<vcp, lut, touched, displays, config, errors, pc, op, rest>>
  <2>1. \A k \in Kinds : \A o : Kept(k, o)
    BY <1>1 DEF Kept, Untouched, LevelOf
  <2> QED
    BY <1>1, <2>1, RestoringGoesOn
<1>2. CASE GammaMoves
  <2>1. \A o \in Outputs : Kept("gamma", o)
    BY <1>2 DEF GammaMoves, Kept, Untouched, LevelOf, Control
  <2>2. \A o : Kept("ddc", o)
    BY <1>2 DEF GammaMoves, Kept, Untouched, LevelOf, Control
  <2>3. \A id \in Ids : id.output \in Outputs
    BY IdFacts
  <2> QED
    BY <1>2, <2>1, <2>2, <2>3, RestoringGoesOn DEF GammaMoves, Kinds
<1>3. CASE \E o \in DdcOutputs, raw \in RawValues : MonitorChanges(o, raw)
  <2>1. \A o \in Outputs : Kept("gamma", o)
    BY <1>3 DEF MonitorChanges, Turn, Kept, Untouched, LevelOf, Control, gammaVars
  <2>2. \A o \in DdcOutputs : Kept("ddc", o)
    BY <1>3 DEF MonitorChanges, Turn, Kept, Untouched, LevelOf, Control, TypeOK, DdcTypeOK
  <2>3. \A id \in Ids, k \in Kinds : Has(id, k) => Kept(k, id.output)
    BY <2>1, <2>2, ShownControls DEF ListingInv, ListInv, Kinds
  <2> QED
    BY <1>3, <2>3, RestoringGoesOn DEF MonitorChanges
<1>4. CASE DdcWrite \/ GammaWrite \/ WriteFails
  <2>1. UNCHANGED <<displays, config, errors, op, rest>> /\ InTransition /\ InTransition'
    BY <1>4 DEF DdcWrite, GammaWrite, WriteFails, DdcWriteFails, GammaWriteFails,
                GammaWriteTimesOut, Busy, Succeeded, Failed, InTransition
  <2>2. \A id \in Ids, k \in Kinds : Has(id, k) /\ id # op.id => Kept(k, id.output)
    BY <1>4, WriteIsLocal DEF ListingInv
  <2> QED
    BY <2>1, <2>2, RestoringGoesOn
<1>5. CASE pc' \notin {"restore", "adjust", "rollback"}
  BY <1>5 DEF RestoreInv, InTransition
<1>6. CASE \E kind \in SetKinds, id \in Ids : \E value \in Values(kind) : BeginSet(kind, id, value)
  <2>1. pc' # "restore" /\ op'.kind \in SetKinds
    BY <1>6 DEF BeginSet, BeginPlan
  <2> QED
    BY <2>1 DEF RestoreInv, RestoreKinds, SetKinds
<1>7. CASE BeginReconcile
  <2>1. pc' = "restore" /\ UNCHANGED config
    BY <1>7 DEF BeginReconcile
  <2>2. ASSUME NEW id \in Ids, id \notin rest' PROVE Restored(id)'
    <3>1. ~Listed(displays'[id]) \/ config[id] = NoSetting
      BY <1>7, <2>2 DEF BeginReconcile
    <3> QED
      BY <2>1, <3>1 DEF Restored, Listed, Has, Kinds, NoSetting
  <2> QED
    BY <2>1, <2>2 DEF RestoreInv, InTransition
<1>8. CASE \E id \in Ids : RestoreNext(id)
  <2>1. PICK id \in Ids : RestoreNext(id)
    BY <1>8
  <2> DEFINE plan == Wanted(config[id], displays[id])
  <2>2. /\ pc = "restore" /\ rest' = rest \ {id}
        /\ UNCHANGED <<displays, config, errors, vcp, lut, touched>>
        /\ IF plan = NoSetting THEN UNCHANGED <<op, pc>> ELSE BeginPlan(op.kind, id, plan)
    BY <2>1 DEF RestoreNext, gammaVars
  <2>3. \A other \in Ids \ rest : Restored(other)'
    <3>1. \A k \in Kinds : \A o : Kept(k, o)
      BY <2>2 DEF Kept, Untouched, LevelOf
    <3> QED
      BY <2>2, <3>1, StaysRestored DEF RestoreInv
  <2>4. CASE plan = NoSetting
    <3>1. Restored(id)'
      BY <2>2, <2>4 DEF Restored, Has, Kinds, Wanted, NoSetting
    <3> QED
      BY <2>2, <2>3, <2>4, <3>1 DEF RestoreInv, InTransition
  <2>5. CASE plan # NoSetting
    <3>1. pc' = "adjust" /\ op'.id = id /\ op'.plan = plan
      BY <2>2, <2>5 DEF BeginPlan
    <3> QED
      BY <2>2, <2>3, <3>1 DEF RestoreInv, InTransition
  <2> QED
    BY <2>4, <2>5
<1>9. CASE RestoreSucceeds \/ RestoreFails
  <2>1. /\ InTransition /\ todo = {} /\ op.kind \in RestoreKinds /\ pc' = "restore"
        /\ UNCHANGED <<vcp, lut, touched, displays, config, op, rest>>
        /\ \A id \in Ids : id # op.id /\ id \in errors => id \in errors'
    BY <1>9 DEF RestoreSucceeds, RestoreFails, Settled, InTransition, gammaVars
  <2>2. \A k \in Kinds : \A o : Kept(k, o)
    BY <2>1 DEF Kept, Untouched, LevelOf
  <2>3. \A id \in Ids \ (rest \cup {op.id}) : Restored(id)'
    BY <2>1, <2>2, StaysRestored DEF RestoreInv
  <2>4. Restored(op.id)'
    <3>1. CASE RestoreFails
      BY <3>1 DEF RestoreFails, Restored
    <3>2. CASE RestoreSucceeds
      <4> SUFFICES ASSUME NEW k \in Kinds, Has(op.id, k), config[op.id][k] # None,
                          Untouched(k, op.id.output)
                   PROVE  LevelOf(k, op.id.output) = config[op.id][k]
        BY <2>1 DEF Restored, Has, Untouched, LevelOf
      <4>1. LevelOf(k, op.id.output) = Target(op.id)[k]
        BY <2>1, <3>2, AtomicFromInv DEF AllOrNothing, RestoreSucceeds, Settled
      <4>2. op.plan[k] = config[op.id][k]
        BY <2>1 DEF RestoreInv, Wanted, Has, Kinds
      <4> QED
        BY <4>1, <4>2 DEF Target
    <3> QED
      BY <1>9, <3>1, <3>2
  <2> QED
    BY <2>1, <2>3, <2>4 DEF RestoreInv, InTransition
<1>10. CASE BeginRefresh \/ Start \/ Halt \/ \E seen \in SUBSET DdcOutputs : Enumerate(seen)
  BY <1>5, <1>10 DEF BeginRefresh, Start, Halt, Enumerate
<1>11. CASE RestoreDone \/ SetSucceeds \/ SetFails \/ SaveOpen \/ SaveWrite \/ SaveRename \/ SaveFails
  BY <1>5, <1>11 DEF RestoreDone, SetSucceeds, SetFails, SaveOpen, SaveWrite, SaveRename,
                     SaveFails, Answer
<1>12. CASE \E kind \in SetKinds, id \in Ids : RefuseSet(kind, id)
  BY <1>5, <1>12 DEF RefuseSet
<1>13. CASE UNCHANGED vars
  BY <1>1, <1>13 DEF vars, gammaVars
<1> QED
  BY <1>2, <1>3, <1>4, <1>6, <1>7, <1>8, <1>9, <1>10, <1>11, <1>12, <1>13
     DEF Next, Request, Work, ReuseGamma, Reconnect, ConnectFails, Stop, Exit, Crash,
         WorkerMoves, Environment, CompositorMoves

\* When every monitor has at least Full raw values, a start or refresh that has
\* gone through its list has given every saved control its saved value, or left
\* an error on its display.
THEOREM RefreshReconciles ==
    ASSUME FineMonitors
    PROVE  Spec => []Reconciled
<1>1. Init => RestoreInv
  BY DEF Init, RestoreInv, InTransition
<1>2. TypeOK /\ ListingInv /\ SaveInv /\ RestoreInv /\ [Next]_vars => RestoreInv'
  BY RestoreStep
<1>3. TypeOK /\ RestoreInv => Reconciled
  BY DEF RestoreInv, Restored, Reconciled
<1> QED
  BY <1>1, <1>2, <1>3, TypeCorrect, ListingHolds, SavingHolds, PTL DEF Spec

-----------------------------------------------------------------------------
(* Writes of a refresh                                                     *)

\* Within a transition only writes make progress.
LEMMA ProgressIsWrite ==
    ASSUME [Next]_vars, pc = "adjust", pc' = "adjust", todo # {},
           <<todo, applied>>' # <<todo, applied>>
    PROVE  DdcWrite \/ GammaWrite
<1>1. Work => DdcWrite \/ GammaWrite
  BY DEF Work, Enumerate, ReuseGamma, Reconnect, ConnectFails, BeginReconcile, RestoreNext,
         RestoreDone, SetSucceeds, SetFails, RestoreSucceeds, RestoreFails, Settled,
         SaveOpen, SaveWrite, SaveRename
<1>2. ~WriteFails /\ ~SaveFails /\ ~Start
  BY DEF WriteFails, DdcWriteFails, GammaWriteFails, GammaWriteTimesOut, Failed, SaveFails, Start
<1>3. ~Stop /\ ~Exit /\ ~Crash
  BY DEF Stop, Exit, Crash, Halt
<1>4. ~WorkerMoves /\ ~Environment /\ ~UNCHANGED vars
  BY DEF Stop, WorkerMoves, Environment, CompositorMoves, GammaMoves, MonitorChanges, vars
<1>5. ~Request
  BY DEF Request, BeginRefresh, BeginSet, RefuseSet
<1> QED
  BY <1>1, <1>2, <1>3, <1>4, <1>5 DEF Next

\* When every monitor has at least Full raw values, a write of a start or
\* refresh changes the control it writes to, unless that one was touched since
\* the daemon looked.
THEOREM RefreshNeverRewrites ==
    ASSUME FineMonitors
    PROVE  Spec => RefreshWritesOnlyWhatDiffers
<1> DEFINE Changes == op.kind \in RestoreKinds /\ pc = "adjust" /\ pc' = "adjust" /\ todo # {}
                         /\ Untouched(Current.control, op.id.output)
                       => vcp' # vcp \/ lut' # lut
<1>1. TypeOK /\ ListingInv /\ [Next]_vars => [Changes]_<<todo, applied>>
  <2> SUFFICES ASSUME TypeOK, ListingInv, [Next]_vars, pc = "adjust", pc' = "adjust", todo # {},
                      <<todo, applied>>' # <<todo, applied>>,
                      Untouched(Current.control, op.id.output)
               PROVE  vcp' # vcp \/ lut' # lut
    OBVIOUS
  <2>1. DdcWrite \/ GammaWrite
    BY ProgressIsWrite
  <2>2. PICK k \in Kinds : Busy(k) /\ (k = "ddc" => DdcWrite) /\ (k = "gamma" => GammaWrite)
    BY <2>1 DEF DdcWrite, GammaWrite, Kinds
  <2>3. Current \in todo /\ Current.control = k /\ Goal(Current) = Current.to
    BY <2>2, CurrentFacts DEF Goal
  <2>4. InEffect = Planned \ todo /\ todo \subseteq Planned
    BY DEF InEffect, ListingInv, ListInv, InOrder, InTransition
  <2>5. /\ Current.from = displays[op.id][k] /\ Current.to = op.plan[k] /\ Current.from # Current.to
        /\ Has(op.id, k)
    <3>1. Current \in Planned
      BY <2>3, <2>4
    <3>2. Current.from # Current.to
      BY <3>1 DEF Planned, Adjustments, Adjustment
    <3> QED
      BY <2>3, <3>1, <3>2, PlannedFacts DEF ListingInv, ListInv, InOrder, InTransition
  <2>6. LevelOf(k, op.id.output) = Current.from
    <3>1. ~\E a \in InEffect : a.control = k
      BY <2>3, <2>4, PlannedFacts
    <3> QED
      BY <2>3, <2>5, <3>1 DEF ListingInv, ListInv, LevelsKnown, InTransition
  <2>7. op.id \in Ids /\ op.id.output \in Outputs
    BY IdFacts DEF TypeOK, Ops
  <2>8. CASE k = "ddc"
    <3> DEFINE out == op.id.output
    <3>1. out \in DdcOutputs /\ vcp' = [vcp EXCEPT ![out] = RawOf(Current.to, VcpMax[out])]
      BY <2>2, <2>3, <2>8 DEF DdcWrite, SetVcp, Managed
    <3>2. Current.to \in Percents /\ VcpMax[out] \in Nat /\ VcpMax[out] >= Full
      BY <2>2, <2>3, <2>8, <3>1, CurrentFacts, ConstantFacts DEF FineMonitors
    <3>3. PercentOf(RawOf(Current.to, VcpMax[out]), VcpMax[out]) = Current.to
      BY <3>2, VcpReadsBack
    <3>4. vcp'[out] = RawOf(Current.to, VcpMax[out])
      BY <3>1 DEF TypeOK, DdcTypeOK
    <3> QED
      BY <2>5, <2>6, <2>8, <3>3, <3>4 DEF LevelOf
  <2>9. CASE k = "gamma"
    <3> DEFINE out == op.id.output
    <3>1. lut' = [lut EXCEPT ![out] = IF lut[out] = None THEN None ELSE Current.to]
      BY <2>2, <2>3, <2>9 DEF GammaWrite, Apply, Written
    <3>2. lut[out] = Current.from /\ Current.from # None
      BY <2>5, <2>6, <2>9 DEF LevelOf, Has
    <3>3. lut'[out] = Current.to
      BY <2>7, <3>1, <3>2 DEF TypeOK, GammaTypeOK
    <3> QED
      BY <2>5, <3>2, <3>3
  <2> QED
    BY <2>8, <2>9 DEF Kinds
<1> QED
  BY <1>1, TypeCorrect, ListingHolds, PTL DEF Spec, RefreshWritesOnlyWhatDiffers
=============================================================================
