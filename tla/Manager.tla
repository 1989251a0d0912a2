------------------------------- MODULE Manager -------------------------------
(***************************************************************************)
(* The daemon (wlight-daemon, state.rs with config.rs and the gate of      *)
(* service.rs): one operation at a time reads the cached display list,     *)
(* writes the monitors' VCP registers and the compositor's lookup tables,  *)
(* rebuilds the list and saves the settings.  All it does to the hardware  *)
(* are actions of GammaControl and DdcControl, which the two backends      *)
(* implement.  Anything may happen between two steps: somebody turns the   *)
(* monitor's own knob, outputs come and go, the gamma worker dies or lags, *)
(* a write fails, the process is killed.                                   *)
(*                                                                         *)
(* An output stands for a connector with at most one monitor.  Located are *)
(* the DDC monitors whose connector is known; a display is listed as       *)
(* kind "edid" (DDC, with gamma when located) or "wayland" (gamma only).   *)
(* touched is a history variable: the controls of which the hardware may   *)
(* have changed since the daemon last looked.  Others move controls (the   *)
(* monitor's knob, the compositor), and so does the daemon without looking *)
(* again: by a DDC write that took effect although no answer came, by a    *)
(* gamma command its caller no longer waits for, by binding an output that *)
(* appeared, and by giving all gamma controls up when it shuts down.       *)
(***************************************************************************)
EXTENDS GammaControl, DdcControl

CONSTANTS
    Located,        \* DDC monitors associated with their connector
    Floor           \* hardware_floor, as a target

ASSUME MonitorAssumption ==
    /\ Outputs # {}
    /\ DdcOutputs \subseteq Outputs
    /\ Located \subseteq DdcOutputs
    /\ Floor \in Targets

VARIABLES
    displays,       \* ManagerState.displays, by id
    errors,         \* ManagerState.errors: the ids with an error
    config,         \* ManagerState.config
    disk,           \* config.toml
    tmp,            \* config.toml.tmp
    pc, op, todo, applied, rest, reply,
    touched

storageVars   == <<config, disk, tmp>>
controlVars   == <<op, rest, reply>>
vars == <<gammaVars, vcp, ddc, displays, errors, config, disk, tmp,
          pc, op, todo, applied, rest, reply, touched>>

-----------------------------------------------------------------------------
(* Displays, settings and plans                                            *)

Ids == [kind : {"edid"}, output : DdcOutputs] \cup
       [kind : {"wayland"}, output : Outputs]

Controls == [kind : {"ddc"}, output : DdcOutputs] \cup
            [kind : {"gamma"}, output : Outputs]
Control(kind, o) == [kind |-> kind, output |-> o]
GammaControls == {c \in Controls : c.kind = "gamma"}

Settings == [ddc : Percents \cup {None}, gamma : Levels \cup {None}]
NoSetting == [ddc |-> None, gamma |-> None]
Configs   == [Ids -> Settings]
NoConfig  == [id \in Ids |-> NoSetting]

\* A file: whether it is there and complete, and the settings in it.
Files == [whole : BOOLEAN, settings : Configs]
Whole(settings) == [whole |-> TRUE, settings |-> settings]
Torn == [whole |-> FALSE, settings |-> NoConfig]

DisplayInfos == [ddc : Percents \cup {None}, gamma : Levels \cup {None},
                 error : BOOLEAN]
Unlisted == [ddc |-> None, gamma |-> None, error |-> FALSE]
Listed(info) == info.ddc # None \/ info.gamma # None

\* An id carries gamma for o when it is the one display o is merged into.
ShowsGamma(id, d) ==
    (id.kind = "edid") <=> (id.output \in Located /\ d[id.output] # None)

\* rebuild_snapshot: the list as a function of the two backends' caches and
\* the recorded errors.
InfoOf(id, d, c, e) ==
    LET o == id.output
        info == [ddc |-> IF id.kind = "edid" /\ d[o] # None
                         THEN PercentOf(d[o], VcpMax[o]) ELSE None,
                 gamma |-> IF ShowsGamma(id, d) THEN c[o] ELSE None,
                 error |-> id \in e]
    IN  IF Listed(info) THEN info ELSE Unlisted
Snapshot(d, c, e) == [id \in Ids |-> InfoOf(id, d, c, e)]

SetKinds == {"unified", "ddc", "gamma"}
Ops == [kind : {"none", "start", "refresh"} \cup SetKinds, id : Ids, plan : Settings]
AnyId == CHOOSE id \in Ids : TRUE
NoOp  == [kind |-> "none", id |-> AnyId, plan |-> NoSetting]

\* What a set request asks of a display; value is a target, a percentage or
\* a gamma level.
PlanOf(kind, info, value) ==
    CASE kind = "unified" ->
            ForTarget(value, Floor, info.ddc # None, info.gamma # None)
      [] kind = "ddc"   -> [NoSetting EXCEPT !.ddc = value]
      [] kind = "gamma" -> [NoSetting EXCEPT !.gamma = value]
Values(kind) == CASE kind = "unified" -> Targets
                  [] kind = "ddc" -> Percents
                  [] kind = "gamma" -> Levels
Supports(info, kind) == CASE kind = "unified" -> Listed(info)
                          [] kind = "ddc" -> info.ddc # None
                          [] kind = "gamma" -> info.gamma # None

\* The saved values of the controls a display has now.
WantedIgnoringSupport(saved, info) == saved                      \* a bug
Wanted(saved, info) ==
    [ddc   |-> IF info.ddc # None   THEN saved.ddc   ELSE None,
     gamma |-> IF info.gamma # None THEN saved.gamma ELSE None]

\* saved_mut and the assignments after it: a plan replaces what it names.
MergeReplaces(saved, plan) == plan                               \* a bug
Merge(saved, plan) ==
    [ddc   |-> IF plan.ddc # None   THEN plan.ddc   ELSE saved.ddc,
     gamma |-> IF plan.gamma # None THEN plan.gamma ELSE saved.gamma]

-----------------------------------------------------------------------------
(* Initial state: no daemon is running                                     *)

Init ==
    /\ GammaInit
    /\ DdcInit
    /\ displays = [id \in Ids |-> Unlisted]
    /\ errors = {}
    /\ config = NoConfig
    /\ disk = Whole(NoConfig)
    /\ tmp = Torn
    /\ pc = "down"
    /\ op = NoOp
    /\ todo = {} /\ applied = {} /\ rest = {}
    /\ reply = "none"
    /\ touched = {}

-----------------------------------------------------------------------------
(* Steps shared by several operations                                      *)

\* Controls the compositor granted to a new worker and took back at once.
LostAtOnce == {c \in GammaControls :
                  pc = "connect" /\ NeedsReconnect /\ cache'[c.output] # lut'[c.output]}

\* rebuild_snapshot, from the caches as this step leaves them.  The list then
\* shows what each gamma control does, except those of which the worker has
\* not learned yet that they are gone.
Rebuild(e) ==
    /\ displays' = Snapshot(ddc', cache', e)
    /\ touched' = (touched \ {c \in GammaControls : cache'[c.output] = lut'[c.output]})
                     \cup LostAtOnce

\* The operation ends with an answer to its caller.
Answer(r) ==
    /\ pc' = "idle"
    /\ reply' = r
    /\ todo' = {} /\ applied' = {} /\ rest' = {}
    /\ UNCHANGED op

\* record_error, then the operation ends with it.
RecordErrorKeepsList(id) ==                 \* a bug: the list is not rebuilt
    /\ errors' = errors \cup {id}
    /\ UNCHANGED <<displays, touched>>
RecordError(id) ==
    /\ errors' = errors \cup {id}
    /\ Rebuild(errors')

\* apply_plan: the adjustment to make next, or to undo next.
Current == IF pc = "adjust" THEN First(todo) ELSE Last(todo)
Goal(a) == IF pc = "adjust" THEN a.to ELSE a.from
Busy(control) == pc \in {"adjust", "rollback"} /\ todo # {} /\ Current.control = control

\* applied holds the adjustments in effect; while rolling back, todo holds
\* those still to undo and applied those that could not be undone.
Succeeded ==
    /\ todo' = todo \ {Current}
    /\ applied' = IF pc = "adjust" THEN applied \cup {Current} ELSE applied
    /\ UNCHANGED <<pc, errors, displays>>
FailedUndoRetried ==                 \* a bug: retries an undo until it works
    /\ IF pc = "adjust"
       THEN pc' = "rollback" /\ todo' = applied /\ applied' = {}
       ELSE UNCHANGED <<pc, todo, applied>>
    /\ UNCHANGED <<errors, displays>>
FailedKeepsGoing ==                         \* a bug: no rollback
    /\ todo' = todo \ {Current}
    /\ UNCHANGED <<pc, applied, errors, displays>>
Failed ==
    /\ IF pc = "adjust"
       THEN pc' = "rollback" /\ todo' = applied /\ applied' = {}
       ELSE pc' = pc /\ todo' = todo \ {Current} /\ applied' = applied \cup {Current}
    /\ UNCHANGED <<errors, displays>>

BeginPlan(kind, id, plan) ==
    /\ op' = [kind |-> kind, id |-> id, plan |-> plan]
    /\ todo' = Adjustments(displays[id], plan)
    /\ applied' = {}
    /\ pc' = "adjust"

-----------------------------------------------------------------------------
(* Start, shutdown and crash                                               *)

\* Config::load and ManagerState::new up to the DDC scan.  A file that does
\* not parse stops the daemon before it does anything.
Start ==
    /\ pc = "down" /\ disk.whole
    /\ config' = disk.settings
    /\ op' = [NoOp EXCEPT !.kind = "start"]
    /\ pc' = "enumerate"
    /\ reply' = "none"
    /\ UNCHANGED <<gammaVars, hardwareVars, displays, errors, disk, tmp,
                   todo, applied, rest, touched>>

\* The process is gone: its memory and its gamma controls with it.
Halt ==
    /\ Close
    /\ pc' = "down"
    /\ Look(DdcOutputs, {})
    /\ displays' = [id \in Ids |-> Unlisted]
    /\ config' = NoConfig
    /\ op' = NoOp
    /\ errors' = {} /\ todo' = {} /\ applied' = {} /\ rest' = {} /\ touched' = {}
    /\ reply' = "none"
    /\ UNCHANGED <<disk, tmp>>

Crash == pc # "down" /\ Halt

\* A step of the gamma backend after which the list is not rebuilt.
GammaMoves ==
    /\ touched' = touched \cup {Control("gamma", o) :
                      o \in {p \in Outputs : lut'[p] # lut[p] \/ cache'[p] # cache[p]}}
    /\ UNCHANGED <<hardwareVars, storageVars, displays, errors, pc, todo, applied,
                   controlVars>>

\* SIGTERM: ManagerService::shutdown waits for the gate, takes the gamma
\* backend and joins its worker, which first processes what is left in its
\* channel.  The rest of the state stays, for requests queued behind it.
Stop == pc = "idle" /\ late = <<>> /\ Close /\ GammaMoves

\* main returns after that, between two operations.  (When a refresh queued
\* behind the shutdown has connected again, the end is Crash.)
Exit == pc = "idle" /\ worker = "none" /\ Halt

-----------------------------------------------------------------------------
(* Refresh, and the same steps at startup: scan, reconnect, reconcile      *)

BeginRefresh ==
    /\ pc = "idle"
    /\ op' = [NoOp EXCEPT !.kind = "refresh"]
    /\ pc' = "enumerate"
    /\ reply' = "none"
    /\ UNCHANGED <<gammaVars, hardwareVars, storageVars, displays, errors,
                   todo, applied, rest, touched>>

\* DdcBackend::refresh: the monitors in seen could be read, the others are
\* left out of the list.
Enumerate(seen) ==
    /\ pc = "enumerate"
    /\ Look(DdcOutputs, seen)
    /\ touched' = touched \ {Control("ddc", o) : o \in seen}
    /\ pc' = "connect"
    /\ UNCHANGED <<gammaVars, storageVars, displays, errors, todo, applied,
                   controlVars>>

BeginReconcile ==
    /\ pc = "connect"
    /\ UNCHANGED ddc
    /\ Rebuild(errors)
    /\ rest' = {id \in Ids : Listed(displays'[id]) /\ config[id] # NoSetting}
    /\ pc' = "restore"
    /\ UNCHANGED <<vcp, storageVars, errors, op, todo, applied, reply>>

\* refresh_gamma
ReuseGamma == ~NeedsReconnect /\ UNCHANGED gammaVars /\ BeginReconcile
Reconnect(granted, held, failed) == Connect(granted, held, failed) /\ BeginReconcile
ConnectFails == ConnectRefused /\ BeginReconcile

\* restore_saved_settings, one display at a time.  The code goes through the
\* list in connector order; any order is allowed here.
RestoreNext(id) ==
    /\ pc = "restore" /\ id \in rest
    /\ LET plan == Wanted(config[id], displays[id]) IN
         IF plan = NoSetting
         THEN UNCHANGED <<op, todo, applied, pc>>
         ELSE BeginPlan(op.kind, id, plan)
    /\ rest' = rest \ {id}
    /\ UNCHANGED <<gammaVars, hardwareVars, storageVars, displays, errors, reply,
                   touched>>

RestoreDone ==
    /\ pc = "restore" /\ rest = {}
    /\ UNCHANGED <<gammaVars, hardwareVars, storageVars, errors>>
    /\ Rebuild(errors)
    /\ Answer("ok")

-----------------------------------------------------------------------------
(* Set requests                                                            *)

BeginSet(kind, id, value) ==
    /\ pc = "idle" /\ Supports(displays[id], kind)
    /\ BeginPlan(kind, id, PlanOf(kind, displays[id], value))
    /\ errors' = errors \ {id}
    /\ reply' = "none"
    /\ UNCHANGED <<gammaVars, hardwareVars, storageVars, displays, rest, touched>>

\* An unknown id, or a control the display does not have.
RefuseSet(kind, id) ==
    /\ pc = "idle" /\ ~Supports(displays[id], kind)
    /\ op' = NoOp
    /\ reply' = "error"
    /\ UNCHANGED <<gammaVars, hardwareVars, storageVars, displays, errors, pc,
                   todo, applied, rest, touched>>

-----------------------------------------------------------------------------
(* apply_plan: the writes of one transition and their rollback             *)

\* DdcBackend::set_brightness on the handle that answers.
DdcWrite ==
    /\ Busy("ddc")
    /\ SetVcp(op.id.output, Goal(Current))
    /\ touched' = touched \ {Control("ddc", op.id.output)}
    /\ Succeeded
    /\ UNCHANGED <<gammaVars, storageVars, controlVars>>

\* Every handle and every retry failed; the monitor may have taken one of the
\* writes all the same.
DdcWriteFails ==
    /\ Busy("ddc")
    /\ \/ UNCHANGED <<hardwareVars, touched>>
       \/ /\ SetUnanswered(op.id.output, Goal(Current))
          /\ touched' = touched \cup {Control("ddc", op.id.output)}
    /\ Failed
    /\ UNCHANGED <<gammaVars, storageVars, controlVars>>

GammaWrite ==
    /\ Busy("gamma")
    /\ Apply(op.id.output, Goal(Current))
    /\ touched' = touched \ {c \in GammaControls : c.output = op.id.output /\ lut'[c.output] # None}
    /\ Succeeded
    /\ UNCHANGED <<hardwareVars, storageVars, controlVars>>

GammaWriteFails ==
    /\ Busy("gamma")
    /\ Refuse(op.id.output)
    /\ Failed
    /\ UNCHANGED <<hardwareVars, storageVars, controlVars, touched>>

GammaWriteTimesOut ==
    /\ Busy("gamma")
    /\ TimeOut(op.id.output, Goal(Current))
    /\ Failed
    /\ UNCHANGED <<hardwareVars, storageVars, controlVars, touched>>

-----------------------------------------------------------------------------
(* What follows a transition                                               *)

Settled(how, kinds) == pc = how /\ todo = {} /\ op.kind \in kinds
RestoreKinds == {"start", "refresh"}

SetSucceeds ==
    /\ Settled("adjust", SetKinds)
    /\ config' = [config EXCEPT ![op.id] = Merge(@, op.plan)]
    /\ pc' = "save"
    /\ UNCHANGED <<gammaVars, hardwareVars, errors, disk, tmp, todo, applied,
                   controlVars>>
    /\ Rebuild(errors)

SetFailsKeepsIntent ==         \* a bug: a failed request's settings are kept
    /\ Settled("rollback", SetKinds)
    /\ config' = [config EXCEPT ![op.id] = Merge(@, op.plan)]
    /\ UNCHANGED <<gammaVars, hardwareVars, disk, tmp>>
    /\ RecordError(op.id)
    /\ Answer("error")
SetFails ==
    /\ Settled("rollback", SetKinds)
    /\ UNCHANGED <<gammaVars, hardwareVars, storageVars>>
    /\ RecordError(op.id)
    /\ Answer("error")

RestoreSucceeds ==
    /\ Settled("adjust", RestoreKinds)
    /\ errors' = errors \ {op.id}
    /\ pc' = "restore"
    /\ todo' = {} /\ applied' = {}
    /\ UNCHANGED <<gammaVars, hardwareVars, storageVars, displays, controlVars,
                   touched>>

RestoreGivesUp ==             \* a bug: one display's failure stops the others
    /\ Settled("rollback", RestoreKinds)
    /\ errors' = errors \cup {op.id}
    /\ pc' = "restore"
    /\ todo' = {} /\ applied' = {} /\ rest' = {}
    /\ UNCHANGED <<gammaVars, hardwareVars, storageVars, displays, op, reply, touched>>
RestoreFails ==
    /\ Settled("rollback", RestoreKinds)
    /\ errors' = errors \cup {op.id}
    /\ pc' = "restore"
    /\ todo' = {} /\ applied' = {}
    /\ UNCHANGED <<gammaVars, hardwareVars, storageVars, displays, controlVars,
                   touched>>

-----------------------------------------------------------------------------
(* Config::save: a temporary file, complete before it replaces the old one *)

SaveOpen ==
    /\ pc = "save"
    /\ tmp' = Torn
    /\ pc' = "write"
    /\ UNCHANGED <<gammaVars, hardwareVars, displays, errors, config, disk, todo,
                   applied, controlVars, touched>>

SaveWriteInPlace ==                         \* a bug: no temporary file
    /\ pc = "write"
    /\ tmp' = Whole(config)
    /\ disk' = Torn
    /\ pc' = "rename"
    /\ UNCHANGED <<gammaVars, hardwareVars, displays, errors, config, todo,
                   applied, controlVars, touched>>
SaveWrite ==
    /\ pc = "write"
    /\ tmp' = Whole(config)
    /\ pc' = "rename"
    /\ UNCHANGED <<gammaVars, hardwareVars, displays, errors, config, disk, todo,
                   applied, controlVars, touched>>

\* The answer is the display's entry, an error when it left the list while
\* the operation ran.
SaveRename ==
    /\ pc = "rename"
    /\ disk' = tmp
    /\ tmp' = Torn
    /\ Answer(IF Listed(displays[op.id]) THEN "ok" ELSE "error")
    /\ UNCHANGED <<gammaVars, hardwareVars, displays, errors, config, touched>>

SaveFailsSilently ==                        \* a bug: the error is only logged
    /\ pc \in {"save", "write", "rename"}
    /\ UNCHANGED <<gammaVars, hardwareVars, storageVars, displays, errors, touched>>
    /\ Answer("ok")
SaveFails ==
    /\ pc \in {"save", "write", "rename"}
    /\ UNCHANGED <<gammaVars, hardwareVars, storageVars>>
    /\ RecordError(op.id)
    /\ Answer("error")

-----------------------------------------------------------------------------
(* The environment                                                         *)

MonitorChanges(o, raw) ==
    /\ Turn(o, raw)
    /\ touched' = touched \cup {Control("ddc", o)}
    /\ UNCHANGED <<gammaVars, storageVars, displays, errors, pc, todo,
                   applied, controlVars>>

\* The worker thread goes on: its commands, the compositor's events, its end.
WorkerMoves == WorkerActs /\ GammaMoves

\* Outputs come, go or are taken by another client; the compositor exits.
CompositorMoves == CompositorActs /\ GammaMoves

-----------------------------------------------------------------------------

Request ==
    \/ BeginRefresh
    \/ \E kind \in SetKinds, id \in Ids :
          \/ \E value \in Values(kind) : BeginSet(kind, id, value)
          \/ RefuseSet(kind, id)

\* The steps the daemon takes by itself once an operation has begun.
Work ==
    \/ \E seen \in SUBSET DdcOutputs : Enumerate(seen)
    \/ ReuseGamma
    \/ \E granted \in SUBSET Outputs, failed \in BOOLEAN :
          \E held \in SUBSET granted : Reconnect(granted, held, failed)
    \/ ConnectFails
    \/ \E id \in Ids : RestoreNext(id)
    \/ RestoreDone
    \/ DdcWrite
    \/ GammaWrite
    \/ SetSucceeds
    \/ SetFails
    \/ RestoreSucceeds
    \/ RestoreFails
    \/ SaveOpen
    \/ SaveWrite
    \/ SaveRename

WriteFails == DdcWriteFails \/ GammaWriteFails \/ GammaWriteTimesOut

Environment ==
    \/ \E o \in DdcOutputs, raw \in RawValues : MonitorChanges(o, raw)
    \/ CompositorMoves

Next == \/ Request
        \/ Work
        \/ WriteFails
        \/ SaveFails
        \/ Start
        \/ Stop
        \/ Exit
        \/ Crash
        \/ WorkerMoves
        \/ Environment

Spec == Init /\ [][Next]_vars

\* Fairness: the operation in progress goes on (its thread is never starved
\* and every wait in it has a timeout), and so does the worker thread.
FairSpec == Spec /\ WF_vars(Work \/ WriteFails) /\ WF_vars(WorkerMoves)

-----------------------------------------------------------------------------
(* Properties                                                              *)

\* Every variable has its type.
TypeOK ==
    /\ GammaTypeOK
    /\ DdcTypeOK
    /\ displays \in [Ids -> DisplayInfos]
    /\ errors \subseteq Ids
    /\ config \in Configs
    /\ disk \in Files
    /\ tmp \in Files
    /\ pc \in {"down", "idle", "enumerate", "connect", "restore", "adjust",
               "rollback", "save", "write", "rename"}
    /\ op \in Ops
    /\ todo \subseteq AllAdjustments
    /\ applied \subseteq AllAdjustments
    /\ rest \subseteq Ids
    /\ reply \in {"none", "ok", "error"}
    /\ touched \subseteq Controls

\* What a control of a display really does, and whether it can have moved
\* since the daemon last looked.
LevelOf(kind, o) == IF kind = "ddc" THEN PercentOf(vcp[o], VcpMax[o]) ELSE lut[o]
Untouched(kind, o) == Control(kind, o) \notin touched
Has(id, kind) == displays[id][kind] # None
Kinds == {"ddc", "gamma"}

\* Between operations the list is the truth: each control it shows has the
\* value the hardware has, and no gamma control held by the daemon is missing
\* from it (rebuild_snapshot after every operation, state.rs:327).  Controls
\* that were touched, by others or by the daemon itself, are left out.
SnapshotTruth ==
    pc = "idle" =>
        /\ \A id \in Ids, k \in Kinds :
              Has(id, k) /\ Untouched(k, id.output) =>
                  displays[id][k] = LevelOf(k, id.output)
        /\ \A o \in Outputs :
              lut[o] # None /\ Untouched("gamma", o) =>
                  \E id \in Ids : id.output = o /\ Has(id, "gamma")

\* What the display in transition emits, had before and is to have.
Emitted(id) ==
    Effective(IF Has(id, "ddc")   THEN LevelOf("ddc", id.output) ELSE None,
              IF Has(id, "gamma") THEN LevelOf("gamma", id.output) ELSE None)
Target(id) == [k \in Kinds |-> IF op.plan[k] # None THEN op.plan[k] ELSE displays[id][k]]
InTransition == pc \in {"adjust", "rollback"}
AllUntouched(id) == \A k \in Kinds : Has(id, k) => Untouched(k, id.output)

\* No step of a transition, and none of its rollback, makes a display brighter
\* than both its ends ("applies dimming steps before brightening steps",
\* docs/architecture.md:19-21; order_key, state.rs:43).  It leaves out displays
\* with a touched control: a monitor that took a write without answering stays
\* at the new level while the undo of gamma goes on.
NeverBrighterThanEnds ==
    InTransition /\ AllUntouched(op.id) =>
        Emitted(op.id) <= AtLeast(Effective(displays[op.id].ddc, displays[op.id].gamma),
                                  Effective(Target(op.id).ddc, Target(op.id).gamma))

\* A transition ends with every control where the plan wants it, or, when it
\* failed and every undo worked, where it was before (apply_plan,
\* state.rs:212); a touched control, the one of an unanswered DDC write or of
\* a timed-out gamma command applied since included, may be elsewhere.
AllOrNothing ==
    InTransition /\ todo = {} =>
        \A k \in Kinds : Has(op.id, k) /\ Untouched(k, op.id.output) =>
            CASE pc = "adjust" -> LevelOf(k, op.id.output) = Target(op.id)[k]
              [] pc = "rollback" ->
                    applied = {} => LevelOf(k, op.id.output) = displays[op.id][k]

\* When a refresh or a start has gone through its list, every saved control of
\* a listed display that was not touched since has its saved value or the
\* display carries an error (restore_saved_settings, state.rs:295).
Reconciled ==
    pc = "restore" /\ rest = {} =>
        \A id \in Ids, k \in Kinds :
            Has(id, k) /\ config[id][k] # None /\ Untouched(k, id.output) =>
                LevelOf(k, id.output) = config[id][k] \/ id \in errors

\* A set request that failed leaves its error on the display a client reads
\* (record_error, state.rs:400).
ErrorVisible ==
    pc = "idle" /\ reply = "error" /\ op.kind \in SetKinds /\ Listed(displays[op.id])
        => displays[op.id].error

\* At no moment, a crash in the middle of a save included, is the settings
\* file cut short (config.rs:67).
DiskNeverTorn == disk.whole

\* Once a set request is answered with success its settings are in the file,
\* together with all that earlier failed saves left in memory only, and stay
\* there until the next operation whatever happens.
AckedSettingsSaved ==
    pc = "idle" /\ reply = "ok" /\ op.kind \in SetKinds =>
        /\ disk = Whole(config)
        /\ \A k \in Kinds : op.plan[k] # None => config[op.id][k] = op.plan[k]

\* A set request changes the saved values of the controls it sets and no
\* other's: dimming with gamma does not make the daemon forget the DDC level
\* (saved_mut, state.rs:141-147, 176, 199).
OtherSettingsKept ==
    [][pc # "down" /\ pc' # "down" =>
          \A id \in Ids, k \in Kinds :
              config'[id][k] # config[id][k] => id = op.id /\ op.plan[k] # None]_config

\* "An ordinary refresh produces no redundant writes" (docs/architecture.md:
\* 98-102; state.rs:106): a write of a refresh changes what it writes to.
RefreshWritesOnlyWhatDiffers ==
    [][op.kind \in RestoreKinds /\ pc = "adjust" /\ pc' = "adjust" /\ todo # {}
         /\ Untouched(Current.control, op.id.output)
       => vcp' # vcp \/ lut' # lut]_<<todo, applied>>

\* When a set request has failed, the late answer of a gamma write that timed
\* out does not leave the display brighter than it was and was to be ("safe
\* transition ordering", README.md:14).
LateAnswerNeverBrightens ==
    pc = "idle" /\ reply = "error" /\ op.kind \in SetKinds =>
        Emitted(op.id) <= AtLeast(Effective(displays[op.id].ddc, displays[op.id].gamma),
                                  Effective(Target(op.id).ddc, Target(op.id).gamma))

\* "The daemon restores that profile whenever the connector reappears"
\* (README.md): a control held with another value than the saved one gets it,
\* unless the display carries an error, goes away or the daemon stops.
Astray(id) == pc # "down" /\ id.kind = "wayland" /\ lut[id.output] # None
                 /\ config[id].gamma \notin {None, lut[id.output]} /\ id \notin errors
ProfileReturns == \A id \in Ids : Astray(id) ~> ~Astray(id)

\* Every operation comes to an end, failed or not.
OperationEnds == (pc \notin {"idle", "down"}) ~> (pc \in {"idle", "down"})

-----------------------------------------------------------------------------
(* What the daemon's settings are to its callers                           *)

Store == INSTANCE SettingsStore WITH
    Profiles <- Ids, Fields <- Kinds, Plans <- Settings, Blank <- NoSetting,
    Unset    <- None,
    running  <- pc # "down",
    memory   <- config,
    saved    <- IF disk.whole THEN {disk.settings} ELSE {},
    request  <- IF pc \in {"adjust", "rollback", "save", "write", "rename"}
                     /\ op.kind \in SetKinds
                THEN {[profile |-> op.id, plan |-> op.plan,
                       stage |-> IF InTransition THEN "asked" ELSE "recorded"]}
                ELSE {},
    reply    <- IF op.kind \in RestoreKinds THEN "none" ELSE reply

\* Set requests, saves, crashes and restarts are steps of a store whose saved
\* settings are replaced as a whole and never lost, and whose answer is "ok"
\* only when the request is in them (Config::save, config.rs:67; the set
\* methods of ManagerState, state.rs:127-202).
ImplementsSettingsStore == Store!StoreSpec
=============================================================================
