---------------------------- MODULE GammaControl ----------------------------
(***************************************************************************)
(* What the daemon may rely on of the Wayland gamma backend (wlight-       *)
(* backend, gamma.rs): a worker thread owns the connection to the          *)
(* compositor and one gamma control per output; the daemon sees a cache of *)
(* the outputs, the flag that some control was refused, and whether the    *)
(* thread is alive.  The daemon's calls are Connect, Close, Apply, Refuse  *)
(* and TimeOut; the other actions are the compositor's and the worker's.   *)
(*                                                                         *)
(* lut[o] is the multiplier wlight's control makes the compositor apply to *)
(* output o, None while wlight holds no control of it (the compositor then *)
(* uses its own ramp) or the worker has not published the control yet.     *)
(* The worker learns of the compositor's decisions from events it reads    *)
(* later: until then cache[o] tells of a control that is gone.  late holds *)
(* the commands whose caller gave up waiting: the worker still has them in *)
(* its channel and will apply them.                                        *)
(* MaxLate bounds that queue, which is unbounded in the code.              *)
(***************************************************************************)
EXTENDS BrightnessPolicy, Sequences

CONSTANTS Outputs, MaxLate

ASSUME LateAssumption == MaxLate \in Nat

VARIABLES
    lut,            \* [Outputs -> Levels or None]
    worker,         \* the thread: "none", "running", "stopping", "finished"
    cache,          \* GammaBackend.outputs: [Outputs -> Levels or None]
    failedOutputs,  \* GammaBackend.failed_outputs
    late            \* timed-out commands still in the channel

gammaVars == <<lut, worker, cache, failedOutputs, late>>

NoControls == [o \in Outputs |-> None]
Command == [output : Outputs, level : Levels]

GammaTypeOK ==
    /\ lut   \in [Outputs -> Levels \cup {None}]
    /\ cache \in [Outputs -> Levels \cup {None}]
    /\ worker \in {"none", "running", "stopping", "finished"}
    /\ failedOutputs \in BOOLEAN
    /\ late \in Seq(Command)

GammaInit ==
    /\ lut = NoControls
    /\ cache = NoControls
    /\ worker = "none"
    /\ failedOutputs = FALSE
    /\ late = <<>>

\* The worker answers a new command.
Responsive == worker = "running" /\ late = <<>>

\* GammaBackend::needs_reconnect, or no backend at all.
NeedsReconnect == worker \in {"none", "finished"} \/ failedOutputs

-----------------------------------------------------------------------------
(* Calls of the daemon                                                     *)

\* A new worker acquires a control of each output in granted and starts with
\* the identity ramp; those not in held were taken back before it could
\* notice.  failed tells whether the compositor refused or failed some
\* control.  A reconnect joins the old thread first, which happens only after
\* everything in its channel was processed.
Connect(granted, held, failed) ==
    /\ NeedsReconnect
    /\ late = <<>>
    /\ failed => granted # Outputs
    /\ worker' = "running"
    /\ cache' = [o \in Outputs |-> IF o \in granted THEN Unit ELSE None]
    /\ lut'   = [o \in Outputs |-> IF o \in held THEN Unit ELSE None]
    /\ failedOutputs' = failed
    /\ UNCHANGED late

\* The old worker is joined and no new one comes up.
ConnectRefused ==
    /\ NeedsReconnect
    /\ late = <<>>
    /\ worker' = "none"
    /\ lut' = NoControls
    /\ cache' = NoControls
    /\ failedOutputs' = FALSE
    /\ UNCHANGED late

\* The process ends, or the backend is shut down: the compositor sees the
\* connection close and restores its own ramps.
Close ==
    /\ worker' = "none"
    /\ lut' = NoControls
    /\ cache' = NoControls
    /\ failedOutputs' = FALSE
    /\ late' = <<>>

\* GammaBackend::set_brightness answered with the new output snapshot.  The
\* worker writes to every control it believes to hold; one the compositor has
\* taken back ignores it.
Written(o, level) ==
    /\ lut'   = [lut EXCEPT ![o] = IF @ = None THEN None ELSE level]
    /\ cache' = [cache EXCEPT ![o] = level]
ApplyKeepsCache(o, level) ==                 \* a bug: brightness not cached
    /\ Responsive
    /\ lut[o] # None
    /\ lut' = [lut EXCEPT ![o] = level]
    /\ UNCHANGED <<worker, cache, failedOutputs, late>>
Apply(o, level) ==
    /\ Responsive
    /\ cache[o] # None
    /\ Written(o, level)
    /\ UNCHANGED <<worker, failedOutputs, late>>

\* It answered with an error: no worker, an output without a control, or a
\* failure to build the table.
Refuse(o) ==
    /\ late = <<>>
    /\ UNCHANGED gammaVars

\* Nobody answered within COMMAND_TIMEOUT: the caller gets an error and the
\* command stays in the channel.
TimeOut(o, level) ==
    /\ worker = "running"
    /\ Len(late) < MaxLate
    /\ late' = Append(late, [output |-> o, level |-> level])
    /\ UNCHANGED <<lut, worker, cache, failedOutputs>>

-----------------------------------------------------------------------------
(* The compositor and the worker thread                                    *)

\* The worker gets to the oldest command nobody waits for any more, which
\* may fail like any other.
CatchUp ==
    /\ late # <<>>
    /\ \/ UNCHANGED <<lut, cache>>
       \/ cache[Head(late).output] # None /\ Written(Head(late).output, Head(late).level)
    /\ late' = Tail(late)
    /\ UNCHANGED <<worker, failedOutputs>>

\* The compositor takes a control back: its output goes away, or another
\* client takes the output.
Withdrawn(o) ==
    /\ worker = "running"
    /\ lut[o] # None
    /\ lut' = [lut EXCEPT ![o] = None]
    /\ UNCHANGED <<worker, cache, failedOutputs, late>>

\* The worker publishes what it learnt from the events: the outputs in added
\* have appeared and their controls are granted, some of them taken back
\* again already; the controls in gone are gone.
Publish(added, gone) ==
    /\ worker = "running"
    /\ \A o \in added : cache[o] = None
    /\ \A o \in gone  : cache[o] # None /\ lut[o] = None
    /\ cache' = [o \in Outputs |-> CASE o \in added -> Unit
                                     [] o \in gone  -> None
                                     [] OTHER       -> cache[o]]
    /\ \E held \in SUBSET added :
          lut' = [o \in Outputs |-> IF o \in held THEN Unit ELSE lut[o]]
    /\ UNCHANGED <<worker, failedOutputs, late>>

\* The worker reads that a control it does not hold, or not any more, failed.
ControlFailed(o) ==
    /\ worker = "running"
    /\ lut[o] = None
    /\ failedOutputs' = TRUE
    /\ UNCHANGED <<lut, worker, cache, late>>

\* The connection breaks.  Until the thread has cleared the cache and
\* returned, the daemon still takes it for a running one.
ConnectionLost ==
    /\ worker = "running"
    /\ worker' = "stopping"
    /\ lut' = NoControls
    /\ late' = <<>>
    /\ UNCHANGED <<cache, failedOutputs>>

ThreadEnds ==
    /\ worker = "stopping"
    /\ worker' = "finished"
    /\ cache' = NoControls
    /\ UNCHANGED <<lut, failedOutputs, late>>

\* What the compositor starts, and what the worker does about it by itself.
CompositorActs ==
    \/ \E o \in Outputs : Withdrawn(o)
    \/ \E o \in Outputs : cache[o] = None /\ ControlFailed(o)
    \/ \E added, gone \in SUBSET Outputs : added # {} /\ Publish(added, gone)
    \/ ConnectionLost
WorkerActs ==
    \/ \E o \in Outputs : cache[o] # None /\ ControlFailed(o)
    \/ \E gone \in SUBSET Outputs : Publish({}, gone)
    \/ CatchUp
    \/ ThreadEnds

GammaNext ==
    \/ \E granted \in SUBSET Outputs, failed \in BOOLEAN :
          \E held \in SUBSET granted : Connect(granted, held, failed)
    \/ ConnectRefused
    \/ Close
    \/ \E o \in Outputs, level \in Levels : Apply(o, level) \/ TimeOut(o, level)
    \/ \E o \in Outputs : Refuse(o)
    \/ CompositorActs
    \/ WorkerActs

GammaSpec == GammaInit /\ [][GammaNext]_gammaVars
=============================================================================
