----------------------------- MODULE GammaBackend -----------------------------
(***************************************************************************)
(* The gamma backend (wlight-backend, gamma.rs): the daemon's handle, the  *)
(* command channel, the worker thread with its loop of one command and one *)
(* pump of the Wayland connection, and the compositor at the other end.    *)
(* It implements GammaControl, which is what the daemon builds on.         *)
(*                                                                         *)
(* Events travel from the compositor to the worker in order and arrive     *)
(* later (wire); requests are handled by the compositor when they are      *)
(* flushed, only a request for a new control may wait (asked).  An output  *)
(* that is plugged again is a new global: events carry its number, as the  *)
(* code tells them by object and registry name.                            *)
(*                                                                         *)
(* A command takes effect, is answered and its answer received in one      *)
(* step, since nobody can observe anything in between; a broken connection *)
(* is noticed at the next pump, what the thread does on its own before     *)
(* that counting as done before the break.  A thread whose start timed out *)
(* and that takes controls later is another client to the next one.        *)
(* MaxPlugs bounds how often outputs are plugged in all, those plugged at  *)
(* the start included, MaxLate the commands left in the channel by callers *)
(* who gave up.                                                            *)
(***************************************************************************)
EXTENDS BrightnessPolicy, Sequences, Functions

CONSTANTS
    Outputs, MaxLate, MaxPlugs,
    Bindable        \* the outputs the compositor offers with wl_output version 4

ASSUME BackendAssumption ==
    MaxLate \in Nat /\ MaxPlugs \in Nat /\ Bindable \subseteq Outputs

VARIABLES
    plugged, number,    \* the outputs, and how often each was plugged
    held,               \* compositor: the multiplier of wlight's control, or None
    asked,              \* controls asked for and not yet granted or denied
    wire,               \* events the worker has not read
    broken,             \* the connection broke
    wpc,                \* the worker's place in run_wayland_thread
    outs, dirty,        \* ThreadState
    cache, failed,      \* the snapshot and the flag shared with the handle
    queue,              \* the command channel
    hpc                 \* the handle's owner, the daemon's only thread in it

compositorVars == <<plugged, number, held>>
connectionVars == <<asked, wire, broken>>
threadVars     == <<wpc, outs, dirty>>
sharedVars     == <<cache, failed>>
vars == <<compositorVars, connectionVars, threadVars, sharedVars, queue, hpc>>

-----------------------------------------------------------------------------
(* Values                                                                  *)

NoControls == [o \in Outputs |-> None]

\* ManagedOutput, by connector.  A control is "new" until the request for it
\* is flushed, "bound" until its size or its failure is read.
Managed(n, state, level) == [number |-> n, state |-> state, level |-> level]
NoOutput  == Managed(0, "none", Unit)
NoOutputs == [o \in Outputs |-> NoOutput]

\* publish_outputs: the controls that have a name and a size.
Snapshot(os) == [o \in Outputs |-> IF os[o].state = "ready" THEN os[o].level ELSE None]

Event(type, o, n) == [type |-> type, output |-> o, number |-> n]
Events == [type : {"added", "removed", "ready", "failed"}, output : Outputs,
           number : Nat]

Set(o, level) == [type |-> "set", output |-> o, level |-> level, awaited |-> TRUE]
Shutdown == [type |-> "shutdown", awaited |-> FALSE]
Commands == [type : {"set"}, output : Outputs, level : Levels, awaited : BOOLEAN]
                \cup {Shutdown}
IsLate(c) == c.type = "set" /\ ~c.awaited

Connected  == wpc \in {"starting", "loop", "pump", "teardown"} /\ ~broken
Listening  == wpc \in {"loop", "pump"}

-----------------------------------------------------------------------------
(* The compositor                                                          *)

Send(events) == wire' = IF Connected THEN wire \o events ELSE wire

Plug(o) ==
    /\ ~plugged[o] /\ SumFunction(number) < MaxPlugs
    /\ plugged' = [plugged EXCEPT ![o] = TRUE]
    /\ number' = [number EXCEPT ![o] = @ + 1]
    /\ Send(<<Event("added", o, number'[o])>>)
    /\ UNCHANGED <<held, asked, broken, threadVars, sharedVars, queue, hpc>>

\* A compositor may or may not fail the control before it removes the output.
Unplug(o) ==
    /\ plugged[o]
    /\ plugged' = [plugged EXCEPT ![o] = FALSE]
    /\ held' = [held EXCEPT ![o] = None]
    /\ LET removed == <<Event("removed", o, number[o])>> IN
         \/ Send(removed)
         \/ held[o] # None /\ Send(<<Event("failed", o, number[o])>> \o removed)
    /\ UNCHANGED <<number, asked, broken, threadVars, sharedVars, queue, hpc>>

\* Another client gets the output.
TakeBack(o) ==
    /\ held[o] # None
    /\ held' = [held EXCEPT ![o] = None]
    /\ Send(<<Event("failed", o, number[o])>>)
    /\ UNCHANGED <<plugged, number, asked, broken, threadVars, sharedVars, queue, hpc>>

Grant(o) ==
    /\ Connected /\ o \in asked /\ plugged[o] /\ outs[o].number = number[o]
    /\ held' = [held EXCEPT ![o] = Unit]
    /\ asked' = asked \ {o}
    /\ Send(<<Event("ready", o, number[o])>>)
    /\ UNCHANGED <<plugged, number, broken, threadVars, sharedVars, queue, hpc>>

Deny(o) ==
    /\ Connected /\ o \in asked
    /\ asked' = asked \ {o}
    /\ Send(<<Event("failed", o, outs[o].number)>>)
    /\ UNCHANGED <<compositorVars, broken, threadVars, sharedVars, queue, hpc>>

Break ==
    /\ wpc \in {"spawned", "starting", "loop", "pump", "teardown"} /\ ~broken
    /\ broken' = TRUE
    /\ held' = NoControls /\ asked' = {} /\ wire' = <<>>
    /\ UNCHANGED <<plugged, number, threadVars, sharedVars, queue, hpc>>

-----------------------------------------------------------------------------
(* The worker thread starts                                                *)

\* The thread does not exist, and neither does anything it owned.
NoThread ==
    /\ outs' = NoOutputs /\ dirty' = FALSE
    /\ held' = NoControls /\ asked' = {} /\ wire' = <<>> /\ broken' = FALSE
    /\ cache' = NoControls /\ failed' = FALSE
    /\ queue' = <<>>
    /\ UNCHANGED <<plugged, number>>

\* The first roundtrip lists the outputs; a control is asked for on each, but
\* those that cannot be bound are skipped.
Collect ==
    /\ wpc = "spawned" /\ ~broken
    /\ wpc' = "starting"
    /\ outs' = [o \in Outputs |->
                  IF plugged[o] /\ o \in Bindable
                  THEN Managed(number[o], "bound", Unit) ELSE NoOutput]
    /\ asked' = {o \in Bindable : plugged[o]}
    /\ dirty' = TRUE
    /\ UNCHANGED <<compositorVars, wire, broken, sharedVars, queue, hpc>>

\* The second roundtrip has brought every answer.
Started ==
    /\ wpc = "starting" /\ ~broken
    /\ \A o \in Outputs : outs[o].state # "bound"
    /\ wpc' = "loop"
    /\ cache' = Snapshot(outs) /\ dirty' = FALSE
    /\ hpc' = "ready"
    /\ UNCHANGED <<compositorVars, connectionVars, outs, failed, queue>>

\* No compositor, no gamma control in it, a broken connection, a timeout.
StartFails ==
    /\ wpc \in {"spawned", "starting"}
    /\ wpc' = "none" /\ hpc' = "none"
    /\ NoThread

-----------------------------------------------------------------------------
(* One round of the worker thread: a command, then a pump                  *)

\* The pump begins with a flush of what earlier events made the worker ask.
FlushInto(os) ==
    /\ wpc' = "pump"
    /\ asked' = IF broken THEN asked ELSE asked \cup {o \in Outputs : os[o].state = "new"}
    /\ outs' = IF broken THEN os ELSE
                 [o \in Outputs |-> IF os[o].state = "new"
                                    THEN [os[o] EXCEPT !.state = "bound"] ELSE os[o]]
    /\ UNCHANGED <<plugged, number, wire, broken, failed>>

NoCommand ==
    /\ wpc = "loop" /\ queue = <<>>
    /\ FlushInto(outs)
    /\ UNCHANGED <<held, dirty, cache, queue, hpc>>

\* process_command answers whoever still waits.
AnswerOnlySuccess(ok) ==                \* a bug: an error is not passed on
    /\ queue' = Tail(queue)
    /\ hpc' = IF ok /\ Head(queue).awaited THEN "ready" ELSE hpc
Answer(ok) ==
    /\ queue' = Tail(queue)
    /\ hpc' = IF Head(queue).awaited THEN "ready" ELSE hpc

NextIsSet == wpc = "loop" /\ queue # <<>> /\ Head(queue).type = "set"

\* apply_gamma; a control the compositor has taken back ignores the table.
ApplyGamma ==
    /\ NextIsSet /\ ~broken
    /\ LET o == Head(queue).output  level == Head(queue).level IN
         /\ outs[o].state = "ready"
         /\ held' = [held EXCEPT ![o] = IF @ = None THEN None ELSE level]
         /\ cache' = Snapshot([outs EXCEPT ![o].level = level]) /\ dirty' = FALSE
         /\ FlushInto([outs EXCEPT ![o].level = level])
    /\ Answer(TRUE)

\* An output without a control, no table file, a broken connection.
ApplyFails ==
    /\ NextIsSet
    /\ FlushInto(outs)
    /\ Answer(FALSE)
    /\ UNCHANGED <<held, dirty, cache>>

\* output_event, gamma_event and registry_event, each for its object.
Known(e) == outs[e.output].number = e.number
Becomes(e, state) ==
    /\ outs' = IF Known(e) THEN [outs EXCEPT ![e.output].state = state] ELSE outs
    /\ dirty' = (dirty \/ Known(e))
Skipped(e) ==
    /\ e.output \notin Bindable
    /\ UNCHANGED <<outs, dirty, asked, failed>>
Added(e) ==
    /\ e.output \in Bindable
    /\ outs' = [outs EXCEPT ![e.output] = Managed(e.number, "new", Unit)]
    /\ dirty' = TRUE
    /\ UNCHANGED <<asked, failed>>
RemovedUnpublished(e) ==                \* a bug: the list is not dirty
    /\ outs' = IF Known(e) THEN [outs EXCEPT ![e.output] = NoOutput] ELSE outs
    /\ asked' = IF Known(e) THEN asked \ {e.output} ELSE asked
    /\ UNCHANGED <<dirty, failed>>
Removed(e) ==
    /\ outs' = IF Known(e) THEN [outs EXCEPT ![e.output] = NoOutput] ELSE outs
    /\ asked' = IF Known(e) THEN asked \ {e.output} ELSE asked
    /\ dirty' = (dirty \/ Known(e))
    /\ UNCHANGED failed
Ready(e) == Becomes(e, "ready") /\ UNCHANGED <<asked, failed>>
FailedUnmarked(e) == Becomes(e, "failed") /\ UNCHANGED <<asked, failed>>   \* a bug
Failed(e) ==
    /\ Becomes(e, "failed")
    /\ failed' = (failed \/ Known(e))
    /\ UNCHANGED asked

Dispatch ==
    /\ wpc \in {"starting", "pump"} /\ wire # <<>>
    /\ LET e == Head(wire) IN
         \/ e.type = "added"   /\ (Added(e) \/ Skipped(e))
         \/ e.type = "removed" /\ Removed(e)
         \/ e.type = "ready"   /\ Ready(e)
         \/ e.type = "failed"  /\ Failed(e)
    /\ wire' = Tail(wire)
    /\ UNCHANGED <<compositorVars, broken, wpc, cache, queue, hpc>>

\* The pump publishes what the events it had received changed.
Publish ==
    /\ wpc = "pump" /\ ~broken
    /\ wpc' = "loop"
    /\ cache' = (IF dirty THEN Snapshot(outs) ELSE cache) /\ dirty' = FALSE
    /\ UNCHANGED <<compositorVars, connectionVars, outs, failed, queue, hpc>>

-----------------------------------------------------------------------------
(* The worker thread ends                                                  *)

\* The receiver is dropped with what it holds; a waiting caller gets an error.
Finish ==
    /\ wpc' = "finished"
    /\ queue' = <<>>
    /\ hpc' = IF hpc = "waiting" THEN "ready" ELSE hpc
    /\ UNCHANGED <<compositorVars, connectionVars, outs, dirty, failed>>

PumpFailsKeepsCache ==                  \* a bug: the cache is not cleared
    /\ wpc = "pump" /\ broken
    /\ UNCHANGED cache
    /\ Finish
PumpFails ==
    /\ wpc = "pump" /\ broken
    /\ cache' = NoControls
    /\ Finish

NextIsShutdown == wpc = "loop" /\ queue = <<Shutdown>>
TakeShutdownAndGoOn ==                  \* a bug: Shutdown does not end the loop
    /\ NextIsShutdown
    /\ wpc' = "pump" /\ queue' = <<>>
    /\ UNCHANGED <<compositorVars, connectionVars, outs, dirty, sharedVars, hpc>>
TakeShutdown ==
    /\ NextIsShutdown
    /\ wpc' = "teardown" /\ queue' = <<>>
    /\ UNCHANGED <<compositorVars, connectionVars, outs, dirty, sharedVars, hpc>>

Release(o) ==
    /\ wpc = "teardown" /\ outs[o].state # "none"
    /\ outs' = [outs EXCEPT ![o] = NoOutput]
    /\ held' = [held EXCEPT ![o] = None]
    /\ asked' = asked \ {o}
    /\ UNCHANGED <<plugged, number, wire, broken, wpc, dirty, sharedVars, queue, hpc>>

TeardownEnds ==
    /\ wpc = "teardown" /\ outs = NoOutputs
    /\ cache' = IF broken THEN NoControls ELSE cache
    /\ Finish

-----------------------------------------------------------------------------
(* The daemon's calls                                                      *)

threadState == <<compositorVars, connectionVars, threadVars, sharedVars>>

\* set_brightness, of an output the daemon once saw in the cache; when the
\* thread is gone sending fails and nothing happens.
CallSet(o, level) ==
    /\ hpc = "ready" /\ Listening
    /\ queue' = Append(queue, Set(o, level))
    /\ hpc' = "waiting"
    /\ UNCHANGED threadState

GiveUp ==
    /\ hpc = "waiting" /\ Len(queue) <= MaxLate
    /\ queue' = [queue EXCEPT ![Len(queue)].awaited = FALSE]
    /\ hpc' = "ready"
    /\ UNCHANGED threadState

\* shutdown sends a last command, if anybody can receive it, and joins.
Join(why) ==
    /\ hpc = "ready"
    /\ hpc' = why
    /\ queue' = IF wpc = "finished" THEN queue ELSE Append(queue, Shutdown)
    /\ UNCHANGED threadState

\* refresh_gamma
Reconnect == (wpc = "finished" \/ failed) /\ Join("joining")
Spawn ==
    /\ hpc = "none" \/ (hpc = "joining" /\ wpc = "finished")
    /\ hpc' = "connecting" /\ wpc' = "spawned"
    /\ NoThread

\* The daemon's exit, orderly or not.
BeginExit == Join("closing")
Exited  == hpc = "closing" /\ wpc = "finished" /\ hpc' = "none" /\ wpc' = "none" /\ NoThread
Killed  == hpc # "none" /\ hpc' = "none" /\ wpc' = "none" /\ NoThread

-----------------------------------------------------------------------------

Init ==
    /\ plugged \in [Outputs -> BOOLEAN]
    /\ number = [o \in Outputs |-> IF plugged[o] THEN 1 ELSE 0]
    /\ held = NoControls /\ asked = {} /\ wire = <<>> /\ broken = FALSE
    /\ wpc = "none" /\ outs = NoOutputs /\ dirty = FALSE
    /\ cache = NoControls /\ failed = FALSE
    /\ queue = <<>> /\ hpc = "none"

Compositor == Break \/ \E o \in Outputs : Plug(o) \/ Unplug(o) \/ TakeBack(o)
Answers == \E o \in Outputs : Grant(o) \/ Deny(o)
Thread ==
    \/ Collect \/ Started
    \/ NoCommand \/ ApplyGamma \/ ApplyFails \/ Publish
    \/ PumpFails \/ TakeShutdown \/ TeardownEnds
    \/ \E o \in Outputs : Release(o)
Daemon ==
    \/ \E o \in Bindable, level \in Levels : CallSet(o, level)
    \/ GiveUp \/ Reconnect \/ BeginExit
Joined == Spawn \/ Exited

Next == Compositor \/ Answers \/ Thread \/ Dispatch \/ StartFails \/ Daemon \/ Joined \/ Killed

Spec == Init /\ [][Next]_vars

\* Fairness: the thread is scheduled, each pump reads what has arrived, the
\* compositor answers requests, and the daemon's thread goes on after a join
\* or a failed start.
FairSpec ==
    /\ Spec
    /\ WF_vars(Thread) /\ SF_vars(Dispatch) /\ WF_vars(Answers)
    /\ WF_vars(Joined) /\ WF_vars(StartFails /\ broken)

-----------------------------------------------------------------------------
(* Properties                                                              *)

\* Every variable has its type; a caller waits exactly as long as its command
\* is in the channel.
TypeOK ==
    /\ plugged \in [Outputs -> BOOLEAN]
    /\ number \in [Outputs -> Nat]
    /\ held \in [Outputs -> Levels \cup {None}]
    /\ asked \subseteq {o \in Outputs : outs[o].state = "bound"}
    /\ wire \in Seq(Events)
    /\ broken \in BOOLEAN /\ dirty \in BOOLEAN /\ failed \in BOOLEAN
    /\ wpc \in {"none", "spawned", "starting", "loop", "pump", "teardown", "finished"}
    /\ outs \in [Outputs -> [number : Nat, level : Levels,
                             state : {"none", "new", "bound", "ready", "failed"}]]
    /\ cache \in [Outputs -> Levels \cup {None}]
    /\ queue \in Seq(Commands) /\ Len(queue) <= MaxLate + 1
    /\ hpc \in {"none", "connecting", "ready", "waiting", "joining", "closing"}
    /\ hpc = "waiting" <=> \E i \in DOMAIN queue : queue[i].awaited

\* What the daemon can know of it: a control counts as held once published, a
\* thread as gone once it is joined, a broken one as stopping.
Alive == wpc \in {"loop", "pump", "teardown"}
LutSeen == [o \in Outputs |-> IF cache[o] = None THEN None ELSE held[o]]
WorkerSeen ==
    CASE wpc \in {"none", "spawned", "starting"} -> "none"
      [] Alive /\ broken                         -> "stopping"
      [] wpc = "finished" /\ broken              -> "finished"
      [] OTHER                                   -> "running"
FlagSeen == wpc \notin {"spawned", "starting"} /\ failed

\* Only the last command in the channel can be another than one given up.
LateCount == IF queue = <<>> \/ IsLate(queue[Len(queue)]) THEN Len(queue) ELSE Len(queue) - 1
LateSeen ==
    IF Alive /\ ~broken
    THEN [i \in 1 .. LateCount |-> [output |-> queue[i].output, level |-> queue[i].level]]
    ELSE <<>>

Control == INSTANCE GammaControl WITH
    lut <- LutSeen, worker <- WorkerSeen, failedOutputs <- FlagSeen, late <- LateSeen

\* The backend implements GammaControl: what the daemon sees of cache, flag,
\* thread and answers, and what the compositor applies, never goes beyond it.
ImplementsGammaControl == Control!GammaSpec

\* A published control that is gone leaves the cache, unless the thread ends
\* (registry_event, gamma_event, publish_outputs).
LossNoticed ==
    \A o \in Bindable :
        (Listening /\ cache[o] # None /\ held[o] = None)
            ~> (cache[o] = None \/ ~Listening)

\* An output that can be bound and stays plugged ends up in the cache, or the
\* backend asks to be reconnected, unless the thread ends (needs_reconnect,
\* gamma.rs:116).  One that cannot be bound is skipped for good, and nothing
\* tells the daemon of it (gamma.rs:261, 421).
AppearanceNoticed ==
    \A o \in Bindable :
        (Listening /\ plugged[o])
            ~> (cache[o] # None \/ failed \/ ~plugged[o] \/ ~Listening)

\* No call of the daemon waits for ever: commands are answered, joins and
\* starts come to an end.
CallsEnd == (hpc \notin {"none", "ready"}) ~> (hpc \in {"none", "ready"})
=============================================================================
