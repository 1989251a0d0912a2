# A verification project for wlight

wlight dims monitors: a user daemon (`wlightd`) owns the monitors' DDC/CI
handles and the compositor's gamma controls, and a command line client and an
applet ask it over D-Bus to change them. This directory holds TLA+ modules
translated from the Rust sources, TLC runs over small instances of them, and
theorems TLAPS proves for every instance. Paths below are relative to `src/`.

## The system: inventory

| Component | Source | State | Operations | What is hard |
|---|---|---|---|---|
| brightness policy | `crates/wlight-core` | none | split a target into DDC percentage and gamma multiplier, effective percentage, gamma table | rounding up, the hardware floor, zero, the last table entry |
| manager | `crates/wlight-daemon/src/state.rs` | cached display list, errors by id, settings, the two backends | start, refresh, three set requests, shutdown | transitions of two writes with rollback, writes skipped on the word of the cache, restoring several displays |
| configuration | `crates/wlight-daemon/src/config.rs` | the settings, `config.toml`, `config.toml.tmp` | load, validate, save | crash in the middle of a save, failed saves |
| service | `crates/wlight-daemon/src/service.rs` | a FIFO gate, the state's mutex, the published list | one method per D-Bus call, shutdown | calls as concurrent tasks, a listing beside a running operation, panics, shutdown with requests waiting |
| process entry | `crates/wlight-daemon/src/main.rs` | none | load, start, serve, leave the bus | what happens to calls in flight |
| gamma backend | `crates/wlight-backend/src/gamma.rs` | worker thread, its outputs and controls, command channel, published cache, failed flag | connect, set, shutdown; registry, output and control events | hotplug at any moment, command timeout with a late answer, a dying worker that still counts as running |
| DDC backend | `crates/wlight-backend/src/ddc.rs` | handles, active handle and last raw value per monitor | enumerate, read, set | twins with one EDID, aliases, monitors that move during a scan, retries and fallback between handles, writes that take effect and report an error |
| applet | `crates/wlight-applet` | drafts, debounced writes, requests in flight, bounded channel, worker | slider, refresh, flush, events | overtaking requests, late results over newer input, full channel, dead worker |
| `wlightctl` | `crates/wlightctl` | none | one call per invocation | nothing of its own |
| bus contract | `crates/wlight-dbus` | none | proxy declarations | nothing of its own |

How they interact: each D-Bus call is a task, which waits at the gate
(`service.rs:32`), runs its operation alone on a blocking thread, publishes the
new list and answers. The operation calls the DDC backend synchronously and the
gamma worker through a channel with a five-second timeout (`gamma.rs:147`), rebuilds
the display list from the two caches (`state.rs:327`) and saves the settings. The
gamma worker pumps Wayland events between commands, so outputs appear, disappear
and lose their control at any moment of an operation; monitors are moved and
turned at any moment too. `PROJECT.json` lists the hazards of this code line by line.

## Modules

| Module | Lines of the system | Role |
|---|---|---|
| `BrightnessPolicy` | `wlight-core/src/lib.rs` 14-139, scaling in `ddc.rs` 34-51 and 141-151, adjustments in `state.rs` 36-58 and 406-426 | the pure operators |
| `DdcTopology` | `ddc.rs` 237-373 and 438-579 | the pure operators of a scan: connector, group, id |
| `DdcControl` | what `ddc.rs` promises the daemon | abstract backend: a register and a cached value per monitor |
| `DdcBackend` | `ddc.rs` 53-228, 386-403 | the backend itself, with monitors that move; implements `DdcControl` |
| `GammaControl` | what `gamma.rs` promises the daemon | abstract backend: control, cache, flag, thread, late commands |
| `GammaBackend` | `gamma.rs` 26-451 | the backend itself, with the compositor at the other end of a FIFO of events; implements `GammaControl` |
| `Manager` | `state.rs`, `config.rs`, start and shutdown | the daemon's operations; extends `GammaControl` and `DdcControl` |
| `SettingsStore` | `config.rs` 35-86, the set methods of `state.rs` | what a caller may count on of the settings; `Manager` implements it |
| `ManagerInvariant` | - | the inductive invariants of `Manager` |
| `DisplayService` | `wlight-dbus/src/lib.rs` | what the callers of the interface may count on |
| `ManagerService` | `service.rs`, the end of `main.rs` | tasks, gate, mutex, published list, the end of the process; implements `DisplayService` |
| `Applet` | `wlight-applet/src/main.rs` | egui thread, worker thread, their two channels |
| `PolicyLaws` | - | what the pure operators are for, as laws over a scale |
| `MCManager`, `MCDdc`, `MCService` | - | instances for TLC |
| `PolicyProofs`, `PolicyLawsProofs`, `DdcBackendProofs`, `GammaBackendProofs`, `ManagerProofs`, `ManagerSafety`, `ManagerServiceProofs`, `AppletProofs` | - | theorems |

The levels fit together so: `ManagerService` runs operations one at a time and
knows of each only that it changes the state; `Manager` is what one operation does,
step by step, over the abstract backends; `DdcBackend` and `GammaBackend` implement
these. That `Manager` uses its two backends as they allow is a theorem
(`DrivesBackends`).

### Manager

The daemon runs one operation at a time (`OneAtATime` of `ManagerService`), so its
control state is a program counter `pc` and the operation `op`. A set request is
`BeginSet`, the writes of `apply_plan` one by one (`DdcWrite`, `GammaWrite` or
their failures, with `todo` and `applied` as the two loops), `SetSucceeds`,
`SaveOpen`, `SaveWrite`, `SaveRename`; on a failure the rollback and `SetFails`. A
refresh is `Enumerate`, one of `ReuseGamma`, `Reconnect` and `ConnectFails`,
`RestoreNext` once per saved display, `RestoreDone`; a start is the same after
`Config::load`. Between any two of these steps the environment moves: a
monitor's own knob, the compositor, the gamma thread, a crash of the process.

- An output is a connector with at most one monitor. `vcp[o]` is the monitor's
  register, `ddc[o]` what the daemon last read or wrote; `lut[o]` is what the
  compositor does for wlight's control, `cache[o]` what the gamma worker
  published. `Located` are the DDC monitors whose connector is known: their
  display has both controls, the others are listed twice, once by EDID and once
  as `wayland:`.
- `displays` is the cached list, a function of the two caches and `errors`
  (`Snapshot`), rebuilt exactly where the code calls `rebuild_snapshot`.
- Percentages are `0..Full` (100 in the code) and gamma levels `0..Unit`, exact
  fractions in place of `f64`. A unified target is a multiple of
  `1/(Full * Unit)`.
- `touched` is a history variable: the controls whose hardware may have moved
  since the daemon last looked. It has the moves of others (the monitor's knob,
  the compositor) and also the daemon's own that it does not look at again: a
  DDC write that was taken without an answer, a gamma command applied after its
  caller gave up, an output bound anew, and the controls given back at shutdown.
  `SnapshotTruth`, `NeverBrighterThanEnds`, `AllOrNothing`, `Reconciled` and
  `ListingInv` speak of the other controls and are false of these; nothing in the
  model reads `touched`. The excepted cases have properties of their own where
  something promises otherwise (`LateAnswerNeverBrightens`, `ProfileReturns`).
- The shutdown is `Stop`: it gives back the gamma controls and leaves the
  displays, the list and the settings as they are. Requests queued behind it at
  the gate still run, without a gamma backend and with the list from before, and
  a refresh among them connects again. `Exit` is the end of `main`. It may come
  between any two operations; in the middle of one the end is `Crash`.
- The file is its settings and whether it is whole; `config.toml.tmp` likewise.
- A scan of all monitors is the one step `Enumerate`: nothing else of the daemon
  runs meanwhile and each reading commutes with what happens to other monitors.

### DdcTopology, DdcBackend and DdcControl

A scan is `BeginScan` (sysfs is read, a monitor's EDID possibly missing in it),
`Probe` (the EDIDs of all buses), `ReadVcp` or `ReadNothing` per bus in the order of
their numbers, `EndScan` (association, groups, ids by the operators of `DdcTopology`).
A request is `BeginCall` and then one action per i2c transfer: `SetSucceeds`,
`GetSucceeds`, `GetZero`, or `AttemptFails`, which retries, goes on with the next
handle from the active one around the list, or gives up; a failed write may
have taken effect. `Plug`, `Unplug` and `Turn` come between any two of them. A handle
is a bus number and stays open, so it reaches whatever monitor the bus now has
(`Reached`). `origin` and `clean` are history: whom a handle was opened on, and
whether anything moved since the last scan began.

The refinement mapping takes as the backend's value of a monitor the best
reading of the scan in progress or else the value of the one display whose
handles all reach that monitor, and none when it moved or shares a display. So
`DdcControl` promises less of monitors that move and `Manager`, built on it, asks for
no more: a monitor's value is cached or forgotten, a scan may miss it, a write
may be taken without an answer. `Manager` fixes which monitor is at which
connector; a monitor put in another's place without a scan is `DdcBackend`'s.

Of the settings a caller sees less: `SettingsStore` has what the daemon has in
memory, what is saved and one request in progress. A request is recorded in
memory once the hardware has its values, memory replaces what is saved as a
whole, and only then is the answer "ok"; a request that fails, or a daemon that
dies, leaves what is saved. A failed save leaves the request in memory, and the
next save that works saves it too. In `Manager` the three steps of `Config::save`, the
writes and the whole of a refresh are invisible at this level
(`Store == INSTANCE SettingsStore WITH ...`).

### GammaControl and GammaBackend

`GammaControl` keeps what the daemon can be surprised by: the cache may tell of a
control that is gone, the thread may be dying while `is_running` says it runs, a
command whose caller gave up is applied later. `GammaBackend` has the code's
structure: the handle's calls, the channel, the loop of one command and one pump,
the start with its two roundtrips, the teardown, and the compositor, which
grants, denies and takes back controls and sends events that arrive in order but
later. An output that is plugged again is a new global, and events carry its
number. The refinement mapping (`Control == INSTANCE GammaControl WITH ...`)
counts a control as held once it is published, a thread as gone once it is
joined, and a thread on a broken connection as stopping; its late commands are
those of the channel but a last one that somebody waits for, or `Shutdown`.

Three steps of the code are one step of `GammaBackend`: a command's effect, its
reply and the caller's receipt (the caller is blocked, so nobody can tell them
apart; a timeout between them is the timeout before them); sending a table and
its taking effect; and what the thread does on its own between a break of the
connection and its next access to it (taken to come before the break).

### ManagerService and DisplayService

A task's `stage` is its place in `mutate`: `Arrive`, `Enter` (joins the gate's queue),
`Submit` (is at its head, hands the closure to the blocking pool), `Lock` or
`LockPoisoned`, `Execute` or `Panic`, `Publish` (the mutex is let go and the list
shown), `Return` (the gate is given back), `Deliver`. `ListDisplays` and `Reject` go
straight to the answer. The shutdown is one more task (`Quit`), begun by `Signal`.
Then the process ends in steps: `DropConnection` (calls in flight may hold the
connection open, so they lose their answers now or with the runtime),
`DropRuntime` (no task goes on; a closure not yet begun never runs), `Exit` (a closure
that runs is waited for); or `Kill` at any moment.

The state is the sequence of changes made, so that two lists differ exactly when
an operation separates them. A failed operation may have changed something and
counts as a change. `DisplayService` says that each call takes effect at one moment
between its sending and its answer: a mutation when its list is published, a
listing when it reads. A call whose answer is lost may have taken effect, may
still do so, or never will.

### Applet

An id of a request stands for the value it sets, so a slider shows the id of the
input it came from and `daemon[d].version` is the id of the write the display
has. A frame is `TakeEvent`*, `DrainEnds`, `SendDue`* or `ChannelFull`, `FlushEnds`, then at
most one input; the worker and the daemon's answers interleave with all of it.
`putBack` is history: the displays one of whose writes met a full channel.

## Runs

| Run | Instance | Shows |
|---|---|---|
| `manager_one` | one display with both controls, `Full = Unit = 2`, VCP 0..3, 2 requests, 2 failures or crashes, 1 move of the environment, with fairness | the safety properties of transitions, list, errors and file, both inductive invariants, `Manager` implements `SettingsStore`, and `OperationEnds` |
| `manager_two` | two DDC monitors, one of them not located, 2 requests, 1 failure; `PolicyLaws` with `Full = 6`, `Unit = 7`, every floor, six maxima, three ramp sizes | the list and `Reconciled` when three displays are restored and one fails; the arithmetic, against the definitions of what it is for |
| `ddc` | two monitors with one EDID or two, two sockets, three buses (an AUX channel, a legacy link, an MST adapter nobody owns), 2 attempts, 2 moves, with fairness | ids that differ without a counter, identity of displays, fallback through all handles; `DdcBackend` implements `DdcControl`; every call ends |
| `gamma_backend` | two outputs and one too old to be bound, 2 plugs in all, 1 late command, with fairness | `GammaBackend` implements `GammaControl`; every loss, and every appearance of an output that can be bound, is noticed; every call ends |
| `service` | two mutations, a listing, a rejected call, a signal, panics and a kill, with fairness | `ManagerService` implements `DisplayService`; whole operations only, nothing after a panic, every call and the process end |
| `applet` | two displays, two sliders each, channel of 2, 3 requests, with fairness | marks of what is under way are true, newer input is never undone, no input is lost at a full channel, nothing stays busy for ever, and sliders agree with the daemon when all is quiet unless a write was put back |

Six runs show a disagreement between code and documentation, as the findings in
`PROJECT.json` quote them:

- `manager_late`: a gamma command that timed out takes effect after its
  transition was rolled back, and the display ends brighter than both ends;
- `manager_hotplug`: an output that returns keeps full brightness until a client
  asks for a refresh;
- `manager_coarse`: a monitor with fewer raw values than percentages (a VCP
  maximum below 100) reads back another percentage than the saved one, and every
  refresh writes it the raw value it has;
- `ddc_twins`: a twin plugged in between the sysfs scan and the EDID scan becomes
  an alias of the other monitor;
- `service_order`: two calls that arrive one after the other come to the FIFO
  gate in the opposite order, as each is a task of its own;
- `applet_overtake`: a write put back by a full channel is overtaken by a newer
  one and then wins, and its answer is ignored.

Met while modelling, and not counted as findings: a set request whose value the
list already shows writes nothing and is answered with success, so it does not
correct a monitor somebody turned, nor one whose list is wrong because of the
daemon's own late gamma command or unanswered DDC write, or because its output
was bound anew; an output too old to be bound is skipped and never looked at
again; the id of a twin changes
when the other one misses a scan, and with it its saved settings;
`match_connector` trusts a unique EDID over the bus it was read from; a handle
stays open when its monitor is replaced, so until the next scan a request
writes to the other; an MST alias no connector owns is listed as a display of
its own when its monitor has a twin.

### Bounds

- `manager_*`: a transition has at most two writes and two undos; two requests
  are enough for one to leave the state (a stale list, an unsaved setting, a
  reconnect due, a late command) the next one meets, two failures for a failed
  write followed by a failed undo or a failed save, one move for any one outside
  change at any point. `MCManager` charges requests (a shutdown is one, and
  possible when none is left), failures and moves to a budget; what the daemon and the gamma thread do by themselves is free, as are
  gamma writes that cannot succeed.
- `Full = Unit = 2` has zero, a middle and the top of each control, `VCP 0..3` a
  value that does not divide evenly; the arithmetic itself is checked in `manager_two` with
  coprime `Full` and `Unit` and proved for all of them. `manager_coarse` has `VCP 0..1`. The laws
  of `PolicyLaws` have no state, so the run states them of the states before the
  first request only.
- Two displays suffice for what one display's operation may do to another; the
  unlocated one gives the third id.
- `ddc`: two moves let a monitor take the place of another or come back; the
  three buses give a direct, a legacy and an unowned handle, so a group has up
  to two handles and its active one is in the middle of the list after one
  fallback. Values are 0 and 1 of 1 and 0..2 of 2, as a stale handle's maximum
  matters and the arithmetic does not. sysfs hides at most one EDID.
- `gamma_backend`: two plugs are either two outputs whose events and commands
  interleave, or one output plugged again, whose old events arrive around the
  new global; one late command gives a queue with a caller who gave up and one
  who waits. The third output cannot be bound, at the start or later. (One output with
  three plugs and two late commands passes as well.)
- `service`: each call is made once; two mutations and the shutdown make a queue
  of three at the gate, with a listing at any point of them.
- `applet`: the channel holds 64 commands; one of 2 is full with a third write
  waiting. The debounce is two ticks and the retry one, which keeps their order.
  `applet_overtake` has a channel of 1 and a fourth request.
- `CHECK_DEADLOCK FALSE` is set for the applet, which stops when its window is
  closed, and the service, whose process ends.

### Fairness

`manager_one` needs the operation in progress to go on (the operation runs on its
own blocking thread, and each wait in it has a timeout or a join of a thread
that is itself running) and the gamma thread to go on. No fairness is assumed of
clients, users, the compositor, or of failures stopping. `ddc` needs the scan or
call in progress to go on: an i2c transfer is answered or not. `gamma_backend`
assumes that the thread is scheduled, that the compositor answers requests for
controls, and strong fairness of `Dispatch`: a pump reads whatever has arrived,
but an event may arrive just after it. Blocking flushes to a compositor that is
alive and never reads are outside of this: there the thread hangs, and with it a
join. `service` assumes that the runtime runs every task that can go on, the
blocking pool every closure, which ends as `OperationEnds` and `CallsEnd` say, and
that `main` goes on. `applet` assumes frames (a repaint is requested after every
event and for each pending write), time, and answers of the daemon, which is
what `EveryCallEnds` says.

## Proofs

All theorems hold for every set of outputs, calls and displays, every
association, every VCP maximum, every scale and floor, under

- `ScaleAssumption`: `Full` and `Unit` are positive;
- `VcpAssumption`: the maxima are positive;
- `MonitorAssumption`: there is an output, DDC and located outputs are outputs,
  the floor is a target;
- `LateAssumption`, and `BackendAssumption` of `GammaBackend`: the bounds of late
  commands and of plugs are natural numbers, the outputs that can be bound are outputs;
- of `PolicyLaws`, that VCP maxima are natural numbers and a ramp has at least two
  entries (in the theorems themselves);
- `TopologyAssumption`, and `BackendAssumption` of `DdcBackend`: connectors and buses are
  finitely many, the buses are natural numbers, sockets are connectors, each bus leads to one of them and is claimed
  by no other connector, maxima and the attempts per handle are positive;
- `ServiceAssumption`: each call is of one kind and is not the shutdown;
- `AppletAssumption`: the sizes and delays are positive, the retry is no longer
  than the debounce, a display is not the mark of a listing.

`TransitionIsAtomic`, `TransitionNeverOvershoots`, `RefreshReconciles` and
`RefreshNeverRewrites` assume `FineMonitors` besides: each monitor has at least `Full`
raw values. On a coarser one they are false, since a written percentage reads
back as another.

| Theorem | States |
|---|---|
| `TypeCorrect`, `DdcTypeCorrect`, `BackendTypeCorrect`, `GammaTypeCorrect`, `ServiceTypeCorrect`, `AppletTypeCorrect` | types of `Manager`, `DdcControl`, `DdcBackend`, `GammaBackend`, `ManagerService`, `Applet` |
| `GammaRefines` | `GammaBackend` implements `GammaControl` |
| `DdcRefines` | `DdcBackend` implements `DdcControl` |
| `DrivesBackends` | `Manager` uses its backends as `GammaControl` and `DdcControl` allow |
| `FileAlwaysWhole`, `SuccessIsSaved` | the settings file is never cut short; a success is in it |
| `StoreRefines` | `Manager` implements `SettingsStore` |
| `ListIsTrue` | between operations the list tells what the hardware does, but for controls that may have moved since the daemon looked (`touched`) |
| `TransitionIsAtomic` | a transition ends where the plan wants it or, undone, where it began |
| `TransitionNeverOvershoots` | no point of a transition or of its rollback is brighter than both ends |
| `FailuresAreShown` | whatever fails in a set request, the display carries its error |
| `SettingsAreKept` | nothing but a request's own display has its saved value changed |
| `RefreshReconciles` | a refresh leaves each saved display at its saved level or with an error |
| `RefreshNeverRewrites` | a write of a refresh changes the control it writes to, unless that one was touched |
| `ListingHolds`, `SavingHolds` | the inductive invariants the theorems above rest on |
| `NoCounters` | the ids of a scan differ by themselves: `ensure_unique_id` appends no counter |
| `FailureIsComplete` | a DDC call that fails has asked every handle of its display |
| `DisplaysAreIdentified` | after an undisturbed scan every display is one monitor, and a monitor without a twin is one display |
| `PlansMeetTargets`, `VcpIsFaithful`, `GammaTablesAreRamps` | the arithmetic of a plan, of the VCP scaling and of a gamma table, from `PlanNeverUndershoots`, `VcpReadsBack` and `TableShape` |
| `ServiceRefines` | `ManagerService` implements `DisplayService` |
| `WholeOperations`, `NothingLater` | the published list; a panic stops all changes |
| `BusyIsTrueAlways` | the applet's marks of what is under way are true |
| `InputIsKept` | no late answer and no refresh moves a slider with a newer input pending or in flight |
| `InputsAreNotLost` | a write stops pending only when it is sent, when its slider is moved again, or with the worker |
| `SlidersAgree` | at rest the sliders of a display whose writes were never put back show what the daemon has, or an error |

The argument for `Manager`. `SnapshotTruth` says something of idle states only, so it is not
inductive: nothing in it says that the caches are right when an operation
rebuilds the list. `ListingInv` adds that (`CachesTrue`: the caches are wrong
only about touched controls, and the gamma cache only about controls that are
gone), that no control is owned by two ids (`OneOwner`), that during a refresh
the entries not yet come to are still true (`ListTrue`), that the adjustments in
effect are an initial part of the plan in its order (`InOrder`), and that each
control has its planned or its listed level accordingly (`LevelsKnown`). With
the last two the properties of transitions are statements about a plan cut in
two, which `PolicyProofs` settles by arithmetic (`PartWayNeverBrighter`). `SaveInv`
adds to the two file properties what each point of `Config::save` knows; with it
the step that renames the file is the one that saves (`StoreRefines`).
`manager_one` checks both invariants as well. `Reconciled` speaks of the end of a
refresh and needs a third one, `RestoreInv`: each display the loop has come to has
its untouched controls at their saved levels or has an error, and the plan in
progress is the saved one. `OneOwner` keeps a later display's writes from
undoing an earlier one's.

For `DdcBackend`: `IInv` of `DdcBackendProofs`. A scan has read each bus at most
once and only buses it probed (`ScanInv`), so a group of handles is finite, has a
first bus, and no two groups share a handle. Two groups get one id only by one
EDID, and then both take the suffix of their own connector or bus, which
differ. A call has asked a contiguous part of the ring of handles that began at
the active one (`CallInv`); when the next to ask is the first again, the part is
the whole ring. The refinement also needs `OriginInv`: a handle known to be
opened on a monitor still reaches that monitor and holds its maximum, no two
monitors share a socket, and readings are kept only during a scan. What the
daemon is shown of a monitor is then the one display whose handles all come from
it (`Alone`); a second display of the same monitor would make neither count.
`Identified` needs what an undisturbed scan has seen up to now (`CleanInv`): sysfs tells
each connector's monitor, the EDID read on a bus is that of the monitor behind
it, and a reading is associated with its monitor's connector or, if it has a
twin, with none (`Placed`). So the readings of a group are one monitor's, as they
share a connector or a bus, and those of a monitor without a twin are one group.
Monitors moving make all of this void, and a call, wherever it falls back to,
changes neither a display's handles nor what it is called.

For `GammaBackend`: `IInv` of `GammaBackendProofs`. A step of the mapping has to know
what an event still on the wire can be of: that a failure is of a control nobody
holds, or that a control held is published or about to be. `Fits` says it of each
event against both ends, `Before` of each two events of one output (`WireInv`),
`OutputFits` of the two ends themselves. That a global the worker knows is the
current one or its removal is under way ahead of any newer one (`EndInv`) is what
makes reading an announcement safe: it never replaces an output that is still
there. `ChannelInv` says that only the last command of the channel can be another
than one given up, so that the late commands are a prefix of it, and processing
its head is `Apply`, `CatchUp` or nothing.

For `ManagerService`: `ListOfWholeOperations` is inductive with `TypeOK`. Only the gate's
head is past it, so between two operations the state equals the published list,
or a panic has poisoned the mutex and neither changes again. A step of the head
then is the publication of one change, the refusal of one call, or invisible;
the mapping makes a call served at its publication and lost once its answer
cannot be sent.

For `Applet`: `AppletInv`, `KeptInv`, `DueInOrder` and `AgreeInv` of `AppletProofs`. An answer that
is applied to a slider must be the answer to its newest input. `InLine` says that
commands are answered in the order of their ids as far as it matters: a refresh
with respect to everything, the writes of one display with respect to each other
unless one was put back. `PendingLater` and `DueInOrder` say that what is still pending
comes after them, in the order of the inputs: of the pending writes of a display
all but the newest are due. The slider of a write
pending or in flight is there, and shows that write if it is the last input
(`Awaited`); a write lost with its worker was sent after every refresh that was
answered (`Lost`). For the agreement at rest two more facts are needed: an
answer on its way tells what the daemon still has, unless a later write of the
display was answered too (`Current`), and the last open write of a display is its
last input (`Converging`).

Only model-checked: the liveness properties (`OperationEnds`, `CallsEnd` of both
backends, `LossNoticed`, `AppearanceNoticed`, `EveryCallEnds`, `StopEnds`, `Settles`), as liveness under
fairness is out of the prover's reach. The runs that expect a violation show
what does not hold, so there is nothing to prove.

## What is left out

- Which client a call is from: a client that goes away does not matter to the
  daemon, which finishes what it asked for.
- A second daemon, which scans and writes the settings before it learns that
  the bus name is taken (`main.rs:44`).
- Two monitors answering on one connector.
- The counter of `ensure_unique_id` (`ddc.rs:346`): `NoIdNeedsCounter` shows that it
  is never appended.
- A Wayland output renamed while it exists.
- Floating point: where `0.07 * 100.0` exceeds 7 the code's percentage is one
  higher than the model's.
- D-Bus itself, TOML, sysfs paths, EDID parsing and display names, argument
  parsing, logging, layout of the applet, packaging.
- `wlightctl`: it checks its argument, makes one call and prints; to the daemon it
  is a call of `ManagerService`.
- Power failures: a crash is the process's, files keep what was written
  (`config.rs:76` does not sync).
- A monitor that acknowledges a write and does not take it.

## Plan

1. An abstract transition (one step from one level to the other) implemented by
   `Manager`'s writes.
