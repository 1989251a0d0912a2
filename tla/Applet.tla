-------------------------------- MODULE Applet --------------------------------
(***************************************************************************)
(* The applet (wlight-applet): the egui thread, which turns slider input   *)
(* into debounced writes, and the worker thread, which passes them to the  *)
(* daemon one by one.  They share a bounded command channel and an         *)
(* unbounded event channel.  The daemon is what its answers show of it; no *)
(* other client changes displays.                                          *)
(*                                                                         *)
(* Every request has an id, and an id stands for the value the request     *)
(* sets: a slider shows the id of the user's last input on it or, once     *)
(* synchronized, the id of the write the daemon had applied last, zero for *)
(* what the display had when the applet was opened.  Time is counted in    *)
(* ticks: pending[key].wait is what is left until a write is due.          *)
(* MaxRequests bounds the ids, which the code lets grow to 2^64.           *)
(***************************************************************************)
EXTENDS Naturals, Sequences, FiniteSets

CONSTANTS
    Displays,
    WriteKinds,     \* WriteKind: unified, DDC and gamma sliders
    Capacity,       \* of the command channel (64)
    Debounce,       \* WRITE_DEBOUNCE (180 ms), in ticks
    Retry,          \* the delay after a full channel (40 ms), in ticks
    MaxRequests

All == "all"                        \* the target of a listing or a refresh

ASSUME AppletAssumption ==
    /\ Capacity \in Nat \ {0} /\ MaxRequests \in Nat
    /\ Debounce \in Nat \ {0} /\ Retry \in 1 .. Debounce
    /\ All \notin Displays

VARIABLES
    ui,             \* the egui thread's place in a frame: drain, flush, input, closed
    drafts,         \* WlightApplet.displays
    pending,        \* WlightApplet.pending_writes
    due,            \* the writes this frame has still to send
    inFlight,       \* WlightApplet.in_flight
    nextId,         \* WlightApplet.next_request_id
    refreshId,      \* WlightApplet.refresh_request_id
    loading, workerRunning,
    channel, events,
    worker, call,   \* the worker thread and the command it executes
    daemon,         \* what the daemon knows of each display
    putBack         \* the displays whose writes met a full channel (history)

draftVars   == <<drafts, nextId>>
sendVars    == <<pending, due, inFlight, putBack>>
flagVars    == <<refreshId, loading, workerRunning>>
workerVars  == <<worker, call, daemon>>
vars == <<ui, drafts, nextId, pending, due, inFlight, refreshId, loading,
          workerRunning, channel, events, worker, call, daemon, putBack>>

Ids  == 0 .. MaxRequests            \* 0: the listing at the start, or none
Keys == Displays \X WriteKinds      \* PendingKey
Request(id, target) == [id |-> id, target |-> target]
Requests == [id : Ids, target : Displays \cup {All}]

NoWrite == [id |-> 0, wait |-> 0]
NoDraft == [known |-> FALSE, shown |-> 0, latest |-> 0, error |-> FALSE]
Draft(shown, latest, error) ==
    [known |-> TRUE, shown |-> shown, latest |-> latest, error |-> error]
Infos == [listed : BOOLEAN, version : Ids, error : BOOLEAN]

\* WorkerEvent: the answer to a request, with what the daemon knew then.
Event(type, request, infos) == [type |-> type, request |-> request, infos |-> infos]

IsPending(key) == pending[key].id # 0
SomePending == \E key \in Keys : IsPending(key)
Busy(d) ==                                               \* display_is_busy
    \/ \E key \in Keys : key[1] = d /\ IsPending(key)
    \/ \E r \in inFlight : r.target = d

-----------------------------------------------------------------------------
(* Opening and closing the window                                          *)

\* WlightApplet::new; the worker's thread may fail to start.
Init ==
    /\ ui = "drain"
    /\ drafts = [d \in Displays |-> NoDraft]
    /\ pending = [key \in Keys |-> NoWrite]
    /\ due = {} /\ inFlight = {} /\ putBack = {}
    /\ nextId = 1 /\ refreshId = 0
    /\ worker \in {"starting", "gone"}
    /\ workerRunning = (worker = "starting") /\ loading = workerRunning
    /\ channel = <<>> /\ events = <<>>
    /\ call = Request(0, All)
    /\ daemon \in [Displays -> [listed : BOOLEAN, version : {0}, error : BOOLEAN]]

\* The process ends with the window, whatever was pending and whatever the
\* worker still had to do.
Close ==
    /\ ui = "input"
    /\ ui' = "closed" /\ worker' = "gone"
    /\ UNCHANGED <<draftVars, sendVars, flagVars, channel, events, call, daemon>>

-----------------------------------------------------------------------------
(* A frame of the egui thread, first part: drain_worker_events             *)

\* DisplayDraft::synchronize: an answer older than the last input is ignored.
SyncAlways(d, info, id) == Draft(info.version, id, info.error)         \* a bug
Sync(d, info, id) ==
    IF drafts[d].known /\ id < drafts[d].latest
    THEN drafts[d]
    ELSE Draft(info.version, id, info.error)

RefreshAfter(request) == IF refreshId = request.id THEN 0 ELSE refreshId

\* apply_snapshot: what it does not list goes, unless the user acts on it.
Snapshot(e) ==
    /\ drafts' = [d \in Displays |->
          CASE e.infos[d].listed -> Sync(d, e.infos[d], e.request.id)
            [] ~e.infos[d].listed /\ (Busy(d) \/ drafts[d].latest > e.request.id)
                 -> drafts[d]
            [] OTHER -> NoDraft]
    /\ loading' = FALSE
    /\ refreshId' = RefreshAfter(e.request)
    /\ UNCHANGED inFlight

DisplayUpdated(e) ==
    LET d == e.request.target IN
    /\ drafts' = [drafts EXCEPT ![d] = Sync(d, e.infos[d], e.request.id)]
    /\ inFlight' = inFlight \ {e.request}
    /\ UNCHANGED <<loading, refreshId>>

\* The error is the display's when it is about the user's last input on it.
WithError(e) ==
    [d \in Displays |->
        IF d = e.request.target /\ drafts[d].known /\ e.request.id >= drafts[d].latest
        THEN [drafts[d] EXCEPT !.error = TRUE] ELSE drafts[d]]
FailedKeepsFlight(e) ==                      \* a bug: only success ends a request
    /\ drafts' = WithError(e)
    /\ loading' = FALSE
    /\ refreshId' = RefreshAfter(e.request)
    /\ UNCHANGED inFlight
Failed(e) ==
    /\ drafts' = WithError(e)
    /\ loading' = FALSE
    /\ refreshId' = RefreshAfter(e.request)
    /\ inFlight' = inFlight \ {e.request}

\* apply_worker_event
TakeEvent ==
    /\ ui = "drain" /\ events # <<>>
    /\ LET e == Head(events) IN
         CASE e.type = "snapshot" -> Snapshot(e)
           [] e.type = "updated"  -> DisplayUpdated(e)
           [] e.type = "failed"   -> Failed(e)
    /\ events' = Tail(events)
    /\ UNCHANGED <<ui, nextId, pending, due, putBack, workerRunning, channel, workerVars>>

\* No event is left; the writes that are due are collected.
DrainEnds ==
    /\ ui = "drain" /\ events = <<>>
    /\ worker # "gone" \/ ~workerRunning
    /\ ui' = "flush"
    /\ due' = {key \in Keys : workerRunning /\ IsPending(key) /\ pending[key].wait = 0}
    /\ UNCHANGED <<draftVars, pending, inFlight, putBack, flagVars, channel, events, workerVars>>

\* The event channel is closed.
NoticeWorkerGone ==
    /\ ui = "drain" /\ events = <<>>
    /\ worker = "gone" /\ workerRunning
    /\ ui' = "flush"
    /\ workerRunning' = FALSE /\ loading' = FALSE /\ refreshId' = 0
    /\ pending' = [key \in Keys |-> NoWrite]
    /\ inFlight' = {} /\ due' = {}
    /\ UNCHANGED <<draftVars, putBack, channel, events, workerVars>>

-----------------------------------------------------------------------------
(* Second part: flush_pending_writes                                       *)

RoomForOneMore == Len(channel) <= Capacity   \* a bug: off by one
HasRoom == Len(channel) < Capacity

\* The writes that are due, in the order of their requests.
NextDueNewest ==                             \* a bug: sorted the other way round
    CHOOSE key \in due : \A other \in due : pending[key].id >= pending[other].id
NextDue == CHOOSE key \in due : \A other \in due : pending[key].id <= pending[other].id

SendDue ==
    /\ ui = "flush" /\ due # {} /\ worker # "gone" /\ HasRoom
    /\ LET request == Request(pending[NextDue].id, NextDue[1]) IN
         /\ channel' = Append(channel, request)
         /\ inFlight' = inFlight \cup {request}
    /\ pending' = [pending EXCEPT ![NextDue] = NoWrite]
    /\ due' = due \ {NextDue}
    /\ UNCHANGED <<ui, draftVars, putBack, flagVars, events, workerVars>>

ChannelFullDrops ==                          \* a bug: the write is not put back
    /\ ui = "flush" /\ due # {} /\ worker # "gone" /\ ~HasRoom
    /\ pending' = [pending EXCEPT ![NextDue] = NoWrite]
    /\ due' = {}
    /\ putBack' = putBack \cup {NextDue[1]}
    /\ UNCHANGED <<ui, draftVars, inFlight, flagVars, channel, events, workerVars>>
ChannelFull ==
    /\ ui = "flush" /\ due # {} /\ worker # "gone" /\ ~HasRoom
    /\ pending' = [pending EXCEPT ![NextDue].wait = Retry]
    /\ due' = {}
    /\ putBack' = putBack \cup {NextDue[1]}
    /\ UNCHANGED <<ui, draftVars, inFlight, flagVars, channel, events, workerVars>>

SendDisconnected ==
    /\ ui = "flush" /\ due # {} /\ worker = "gone"
    /\ workerRunning' = FALSE
    /\ pending' = [key \in Keys |-> NoWrite]
    /\ inFlight' = {} /\ due' = {}
    /\ UNCHANGED <<ui, draftVars, putBack, refreshId, loading, channel, events, workerVars>>

FlushEnds ==
    /\ ui = "flush" /\ due = {}
    /\ ui' = "input"
    /\ UNCHANGED <<draftVars, sendVars, flagVars, channel, events, workerVars>>

-----------------------------------------------------------------------------
(* Third part: ui, with at most one input of the user                      *)

\* queue_write: the write of another slider of the display is due at once, so
\* that it goes first; an earlier write of the same slider is replaced.
Queued(d, kind) ==
    [key \in Keys |->
        IF key = <<d, kind>> THEN [id |-> nextId, wait |-> Debounce]
        ELSE IF key[1] = d THEN [pending[key] EXCEPT !.wait = 0]
        ELSE pending[key]]

Slide(d, kind) ==
    /\ ui = "input" /\ drafts[d].known /\ workerRunning /\ nextId <= MaxRequests
    /\ pending' = Queued(d, kind)
    /\ drafts' = [drafts EXCEPT ![d].shown = nextId, ![d].latest = nextId]
    /\ nextId' = nextId + 1
    /\ ui' = "drain"
    /\ UNCHANGED <<due, inFlight, putBack, flagVars, channel, events, workerVars>>

\* request_refresh, behind the button that is enabled when nothing is pending.
ClickRefresh ==
    /\ ui = "input" /\ workerRunning /\ refreshId = 0 /\ ~SomePending
    /\ nextId <= MaxRequests
    /\ nextId' = nextId + 1
    /\ IF worker # "gone" /\ HasRoom
       THEN /\ channel' = Append(channel, Request(nextId, All))
            /\ refreshId' = nextId
       ELSE UNCHANGED <<channel, refreshId>>
    /\ workerRunning' = (worker # "gone")
    /\ ui' = "drain"
    /\ UNCHANGED <<drafts, sendVars, loading, events, workerVars>>

NoInput ==
    /\ ui = "input"
    /\ ui' = "drain"
    /\ UNCHANGED <<draftVars, sendVars, flagVars, channel, events, workerVars>>

Tick ==
    /\ \E key \in Keys : pending[key].wait > 0
    /\ pending' = [key \in Keys |->
          IF pending[key].wait > 0 THEN [pending[key] EXCEPT !.wait = @ - 1] ELSE pending[key]]
    /\ UNCHANGED <<ui, draftVars, due, inFlight, putBack, flagVars, channel, events, workerVars>>

-----------------------------------------------------------------------------
(* The worker thread and the daemon                                        *)

uiVars == <<ui, draftVars, sendVars, flagVars>>

WorkerStarts ==
    /\ worker = "starting"
    /\ worker' = "calling" /\ call' = Request(0, All)
    /\ UNCHANGED <<uiVars, channel, events, daemon>>

\* worker_entry: no D-Bus runtime.
WorkerCannotStart ==
    /\ worker = "starting"
    /\ worker' = "gone"
    /\ channel' = <<>>
    /\ events' = Append(events, Event("failed", Request(0, All), daemon))
    /\ UNCHANGED <<uiVars, call, daemon>>

\* worker_loop
TakeCommand ==
    /\ worker = "waiting" /\ channel # <<>>
    /\ worker' = "calling" /\ call' = Head(channel)
    /\ channel' = Tail(channel)
    /\ UNCHANGED <<uiVars, events, daemon>>

\* execute_worker_command: the daemon's answer is passed on.
Answered(type) ==
    /\ worker = "calling"
    /\ worker' = "waiting"
    /\ events' = Append(events, Event(type, call, daemon'))
    /\ UNCHANGED <<uiVars, channel, call>>

\* A listing, or a refresh with displays that came or went and saved settings
\* that could be restored or not.
AnswersListing ==
    /\ call.target = All /\ call.id = 0
    /\ UNCHANGED daemon
    /\ Answered("snapshot")
AnswersRefresh(listed, failed) ==
    /\ call.target = All /\ call.id # 0
    /\ daemon' = [d \in Displays |->
          [listed |-> d \in listed, version |-> daemon[d].version, error |-> d \in failed]]
    /\ Answered("snapshot")

AnswersWrite ==
    /\ call.target \in Displays /\ daemon[call.target].listed
    /\ daemon' = [daemon EXCEPT ![call.target] =
                     [listed |-> TRUE, version |-> call.id, error |-> FALSE]]
    /\ Answered("updated")

\* An error of the daemon, which records it, or of the bus; a write may have
\* reached the display all the same.
AnswersError ==
    /\ \/ UNCHANGED daemon
       \/ /\ call.target \in Displays /\ daemon[call.target].listed
          /\ \E version \in {daemon[call.target].version, call.id} :
                daemon' = [daemon EXCEPT ![call.target].version = version,
                                         ![call.target].error = TRUE]
    /\ Answered("failed")

\* The thread panics.
WorkerDies ==
    /\ worker # "gone"
    /\ worker' = "gone"
    /\ channel' = <<>>
    /\ UNCHANGED <<uiVars, events, call, daemon>>

-----------------------------------------------------------------------------

Frame == \/ TakeEvent \/ DrainEnds \/ NoticeWorkerGone
         \/ SendDue \/ ChannelFull \/ SendDisconnected \/ FlushEnds
         \/ NoInput
Input == ClickRefresh \/ \E d \in Displays, kind \in WriteKinds : Slide(d, kind)
Work  == \/ WorkerStarts \/ TakeCommand \/ AnswersListing \/ AnswersWrite
         \/ AnswersError
         \/ \E listed, failed \in SUBSET Displays : AnswersRefresh(listed, failed)
Trouble == WorkerCannotStart \/ WorkerDies

Next == Close \/ Frame \/ Input \/ Tick \/ Work \/ Trouble

Spec == Init /\ [][Next]_vars

\* Fairness: frames go on (a repaint is requested after every event and for
\* every pending write), time passes, and the daemon answers each call, which
\* its own OperationEnds says it does.
FairSpec == Spec /\ WF_vars(Frame) /\ WF_vars(Tick) /\ WF_vars(Work)
-----------------------------------------------------------------------------
(* Properties                                                              *)

\* Every variable has its type.
TypeOK ==
    /\ ui \in {"drain", "flush", "input", "closed"}
    /\ drafts \in [Displays -> [known : BOOLEAN, shown : Ids, latest : Ids, error : BOOLEAN]]
    /\ pending \in [Keys -> [id : Ids, wait : 0 .. Debounce]]
    /\ due \subseteq {key \in Keys : IsPending(key)}
    /\ inFlight \subseteq Requests
    /\ nextId \in 1 .. MaxRequests + 1
    /\ refreshId \in Ids
    /\ loading \in BOOLEAN /\ workerRunning \in BOOLEAN
    /\ channel \in Seq(Requests) /\ Len(channel) <= Capacity
    /\ events \in Seq([type : {"snapshot", "updated", "failed"},
                       request : Requests, infos : [Displays -> Infos]])
    /\ worker \in {"starting", "waiting", "calling", "gone"}
    /\ call \in Requests
    /\ daemon \in [Displays -> Infos]
    /\ putBack \subseteq Displays

\* The requests the worker has not answered and the answers not yet taken.
Outstanding ==
    {channel[i] : i \in DOMAIN channel}
        \cup {events[i].request : i \in DOMAIN events}
        \cup (IF worker = "calling" THEN {call} ELSE {})

\* While the worker lives, what the applet shows as busy is what is under way:
\* a write is in flight from the moment it is sent until its answer, success or
\* failure, is taken, and the refresh button is off exactly while a refresh is
\* outstanding (main.rs:237-263, 384-387, 429-433).
BusyIsTrue ==
    worker # "gone" =>
        /\ inFlight = {r \in Outstanding : r.target # All}
        /\ {r.id : r \in {q \in Outstanding : q.target = All}} \ {0}
              = {refreshId} \ {0}

\* A slider moves by itself only when no newer input on its display is pending
\* or in flight: answers to older requests, late ones included, never undo what
\* the user did since (main.rs:244, 283).
InputKept ==
    [][\A d \in Displays :
          drafts[d].known /\ drafts'[d].shown # drafts[d].shown /\ nextId' = nextId
            => ~Busy(d)']_vars

\* With nothing pending, in flight or under way, every slider shows what the
\* daemon has, or an error stands next to it ("incorporates the latest
\* DisplayInfo snapshot", docs/architecture.md:23-24).
Quiet == worker = "waiting" /\ ~SomePending /\ Outstanding = {}
Agrees(d) ==
    drafts[d].known => drafts[d].shown = daemon[d].version \/ drafts[d].error
AgreesWhenQuiet == Quiet => \A d \in Displays : Agrees(d)

\* The same for the displays none of whose writes had to wait for room in the
\* channel: late, failed and reordered answers and two sliders moved within the
\* debounce time leave no trace (main.rs:244, 338, 370).
AgreesUnlessPutBack == Quiet => \A d \in Displays \ putBack : Agrees(d)

\* A write is not pending or in flight for ever, nor is a refresh outstanding,
\* unless the worker is gone: failures and a full channel included.
Settles ==
    /\ \A d \in Displays : Busy(d) ~> (~Busy(d) \/ worker = "gone")
    /\ (refreshId # 0) ~> (refreshId = 0 \/ worker = "gone")

\* No input is lost on its way: a write stops pending only when it is sent, when
\* the user moves the same slider again, or with the worker.  In particular one
\* that meets a full channel is put back, however often, with the value it had
\* (main.rs:378-397), and the writes that were due with it are still pending.
\* With Settles, which is true of a write that is dropped as well, every input is
\* sent or replaced in the end.
NoInputLost ==
    [][\A key \in Keys :
          IsPending(key) /\ pending'[key].id # pending[key].id =>
              \/ Request(pending[key].id, key[1]) \in Outstanding'
              \/ pending'[key].id > pending[key].id
              \/ worker = "gone"]_vars
=============================================================================
