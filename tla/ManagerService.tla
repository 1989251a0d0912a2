---------------------------- MODULE ManagerService ----------------------------
(***************************************************************************)
(* The D-Bus service of the daemon (wlight-daemon, service.rs and the end  *)
(* of main.rs).  zbus runs each incoming call as a task of its own.  A     *)
(* task that changes displays waits for the gate, a FIFO mutex, hands its  *)
(* operation to the blocking pool, and keeps the gate until the operation  *)
(* returns; ListDisplays reads the published list beside the gate.  What   *)
(* an operation does is Manager's business: here the state is the list of  *)
(* the changes made.  The shutdown is one more task, and the process goes  *)
(* away in steps: it leaves the bus, drops its tasks, and waits for the    *)
(* operation still on the blocking pool.                                   *)
(***************************************************************************)
EXTENDS Sequences, Naturals

CONSTANTS
    Calls,          \* the calls clients make
    Kind,           \* what each asks for
    Quit            \* ManagerService::shutdown, called by main

ASSUME ServiceAssumption ==
    /\ Kind \in [Calls -> {"list", "change", "invalid"}]
    /\ Quit \notin Calls

VARIABLES
    stage,          \* how far each task is
    gate,           \* operations: the task that holds it and those waiting
    state,          \* ManagerState: the changes made
    poisoned,       \* its std mutex
    snapshot,       \* the published list
    answer,         \* the results
    arrived,        \* the mutations in the order they came in (history)
    lost,           \* the calls whose answer can no longer be sent
    phase           \* of the process

vars == <<stage, gate, state, poisoned, snapshot, answer, arrived, lost, phase>>
dataVars == <<state, poisoned, snapshot>>
processVars == <<lost, phase>>

Tasks == Calls \cup {Quit}
Mutating == {Quit} \cup {c \in Calls : Kind[c] = "change"}

Answers  == [kind : {"none", "error", "displays"}, displays : Seq(Calls)]
NoAnswer == [kind |-> "none", displays |-> <<>>]
Error    == [kind |-> "error", displays |-> <<>>]
Showing(list) == [kind |-> "displays", displays |-> list]

Elements(list) == {list[i] : i \in 1 .. Len(list)}

Init ==
    /\ stage = [t \in Tasks |-> "new"]
    /\ gate = <<>>
    /\ state = <<>> /\ snapshot = <<>>
    /\ poisoned = FALSE
    /\ answer = [t \in Tasks |-> NoAnswer]
    /\ arrived = <<>>
    /\ lost = {}
    /\ phase = "serving"

Move(t, from, to) ==
    /\ stage[t] = from
    /\ stage' = [stage EXCEPT ![t] = to]
Reply(t, a) == answer' = [answer EXCEPT ![t] = a]

\* After the shutdown a connection that lost its calls is closed.
OnBus == phase \in {"serving", "stopping"} \/ (phase = "closing" /\ lost = {})

\* Up to when tasks go on, and threads of the blocking pool.
TasksRun == phase \in {"serving", "stopping", "closing"}
Threads == phase # "gone"

-----------------------------------------------------------------------------
(* A call, from its arrival to the gate                                    *)

Arrive(c) ==
    /\ OnBus
    /\ Move(c, "new", "sent")
    /\ arrived' = IF c \in Mutating THEN Append(arrived, c) ELSE arrived
    /\ UNCHANGED <<gate, dataVars, answer, processVars>>

ListDisplays(c) ==
    /\ TasksRun /\ Kind[c] = "list"
    /\ Move(c, "sent", "replied")
    /\ Reply(c, Showing(snapshot))
    /\ UNCHANGED <<gate, dataVars, arrived, processVars>>

\* validate_fraction, or a DDC percentage above 100
Reject(c) ==
    /\ TasksRun /\ Kind[c] = "invalid"
    /\ Move(c, "sent", "replied")
    /\ Reply(c, Error)
    /\ UNCHANGED <<gate, dataVars, arrived, processVars>>

\* The tasks come to the gate in any order.
Enter(t) ==
    /\ TasksRun /\ t \in Mutating
    /\ Move(t, "sent", "waiting")
    /\ gate' = Append(gate, t)
    /\ UNCHANGED <<dataVars, answer, arrived, processVars>>

SubmitUngated(t) ==                                    \* a bug: no gate
    /\ TasksRun
    /\ Move(t, "waiting", "submitted")
    /\ UNCHANGED <<gate, dataVars, answer, arrived, processVars>>
Submit(t) ==
    /\ TasksRun /\ gate # <<>> /\ Head(gate) = t
    /\ Move(t, "waiting", "submitted")
    /\ UNCHANGED <<gate, dataVars, answer, arrived, processVars>>

-----------------------------------------------------------------------------
(* The operation, on a thread of the blocking pool                         *)

LockRecovers(t) ==                     \* a bug: goes on with a broken state
    /\ Threads
    /\ Move(t, "submitted", "running")
    /\ UNCHANGED <<gate, dataVars, answer, arrived, processVars>>
Lock(t) ==
    /\ Threads /\ ~poisoned
    /\ Move(t, "submitted", "running")
    /\ UNCHANGED <<gate, dataVars, answer, arrived, processVars>>

LockPoisoned(t) ==
    /\ Threads /\ poisoned
    /\ Move(t, "submitted", "finished")
    /\ Reply(t, Error)
    /\ UNCHANGED <<gate, dataVars, arrived, processVars>>

\* An operation that fails may have changed something all the same.
WorkedAlways(t) == Append(state, t)      \* a bug: the shutdown is a change
Worked(t) == IF t = Quit THEN state ELSE Append(state, t)
Execute(t) ==
    /\ Threads
    /\ Move(t, "running", "executed")
    /\ state' = Worked(t)
    /\ \E a \in {Showing(state'), Error} : Reply(t, a)
    /\ UNCHANGED <<gate, poisoned, snapshot, arrived, processVars>>

Panic(t) ==
    /\ Threads
    /\ Move(t, "running", "finished")
    /\ poisoned' = TRUE
    /\ state' \in {state, Worked(t)}
    /\ Reply(t, Error)
    /\ UNCHANGED <<gate, snapshot, arrived, processVars>>

PublishOnSuccess(t) ==               \* a bug: a failed operation is not shown
    /\ Threads
    /\ Move(t, "executed", "finished")
    /\ snapshot' = IF answer[t] = Error THEN snapshot ELSE state
    /\ UNCHANGED <<gate, state, poisoned, answer, arrived, processVars>>
Publish(t) ==
    /\ Threads
    /\ Move(t, "executed", "finished")
    /\ snapshot' = state
    /\ UNCHANGED <<gate, state, poisoned, answer, arrived, processVars>>

-----------------------------------------------------------------------------
(* The answer                                                              *)

ReturnHoldsOnError(t) ==     \* a bug: the gate is given back with a result only
    /\ TasksRun
    /\ Move(t, "finished", "replied")
    /\ gate' = IF answer[t] = Error THEN gate ELSE Tail(gate)
    /\ UNCHANGED <<dataVars, answer, arrived, processVars>>
Return(t) ==
    /\ TasksRun
    /\ Move(t, "finished", "replied")
    /\ gate' = Tail(gate)
    /\ UNCHANGED <<dataVars, answer, arrived, processVars>>

Deliver(c) ==
    /\ OnBus /\ c \in Calls
    /\ Move(c, "replied", "answered")
    /\ UNCHANGED <<gate, dataVars, answer, arrived, processVars>>

-----------------------------------------------------------------------------
(* The end of the process                                                  *)

InFlight(c) == stage[c] \notin {"new", "answered"}
InFlightCalls == {c \in Calls : InFlight(c)}

\* SIGTERM or Ctrl-C
Signal ==
    /\ phase = "serving" /\ phase' = "stopping"
    /\ Move(Quit, "new", "sent")
    /\ UNCHANGED <<gate, dataVars, answer, arrived, lost>>

\* main goes on after shutdown and drops its connection.  Calls in flight may
\* hold on to it.
DropConnection ==
    /\ phase = "stopping" /\ stage[Quit] = "replied"
    /\ phase' = "closing"
    /\ lost' \in {lost, InFlightCalls}
    /\ UNCHANGED <<stage, gate, dataVars, answer, arrived>>

\* main returns: no task goes on, an operation on the blocking pool does.
DropRuntime ==
    /\ phase = "closing" /\ phase' = "leaving"
    /\ lost' = InFlightCalls
    /\ UNCHANGED <<stage, gate, dataVars, answer, arrived>>

Exit ==
    /\ phase = "leaving" /\ phase' = "gone"
    /\ \A t \in Tasks : stage[t] \notin {"running", "executed"}
    /\ UNCHANGED <<stage, gate, dataVars, answer, arrived, lost>>

Kill ==
    /\ phase # "gone" /\ phase' = "gone"
    /\ lost' = InFlightCalls
    /\ UNCHANGED <<stage, gate, dataVars, answer, arrived>>

-----------------------------------------------------------------------------

Task(t) ==
    \/ Enter(t) \/ Submit(t) \/ Lock(t) \/ LockPoisoned(t)
    \/ Execute(t) \/ Panic(t) \/ Publish(t) \/ Return(t)
Call(c) == ListDisplays(c) \/ Reject(c) \/ Deliver(c)
Leave == DropConnection \/ DropRuntime \/ Exit

Next ==
    \/ \E t \in Tasks : Task(t)
    \/ \E c \in Calls : Arrive(c) \/ Call(c)
    \/ Signal \/ Leave \/ Kill

Spec == Init /\ [][Next]_vars

\* The runtime runs every task that can go on, and operations end.
FairSpec ==
    /\ Spec
    /\ \A t \in Tasks : WF_vars(Task(t))
    /\ \A c \in Calls : WF_vars(Call(c))
    /\ WF_vars(Leave)

-----------------------------------------------------------------------------
(* Correctness                                                             *)

Stages == {"new", "sent", "waiting", "submitted", "running", "executed",
           "finished", "replied", "answered"}

TypeOK ==
    /\ stage \in [Tasks -> Stages]
    /\ gate \in Seq(Tasks)
    /\ state \in Seq(Calls) /\ snapshot \in Seq(Calls)
    /\ poisoned \in BOOLEAN
    /\ answer \in [Tasks -> Answers]
    /\ arrived \in Seq(Calls)
    /\ lost \subseteq Calls
    /\ phase \in {"serving", "stopping", "closing", "leaving", "gone"}

\* "At most one blocking task running at a time" (docs/architecture.md:12-13),
\* and it is the gate's head: no thread ever waits for the state's mutex.
Holding == {"submitted", "running", "executed", "finished"}
OneAtATime ==
    \A t \in Tasks : stage[t] \in Holding => gate # <<>> /\ Head(gate) = t

\* A change takes effect for the clients when it is published, a listing when
\* it is read.
Served == {"finished", "replied"}
Inside == {"sent", "waiting", "submitted", "running", "executed"}
StatusOf(c) ==
    IF c \in lost THEN "lost"
    ELSE CASE stage[c] = "new" -> "idle"
           [] stage[c] \in Served -> "served"
           [] stage[c] = "answered" -> "closed"
           [] OTHER -> "open"
AnswerOf(c) ==
    IF c \notin lost /\ stage[c] \in Served \cup {"answered"} THEN answer[c] ELSE NoAnswer

Status == [c \in Calls |-> StatusOf(c)]
Heard  == [c \in Calls |-> AnswerOf(c)]
Service == INSTANCE DisplayService
    WITH made <- snapshot, status <- Status, answer <- Heard

\* What makes the published list a list of whole operations, each of them once:
\* the state is ahead of it only between an operation and its publication, or
\* for good after a panic (service.rs:36-45).  Inductive with TypeOK.
ListOfWholeOperations ==
    /\ OneAtATime
    /\ \A t \in Tasks :
          /\ stage[t] = "running" => ~poisoned /\ state = snapshot
          /\ stage[t] = "executed" =>
                /\ ~poisoned
                /\ state = IF t = Quit THEN snapshot ELSE Append(snapshot, t)
                /\ answer[t] \in {Showing(state), Error}
    /\ ~poisoned /\ (\A t \in Tasks : stage[t] # "executed") => state = snapshot
    /\ \A c \in Calls : c \in Elements(snapshot) => stage[c] \in Served \cup {"answered"}
    /\ \A t \in Tasks : stage[t] \in Holding \cup {"waiting"} => t \in Mutating
    /\ lost # {} => ~OnBus
    /\ \A c \in lost : InFlight(c)

\* Clients see one list of displays that changes call by call: no call shows
\* a state that another one's answer has already made old, none is applied
\* twice, and a panic or a shutdown takes nothing back (mutate,
\* service.rs:25-50).
ImplementsDisplayService == Service!ServiceSpec

\* After an operation panicked nothing is changed any more behind the list
\* that ListDisplays goes on showing: every later mutation fails
\* (service.rs:36-44).
NothingAfterPanic == [][poisoned => UNCHANGED <<state, snapshot>>]_vars

\* Every call is answered or loses its answer to the end of the process: no
\* failure of an operation keeps the gate from the next one (service.rs:32,
\* 47-49).
EveryCallEnds ==
    \A c \in Calls : stage[c] = "sent" ~> stage[c] = "answered" \/ c \in lost

\* A signal ends the process whatever is queued at the gate (main.rs:65-69).
StopEnds == phase = "stopping" ~> phase = "gone"

\* "Tokio's mutex is FIFO, so hardware requests execute in D-Bus arrival
\* order" (service.rs:30).
ArrivalOrder ==
    \A i, j \in 1 .. Len(arrived) : \A k, l \in 1 .. Len(state) :
        state[k] = arrived[i] /\ state[l] = arrived[j] /\ k < l => i < j
=============================================================================
