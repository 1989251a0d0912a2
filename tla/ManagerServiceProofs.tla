------------------------- MODULE ManagerServiceProofs -------------------------
(***************************************************************************)
(* ManagerService implements DisplayService, for any calls of any kinds.   *)
(***************************************************************************)
EXTENDS ManagerService, SequenceTheorems, TLAPS

\* The constants in the form the proofs use.
LEMMA TaskFacts ==
    /\ Quit \notin Calls /\ Quit \in Tasks /\ Calls \subseteq Tasks
    /\ Mutating \subseteq Tasks
    /\ \A t \in Mutating : t = Quit \/ (t \in Calls /\ Kind[t] = "change")
BY ServiceAssumption DEF Tasks, Mutating

\* What an answer can be.
LEMMA AnswerFacts ==
    /\ NoAnswer \in Answers /\ Error \in Answers
    /\ \A list \in Seq(Calls) : Showing(list) \in Answers
<1>1. <<>> \in Seq(Calls)
  OBVIOUS
<1> QED
  BY <1>1 DEF NoAnswer, Error, Showing, Answers

\* A task's operation makes the state a list of calls.
LEMMA WorkedType ==
    ASSUME TypeOK, NEW t \in Tasks PROVE Worked(t) \in Seq(Calls)
BY DEF Worked, TypeOK, Tasks

-----------------------------------------------------------------------------
(* Types                                                                   *)

\* Every step keeps every variable in its type.
LEMMA StepType == ASSUME TypeOK, OneAtATime, [Next]_vars PROVE TypeOK'
<1> USE DEF TypeOK
<1>1. ASSUME NEW t \in Tasks, Task(t) PROVE TypeOK'
  <2>1. CASE Enter(t)
    BY <2>1 DEF Enter, Move, Stages, dataVars, processVars
  <2>2. CASE Submit(t) \/ Lock(t)
    BY <2>2 DEF Submit, Lock, Move, Stages, dataVars, processVars
  <2>3. CASE LockPoisoned(t)
    BY <2>3, AnswerFacts DEF LockPoisoned, Move, Reply, Stages, dataVars, processVars
  <2>4. CASE Execute(t)
    <3>1. state' \in Seq(Calls)
      BY <2>4, WorkedType DEF Execute
    <3> QED
      BY <2>4, <3>1, AnswerFacts DEF Execute, Move, Reply, Stages, processVars
  <2>5. CASE Panic(t)
    <3>1. state' \in Seq(Calls)
      BY <2>5, WorkedType DEF Panic
    <3> QED
      BY <2>5, <3>1, AnswerFacts DEF Panic, Move, Reply, Stages, processVars
  <2>6. CASE Publish(t)
    BY <2>6 DEF Publish, Move, Stages, processVars
  <2>7. CASE Return(t)
    <3>1. gate # <<>>
      BY <2>7 DEF Return, Move, OneAtATime, Holding
    <3>2. Tail(gate) \in Seq(Tasks)
      BY <3>1
    <3> QED
      BY <2>7, <3>2 DEF Return, Move, Stages, dataVars, processVars
  <2> QED
    BY <1>1, <2>1, <2>2, <2>3, <2>4, <2>5, <2>6, <2>7 DEF Task
<1>2. ASSUME NEW c \in Calls, Arrive(c) \/ Call(c) PROVE TypeOK'
  <2>1. CASE Arrive(c)
    BY <2>1, TaskFacts DEF Arrive, Move, Stages, dataVars, processVars
  <2>2. CASE ListDisplays(c) \/ Reject(c)
    BY <2>2, TaskFacts, AnswerFacts
       DEF ListDisplays, Reject, Move, Reply, Stages, dataVars, processVars
  <2>3. CASE Deliver(c)
    BY <2>3, TaskFacts DEF Deliver, Move, Stages, dataVars, processVars
  <2> QED
    BY <1>2, <2>1, <2>2, <2>3 DEF Call
<1>3. CASE Signal
  BY <1>3, TaskFacts DEF Signal, Move, Stages, dataVars
<1>4. CASE Leave \/ Kill
  BY <1>4 DEF Leave, Kill, DropConnection, DropRuntime, Exit, InFlightCalls, dataVars
<1>5. CASE UNCHANGED vars
  BY <1>5 DEF vars
<1> QED
  BY <1>1, <1>2, <1>3, <1>4, <1>5 DEF Next

-----------------------------------------------------------------------------
(* The list of whole operations                                            *)

\* A list grows by its last element.
LEMMA AppendElements ==
    ASSUME NEW S, NEW list \in Seq(S), NEW e \in S
    PROVE  Elements(Append(list, e)) \subseteq Elements(list) \cup {e}
BY DEF Elements

\* A step of one task leaves the stages of the others alone.
LEMMA Moved ==
    ASSUME TypeOK, NEW t \in Tasks, NEW a, NEW b, Move(t, a, b)
    PROVE  /\ stage[t] = a /\ stage'[t] = b
           /\ \A u \in Tasks \ {t} : stage'[u] = stage[u]
BY DEF Move, TypeOK

\* The gate's head is the only one that may hold it.
LEMMA Alone ==
    ASSUME OneAtATime, NEW t \in Tasks, NEW u \in Tasks,
           stage[t] \in Holding, stage[u] \in Holding
    PROVE  t = u
BY DEF OneAtATime

\* The steps of a task that is on its way through the gate.
LEMMA TaskMoves ==
    ASSUME TypeOK, ListOfWholeOperations, NEW t \in Tasks, Task(t)
    PROVE  /\ t \in Mutating /\ UNCHANGED <<lost, phase>>
           /\ stage[t] \notin {"new", "replied", "answered"}
           /\ stage'[t] \notin {"new", "sent", "answered"}
           /\ \A u \in Tasks \ {t} : stage'[u] = stage[u]
BY Moved DEF Task, Enter, Submit, Lock, LockPoisoned, Execute, Panic, Publish, Return,
             ListOfWholeOperations, Holding, Mutating, processVars

\* The steps of a call that is not.
LEMMA CallMoves ==
    ASSUME TypeOK, NEW c \in Calls, Arrive(c) \/ Call(c)
    PROVE  /\ UNCHANGED <<gate, state, poisoned, snapshot, lost, phase>>
           /\ stage[c] \in {"new", "sent", "replied"}
           /\ stage'[c] \in {"sent", "replied", "answered"}
           /\ stage[c] = "replied" => stage'[c] = "answered"
           /\ stage'[c] # "replied" => OnBus
           /\ \A u \in Tasks \ {c} : stage'[u] = stage[u] /\ answer'[u] = answer[u]
<1>1. c \in Tasks
  BY TaskFacts
<1>2. CASE Arrive(c)
  BY <1>1, <1>2, Moved DEF Arrive, dataVars, processVars
<1>3. CASE ListDisplays(c) \/ Reject(c)
  BY <1>1, <1>3, Moved DEF ListDisplays, Reject, Reply, TypeOK, dataVars, processVars
<1>4. CASE Deliver(c)
  BY <1>1, <1>4, Moved DEF Deliver, dataVars, processVars
<1> QED
  BY <1>2, <1>3, <1>4 DEF Call

\* The steps of the process leave the tasks where they are.
LEMMA ProcessMoves ==
    ASSUME Leave \/ Kill \/ UNCHANGED vars
    PROVE  UNCHANGED <<stage, gate, state, poisoned, snapshot, answer>>
BY DEF Leave, Kill, DropConnection, DropRuntime, Exit, dataVars, vars

LostStay == (lost # {} => ~OnBus) /\ \A c \in lost : InFlight(c)

\* A call that is lost stays in flight: only the bus could end it.
LEMMA StepLost ==
    ASSUME TypeOK, ListOfWholeOperations, [Next]_vars
    PROVE  LostStay'
<1> USE DEF InFlight, LostStay
<1>0. /\ lost # {} => ~OnBus
      /\ \A c \in lost : InFlight(c)
      /\ lost \subseteq Calls /\ Calls \subseteq Tasks
  BY TaskFacts DEF ListOfWholeOperations, TypeOK
<1>1. ASSUME NEW t \in Tasks, Task(t)
      PROVE  LostStay'
  BY <1>0, <1>1, TaskMoves DEF OnBus
<1>2. ASSUME NEW c \in Calls, Arrive(c) \/ Call(c)
      PROVE  LostStay'
  BY <1>0, <1>2, CallMoves DEF OnBus
<1>3. CASE Signal
  BY <1>0, <1>3 DEF Signal, OnBus
<1>4. CASE Leave \/ Kill
  BY <1>0, <1>4 DEF Leave, Kill, DropConnection, DropRuntime, Exit, InFlightCalls, OnBus
<1>5. CASE UNCHANGED vars
  BY <1>0, <1>5 DEF vars, OnBus
<1> QED
  BY <1>1, <1>2, <1>3, <1>4, <1>5 DEF Next

Gated == \A t \in Tasks : stage[t] \in Holding \cup {"waiting"} => t \in Mutating

\* One operation at a time, and only those of the gate.
LEMMA StepGate ==
    ASSUME TypeOK, ListOfWholeOperations, [Next]_vars
    PROVE  OneAtATime' /\ Gated'
<1>0. OneAtATime /\ Gated
  BY DEF ListOfWholeOperations, Gated
<1>1. ASSUME NEW t \in Tasks, Task(t) PROVE OneAtATime'
  <2>1. CASE Enter(t)
    <3>1. gate # <<>> => gate' # <<>> /\ Head(gate') = Head(gate)
      BY <2>1 DEF Enter, TypeOK
    <3> QED
      BY <1>0, <2>1, <3>1, Moved DEF Enter, OneAtATime, Holding
  <2>2. CASE Submit(t)
    BY <1>0, <2>2, Moved DEF Submit, OneAtATime, Holding
  <2>3. CASE Lock(t) \/ LockPoisoned(t) \/ Execute(t) \/ Panic(t) \/ Publish(t)
    BY <1>0, <2>3, Moved
       DEF Lock, LockPoisoned, Execute, Panic, Publish, OneAtATime, Holding
  <2>4. CASE Return(t)
    BY <1>0, <2>4, Moved, Alone DEF Return, OneAtATime, Holding
  <2> QED
    BY <1>1, <2>1, <2>2, <2>3, <2>4 DEF Task
<1>2. ASSUME NEW c \in Calls, Arrive(c) \/ Call(c) PROVE OneAtATime'
  BY <1>0, <1>2, CallMoves DEF OneAtATime, Holding
<1>3. ASSUME Signal PROVE OneAtATime'
  BY <1>0, <1>3, Moved, TaskFacts DEF Signal, OneAtATime, Holding
<1>4. ASSUME Leave \/ Kill \/ UNCHANGED vars PROVE OneAtATime'
  BY <1>0, <1>4, ProcessMoves DEF OneAtATime
<1>5. Gated'
  <2>1. ASSUME NEW t \in Tasks, Task(t) PROVE Gated'
    BY <1>0, <2>1, TaskMoves DEF Gated
  <2>2. ASSUME NEW c \in Calls, Arrive(c) \/ Call(c) PROVE Gated'
    BY <1>0, <2>2, CallMoves DEF Gated, Holding
  <2>3. CASE Signal
    BY <1>0, <2>3, Moved, TaskFacts DEF Signal, Gated, Holding
  <2>4. CASE Leave \/ Kill \/ UNCHANGED vars
    BY <1>0, <2>4, ProcessMoves DEF Gated
  <2> QED
    BY <2>1, <2>2, <2>3, <2>4 DEF Next
<1> QED
  BY <1>1, <1>2, <1>3, <1>4, <1>5 DEF Next

\* The parts of the invariant that speak of the state and the published list.
Ahead ==
    /\ \A t \in Tasks :
          /\ stage[t] = "running" => ~poisoned /\ state = snapshot
          /\ stage[t] = "executed" =>
                /\ ~poisoned
                /\ state = IF t = Quit THEN snapshot ELSE Append(snapshot, t)
                /\ answer[t] \in {Showing(state), Error}
    /\ ~poisoned /\ (\A t \in Tasks : stage[t] # "executed") => state = snapshot
EachDone ==
    \A c \in Calls : c \in Elements(snapshot) => stage[c] \in Served \cup {"answered"}

\* Steps outside the blocking pool change neither the state nor the list, nor
\* who is about to.
LEMMA AheadKept ==
    ASSUME Ahead, UNCHANGED <<state, poisoned, snapshot>>,
           \A t \in Tasks :
              /\ stage[t] = "executed" <=> stage'[t] = "executed"
              /\ stage'[t] = "running" => stage[t] = "running"
              /\ stage'[t] = "executed" => answer'[t] = answer[t]
    PROVE  Ahead'
BY DEF Ahead, Showing, Error

\* The state is ahead of the list by one whole operation at most.
LEMMA StepAhead ==
    ASSUME TypeOK, ListOfWholeOperations, [Next]_vars
    PROVE  Ahead'
<1>0. Ahead /\ OneAtATime
  BY DEF ListOfWholeOperations, Ahead
<1>1. ASSUME NEW t \in Tasks, Task(t) PROVE Ahead'
  <2>0. \A u \in Tasks : stage[t] \in Holding /\ stage[u] \in {"running", "executed"} => u = t
    BY <1>0, Alone DEF Holding
  <2>1. CASE Enter(t) \/ Submit(t) \/ Return(t)
    BY <1>0, <2>1, Moved, AheadKept DEF Enter, Submit, Return, dataVars
  <2>2. CASE Lock(t)
    BY <1>0, <2>0, <2>2, Moved DEF Lock, Ahead, Holding, dataVars
  <2>3. CASE LockPoisoned(t)
    <3>1. \A u \in Tasks \ {t} : answer'[u] = answer[u]
      BY <2>3 DEF LockPoisoned, Reply, TypeOK
    <3> QED
      BY <1>0, <2>3, <3>1, Moved, AheadKept DEF LockPoisoned, dataVars
  <2>4. CASE Execute(t)
    <3>1. answer'[t] \in {Showing(state'), Error}
      BY <2>4 DEF Execute, Reply, TypeOK
    <3>2. \A u \in Tasks \ {t} : stage'[u] \notin {"running", "executed"}
      BY <2>0, <2>4, Moved DEF Execute, Holding
    <3>3. stage[t] = "running" /\ stage'[t] = "executed" /\ UNCHANGED <<poisoned, snapshot>>
      BY <2>4, Moved DEF Execute
    <3>4. state' = IF t = Quit THEN snapshot' ELSE Append(snapshot', t)
      BY <1>0, <2>4, <3>3 DEF Execute, Worked, Ahead
    <3> QED
      BY <1>0, <3>1, <3>2, <3>3, <3>4 DEF Ahead, Showing, Error
  <2>5. CASE Panic(t)
    BY <2>0, <2>5, Moved DEF Panic, Ahead, Holding
  <2>6. CASE Publish(t)
    BY <1>0, <2>0, <2>6, Moved DEF Publish, Ahead, Holding
  <2> QED
    BY <1>1, <2>1, <2>2, <2>3, <2>4, <2>5, <2>6 DEF Task
<1>2. ASSUME NEW c \in Calls, Arrive(c) \/ Call(c) PROVE Ahead'
  BY <1>0, <1>2, CallMoves, AheadKept
<1>3. CASE Signal
  BY <1>0, <1>3, Moved, TaskFacts, AheadKept DEF Signal, dataVars
<1>4. CASE Leave \/ Kill \/ UNCHANGED vars
  BY <1>0, <1>4, ProcessMoves, AheadKept
<1> QED
  BY <1>1, <1>2, <1>3, <1>4 DEF Next

\* What a publication adds to the list.
LEMMA PublishAdds ==
    ASSUME TypeOK, ListOfWholeOperations, NEW t \in Tasks, Publish(t)
    PROVE  /\ snapshot' = IF t = Quit THEN snapshot ELSE Append(snapshot, t)
           /\ stage[t] = "executed" /\ stage'[t] = "finished"
           /\ answer[t] \in {Showing(snapshot'), Error} /\ UNCHANGED answer
           /\ t # Quit => t \in Calls /\ Kind[t] = "change" /\ t \notin Elements(snapshot)
<1>1. stage[t] = "executed" /\ stage'[t] = "finished" /\ UNCHANGED answer
  BY Moved DEF Publish
<1>2. t \in Mutating
  BY <1>1 DEF ListOfWholeOperations, Holding
<1>3. snapshot' = state
  BY DEF Publish
<1>4. /\ state = IF t = Quit THEN snapshot ELSE Append(snapshot, t)
      /\ answer[t] \in {Showing(state), Error}
      /\ t \in Calls => t \notin Elements(snapshot)
  BY <1>1 DEF ListOfWholeOperations, Served
<1> QED
  BY <1>1, <1>2, <1>3, <1>4, TaskFacts DEF Showing, Error

\* A call is in the list once it is served, not before.
LEMMA StepEachDone ==
    ASSUME TypeOK, ListOfWholeOperations, [Next]_vars
    PROVE  EachDone'
<1>0. EachDone /\ Calls \subseteq Tasks
  BY TaskFacts DEF ListOfWholeOperations, EachDone
<1>1. ASSUME NEW t \in Tasks, Task(t) PROVE EachDone'
  <2>1. CASE Publish(t)
    <3>1. \A c \in Calls : c \in Elements(snapshot') => c \in Elements(snapshot) \/ c = t
      <4>1. CASE t = Quit
        BY <2>1, <4>1, PublishAdds
      <4>2. CASE t # Quit
        <5>1. t \in Calls /\ snapshot \in Seq(Calls) /\ snapshot' = Append(snapshot, t)
          BY <2>1, <4>2, PublishAdds DEF TypeOK
        <5> QED
          BY <5>1, AppendElements
      <4> QED
        BY <4>1, <4>2
    <3> QED
      BY <1>0, <2>1, <3>1, PublishAdds, Moved DEF EachDone, Served, Publish, Elements
  <2>2. ASSUME ~Publish(t) PROVE EachDone'
    <3>1. UNCHANGED snapshot
      BY <1>1, <2>2 DEF Task, Enter, Submit, Lock, LockPoisoned, Execute, Panic, Return, dataVars
    <3>2. stage[t] \in Served => stage'[t] \in Served
      BY <1>1, <2>2, Moved
         DEF Task, Enter, Submit, Lock, LockPoisoned, Execute, Panic, Return, Served
    <3>3. SUFFICES ASSUME NEW c \in Calls, c \in Elements(snapshot)
                   PROVE  stage'[c] \in Served \cup {"answered"}
      BY <3>1 DEF EachDone, Elements
    <3>4. stage[c] \in Served \cup {"answered"} /\ c \in Tasks
      BY <1>0, <3>3 DEF EachDone
    <3> QED
      BY <1>1, <3>2, <3>4, TaskMoves
  <2> QED
    BY <2>1, <2>2
<1>2. ASSUME NEW c \in Calls, Arrive(c) \/ Call(c) PROVE EachDone'
  BY <1>0, <1>2, CallMoves DEF EachDone, Served, Elements
<1>3. CASE Signal
  BY <1>0, <1>3, Moved, TaskFacts DEF Signal, EachDone, Elements, dataVars
<1>4. CASE Leave \/ Kill \/ UNCHANGED vars
  BY <1>0, <1>4, ProcessMoves DEF EachDone, Elements
<1> QED
  BY <1>1, <1>2, <1>3, <1>4 DEF Next

\* The inductive invariant.
ServiceInv == TypeOK /\ ListOfWholeOperations

\* It holds when the service starts,
LEMMA InitInv == Init => ServiceInv
<1> SUFFICES ASSUME Init PROVE ServiceInv
  OBVIOUS
<1>0. <<>> \in Seq(Tasks) /\ <<>> \in Seq(Calls)
  OBVIOUS
<1>1. TypeOK
  BY <1>0, AnswerFacts DEF Init, TypeOK, Stages
<1>2. Elements(snapshot) = {}
  BY DEF Init, Elements
<1>3. ListOfWholeOperations
  BY <1>2, TaskFacts DEF Init, ListOfWholeOperations, OneAtATime, Holding
<1> QED
  BY <1>1, <1>3 DEF ServiceInv

\* and every step keeps it.
LEMMA StepInv == ServiceInv /\ [Next]_vars => ServiceInv'
<1> SUFFICES ASSUME TypeOK, ListOfWholeOperations, [Next]_vars PROVE ServiceInv'
  BY DEF ServiceInv
<1>1. TypeOK'
  BY StepType DEF ListOfWholeOperations
<1>2. OneAtATime' /\ Gated'
  BY StepGate
<1>3. Ahead' /\ EachDone' /\ LostStay'
  BY StepAhead, StepEachDone, StepLost
<1>4. ListOfWholeOperations' <=> OneAtATime' /\ Ahead' /\ EachDone' /\ Gated' /\ LostStay'
  BY DEF ListOfWholeOperations, Ahead, EachDone, LostStay, Gated
<1> QED
  BY <1>1, <1>2, <1>3, <1>4 DEF ServiceInv

\* Every variable keeps its type.
THEOREM ServiceTypeCorrect == Spec => []TypeOK
<1>1. Spec => []ServiceInv
  BY InitInv, StepInv, PTL DEF Spec
<1> QED
  BY <1>1, PTL DEF ServiceInv

\* The published list is a list of whole operations, one at a time and each of
\* them once, whatever fails, panics or is cut off.
THEOREM WholeOperations == Spec => []ListOfWholeOperations
<1>1. Spec => []ServiceInv
  BY InitInv, StepInv, PTL DEF Spec
<1> QED
  BY <1>1, PTL DEF ServiceInv

\* A poisoned mutex stops every later mutation: neither the state nor the list
\* changes once an operation has panicked.
THEOREM NothingLater == Spec => NothingAfterPanic
<1>1. Spec => []ServiceInv
  BY InitInv, StepInv, PTL DEF Spec
<1>2. ASSUME ServiceInv, [Next]_vars PROVE [poisoned => UNCHANGED <<state, snapshot>>]_vars
  <2>1. ASSUME NEW t \in Tasks, Task(t), poisoned PROVE UNCHANGED <<state, snapshot>>
    <3>1. stage[t] \notin {"running", "executed"}
      BY <1>2, <2>1 DEF ServiceInv, ListOfWholeOperations
    <3> QED
      BY <2>1, <3>1 DEF Task, Enter, Submit, Lock, LockPoisoned, Execute, Panic, Publish,
                        Return, Move, dataVars
  <2>2. ASSUME NEW c \in Calls, Arrive(c) \/ Call(c) PROVE UNCHANGED <<state, snapshot>>
    BY <2>2 DEF Call, Arrive, ListDisplays, Reject, Deliver, dataVars
  <2>3. CASE Signal \/ Leave \/ Kill
    BY <2>3 DEF Signal, Leave, Kill, DropConnection, DropRuntime, Exit, dataVars
  <2> QED
    BY <1>2, <2>1, <2>2, <2>3 DEF Next
<1> QED
  BY <1>1, <1>2, PTL DEF Spec, NothingAfterPanic

-----------------------------------------------------------------------------
(* The service its clients see                                             *)

\* What clients see of a task they do not see move.
LEMMA Unseen ==
    ASSUME TypeOK, NEW t \in Tasks, UNCHANGED lost,
           \A u \in Tasks \ {t} : stage'[u] = stage[u] /\ answer'[u] = answer[u],
           \/ t \notin Calls \/ t \in lost
           \/ stage[t] \in Inside /\ stage'[t] \in Inside
           \/ stage[t] \in Served /\ stage'[t] \in Served /\ answer'[t] = answer[t]
    PROVE  UNCHANGED <<Status, Heard>>
<1>1. SUFFICES ASSUME NEW c \in Calls
               PROVE  StatusOf(c)' = StatusOf(c) /\ AnswerOf(c)' = AnswerOf(c)
  BY DEF Status, Heard
<1>2. CASE c # t
  <2>1. stage'[c] = stage[c] /\ answer'[c] = answer[c]
    BY <1>2, TaskFacts
  <2> QED
    BY <2>1 DEF StatusOf, AnswerOf
<1>3. CASE c = t
  BY <1>3 DEF StatusOf, AnswerOf, Inside, Served
<1> QED
  BY <1>2, <1>3

\* What they see of one they do.
LEMMA Seen ==
    ASSUME TypeOK, NEW c \in Calls, UNCHANGED lost,
           \A u \in Tasks \ {c} : stage'[u] = stage[u] /\ answer'[u] = answer[u]
    PROVE  /\ Status' = [Status EXCEPT ![c] = StatusOf(c)']
           /\ Heard' = [Heard EXCEPT ![c] = AnswerOf(c)']
           /\ Status[c] = StatusOf(c) /\ Heard[c] = AnswerOf(c)
<1>1. ASSUME NEW d \in Calls \ {c}
      PROVE  StatusOf(d)' = StatusOf(d) /\ AnswerOf(d)' = AnswerOf(d)
  <2>1. stage'[d] = stage[d] /\ answer'[d] = answer[d]
    BY TaskFacts
  <2> QED
    BY <2>1 DEF StatusOf, AnswerOf
<1> QED
  BY <1>1 DEF Status, Heard

\* All that a publication can be to a client: its change, or a late one.
LEMMA PublishRefines ==
    ASSUME TypeOK, ListOfWholeOperations, NEW t \in Tasks, Publish(t)
    PROVE  \/ UNCHANGED <<snapshot, Status, Heard>>
           \/ t \in Calls /\ (Service!Change(t) \/ Service!LateChange(t))
<1>1. /\ UNCHANGED <<lost, answer>>
      /\ \A u \in Tasks \ {t} : stage'[u] = stage[u]
  BY Moved DEF Publish, processVars
<1>2. CASE t = Quit
  BY <1>1, <1>2, PublishAdds, Unseen, TaskFacts
<1>3. CASE t # Quit /\ t \in lost
  <2>1. UNCHANGED <<Status, Heard>>
    BY <1>1, <1>3, Unseen
  <2>2. Status[t] = "lost" /\ t \in Calls
    BY <1>3, PublishAdds DEF Status, StatusOf
  <2>3. t \notin Service!Elements(snapshot)
    BY <1>3, PublishAdds DEF Service!Elements, Elements
  <2> QED
    BY <1>3, <2>1, <2>2, <2>3, PublishAdds DEF Service!LateChange
<1>4. CASE t # Quit /\ t \notin lost
  <2>1. t \in Calls /\ Kind[t] = "change" /\ t \notin Service!Elements(snapshot)
    BY <1>4, PublishAdds DEF Service!Elements, Elements
  <2>2. StatusOf(t) = "open" /\ StatusOf(t)' = "served" /\ AnswerOf(t)' = answer[t]
    BY <1>1, <1>4, PublishAdds DEF StatusOf, AnswerOf, Inside, Served
  <2>3. /\ Status[t] = "open" /\ Status' = [Status EXCEPT ![t] = "served"]
        /\ Heard' = [Heard EXCEPT ![t] = answer[t]]
    BY <1>1, <2>1, <2>2, Seen
  <2>4. answer[t] \in {Service!Showing(snapshot'), Service!Error}
    BY PublishAdds DEF Service!Showing, Service!Error, Showing, Error
  <2> QED
    BY <1>4, <2>1, <2>3, <2>4, PublishAdds DEF Service!Change, Service!Move
<1> QED
  BY <1>2, <1>3, <1>4

\* An operation that never is published is refused, or its caller is lost.
LEMMA RefusalRefines ==
    ASSUME TypeOK, ListOfWholeOperations, NEW t \in Tasks, LockPoisoned(t) \/ Panic(t)
    PROVE  /\ UNCHANGED snapshot
           /\ \/ UNCHANGED <<Status, Heard>>
              \/ t \in Calls /\ Service!Refuse(t)
<1>1. /\ UNCHANGED <<lost, snapshot>> /\ answer' = [answer EXCEPT ![t] = Error]
      /\ \A u \in Tasks \ {t} : stage'[u] = stage[u]
      /\ stage[t] \in {"submitted", "running"} /\ stage'[t] = "finished"
  BY Moved DEF LockPoisoned, Panic, Reply, dataVars, processVars
<1>2. answer'[t] = Error /\ \A u \in Tasks \ {t} : answer'[u] = answer[u]
  BY <1>1 DEF TypeOK
<1>3. CASE t \notin Calls \/ t \in lost
  BY <1>1, <1>2, <1>3, Unseen
<1>4. CASE t \in Calls /\ t \notin lost
  <2>1. Kind[t] # "list"
    BY <1>1, <1>4, TaskFacts DEF ListOfWholeOperations, Holding
  <2>2. StatusOf(t) = "open" /\ StatusOf(t)' = "served" /\ AnswerOf(t)' = Error
    BY <1>1, <1>2, <1>4 DEF StatusOf, AnswerOf, Inside, Served
  <2>3. /\ Status[t] = "open" /\ Status' = [Status EXCEPT ![t] = "served"]
        /\ Heard' = [Heard EXCEPT ![t] = Service!Error]
    BY <1>1, <1>2, <1>4, <2>2, Seen DEF Service!Error, Error
  <2> QED
    BY <1>1, <1>4, <2>1, <2>3 DEF Service!Refuse, Service!Move
<1> QED
  BY <1>1, <1>3, <1>4

\* A call beside the gate.
LEMMA CallRefines ==
    ASSUME TypeOK, ListOfWholeOperations, NEW c \in Calls, Arrive(c) \/ Call(c)
    PROVE  \/ UNCHANGED <<snapshot, Status, Heard>>
           \/ Service!Open(c) \/ Service!ListDisplays(c) \/ Service!Refuse(c) \/ Service!Close(c)
<1>0. /\ c \in Tasks /\ UNCHANGED <<snapshot, lost>>
      /\ \A u \in Tasks \ {c} : stage'[u] = stage[u] /\ answer'[u] = answer[u]
  BY CallMoves, TaskFacts
<1>1. CASE c \in lost
  BY <1>0, <1>1, Unseen
<1>2. CASE c \notin lost /\ Arrive(c)
  <2>1. stage[c] = "new" /\ stage'[c] = "sent" /\ UNCHANGED answer
    BY <1>0, <1>2, Moved DEF Arrive
  <2>2. StatusOf(c) = "idle" /\ StatusOf(c)' = "open" /\ AnswerOf(c)' = AnswerOf(c)
    BY <1>0, <1>2, <2>1 DEF StatusOf, AnswerOf, Inside, Served
  <2>3. Status[c] = "idle" /\ Status' = [Status EXCEPT ![c] = "open"] /\ Heard' = Heard
    BY <1>0, <2>2, Seen DEF Heard
  <2> QED
    BY <1>0, <2>3 DEF Service!Open, Service!Move
<1>3. CASE c \notin lost /\ (ListDisplays(c) \/ Reject(c))
  <2> DEFINE a == IF ListDisplays(c) THEN Showing(snapshot) ELSE Error
  <2>1. stage[c] = "sent" /\ stage'[c] = "replied" /\ answer'[c] = a
    BY <1>0, <1>3, Moved DEF ListDisplays, Reject, Reply, TypeOK
  <2>2. StatusOf(c) = "open" /\ StatusOf(c)' = "served" /\ AnswerOf(c)' = a
    BY <1>0, <1>3, <2>1 DEF StatusOf, AnswerOf, Inside, Served
  <2>3. /\ Status[c] = "open" /\ Status' = [Status EXCEPT ![c] = "served"]
        /\ Heard' = [Heard EXCEPT ![c] = a]
    BY <1>0, <2>2, Seen
  <2>4. CASE ListDisplays(c)
    BY <1>0, <2>3, <2>4
       DEF ListDisplays, Service!ListDisplays, Service!Move, Service!Showing, Showing
  <2>5. CASE ~ListDisplays(c)
    BY <1>0, <1>3, <2>3, <2>5 DEF Reject, Service!Refuse, Service!Move, Service!Error, Error
  <2> QED
    BY <2>4, <2>5
<1>4. CASE c \notin lost /\ Deliver(c)
  <2>1. stage[c] = "replied" /\ stage'[c] = "answered" /\ UNCHANGED answer
    BY <1>0, <1>4, Moved DEF Deliver
  <2>2. StatusOf(c) = "served" /\ StatusOf(c)' = "closed" /\ AnswerOf(c)' = AnswerOf(c)
    BY <1>0, <1>4, <2>1 DEF StatusOf, AnswerOf, Inside, Served
  <2>3. Status[c] = "served" /\ Status' = [Status EXCEPT ![c] = "closed"] /\ Heard' = Heard
    BY <1>0, <2>2, Seen DEF Heard
  <2> QED
    BY <1>0, <2>3 DEF Service!Close, Service!Move
<1> QED
  BY <1>1, <1>2, <1>3, <1>4 DEF Call

\* The end of the process takes the answers of all calls in flight.
LEMMA EndRefines ==
    ASSUME TypeOK, ListOfWholeOperations, Leave \/ Kill
    PROVE  UNCHANGED snapshot /\ (UNCHANGED <<Status, Heard>> \/ \E S \in SUBSET Calls : Service!Lose(S))
<1>1. UNCHANGED <<stage, snapshot, answer>>
  BY ProcessMoves
<1>2. UNCHANGED lost \/ lost' = InFlightCalls
  BY DEF Leave, Kill, DropConnection, DropRuntime, Exit
<1>3. CASE UNCHANGED lost
  BY <1>1, <1>3 DEF Status, Heard, StatusOf, AnswerOf
<1>4. CASE lost' = InFlightCalls
  <2> DEFINE S == InFlightCalls \ lost
  <2>1. S \subseteq Calls /\ lost \subseteq lost' /\ lost' = lost \cup S
    BY <1>4 DEF InFlightCalls, ListOfWholeOperations, TypeOK
  <2>2. \A c \in S : StatusOf(c) \in {"open", "served"}
    BY <2>1, TaskFacts
       DEF TypeOK, Stages, StatusOf, InFlightCalls, InFlight, Inside, Served
  <2>3. \A c \in Calls : StatusOf(c)' = IF c \in S THEN "lost" ELSE StatusOf(c)
    BY <1>1, <2>1 DEF StatusOf
  <2>4. \A c \in Calls : AnswerOf(c)' = IF c \in S THEN NoAnswer ELSE AnswerOf(c)
    BY <1>1, <2>1 DEF AnswerOf
  <2>5. Status' = [c \in Calls |-> IF c \in S THEN "lost" ELSE Status[c]]
    BY <2>3 DEF Status
  <2>6. Heard' = [c \in Calls |-> IF c \in S THEN Service!NoAnswer ELSE Heard[c]]
    BY <2>4 DEF Heard, NoAnswer, Service!NoAnswer
  <2>7. \A c \in S : Status[c] \in {"open", "served"}
    BY <2>1, <2>2 DEF Status
  <2>8. Service!Lose(S)
    BY <1>1, <2>5, <2>6, <2>7 DEF Service!Lose
  <2> QED
    BY <1>1, <2>1, <2>8
<1> QED
  BY <1>1, <1>2, <1>3, <1>4

\* Every step of the daemon is a step of the service it promises, or none.
LEMMA StepRefines ==
    ASSUME ServiceInv, [Next]_vars
    PROVE  [Service!ServiceNext]_(Service!serviceVars)
<1> USE DEF Service!ServiceNext, Service!serviceVars
<1>0. TypeOK /\ ListOfWholeOperations
  BY DEF ServiceInv
<1>1. ASSUME NEW t \in Tasks, Task(t)
      PROVE  [Service!ServiceNext]_(Service!serviceVars)
  <2>1. CASE Publish(t)
    BY <1>0, <2>1, PublishRefines
  <2>2. CASE LockPoisoned(t) \/ Panic(t)
    BY <1>0, <2>2, RefusalRefines
  <2>3. CASE Enter(t) \/ Submit(t) \/ Lock(t) \/ Execute(t)
    <3>1. /\ UNCHANGED <<snapshot, lost>>
          /\ stage[t] \in Inside /\ stage'[t] \in Inside
          /\ \A u \in Tasks \ {t} : stage'[u] = stage[u]
      BY <1>0, <2>3, Moved
         DEF Enter, Submit, Lock, Execute, Inside, dataVars, processVars
    <3>2. \A u \in Tasks \ {t} : answer'[u] = answer[u]
      BY <1>0, <2>3 DEF Enter, Submit, Lock, Execute, Reply, TypeOK
    <3> QED
      BY <1>0, <3>1, <3>2, Unseen
  <2>4. CASE Return(t)
    <3>1. /\ UNCHANGED <<snapshot, lost, answer>>
          /\ stage[t] \in Served /\ stage'[t] \in Served
          /\ \A u \in Tasks \ {t} : stage'[u] = stage[u]
      BY <1>0, <2>4, Moved DEF Return, Served, dataVars, processVars
    <3> QED
      BY <1>0, <3>1, Unseen
  <2> QED
    BY <1>1, <2>1, <2>2, <2>3, <2>4 DEF Task
<1>2. ASSUME NEW c \in Calls, Arrive(c) \/ Call(c)
      PROVE  [Service!ServiceNext]_(Service!serviceVars)
  BY <1>0, <1>2, CallRefines
<1>3. CASE Signal
  <2>1. /\ UNCHANGED <<snapshot, lost, answer>>
        /\ \A u \in Tasks \ {Quit} : stage'[u] = stage[u]
    BY <1>0, <1>3, Moved, TaskFacts DEF Signal, dataVars
  <2> QED
    BY <1>0, <2>1, Unseen, TaskFacts
<1>4. CASE Leave \/ Kill
  BY <1>0, <1>4, EndRefines
<1>5. CASE UNCHANGED vars
  BY <1>5 DEF vars, Status, Heard, StatusOf, AnswerOf
<1> QED
  BY <1>1, <1>2, <1>3, <1>4, <1>5 DEF Next

\* The service starts with no call made and no change.
LEMMA InitRefines == Init => Service!ServiceInit
<1> SUFFICES ASSUME Init PROVE Service!ServiceInit
  OBVIOUS
<1>1. ASSUME NEW c \in Calls PROVE StatusOf(c) = "idle" /\ AnswerOf(c) = NoAnswer
  <2>1. stage[c] = "new" /\ c \notin lost
    BY TaskFacts DEF Init
  <2> QED
    BY <2>1 DEF StatusOf, AnswerOf, Served
<1> QED
  BY <1>1 DEF Init, Status, Heard, Service!ServiceInit, Service!NoAnswer, NoAnswer

\* Every call takes effect at one moment between its sending and its answer,
\* for any number of calls, with panics, shutdown and kill at any moment.
THEOREM ServiceRefines == Spec => ImplementsDisplayService
<1>1. Spec => []ServiceInv
  BY InitInv, StepInv, PTL DEF Spec
<1>2. ServiceInv /\ [Next]_vars => [Service!ServiceNext]_(Service!serviceVars)
  BY StepRefines
<1> QED
  BY <1>1, <1>2, InitRefines, PTL DEF Spec, ImplementsDisplayService, Service!ServiceSpec
=============================================================================
