----------------------------- MODULE AppletProofs -----------------------------
(***************************************************************************)
(* The applet's types, its marks of what is under way, and what its        *)
(* sliders show, for any number of displays and sliders and any size of    *)
(* the channel.                                                            *)
(***************************************************************************)
EXTENDS Applet, WellFoundedInduction, TLAPS

EventType == [type : {"snapshot", "updated", "failed"},
              request : Requests, infos : [Displays -> Infos]]

\* Records and requests in the form the proofs use.
LEMMA DataFacts ==
    /\ Ids \subseteq Nat /\ 0 \in Ids
    /\ \A id \in Ids, t \in Displays \cup {All} : Request(id, t) \in Requests
    /\ \A r \in Requests : r.id \in Ids /\ r.target \in Displays \cup {All}
    /\ \A key \in Keys : key[1] \in Displays
    /\ All \notin Displays
    /\ NoWrite \in [id : Ids, wait : 0 .. Debounce] /\ NoWrite.id = 0
    /\ \A e \in EventType : e.request \in Requests /\ e.infos \in [Displays -> Infos]
    /\ \A t \in {"snapshot", "updated", "failed"}, r \in Requests,
          i \in [Displays -> Infos] : Event(t, r, i) \in EventType
BY AppletAssumption DEF Ids, Requests, Request, Keys, NoWrite, EventType, Event

\* A draft made of an answer.
LEMMA DraftFacts ==
    LET DraftType == [known : BOOLEAN, shown : Ids, latest : Ids, error : BOOLEAN] IN
    /\ NoDraft \in DraftType
    /\ \A i \in Infos, id \in Ids : Draft(i.version, id, i.error) \in DraftType
BY AppletAssumption DEF NoDraft, Draft, Infos, Ids

\* The first element of a queue and the rest of it.
LEMMA HeadTail ==
    ASSUME NEW S, NEW s \in Seq(S), s # <<>>
    PROVE  /\ Head(s) \in S /\ Head(s) = s[1]
           /\ Tail(s) \in Seq(S) /\ Len(Tail(s)) = Len(s) - 1 /\ Len(s) \in Nat \ {0}
           /\ \A i \in 1 .. Len(Tail(s)) : Tail(s)[i] = s[i + 1]
OBVIOUS

\* A set of numbers has a least one.
LEMMA Smallest ==
    ASSUME NEW T, T \subseteq Nat, T # {}
    PROVE  \E x \in T : \A y \in T : x <= y
<1>1. PICK x \in T : \A y \in T : ~ (<<y, x>> \in OpToRel(<, Nat))
  BY NatLessThanWellFounded, WFMin
<1>2. \A y \in T : ~ (y < x)
  BY <1>1 DEF OpToRel
<1> QED
  BY <1>2

\* The first write that is due is one, and none that is due is older.
LEMMA FirstDue ==
    ASSUME TypeOK, due # {}
    PROVE  /\ NextDue \in due /\ NextDue \in Keys
           /\ \A other \in due : pending[NextDue].id <= pending[other].id
<1> DEFINE T == {pending[key].id : key \in due}
<1>1. due \subseteq Keys /\ \A key \in Keys : pending[key].id \in Nat
  BY DataFacts DEF TypeOK
<1>2. PICK x \in T : \A y \in T : x <= y
  <2>1. T \subseteq Nat /\ T # {}
    BY <1>1
  <2> QED
    BY <2>1, Smallest
<1>3. PICK key \in due : pending[key].id = x
  BY <1>2
<1>4. \A other \in due : pending[key].id <= pending[other].id
  BY <1>2, <1>3
<1> QED
  BY <1>1, <1>4 DEF NextDue

\* What the handler of an event leaves alone, and the types of the rest.
LEMMA EventKeepsType ==
    ASSUME TypeOK, NEW e \in EventType,
           Snapshot(e) \/ (e.type = "updated" /\ DisplayUpdated(e)) \/ Failed(e)
    PROVE  /\ drafts' \in [Displays -> [known : BOOLEAN, shown : Ids, latest : Ids, error : BOOLEAN]]
           /\ inFlight' \subseteq Requests
           /\ refreshId' \in Ids /\ loading' \in BOOLEAN
<1>1. e.request.id \in Ids /\ \A d \in Displays : e.infos[d] \in Infos
  BY DataFacts
<1>2. \A d \in Displays : Sync(d, e.infos[d], e.request.id) \in
          [known : BOOLEAN, shown : Ids, latest : Ids, error : BOOLEAN]
  BY <1>1, DraftFacts DEF Sync, TypeOK
<1>3. RefreshAfter(e.request) \in Ids
  BY DataFacts DEF RefreshAfter, TypeOK
<1>4. CASE Snapshot(e)
  BY <1>2, <1>3, <1>4, DraftFacts DEF Snapshot, TypeOK
<1>5. CASE DisplayUpdated(e)
  BY <1>2, <1>3, <1>5 DEF DisplayUpdated, TypeOK
<1>6. CASE Failed(e)
  BY <1>3, <1>6 DEF Failed, WithError, TypeOK
<1> QED
  BY <1>4, <1>5, <1>6

\* Every step keeps every variable in its type.
LEMMA StepType ==
    ASSUME TypeOK, [Next]_vars
    PROVE  TypeOK'
<1> USE DEF draftVars, sendVars, flagVars, workerVars, uiVars
<1>1. CASE Close
  BY <1>1 DEF Close, TypeOK, IsPending
<1>2. CASE TakeEvent
  <2>1. Head(events) \in EventType /\ Tail(events) \in Seq(EventType)
    BY <1>2, HeadTail DEF TakeEvent, TypeOK, EventType
  <2>2. /\ drafts' \in [Displays -> [known : BOOLEAN, shown : Ids, latest : Ids, error : BOOLEAN]]
        /\ inFlight' \subseteq Requests
        /\ refreshId' \in Ids /\ loading' \in BOOLEAN
    BY <1>2, <2>1, EventKeepsType DEF TakeEvent, EventType
  <2> QED
    BY <1>2, <2>1, <2>2 DEF TakeEvent, TypeOK, IsPending, EventType
<1>3. CASE DrainEnds
  BY <1>3 DEF DrainEnds, TypeOK, IsPending
<1>4. CASE NoticeWorkerGone
  BY <1>4, DataFacts DEF NoticeWorkerGone, TypeOK, IsPending
<1>5. CASE SendDue
  <2> DEFINE r == Request(pending[NextDue].id, NextDue[1])
  <2>1. NextDue \in Keys
    BY <1>5, FirstDue DEF SendDue
  <2>2. r \in Requests
    BY <2>1, DataFacts DEF TypeOK
  <2>3. channel' = Append(channel, r) /\ inFlight' = inFlight \cup {r}
    BY <1>5 DEF SendDue
  <2>4. channel' \in Seq(Requests) /\ Len(channel') <= Capacity
    BY <1>5, <2>2, <2>3, AppletAssumption DEF SendDue, HasRoom, TypeOK
  <2>5. /\ pending' \in [Keys -> [id : Ids, wait : 0 .. Debounce]]
        /\ due' \subseteq {key \in Keys : IsPending(key)'}
    BY <1>5, DataFacts DEF SendDue, TypeOK, IsPending
  <2> QED
    BY <1>5, <2>2, <2>3, <2>4, <2>5 DEF SendDue, TypeOK
<1>6. CASE ChannelFull
  <2>1. NextDue \in Keys /\ Retry \in 0 .. Debounce
    BY <1>6, FirstDue, AppletAssumption DEF ChannelFull
  <2>2. pending' \in [Keys -> [id : Ids, wait : 0 .. Debounce]]
    BY <1>6, <2>1 DEF ChannelFull, TypeOK
  <2>3. due' = {} /\ putBack' \subseteq Displays
    BY <1>6, <2>1, DataFacts DEF ChannelFull, TypeOK
  <2> QED
    BY <1>6, <2>2, <2>3 DEF ChannelFull, TypeOK
<1>7. CASE SendDisconnected
  BY <1>7, DataFacts DEF SendDisconnected, TypeOK, IsPending
<1>8. CASE FlushEnds \/ NoInput
  BY <1>8 DEF FlushEnds, NoInput, TypeOK, IsPending
<1>9. ASSUME NEW d \in Displays, NEW kind \in WriteKinds, Slide(d, kind)
      PROVE  TypeOK'
  <2>1. nextId \in Ids \ {0} /\ nextId' \in 1 .. MaxRequests + 1
    BY <1>9, AppletAssumption DEF Slide, TypeOK, Ids
  <2>2. Queued(d, kind) \in [Keys -> [id : Ids, wait : 0 .. Debounce]]
    <3>1. 0 \in 0 .. Debounce /\ Debounce \in 0 .. Debounce
      BY AppletAssumption
    <3>2. \A key \in Keys : /\ [pending[key] EXCEPT !.wait = 0] \in [id : Ids, wait : 0 .. Debounce]
                            /\ pending[key] \in [id : Ids, wait : 0 .. Debounce]
      BY <3>1 DEF TypeOK
    <3> QED
      BY <2>1, <3>1, <3>2 DEF Queued
  <2>3. \A key \in Keys : IsPending(key) => IsPending(key)'
    BY <1>9, <2>1 DEF Slide, Queued, IsPending, Ids, TypeOK
  <2> QED
    BY <1>9, <2>1, <2>2, <2>3 DEF Slide, TypeOK
<1>10. CASE ClickRefresh
  <2>1. nextId \in Ids /\ nextId' \in 1 .. MaxRequests + 1
    BY <1>10, AppletAssumption DEF ClickRefresh, TypeOK, Ids
  <2>2. /\ channel' \in Seq(Requests) /\ Len(channel') <= Capacity
        /\ refreshId' \in Ids
    <3>1. Request(nextId, All) \in Requests
      BY <2>1, DataFacts
    <3>2. channel \in Seq(Requests) /\ Len(channel) <= Capacity /\ refreshId \in Ids
      BY DEF TypeOK
    <3>3. CASE worker # "gone" /\ HasRoom
      <4>1. channel' = Append(channel, Request(nextId, All)) /\ refreshId' = nextId
        BY <1>10, <3>3 DEF ClickRefresh
      <4> QED
        BY <2>1, <3>1, <3>2, <3>3, <4>1, AppletAssumption DEF HasRoom
    <3>4. CASE ~(worker # "gone" /\ HasRoom)
      BY <1>10, <3>2, <3>4 DEF ClickRefresh
    <3> QED
      BY <3>3, <3>4
  <2> QED
    BY <1>10, <2>1, <2>2 DEF ClickRefresh, TypeOK, IsPending
<1>11. CASE Tick
  <2>1. pending' \in [Keys -> [id : Ids, wait : 0 .. Debounce]]
    BY <1>11, AppletAssumption DEF Tick, TypeOK
  <2>2. \A key \in Keys : IsPending(key) => IsPending(key)'
    BY <1>11 DEF Tick, TypeOK, IsPending
  <2> QED
    BY <1>11, <2>1, <2>2 DEF Tick, TypeOK
<1>12. CASE Work
  <2>1. CASE WorkerStarts
    BY <1>12, <2>1, DataFacts DEF WorkerStarts, TypeOK, IsPending
  <2>2. CASE TakeCommand
    <3>1. /\ channel \in Seq(Requests) /\ channel # <<>> /\ Len(channel) <= Capacity
          /\ call' = Head(channel) /\ channel' = Tail(channel)
      BY <2>2 DEF TakeCommand, TypeOK
    <3>2. call' \in Requests /\ channel' \in Seq(Requests) /\ Len(channel') <= Capacity
      BY <3>1, HeadTail, AppletAssumption
    <3> QED
      BY <2>2, <3>2 DEF TakeCommand, TypeOK, IsPending
  <2>3. ASSUME NEW type \in {"snapshot", "updated", "failed"}, Answered(type),
               daemon' \in [Displays -> Infos]
        PROVE  TypeOK'
    <3>1. events' \in Seq(EventType)
      BY <2>3, DataFacts DEF Answered, TypeOK, EventType
    <3> QED
      BY <2>3, <3>1 DEF Answered, TypeOK, IsPending, EventType
  <2>4. CASE AnswersListing
    BY <2>3, <2>4 DEF AnswersListing, TypeOK
  <2>5. CASE \E listed, failed \in SUBSET Displays : AnswersRefresh(listed, failed)
    BY <2>3, <2>5 DEF AnswersRefresh, TypeOK, Infos
  <2>6. CASE AnswersWrite
    BY <2>3, <2>6, DataFacts DEF AnswersWrite, TypeOK, Infos
  <2>7. CASE AnswersError
    <3>1. \A version \in {daemon[call.target].version, call.id} :
             call.target \in Displays =>
                 [daemon EXCEPT ![call.target].version = version,
                                ![call.target].error = TRUE] \in [Displays -> Infos]
      BY DataFacts DEF TypeOK, Infos
    <3>2. daemon' \in [Displays -> Infos]
      BY <2>7, <3>1 DEF AnswersError, TypeOK
    <3> QED
      BY <2>3, <2>7, <3>2 DEF AnswersError
  <2> QED
    BY <1>12, <2>1, <2>2, <2>4, <2>5, <2>6, <2>7 DEF Work
<1>13. CASE Trouble
  <2>1. CASE WorkerCannotStart
    <3>1. Event("failed", Request(0, All), daemon) \in EventType
      BY DataFacts DEF TypeOK
    <3> QED
      BY <2>1, <3>1, AppletAssumption DEF WorkerCannotStart, TypeOK, IsPending, EventType
  <2>2. CASE WorkerDies
    BY <2>2, AppletAssumption DEF WorkerDies, TypeOK, IsPending
  <2> QED
    BY <1>13, <2>1, <2>2 DEF Trouble
<1>14. CASE UNCHANGED vars
  BY <1>14 DEF vars, TypeOK, IsPending
<1> QED
  BY <1>1, <1>2, <1>3, <1>4, <1>5, <1>6, <1>7, <1>8, <1>9, <1>10, <1>11, <1>12, <1>13, <1>14
     DEF Next, Frame, Input

-----------------------------------------------------------------------------
(* What is under way                                                       *)

InChannel == {channel[i] : i \in DOMAIN channel}
InEvents  == {events[i].request : i \in DOMAIN events}
InCall    == IF worker = "calling" THEN {call} ELSE {}

\* A request has one place: its id is that of no other request, pending,
\* queued, executed or answered.
Apart ==
    /\ \A k, l \in Keys : IsPending(k) /\ pending[k].id = pending[l].id => k = l
    /\ \A k \in Keys : pending[k].id < nextId
    /\ \A i, j \in DOMAIN channel : channel[i].id = channel[j].id => i = j
    /\ \A i, j \in DOMAIN events : events[i].request.id = events[j].request.id => i = j
    /\ \A r \in InChannel : r.id # 0 /\ \A q \in InEvents \cup InCall : r.id # q.id
    /\ \A r \in InEvents, q \in InCall : r.id # q.id
    /\ \A r \in Outstanding :
          r.id < nextId /\ \A k \in Keys : IsPending(k) => pending[k].id # r.id

\* An answer is of the kind its request has.
Fitting ==
    \A i \in DOMAIN events :
        /\ events[i].type = "updated" => events[i].request.target # All
        /\ events[i].type = "snapshot" => events[i].request.target = All

\* The marks: BusyIsTrue of a worker that lives.
Marked ==
    /\ inFlight = {r \in Outstanding : r.target # All}
    /\ {r.id : r \in {q \in Outstanding : q.target = All}} \ {0} = {refreshId} \ {0}

Live ==
    /\ Apart /\ Fitting /\ Marked
    /\ worker = "starting" => events = <<>>

\* The inductive invariant.
AppletInv == TypeOK /\ (worker # "gone" => Live)

\* What is outstanding is in one of three places.
LEMMA Places ==
    /\ Outstanding = InChannel \cup InEvents \cup InCall
    /\ Outstanding' = InChannel' \cup InEvents' \cup InCall'
BY DEF Outstanding, InChannel, InEvents, InCall

\* What is outstanding is a request.
LEMMA PlacesType ==
    ASSUME TypeOK
    PROVE  Outstanding \subseteq Requests
<1>1. InChannel \subseteq Requests
  BY DEF TypeOK, InChannel
<1>2. InEvents \subseteq Requests
  <2>1. events \in Seq(EventType)
    BY DEF TypeOK, EventType
  <2>2. \A i \in DOMAIN events : events[i] \in EventType
    BY <2>1
  <2> QED
    BY <2>2, DataFacts DEF InEvents
<1> QED
  BY <1>1, <1>2, Places DEF TypeOK, InCall

\* A command joins the channel.
LEMMA ChannelGrows ==
    ASSUME TypeOK, NEW r \in Requests, channel' = Append(channel, r)
    PROVE  /\ InChannel' = InChannel \cup {r}
           /\ (/\ \A q \in InChannel : q.id # r.id
               /\ \A i, j \in DOMAIN channel : channel[i].id = channel[j].id => i = j)
              => \A i, j \in DOMAIN channel' : channel'[i].id = channel'[j].id => i = j
<1>1. /\ channel \in Seq(Requests) /\ DOMAIN channel = 1 .. Len(channel) /\ Len(channel) \in Nat
      /\ DOMAIN channel' = 1 .. Len(channel) + 1
      /\ \A i \in 1 .. Len(channel) : channel'[i] = channel[i]
      /\ channel'[Len(channel) + 1] = r
  BY DEF TypeOK
<1>2. InChannel' = {channel'[i] : i \in DOMAIN channel'}
  BY DEF InChannel
<1>3. \A i \in DOMAIN channel' : i \in DOMAIN channel \/ i = Len(channel) + 1
  BY <1>1
<1>4. InChannel' = InChannel \cup {r}
  <2>1. ASSUME NEW i \in DOMAIN channel' PROVE channel'[i] \in InChannel \cup {r}
    BY <1>1, <1>3 DEF InChannel
  <2>2. ASSUME NEW i \in DOMAIN channel PROVE channel[i] \in InChannel'
    BY <1>1, <1>2
  <2>3. r \in InChannel'
    BY <1>1, <1>2
  <2> QED
    BY <1>2, <2>1, <2>2, <2>3 DEF InChannel
<1>5. ASSUME \A q \in InChannel : q.id # r.id,
             \A i, j \in DOMAIN channel : channel[i].id = channel[j].id => i = j
      PROVE  \A i, j \in DOMAIN channel' : channel'[i].id = channel'[j].id => i = j
  <2>1. \A k \in DOMAIN channel : channel[k].id # r.id
    BY <1>5 DEF InChannel
  <2> QED
    BY <1>1, <1>3, <1>5, <2>1
<1> QED
  BY <1>4, <1>5

\* The worker takes one out.
LEMMA ChannelShrinks ==
    ASSUME TypeOK, Apart, channel # <<>>, channel' = Tail(channel)
    PROVE  /\ InChannel = InChannel' \cup {Head(channel)}
           /\ \A q \in InChannel' : q.id # Head(channel).id
           /\ \A i, j \in DOMAIN channel' : channel'[i].id = channel'[j].id => i = j
<1>1. /\ DOMAIN channel = 1 .. Len(channel) /\ Len(channel) \in Nat \ {0}
      /\ DOMAIN channel' = 1 .. Len(channel) - 1
      /\ \A i \in DOMAIN channel' : channel'[i] = channel[i + 1] /\ i + 1 \in DOMAIN channel
      /\ Head(channel) = channel[1] /\ 1 \in DOMAIN channel
  BY HeadTail DEF TypeOK
<1>2. \A i \in DOMAIN channel : i = 1 \/ (i - 1 \in DOMAIN channel' /\ channel'[i - 1] = channel[i])
  BY <1>1
<1>3. InChannel' = {channel'[i] : i \in DOMAIN channel'}
  BY DEF InChannel
<1>4. \A i, j \in DOMAIN channel : channel[i].id = channel[j].id => i = j
  BY DEF Apart
<1>5. InChannel = InChannel' \cup {Head(channel)}
  <2>1. ASSUME NEW i \in DOMAIN channel PROVE channel[i] \in InChannel' \cup {Head(channel)}
    BY <1>1, <1>2, <1>3
  <2>2. ASSUME NEW i \in DOMAIN channel' PROVE channel'[i] \in InChannel
    BY <1>1 DEF InChannel
  <2>3. Head(channel) \in InChannel
    BY <1>1 DEF InChannel
  <2> QED
    BY <1>3, <2>1, <2>2, <2>3 DEF InChannel
<1>6. ASSUME NEW i \in DOMAIN channel' PROVE channel'[i].id # Head(channel).id
  <2>1. i + 1 \in DOMAIN channel /\ i + 1 # 1 /\ channel'[i] = channel[i + 1]
    BY <1>1
  <2> QED
    BY <1>1, <1>4, <2>1
<1>7. ASSUME NEW i \in DOMAIN channel', NEW j \in DOMAIN channel', channel'[i].id = channel'[j].id
      PROVE  i = j
  <2>1. i + 1 = j + 1
    BY <1>1, <1>4, <1>7
  <2> QED
    BY <1>1, <2>1
<1> QED
  BY <1>3, <1>5, <1>6, <1>7

\* An answer joins the events.
LEMMA EventsGrow ==
    ASSUME TypeOK, NEW e \in EventType, events' = Append(events, e)
    PROVE  /\ InEvents' = InEvents \cup {e.request}
           /\ (/\ \A q \in InEvents : q.id # e.request.id
               /\ \A i, j \in DOMAIN events : events[i].request.id = events[j].request.id => i = j)
              => \A i, j \in DOMAIN events' : events'[i].request.id = events'[j].request.id => i = j
           /\ (/\ Fitting
               /\ e.type = "updated" => e.request.target # All
               /\ e.type = "snapshot" => e.request.target = All)
              => Fitting'
<1>1. /\ events \in Seq(EventType) /\ DOMAIN events = 1 .. Len(events) /\ Len(events) \in Nat
      /\ DOMAIN events' = 1 .. Len(events) + 1
      /\ \A i \in 1 .. Len(events) : events'[i] = events[i]
      /\ events'[Len(events) + 1] = e
  BY DEF TypeOK, EventType
<1>2. InEvents' = {events'[i].request : i \in DOMAIN events'}
  BY DEF InEvents
<1>3. \A i \in DOMAIN events' : i \in DOMAIN events \/ i = Len(events) + 1
  BY <1>1
<1>4. InEvents' = InEvents \cup {e.request}
  <2>1. ASSUME NEW i \in DOMAIN events' PROVE events'[i].request \in InEvents \cup {e.request}
    BY <1>1, <1>3 DEF InEvents
  <2>2. ASSUME NEW i \in DOMAIN events PROVE events[i].request \in InEvents'
    BY <1>1, <1>2
  <2>3. e.request \in InEvents'
    BY <1>1, <1>2
  <2> QED
    BY <1>2, <2>1, <2>2, <2>3 DEF InEvents
<1>5. ASSUME \A q \in InEvents : q.id # e.request.id,
             \A i, j \in DOMAIN events : events[i].request.id = events[j].request.id => i = j
      PROVE  \A i, j \in DOMAIN events' : events'[i].request.id = events'[j].request.id => i = j
  <2>1. \A k \in DOMAIN events : events[k].request.id # e.request.id
    BY <1>5 DEF InEvents
  <2> QED
    BY <1>1, <1>3, <1>5, <2>1
<1>6. ASSUME Fitting,
             e.type = "updated" => e.request.target # All,
             e.type = "snapshot" => e.request.target = All
      PROVE  Fitting'
  BY <1>1, <1>3, <1>6 DEF Fitting
<1> QED
  BY <1>4, <1>5, <1>6

\* The applet takes one out.
LEMMA EventsShrink ==
    ASSUME TypeOK, Apart, Fitting, events # <<>>, events' = Tail(events)
    PROVE  /\ InEvents = InEvents' \cup {Head(events).request}
           /\ \A q \in InEvents' : q.id # Head(events).request.id
           /\ \A i, j \in DOMAIN events' : events'[i].request.id = events'[j].request.id => i = j
           /\ Fitting'
<1>1. /\ DOMAIN events = 1 .. Len(events) /\ Len(events) \in Nat \ {0}
      /\ DOMAIN events' = 1 .. Len(events) - 1
      /\ \A i \in DOMAIN events' : events'[i] = events[i + 1] /\ i + 1 \in DOMAIN events
      /\ Head(events) = events[1] /\ 1 \in DOMAIN events
  BY HeadTail DEF TypeOK
<1>2. \A i \in DOMAIN events : i = 1 \/ (i - 1 \in DOMAIN events' /\ events'[i - 1] = events[i])
  BY <1>1
<1>3. InEvents' = {events'[i].request : i \in DOMAIN events'}
  BY DEF InEvents
<1>4. \A i, j \in DOMAIN events : events[i].request.id = events[j].request.id => i = j
  BY DEF Apart
<1>5. InEvents = InEvents' \cup {Head(events).request}
  <2>1. ASSUME NEW i \in DOMAIN events PROVE events[i].request \in InEvents' \cup {Head(events).request}
    BY <1>1, <1>2, <1>3
  <2>2. ASSUME NEW i \in DOMAIN events' PROVE events'[i].request \in InEvents
    BY <1>1 DEF InEvents
  <2>3. Head(events).request \in InEvents
    BY <1>1 DEF InEvents
  <2> QED
    BY <1>3, <2>1, <2>2, <2>3 DEF InEvents
<1>6. ASSUME NEW i \in DOMAIN events' PROVE events'[i].request.id # Head(events).request.id
  <2>1. i + 1 \in DOMAIN events /\ i + 1 # 1 /\ events'[i] = events[i + 1]
    BY <1>1
  <2> QED
    BY <1>1, <1>4, <2>1
<1>7. ASSUME NEW i \in DOMAIN events', NEW j \in DOMAIN events', events'[i].request.id = events'[j].request.id
      PROVE  i = j
  <2>1. i + 1 = j + 1
    BY <1>1, <1>4, <1>7
  <2> QED
    BY <1>1, <2>1
<1>8. Fitting'
  BY <1>1 DEF Fitting
<1> QED
  BY <1>3, <1>5, <1>6, <1>7, <1>8

\* A step that moves no request.
LEMMA SameLive ==
    ASSUME Live, UNCHANGED <<channel, events, worker, call, nextId, inFlight, refreshId>>,
           \A k \in Keys : pending'[k].id = pending[k].id
    PROVE  Live'
<1>1. /\ UNCHANGED <<InChannel, InEvents, InCall, Outstanding>>
      /\ \A k \in Keys : IsPending(k)' <=> IsPending(k)
  BY DEF InChannel, InEvents, InCall, Outstanding, IsPending
<1>2. Apart'
  BY <1>1 DEF Live, Apart
<1> QED
  BY <1>1, <1>2 DEF Live, Fitting, Marked

\* The applet takes an answer.
LEMMA TakeEventLive ==
    ASSUME TypeOK, Live, TakeEvent
    PROVE  Live'
<1> DEFINE e == Head(events)
           r == e.request
<1>0. /\ events # <<>> /\ events' = Tail(events) /\ events \in Seq(EventType)
      /\ e \in EventType /\ e = events[1] /\ 1 \in DOMAIN events
      /\ UNCHANGED <<nextId, pending, channel, worker, call>>
  <2>1. events # <<>> /\ events' = Tail(events) /\ events \in Seq(EventType)
    BY DEF TakeEvent, TypeOK, EventType
  <2>2. UNCHANGED <<nextId, pending, channel, worker, call>>
    BY DEF TakeEvent, workerVars
  <2> QED
    BY <2>1, <2>2, HeadTail
<1>1. /\ InEvents = InEvents' \cup {r} /\ \A q \in InEvents' : q.id # r.id
      /\ \A i, j \in DOMAIN events' : events'[i].request.id = events'[j].request.id => i = j
      /\ Fitting'
  BY <1>0, EventsShrink DEF Live
<1>2. UNCHANGED <<InChannel, InCall>> /\ \A k \in Keys : IsPending(k)' <=> IsPending(k)
  BY <1>0 DEF InChannel, InCall, IsPending
<1>3. /\ Outstanding = Outstanding' \cup {r} /\ r \in Outstanding
      /\ \A q \in Outstanding' : q.id # r.id
  <2>1. \A q \in InChannel \cup InCall : q.id # r.id
    BY <1>1 DEF Live, Apart
  <2> QED
    BY <1>1, <1>2, <2>1, Places
<1>4. Apart'
  BY <1>0, <1>1, <1>2, <1>3 DEF Live, Apart
<1>5. r.target # All => refreshId = 0 \/ refreshId # r.id
  BY <1>3 DEF Live, Marked
<1>6. inFlight' = inFlight \ {r} /\ refreshId' = RefreshAfter(r)
  <2>1. CASE e.type = "snapshot"
    <3>1. r.target = All /\ UNCHANGED inFlight /\ refreshId' = RefreshAfter(r)
      BY <1>0, <2>1 DEF Live, Fitting, TakeEvent, Snapshot
    <3> QED
      BY <3>1 DEF Live, Marked
  <2>2. CASE e.type = "updated"
    <3>1. DisplayUpdated(e)
      BY <2>2 DEF TakeEvent
    <3>2. inFlight' = inFlight \ {r} /\ UNCHANGED refreshId
      BY <3>1 DEF DisplayUpdated
    <3>3. r.target # All
      BY <1>0, <2>2 DEF Live, Fitting
    <3> QED
      BY <1>5, <3>2, <3>3 DEF RefreshAfter
  <2>3. CASE e.type = "failed"
    BY <1>0, <2>3 DEF TakeEvent, Failed
  <2> QED
    BY <1>0, <2>1, <2>2, <2>3 DEF EventType
<1>7. Marked'
  <2>1. inFlight' = {q \in Outstanding' : q.target # All}
    BY <1>3, <1>6 DEF Live, Marked
  <2>2. CASE refreshId = r.id
    BY <1>3, <1>5, <1>6, <2>1, <2>2 DEF Live, Marked, RefreshAfter
  <2>3. CASE refreshId # r.id
    <3>1. r.target = All => r.id = 0
      BY <1>3, <2>3 DEF Live, Marked
    <3>2. refreshId' = refreshId
      BY <1>6, <2>3 DEF RefreshAfter
    <3>3. {q.id : q \in {p \in Outstanding : p.target = All}} \ {0}
            = {q.id : q \in {p \in Outstanding' : p.target = All}} \ {0}
      BY <1>3, <3>1
    <3> QED
      BY <2>1, <3>2, <3>3 DEF Live, Marked
  <2> QED
    BY <2>2, <2>3
<1> QED
  BY <1>0, <1>1, <1>4, <1>7 DEF Live

\* A write goes into the channel.
LEMMA SendDueLive ==
    ASSUME TypeOK, Live, SendDue
    PROVE  Live'
<1>a. PICK key \in Keys : key = NextDue
  BY FirstDue DEF SendDue
<1> DEFINE r == Request(pending[key].id, key[1])
<1>0. IsPending(key) /\ pending[key].id \in Ids \ {0} /\ key[1] \in Displays
  BY <1>a, FirstDue, DataFacts DEF SendDue, TypeOK, IsPending
<1>1. r \in Requests /\ r.id = pending[key].id /\ r.target # All
  BY <1>0, DataFacts DEF Request
<1>2. /\ channel' = Append(channel, r) /\ inFlight' = inFlight \cup {r}
      /\ UNCHANGED <<nextId, refreshId, events, worker, call>>
      /\ \A k \in Keys : pending'[k] = IF k = key THEN NoWrite ELSE pending[k]
  BY <1>a DEF SendDue, TypeOK, draftVars, flagVars, workerVars
<1>3. \A q \in Outstanding : q.id # r.id
  BY <1>0, <1>1 DEF Live, Apart
<1>4. UNCHANGED <<InEvents, InCall>>
  BY <1>2 DEF InEvents, InCall
<1>5. /\ InChannel' = InChannel \cup {r}
      /\ \A i, j \in DOMAIN channel' : channel'[i].id = channel'[j].id => i = j
  <2>1. \A q \in InChannel : q.id # r.id
    BY <1>3, Places
  <2>2. \A i, j \in DOMAIN channel : channel[i].id = channel[j].id => i = j
    BY DEF Live, Apart
  <2> QED
    BY <1>1, <1>2, <2>1, <2>2, ChannelGrows
<1>6. Outstanding' = Outstanding \cup {r}
  BY <1>4, <1>5, Places
<1>7. /\ ~IsPending(key)'
      /\ \A k \in Keys \ {key} : pending'[k] = pending[k] /\ (IsPending(k)' <=> IsPending(k))
  BY <1>0, <1>2, DataFacts DEF IsPending
<1>8. Apart'
  <2>1. \A k, l \in Keys : IsPending(k)' /\ pending'[k].id = pending'[l].id => k = l
    BY <1>0, <1>2, <1>7, DataFacts DEF Live, Apart, IsPending
  <2>2. \A k \in Keys : pending'[k].id < nextId'
    <3>1. 0 < nextId /\ NoWrite.id = 0 /\ nextId' = nextId
      BY <1>2, AppletAssumption DEF TypeOK, NoWrite
    <3>2. \A k \in Keys : pending[k].id < nextId
      BY DEF Live, Apart
    <3>3. \A k \in Keys : pending'[k] = NoWrite \/ pending'[k] = pending[k]
      BY <1>2
    <3> QED
      BY <3>1, <3>2, <3>3
  <2>3. \A q \in InChannel' : q.id # 0 /\ \A p \in InEvents' \cup InCall' : q.id # p.id
    BY <1>0, <1>1, <1>3, <1>4, <1>5, Places DEF Live, Apart
  <2>4. \A q \in Outstanding' :
           q.id < nextId' /\ \A k \in Keys : IsPending(k)' => pending'[k].id # q.id
    BY <1>0, <1>1, <1>2, <1>6, <1>7 DEF Live, Apart
  <2>5. /\ \A i, j \in DOMAIN events' : events'[i].request.id = events'[j].request.id => i = j
        /\ \A q \in InEvents', p \in InCall' : q.id # p.id
    BY <1>2, <1>4 DEF Live, Apart
  <2> QED
    BY <1>5, <2>1, <2>2, <2>3, <2>4, <2>5 DEF Apart
<1>9. Marked'
  BY <1>1, <1>2, <1>6 DEF Live, Marked
<1> QED
  BY <1>2, <1>8, <1>9 DEF Live, Fitting

\* The user moves a slider.
LEMMA SlideLive ==
    ASSUME TypeOK, Live, NEW d \in Displays, NEW kind \in WriteKinds, Slide(d, kind)
    PROVE  Live'
<1> DEFINE key == <<d, kind>>
<1>0. key \in Keys /\ nextId \in Nat \ {0} /\ nextId' = nextId + 1
  BY AppletAssumption DEF Slide, Keys, TypeOK
<1>1. \A k \in Keys : pending'[k].id = IF k = key THEN nextId ELSE pending[k].id
  BY DEF Slide, Queued, TypeOK
<1>2. /\ UNCHANGED <<channel, events, worker, call, inFlight, refreshId>>
      /\ UNCHANGED <<InChannel, InEvents, InCall, Outstanding>>
  BY DEF Slide, flagVars, workerVars, InChannel, InEvents, InCall, Outstanding
<1>3. /\ \A k \in Keys : pending[k].id \in Nat /\ pending[k].id < nextId
      /\ \A r \in Outstanding : r.id \in Nat /\ r.id < nextId
  BY DataFacts, PlacesType DEF Live, Apart, TypeOK
<1>4. \A k, l \in Keys : IsPending(k)' /\ pending'[k].id = pending'[l].id => k = l
  <2>1. ASSUME NEW k \in Keys, NEW l \in Keys, pending'[k].id # 0, pending'[k].id = pending'[l].id
        PROVE  k = l
    <3>1. CASE k = key \/ l = key
      BY <1>0, <1>1, <1>3, <2>1, <3>1
    <3>2. CASE k # key /\ l # key
      BY <1>1, <2>1, <3>2 DEF Live, Apart, IsPending
    <3> QED
      BY <3>1, <3>2
  <2> QED
    BY <2>1 DEF IsPending
<1>5. \A k \in Keys : pending'[k].id < nextId'
  BY <1>0, <1>1, <1>3
<1>6. ASSUME NEW r \in Outstanding
      PROVE  r.id < nextId' /\ \A k \in Keys : IsPending(k)' => pending'[k].id # r.id
  <2>1. r.id < nextId'
    BY <1>0, <1>3
  <2>2. ASSUME NEW k \in Keys, pending'[k].id # 0 PROVE pending'[k].id # r.id
    BY <1>0, <1>1, <1>3, <2>2 DEF Live, Apart, IsPending
  <2> QED
    BY <2>1, <2>2 DEF IsPending
<1>7. Apart'
  BY <1>2, <1>4, <1>5, <1>6 DEF Live, Apart
<1> QED
  BY <1>2, <1>7 DEF Live, Fitting, Marked

\* The user asks for a refresh.
LEMMA ClickLive ==
    ASSUME TypeOK, Live, worker # "gone", ClickRefresh
    PROVE  Live'
<1> DEFINE r == Request(nextId, All)
<1>0. /\ nextId \in Ids \ {0} /\ nextId' = nextId + 1 /\ nextId \in Nat /\ refreshId = 0
      /\ UNCHANGED <<pending, inFlight, events, worker, call>>
  BY AppletAssumption DEF ClickRefresh, TypeOK, Ids, sendVars, workerVars
<1>1. /\ UNCHANGED <<InEvents, InCall>> /\ \A k \in Keys : IsPending(k)' <=> IsPending(k)
  BY <1>0 DEF InEvents, InCall, IsPending
<1>2. /\ \A k \in Keys : pending[k].id \in Nat /\ pending[k].id < nextId
      /\ \A q \in Outstanding : q.id \in Nat /\ q.id < nextId
  BY DataFacts, PlacesType DEF Live, Apart, TypeOK
<1>3. CASE HasRoom
  <2>1. /\ channel' = Append(channel, r) /\ refreshId' = r.id
        /\ r \in Requests /\ r.id = nextId /\ r.target = All
    BY <1>0, <1>3, DataFacts DEF ClickRefresh, Request
  <2>2. /\ InChannel' = InChannel \cup {r}
        /\ \A i, j \in DOMAIN channel' : channel'[i].id = channel'[j].id => i = j
    <3>1. \A q \in InChannel : q.id # r.id
      BY <1>2, <2>1, Places
    <3>2. \A i, j \in DOMAIN channel : channel[i].id = channel[j].id => i = j
      BY DEF Live, Apart
    <3> QED
      BY <2>1, <3>1, <3>2, ChannelGrows
  <2>3. Outstanding' = Outstanding \cup {r}
    BY <1>1, <2>2, Places
  <2>4. Apart'
    <3>1. \A q \in InChannel' : q.id # 0 /\ \A p \in InEvents' \cup InCall' : q.id # p.id
      BY <1>0, <1>1, <1>2, <2>1, <2>2, Places DEF Live, Apart
    <3>2. \A q \in Outstanding' :
             q.id < nextId' /\ \A k \in Keys : IsPending(k)' => pending'[k].id # q.id
      BY <1>0, <1>1, <1>2, <2>1, <2>3 DEF Live, Apart
    <3>3. \A k \in Keys : pending'[k].id < nextId'
      BY <1>0, <1>2
    <3> QED
      BY <1>0, <1>1, <2>2, <3>1, <3>2, <3>3 DEF Live, Apart
  <2>5. Marked'
    BY <1>0, <2>1, <2>3 DEF Live, Marked
  <2> QED
    BY <1>0, <2>4, <2>5 DEF Live, Fitting
<1>4. CASE ~HasRoom
  <2>1. UNCHANGED <<channel, refreshId>>
    BY <1>4 DEF ClickRefresh
  <2>2. UNCHANGED <<InChannel, Outstanding>>
    BY <1>0, <2>1 DEF InChannel, Outstanding
  <2>3. Apart'
    <3>1. \A k \in Keys : pending'[k].id < nextId'
      BY <1>0, <1>2
    <3>2. \A q \in Outstanding' : q.id < nextId'
      BY <1>0, <1>2, <2>2
    <3> QED
      BY <1>0, <1>1, <2>1, <2>2, <3>1, <3>2 DEF Live, Apart
  <2> QED
    BY <1>0, <2>1, <2>2, <2>3 DEF Live, Fitting, Marked
<1> QED
  BY <1>3, <1>4

\* The worker begins with a listing.
LEMMA StartLive ==
    ASSUME TypeOK, Live, WorkerStarts
    PROVE  Live'
<1> DEFINE r == Request(0, All)
<1>0. /\ worker = "starting" /\ worker' = "calling" /\ call' = r /\ events = <<>>
      /\ UNCHANGED <<channel, events, nextId, pending, inFlight, refreshId>>
      /\ r.id = 0 /\ r.target = All
  BY DEF WorkerStarts, Live, Request, uiVars, draftVars, sendVars, flagVars
<1>1. /\ InEvents = {} /\ InCall = {} /\ InCall' = {r} /\ UNCHANGED <<InChannel, InEvents>>
      /\ \A k \in Keys : IsPending(k)' <=> IsPending(k)
  BY <1>0 DEF InEvents, InCall, InChannel, IsPending
<1>2. Outstanding' = Outstanding \cup {r}
  BY <1>1, Places
<1>3. Apart'
  <2>1. 0 < nextId
    BY AppletAssumption DEF TypeOK
  <2>2. \A q \in Outstanding' :
           q.id < nextId' /\ \A k \in Keys : IsPending(k)' => pending'[k].id # q.id
    BY <1>0, <1>1, <1>2, <2>1 DEF Live, Apart, IsPending
  <2>3. /\ \A q \in InChannel' : q.id # 0 /\ \A p \in InEvents' \cup InCall' : q.id # p.id
        /\ \A q \in InEvents', p \in InCall' : q.id # p.id
    BY <1>0, <1>1 DEF Live, Apart
  <2> QED
    BY <1>0, <1>1, <2>2, <2>3 DEF Live, Apart
<1>4. Marked'
  BY <1>0, <1>2 DEF Live, Marked
<1> QED
  BY <1>0, <1>3, <1>4 DEF Live, Fitting

\* It takes the next command.
LEMMA TakeCommandLive ==
    ASSUME TypeOK, Live, TakeCommand
    PROVE  Live'
<1> DEFINE r == Head(channel)
<1>0. /\ worker = "waiting" /\ worker' = "calling" /\ call' = r
      /\ channel # <<>> /\ channel' = Tail(channel)
      /\ UNCHANGED <<events, nextId, pending, inFlight, refreshId>>
  BY DEF TakeCommand, uiVars, draftVars, sendVars, flagVars
<1>1. /\ InChannel = InChannel' \cup {r} /\ \A q \in InChannel' : q.id # r.id
      /\ \A i, j \in DOMAIN channel' : channel'[i].id = channel'[j].id => i = j
  BY <1>0, ChannelShrinks DEF Live
<1>2. /\ InCall = {} /\ InCall' = {r} /\ UNCHANGED InEvents
      /\ \A k \in Keys : IsPending(k)' <=> IsPending(k)
  BY <1>0 DEF InEvents, InCall, IsPending
<1>3. Outstanding' = Outstanding
  BY <1>1, <1>2, Places
<1>4. Apart'
  <2>1. /\ \A q \in InChannel' : q.id # 0 /\ \A p \in InEvents' \cup InCall' : q.id # p.id
        /\ \A q \in InEvents', p \in InCall' : q.id # p.id
    BY <1>1, <1>2 DEF Live, Apart
  <2> QED
    BY <1>0, <1>1, <1>2, <1>3, <2>1 DEF Live, Apart
<1> QED
  BY <1>0, <1>3, <1>4 DEF Live, Fitting, Marked

\* It passes an answer on.
LEMMA AnsweredLive ==
    ASSUME TypeOK, Live, daemon' \in [Displays -> Infos],
           NEW type \in {"snapshot", "updated", "failed"}, Answered(type),
           type = "updated" => call.target # All,
           type = "snapshot" => call.target = All
    PROVE  Live'
<1> DEFINE e == Event(type, call, daemon')
<1>0. /\ worker = "calling" /\ worker' = "waiting" /\ events' = Append(events, e)
      /\ UNCHANGED <<channel, call, nextId, pending, inFlight, refreshId>>
      /\ e \in EventType /\ e.request = call /\ e.type = type
  BY DataFacts DEF Answered, TypeOK, Event, uiVars, draftVars, sendVars, flagVars
<1>1. /\ InCall = {call} /\ InCall' = {} /\ UNCHANGED InChannel
      /\ \A k \in Keys : IsPending(k)' <=> IsPending(k)
  BY <1>0 DEF InChannel, InCall, IsPending
<1>2. /\ InEvents' = InEvents \cup {call}
      /\ \A i, j \in DOMAIN events' : events'[i].request.id = events'[j].request.id => i = j
      /\ Fitting'
  <2>1. \A q \in InEvents : q.id # e.request.id
    BY <1>0, <1>1 DEF Live, Apart
  <2>2. /\ \A i, j \in DOMAIN events : events[i].request.id = events[j].request.id => i = j
        /\ Fitting
    BY DEF Live, Apart
  <2> QED
    BY <1>0, <2>1, <2>2, EventsGrow
<1>3. Outstanding' = Outstanding
  BY <1>1, <1>2, Places
<1>4. Apart'
  <2>1. /\ \A q \in InChannel' : q.id # 0 /\ \A p \in InEvents' \cup InCall' : q.id # p.id
        /\ \A q \in InEvents', p \in InCall' : q.id # p.id
    BY <1>1, <1>2 DEF Live, Apart
  <2> QED
    BY <1>0, <1>1, <1>2, <1>3, <2>1 DEF Live, Apart
<1> QED
  BY <1>0, <1>2, <1>3, <1>4 DEF Live, Marked

\* Every step of a worker that goes on living keeps the marks true.
LEMMA StepLive ==
    ASSUME TypeOK, Live, [Next]_vars, worker # "gone", worker' # "gone"
    PROVE  Live'
<1> USE DEF draftVars, sendVars, flagVars, workerVars, uiVars
<1>1. CASE TakeEvent \/ SendDue \/ ClickRefresh
  BY <1>1, TakeEventLive, SendDueLive, ClickLive
<1>2. CASE DrainEnds \/ FlushEnds \/ NoInput
  BY <1>2, SameLive DEF DrainEnds, FlushEnds, NoInput
<1>3. CASE ChannelFull \/ Tick
  <2>1. \A k \in Keys : pending'[k].id = pending[k].id
    <3>1. pending \in [Keys -> [id : Ids, wait : 0 .. Debounce]]
      BY DEF TypeOK
    <3>2. CASE Tick
      BY <3>1, <3>2 DEF Tick
    <3>3. CASE ChannelFull
      BY <3>1, <3>3 DEF ChannelFull
    <3> QED
      BY <1>3, <3>2, <3>3
  <2>2. UNCHANGED <<channel, events, worker, call, nextId, inFlight, refreshId>>
    BY <1>3 DEF ChannelFull, Tick
  <2> QED
    BY <2>1, <2>2, SameLive
<1>4. CASE \E d \in Displays, kind \in WriteKinds : Slide(d, kind)
  BY <1>4, SlideLive
<1>5. CASE Work
  <2>1. CASE WorkerStarts \/ TakeCommand
    BY <2>1, StartLive, TakeCommandLive
  <2>2. CASE AnswersListing
    BY <2>2, AnsweredLive DEF AnswersListing, TypeOK
  <2>3. CASE \E listed, failed \in SUBSET Displays : AnswersRefresh(listed, failed)
    <3>1. daemon' \in [Displays -> Infos] /\ call.target = All /\ Answered("snapshot")
      BY <2>3 DEF AnswersRefresh, TypeOK, Infos
    <3> QED
      BY <3>1, AnsweredLive
  <2>4. CASE AnswersWrite
    <3>1. daemon' \in [Displays -> Infos] /\ call.target # All /\ Answered("updated")
      BY <2>4, DataFacts DEF AnswersWrite, TypeOK, Infos
    <3> QED
      BY <3>1, AnsweredLive
  <2>5. CASE AnswersError
    <3>1. Answered("failed") /\ worker = "calling" /\ TypeOK'
      BY <2>5, <1>5, StepType DEF AnswersError, Answered, Next
    <3>2. daemon' \in [Displays -> Infos]
      BY <3>1 DEF TypeOK
    <3> QED
      BY <3>1, <3>2, AnsweredLive
  <2> QED
    BY <1>5, <2>1, <2>2, <2>3, <2>4, <2>5 DEF Work
<1>6. CASE UNCHANGED vars
  BY <1>6, SameLive DEF vars
<1>7. ~(Close \/ NoticeWorkerGone \/ SendDisconnected \/ Trouble)
  BY DEF Close, NoticeWorkerGone, SendDisconnected, Trouble, WorkerCannotStart, WorkerDies
<1> QED
  BY <1>1, <1>2, <1>3, <1>4, <1>5, <1>6, <1>7 DEF Next, Frame, Input

\* A worker that is gone stays so.
LEMMA GoneForGood ==
    ASSUME [Next]_vars, worker = "gone"
    PROVE  worker' = "gone"
<1> USE DEF draftVars, sendVars, flagVars, workerVars, uiVars
<1>1. ~Work /\ ~Trouble
  BY DEF Work, Trouble, WorkerStarts, TakeCommand, AnswersListing, AnswersRefresh,
         AnswersWrite, AnswersError, Answered, WorkerCannotStart, WorkerDies
<1>2. Close \/ Frame \/ Input \/ Tick \/ UNCHANGED vars
  BY <1>1 DEF Next
<1>3. CASE Frame
  BY <1>3 DEF Frame, TakeEvent, DrainEnds, NoticeWorkerGone, SendDue, ChannelFull,
              SendDisconnected, FlushEnds, NoInput
<1>4. CASE Input
  BY <1>4 DEF Input, ClickRefresh, Slide
<1> QED
  BY <1>2, <1>3, <1>4 DEF Close, Tick, vars

\* The applet starts with nothing under way.
LEMMA InitInv == Init => AppletInv
<1> SUFFICES ASSUME Init PROVE AppletInv
  OBVIOUS
<1>1. TypeOK
  <2>1. <<>> \in Seq(Requests) /\ <<>> \in Seq(EventType) /\ Len(<<>>) = 0
    OBVIOUS
  <2>2. /\ drafts \in [Displays -> [known : BOOLEAN, shown : Ids, latest : Ids, error : BOOLEAN]]
        /\ pending \in [Keys -> [id : Ids, wait : 0 .. Debounce]]
        /\ call \in Requests
    BY DraftFacts, DataFacts DEF Init
  <2>3. daemon \in [Displays -> Infos]
    BY DataFacts DEF Init, Infos
  <2> QED
    <3>1. /\ nextId \in 1 .. MaxRequests + 1 /\ Len(channel) <= Capacity
          /\ channel \in Seq(Requests) /\ events \in Seq(EventType)
      BY <2>1, AppletAssumption DEF Init
    <3>2. /\ ui \in {"drain"} /\ due = {} /\ inFlight = {} /\ putBack = {} /\ refreshId \in Ids
          /\ worker \in {"starting", "gone"} /\ loading \in BOOLEAN /\ workerRunning \in BOOLEAN
      BY DataFacts DEF Init
    <3> QED
      BY <2>2, <2>3, <3>1, <3>2 DEF TypeOK, EventType
<1>2. InChannel = {} /\ InEvents = {} /\ InCall = {} /\ Outstanding = {}
  BY Places DEF Init, InChannel, InEvents, InCall
<1>3. Live
  BY <1>2, DataFacts DEF Init, Live, Apart, Fitting, Marked, IsPending
<1> QED
  BY <1>1, <1>3 DEF AppletInv

\* The invariant is inductive.
LEMMA StepInv == AppletInv /\ [Next]_vars => AppletInv'
BY StepType, StepLive, GoneForGood DEF AppletInv

\* Every variable keeps its type; the channel never exceeds its capacity.
THEOREM AppletTypeCorrect == Spec => []TypeOK
<1>1. Spec => []AppletInv
  BY InitInv, StepInv, PTL DEF Spec
<1> QED
  BY <1>1, PTL DEF AppletInv

\* What the applet shows as busy is what is under way, as long as the worker
\* lives: marks are set before a request is sent and go with its answer only.
THEOREM BusyIsTrueAlways == Spec => []BusyIsTrue
<1>1. Spec => []AppletInv
  BY InitInv, StepInv, PTL DEF Spec
<1>2. AppletInv => BusyIsTrue
  BY DEF AppletInv, Live, Marked, BusyIsTrue
<1> QED
  BY <1>1, <1>2, PTL

-----------------------------------------------------------------------------
(* Answers, and what the user did since                                    *)

\* Requests that are answered in the order the user made them: a refresh and
\* anything else, and two writes of one display none of whose writes was put
\* back.  None is there twice.
Comparable(q, r) ==
    \/ q = r
    \/ q.target = All \/ r.target = All
    \/ q.target = r.target /\ q.target \notin putBack

EventsInLine ==
    \A i, j \in DOMAIN events :
        i < j /\ Comparable(events[i].request, events[j].request)
           => events[i].request.id < events[j].request.id
ChannelInLine ==
    \A i, j \in DOMAIN channel :
        i < j /\ Comparable(channel[i], channel[j]) => channel[i].id < channel[j].id
InLine ==
    /\ EventsInLine /\ ChannelInLine
    /\ \A q \in InEvents, r \in InCall \cup InChannel : Comparable(q, r) => q.id < r.id
    /\ \A q \in InCall, r \in InChannel : Comparable(q, r) => q.id < r.id

\* A write that is pending is newer than what was sent before it.
PendingLater ==
    \A k \in Keys, r \in Outstanding :
        IsPending(k) /\ (r.target = All \/ (r.target = k[1] /\ k[1] \notin putBack))
           => r.id < pending[k].id

Numbered ==
    /\ \A k \in Keys : pending[k].id < nextId
    /\ \A r \in Outstanding \cup inFlight : r.id < nextId

\* A write under way is marked, until the applet has noticed that the worker
\* is gone.
Sent ==
    \/ \A r \in Outstanding : r.target # All => r \in inFlight
    \/ ~workerRunning /\ inFlight = {} /\ ~SomePending

\* A write that was lost with the worker was sent after every refresh that was
\* answered.
Lost ==
    \A r \in inFlight :
        /\ r.target \in Displays
        /\ \A s \in InEvents : s.target = All /\ r.id <= s.id => r \in InEvents

\* A slider with a write pending or in flight is there, and shows that write
\* if it is the user's last input.
Latest(id, d) ==
    /\ drafts[d].known /\ id <= drafts[d].latest
    /\ id = drafts[d].latest => drafts[d].shown = id
Awaited ==
    /\ \A k \in Keys : IsPending(k) => Latest(pending[k].id, k[1])
    /\ \A r \in inFlight : Latest(r.id, r.target)

\* An answer is of the kind its request has, and a success tells the value
\* that was written.
Telling ==
    \A i \in DOMAIN events :
        /\ events[i].type = "updated" =>
              /\ events[i].request.target \in Displays
              /\ events[i].infos[events[i].request.target].version = events[i].request.id
        /\ events[i].type = "snapshot" => events[i].request.target = All

\* What all of this says, of a worker that lives or is gone.
KeptInv ==
    InLine /\ PendingLater /\ Numbered /\ Sent /\ Lost /\ Awaited /\ Telling

\* Of the writes pending on a display none of whose writes was put back, all
\* but the newest are due, and are sent first.
DueInOrder ==
    /\ \A k, l \in Keys :
          /\ IsPending(k) /\ IsPending(l) /\ k[1] = l[1] /\ k[1] \notin putBack
          /\ pending[k].id < pending[l].id
          => pending[k].wait = 0 /\ (l \in due => k \in due)
    /\ ui # "flush" => due = {}

\* What an answer tells of a display is what the daemon still has, unless a
\* write of it was answered later.
Current ==
    \A i \in DOMAIN events, d \in Displays :
        (\A j \in DOMAIN events : i < j => events[j].request.target # d)
           => events[i].infos[d].version = daemon[d].version

\* The writes of a display that are pending or under way.
Open(d) == {pending[k].id : k \in {l \in Keys : l[1] = d /\ IsPending(l)}}
              \cup {r.id : r \in {q \in Outstanding : q.target = d}}

\* The last of them is what the user did last; with none, AgreesUnlessPutBack.
Converging ==
    \A d \in Displays \ putBack :
        drafts[d].known =>
            IF Open(d) = {} THEN Agrees(d) ELSE drafts[d].latest \in Open(d)

\* Of a worker that lives.
AgreeInv == worker # "gone" => Current /\ Converging

\* The positions of a sequence one element longer, and one shorter.
LEMMA AppendFacts ==
    ASSUME NEW S, NEW s \in Seq(S), NEW x \in S, NEW t, t = Append(s, x)
    PROVE  /\ \A i \in DOMAIN s : i \in DOMAIN t /\ t[i] = s[i] /\ i < Len(s) + 1
           /\ Len(s) + 1 \in DOMAIN t /\ t[Len(s) + 1] = x
           /\ \A i \in DOMAIN t : i \in Nat /\ (i \in DOMAIN s \/ i = Len(s) + 1)
           /\ \A i, j \in DOMAIN t : i < j => i \in DOMAIN s
           /\ Len(s) + 1 \notin DOMAIN s
OBVIOUS

\* The same of the rest after the first.
LEMMA TailFacts ==
    ASSUME NEW S, NEW s \in Seq(S), s # <<>>, NEW t, t = Tail(s)
    PROVE  /\ Head(s) = s[1] /\ 1 \in DOMAIN s /\ Head(s) \in S
           /\ \A i \in DOMAIN t : i \in Nat /\ i + 1 \in DOMAIN s /\ t[i] = s[i + 1] /\ 1 < i + 1
           /\ \A i \in DOMAIN s : i \in Nat /\ (i = 1 \/ (i - 1 \in DOMAIN t /\ t[i - 1] = s[i]))
OBVIOUS

\* Numbers, in the form the proofs use.
LEMMA Numbers ==
    ASSUME TypeOK
    PROVE  /\ \A r \in Outstanding \cup inFlight : r \in Requests /\ r.id \in Nat
           /\ \A k \in Keys : pending[k].id \in Nat /\ k[1] \in Displays
           /\ nextId \in Nat \ {0}
           /\ \A d \in Displays : drafts[d].latest \in Nat /\ drafts[d].shown \in Nat
           /\ channel \in Seq(Requests) /\ events \in Seq(EventType)
<1>1. \A r \in Outstanding \cup inFlight : r \in Requests
  BY PlacesType DEF TypeOK
<1>2. /\ \A k \in Keys : pending[k].id \in Nat
      /\ \A d \in Displays : drafts[d].latest \in Nat /\ drafts[d].shown \in Nat
  <2>1. /\ \A k \in Keys : pending[k].id \in Ids
        /\ \A d \in Displays : drafts[d].latest \in Ids /\ drafts[d].shown \in Ids
    BY DEF TypeOK
  <2> QED
    BY <2>1, DataFacts
<1>3. channel \in Seq(Requests) /\ events \in Seq(EventType)
  BY DEF TypeOK, EventType
<1>4. nextId \in Nat \ {0}
  BY AppletAssumption DEF TypeOK
<1> QED
  BY <1>1, <1>2, <1>3, <1>4, DataFacts

\* A step that moves no request and no slider.
LEMMA SameKept ==
    ASSUME KeptInv, putBack \subseteq putBack',
           UNCHANGED <<channel, events, worker, call, drafts, inFlight, workerRunning, nextId>>,
           \A k \in Keys : pending'[k].id = pending[k].id
    PROVE  KeptInv'
<1>1. /\ UNCHANGED <<InChannel, InEvents, InCall, Outstanding>>
      /\ \A k \in Keys : IsPending(k)' <=> IsPending(k)
      /\ SomePending' <=> SomePending
  BY DEF InChannel, InEvents, InCall, Outstanding, IsPending, SomePending
<1>2. \A q, r : Comparable(q, r)' => Comparable(q, r)
  BY DEF Comparable
<1>3. InLine'
  BY <1>1, <1>2 DEF KeptInv, InLine, EventsInLine, ChannelInLine
<1>4. PendingLater' /\ Numbered'
  BY <1>1 DEF KeptInv, PendingLater, Numbered
<1>5. Sent' /\ Lost' /\ Telling'
  BY <1>1 DEF KeptInv, Sent, Lost, Telling
<1>6. Awaited'
  BY <1>1 DEF KeptInv, Awaited, Latest
<1> QED
  BY <1>3, <1>4, <1>5, <1>6 DEF KeptInv

\* The worker goes: what it had not answered is lost.
LEMMA GoneKept ==
    ASSUME KeptInv, worker' = "gone", channel' = channel \/ channel' = <<>>,
           UNCHANGED <<events, call, drafts, inFlight, workerRunning, nextId, pending, putBack>>
    PROVE  KeptInv'
<1>1. /\ InChannel' \subseteq InChannel /\ UNCHANGED InEvents /\ InCall' = {}
      /\ \A k \in Keys : IsPending(k)' <=> IsPending(k)
      /\ SomePending' <=> SomePending
  BY DEF InChannel, InEvents, InCall, IsPending, SomePending
<1>2. Outstanding' \subseteq Outstanding
  BY <1>1, Places
<1>3. \A q, r : Comparable(q, r)' <=> Comparable(q, r)
  BY DEF Comparable
<1>4. InLine'
  BY <1>1, <1>3 DEF KeptInv, InLine, EventsInLine, ChannelInLine
<1>5. PendingLater' /\ Numbered'
  BY <1>1, <1>2 DEF KeptInv, PendingLater, Numbered
<1>6. Sent' /\ Lost' /\ Telling'
  BY <1>1, <1>2 DEF KeptInv, Sent, Lost, Telling
<1>7. Awaited'
  BY <1>1 DEF KeptInv, Awaited, Latest
<1> QED
  BY <1>4, <1>5, <1>6, <1>7 DEF KeptInv

\* The applet notices it, and forgets what was under way.
LEMMA NoticedKept ==
    ASSUME TypeOK, KeptInv, NoticeWorkerGone \/ SendDisconnected
    PROVE  KeptInv'
<1>1. /\ UNCHANGED <<channel, events, worker, call, drafts, nextId, putBack>>
      /\ pending' = [k \in Keys |-> NoWrite] /\ inFlight' = {} /\ ~workerRunning'
  BY DEF NoticeWorkerGone, SendDisconnected, draftVars, workerVars
<1>2. /\ UNCHANGED <<InChannel, InEvents, InCall, Outstanding>>
      /\ \A k \in Keys : ~IsPending(k)' /\ pending'[k].id = 0
      /\ ~SomePending'
  BY <1>1, DataFacts DEF InChannel, InEvents, InCall, Outstanding, IsPending, SomePending
<1>3. InLine'
  BY <1>1, <1>2 DEF KeptInv, InLine, EventsInLine, ChannelInLine, Comparable
<1>4. PendingLater' /\ Sent' /\ Lost' /\ Awaited' /\ Telling'
  BY <1>1, <1>2 DEF KeptInv, PendingLater, Sent, Lost, Awaited, Telling
<1>5. Numbered'
  BY <1>1, <1>2, Numbers DEF KeptInv, Numbered
<1> QED
  BY <1>3, <1>4, <1>5 DEF KeptInv

\* The user moves a slider.
LEMMA SlideKept ==
    ASSUME TypeOK, KeptInv, NEW d \in Displays, NEW kind \in WriteKinds, Slide(d, kind)
    PROVE  KeptInv'
<1> DEFINE key == <<d, kind>>
<1>0. /\ key \in Keys /\ nextId \in Nat \ {0} /\ nextId' = nextId + 1
      /\ drafts[d].known /\ workerRunning
      /\ drafts' = [drafts EXCEPT ![d].shown = nextId, ![d].latest = nextId]
      /\ UNCHANGED <<channel, events, worker, call, inFlight, workerRunning, putBack>>
  BY Numbers DEF Slide, Keys, flagVars, workerVars
<1>1. \A k \in Keys : pending'[k].id = IF k = key THEN nextId ELSE pending[k].id
  BY DEF Slide, Queued, TypeOK
<1>2. /\ UNCHANGED <<InChannel, InEvents, InCall, Outstanding>>
      /\ \A k \in Keys : IsPending(k)' <=> k = key \/ IsPending(k)
  BY <1>0, <1>1 DEF InChannel, InEvents, InCall, Outstanding, IsPending
<1>3. InLine'
  BY <1>0, <1>2 DEF KeptInv, InLine, EventsInLine, ChannelInLine, Comparable
<1>4. /\ \A r \in Outstanding \cup inFlight : r.id \in Nat /\ r.id < nextId
      /\ \A k \in Keys : pending[k].id \in Nat /\ pending[k].id < nextId
  BY Numbers DEF KeptInv, Numbered
<1>5. PendingLater'
  BY <1>0, <1>1, <1>2, <1>4 DEF KeptInv, PendingLater
<1>6. Numbered'
  BY <1>0, <1>1, <1>2, <1>4 DEF Numbered
<1>7. Sent' /\ Lost' /\ Telling'
  BY <1>0, <1>2 DEF KeptInv, Sent, Lost, Telling
<1>8. Awaited'
  <2>1. \A c \in Displays : drafts'[c] = IF c = d
            THEN [drafts[d] EXCEPT !.shown = nextId, !.latest = nextId] ELSE drafts[c]
    BY <1>0 DEF TypeOK
  <2>2. /\ drafts'[d].known = drafts[d].known
        /\ drafts'[d].shown = nextId /\ drafts'[d].latest = nextId
    BY <2>1 DEF TypeOK
  <2>3. ASSUME NEW k \in Keys, IsPending(k)' PROVE Latest(pending[k].id, k[1])'
    <3>1. CASE k[1] = d
      <4>1. pending'[k].id <= nextId
        BY <1>0, <1>1, <1>4
      <4>2. drafts'[k[1]].known /\ drafts'[k[1]].shown = nextId /\ drafts'[k[1]].latest = nextId
        BY <1>0, <2>2, <3>1
      <4> QED
        BY <4>1, <4>2 DEF Latest
    <3>2. CASE k[1] # d
      <4>1. IsPending(k) /\ pending'[k].id = pending[k].id /\ k[1] \in Displays
        BY <1>1, <1>2, <2>3, <3>2, Numbers
      <4> QED
        BY <2>1, <3>2, <4>1 DEF KeptInv, Awaited, Latest
    <3> QED
      BY <3>1, <3>2
  <2>4. ASSUME NEW r \in inFlight PROVE Latest(r.id, r.target)'
    <3>1. r.target \in Displays
      BY DEF KeptInv, Lost
    <3>2. CASE r.target = d
      <4>1. r.id <= nextId /\ r.id # nextId
        BY <1>0, <1>4
      <4>2. drafts'[r.target].known /\ drafts'[r.target].latest = nextId
        BY <1>0, <2>2, <3>2
      <4> QED
        BY <4>1, <4>2 DEF Latest
    <3>3. CASE r.target # d
      BY <2>1, <3>1, <3>3 DEF KeptInv, Awaited, Latest
    <3> QED
      BY <3>2, <3>3
  <2> QED
    BY <1>0, <2>3, <2>4 DEF Awaited
<1> QED
  BY <1>3, <1>5, <1>6, <1>7, <1>8 DEF KeptInv

\* A write goes into the channel.
LEMMA SendKept ==
    ASSUME TypeOK, Live, KeptInv, SendDue,
           \A l \in Keys : IsPending(l) /\ l[1] = NextDue[1] /\ l # NextDue /\ l[1] \notin putBack
                => pending[NextDue].id < pending[l].id
    PROVE  KeptInv'
<1>a. PICK key \in Keys : key = NextDue
  BY FirstDue DEF SendDue
<1> DEFINE r == Request(pending[key].id, key[1])
<1>0. IsPending(key) /\ pending[key].id \in Ids \ {0} /\ key[1] \in Displays
  BY <1>a, FirstDue, DataFacts DEF SendDue, TypeOK, IsPending
<1>1. r \in Requests /\ r.id = pending[key].id /\ r.target = key[1] /\ r.target # All
  BY <1>0, DataFacts DEF Request
<1>2. /\ channel' = Append(channel, r) /\ inFlight' = inFlight \cup {r}
      /\ UNCHANGED <<nextId, drafts, workerRunning, events, worker, call, putBack>>
      /\ \A k \in Keys : pending'[k] = IF k = key THEN NoWrite ELSE pending[k]
  BY <1>a DEF SendDue, TypeOK, draftVars, flagVars, workerVars
<1>3. /\ \A k \in Keys : IsPending(k)' <=> k # key /\ IsPending(k)
      /\ \A k \in Keys \ {key} : pending'[k] = pending[k]
      /\ pending'[key].id = 0
  BY <1>2, DataFacts DEF IsPending
<1>4. UNCHANGED <<InEvents, InCall>> /\ InChannel' = InChannel \cup {r}
  BY <1>1, <1>2, ChannelGrows DEF InEvents, InCall
<1>5. Outstanding' = Outstanding \cup {r}
  BY <1>4, Places
<1>6. \A q \in Outstanding : Comparable(q, r) => q.id < r.id
  <2>1. \A q \in Outstanding : q # r
    BY <1>0, <1>1 DEF Live, Apart
  <2> QED
    BY <1>0, <1>1, <2>1 DEF KeptInv, PendingLater, Comparable
<1>7. \A q, p : Comparable(q, p)' <=> Comparable(q, p)
  BY <1>2 DEF Comparable
<1>8. InLine'
  <2>1. ChannelInLine'
    <3>1. channel \in Seq(Requests)
      BY Numbers
    <3>2. \A i \in DOMAIN channel : channel[i] \in Outstanding
      BY DEF Outstanding
    <3>3. ASSUME NEW i \in DOMAIN channel', NEW j \in DOMAIN channel', i < j,
                 Comparable(channel'[i], channel'[j])
          PROVE  channel'[i].id < channel'[j].id
      <4>1. i \in DOMAIN channel /\ channel'[i] = channel[i]
        BY <1>1, <1>2, <3>1, <3>3, AppendFacts
      <4>2. CASE j \in DOMAIN channel
        BY <1>1, <1>2, <3>1, <3>3, <4>1, <4>2, AppendFacts DEF KeptInv, InLine, ChannelInLine
      <4>3. CASE j \notin DOMAIN channel
        <5>1. channel'[j] = r
          BY <1>1, <1>2, <3>1, <4>3, AppendFacts
        <5> QED
          BY <1>6, <3>2, <3>3, <4>1, <5>1
      <4> QED
        BY <4>2, <4>3
    <3> QED
      BY <1>7, <3>3 DEF ChannelInLine
  <2>2. EventsInLine'
    BY <1>2, <1>7 DEF KeptInv, InLine, EventsInLine
  <2>3. \A q \in InEvents \cup InCall : Comparable(q, r) => q.id < r.id
    BY <1>6, Places
  <2> QED
    BY <1>4, <1>7, <2>1, <2>2, <2>3 DEF KeptInv, InLine
<1>9. PendingLater'
  BY <1>a, <1>1, <1>2, <1>3, <1>5 DEF KeptInv, PendingLater
<1>10. Numbered'
  <2>1. r.id < nextId /\ 0 < nextId
    BY <1>1, Numbers DEF KeptInv, Numbered
  <2> QED
    BY <1>2, <1>3, <1>5, <2>1 DEF KeptInv, Numbered
<1>11. Sent'
  <2>1. SomePending
    BY <1>0 DEF SomePending
  <2> QED
    BY <1>2, <1>5, <2>1 DEF KeptInv, Sent
<1>12. Lost'
  <2>1. \A s \in InEvents : s.target = All => s.id < r.id /\ s.id \in Nat /\ r.id \in Nat
    BY <1>1, <1>6, Places, Numbers, DataFacts DEF Comparable
  <2> QED
    BY <1>0, <1>1, <1>2, <1>4, <2>1 DEF KeptInv, Lost
<1>13. Awaited'
  BY <1>0, <1>1, <1>2, <1>3 DEF KeptInv, Awaited, Latest
<1> QED
  BY <1>2, <1>8, <1>9, <1>10, <1>11, <1>12, <1>13 DEF KeptInv, Telling

\* The user asks for a refresh: nothing is pending then.
LEMMA ClickKept ==
    ASSUME TypeOK, KeptInv, ClickRefresh
    PROVE  KeptInv'
<1> DEFINE r == Request(nextId, All)
<1>0. /\ nextId \in Ids /\ nextId \in Nat \ {0} /\ nextId' = nextId + 1 /\ ~SomePending
      /\ workerRunning
      /\ UNCHANGED <<pending, drafts, inFlight, events, worker, call, putBack>>
  BY Numbers DEF ClickRefresh, Ids, sendVars, workerVars
<1>1. r \in Requests /\ r.id = nextId /\ r.target = All
  BY <1>0, DataFacts DEF Request
<1>2. /\ UNCHANGED <<InEvents, InCall>> /\ \A k \in Keys : ~IsPending(k)' /\ ~IsPending(k)
      /\ ~SomePending'
  BY <1>0 DEF InEvents, InCall, IsPending, SomePending
<1>3. \A q \in Outstanding \cup inFlight : q.id \in Nat /\ q.id < nextId
  BY Numbers DEF KeptInv, Numbered
<1>4. \A q, p : Comparable(q, p)' <=> Comparable(q, p)
  BY <1>0 DEF Comparable
<1>5. /\ ChannelInLine'
      /\ (channel' = channel /\ UNCHANGED <<InChannel, Outstanding>>)
           \/ (InChannel' = InChannel \cup {r} /\ Outstanding' = Outstanding \cup {r})
  <2>1. CASE channel' = channel
    BY <1>0, <1>4, <2>1 DEF KeptInv, InLine, ChannelInLine, InChannel, Outstanding
  <2>2. CASE channel' = Append(channel, r)
    <3>1. channel \in Seq(Requests)
      BY Numbers
    <3>2. \A i \in DOMAIN channel : channel[i] \in Outstanding
      BY DEF Outstanding
    <3>3. ASSUME NEW i \in DOMAIN channel', NEW j \in DOMAIN channel', i < j,
                 Comparable(channel'[i], channel'[j])
          PROVE  channel'[i].id < channel'[j].id
      <4>1. i \in DOMAIN channel /\ channel'[i] = channel[i]
        BY <1>1, <2>2, <3>1, <3>3, AppendFacts
      <4>2. CASE j \in DOMAIN channel
        BY <1>1, <2>2, <3>1, <3>3, <4>1, <4>2, AppendFacts DEF KeptInv, InLine, ChannelInLine
      <4>3. CASE j \notin DOMAIN channel
        <5>1. channel'[j] = r
          BY <1>1, <2>2, <3>1, <4>3, AppendFacts
        <5> QED
          BY <1>1, <1>3, <3>2, <4>1, <5>1
      <4> QED
        BY <4>2, <4>3
    <3>4. InChannel' = InChannel \cup {r}
      BY <1>1, <2>2, ChannelGrows
    <3> QED
      BY <1>2, <1>4, <3>3, <3>4, Places DEF ChannelInLine
  <2> QED
    BY <2>1, <2>2 DEF ClickRefresh
<1>6. InLine'
  <2>1. EventsInLine'
    BY <1>0, <1>4 DEF KeptInv, InLine, EventsInLine
  <2>2. \A q \in InEvents \cup InCall : q.id < r.id
    BY <1>1, <1>3, Places
  <2> QED
    BY <1>2, <1>4, <1>5, <2>1, <2>2 DEF KeptInv, InLine
<1>7. PendingLater' /\ Awaited' /\ Telling'
  BY <1>0, <1>2 DEF KeptInv, PendingLater, Awaited, Latest, Telling
<1>8. Numbered'
  <2>1. \A k \in Keys : pending[k].id \in Nat /\ pending[k].id < nextId
    BY Numbers DEF KeptInv, Numbered
  <2> QED
    BY <1>0, <1>1, <1>3, <1>5, <2>1 DEF Numbered
<1>9. Lost'
  BY <1>0, <1>2 DEF KeptInv, Lost
<1>10. Sent'
  BY <1>0, <1>1, <1>5 DEF KeptInv, Sent
<1> QED
  BY <1>6, <1>7, <1>8, <1>9, <1>10 DEF KeptInv

\* The worker begins with a listing.
LEMMA StartKept ==
    ASSUME TypeOK, Live, KeptInv, WorkerStarts
    PROVE  KeptInv'
<1> DEFINE r == Request(0, All)
<1>0. /\ worker = "starting" /\ worker' = "calling" /\ call' = r /\ events = <<>>
      /\ UNCHANGED <<channel, events, nextId, pending, inFlight, drafts, workerRunning, putBack>>
      /\ r.id = 0 /\ r.target = All
  BY DEF WorkerStarts, Live, Request, uiVars, draftVars, sendVars, flagVars
<1>1. /\ InEvents = {} /\ InCall = {} /\ InCall' = {r} /\ UNCHANGED <<InChannel, InEvents>>
      /\ \A k \in Keys : IsPending(k)' <=> IsPending(k)
      /\ SomePending' <=> SomePending
  BY <1>0 DEF InEvents, InCall, InChannel, IsPending, SomePending
<1>2. Outstanding' = Outstanding \cup {r}
  BY <1>1, Places
<1>3. \A q \in InChannel : q.id \in Nat /\ q.id # 0
  BY Numbers, Places DEF Live, Apart
<1>4. InLine'
  BY <1>0, <1>1, <1>3 DEF KeptInv, InLine, EventsInLine, ChannelInLine, Comparable
<1>5. PendingLater' /\ Numbered'
  BY <1>0, <1>1, <1>2, Numbers DEF KeptInv, PendingLater, Numbered, IsPending
<1>6. Sent' /\ Lost' /\ Awaited' /\ Telling'
  BY <1>0, <1>1, <1>2 DEF KeptInv, Sent, Lost, Awaited, Latest, Telling
<1> QED
  BY <1>4, <1>5, <1>6 DEF KeptInv

\* It takes the next command.
LEMMA TakeCommandKept ==
    ASSUME TypeOK, Live, KeptInv, TakeCommand
    PROVE  KeptInv'
<1> DEFINE r == Head(channel)
<1>0. /\ worker = "waiting" /\ worker' = "calling" /\ call' = r
      /\ channel # <<>> /\ channel' = Tail(channel) /\ channel \in Seq(Requests)
      /\ UNCHANGED <<events, nextId, pending, inFlight, drafts, workerRunning, putBack>>
  BY Numbers DEF TakeCommand, uiVars, draftVars, sendVars, flagVars
<1>1. InChannel = InChannel' \cup {r}
  BY <1>0, ChannelShrinks DEF Live
<1>2. /\ InCall = {} /\ InCall' = {r} /\ UNCHANGED InEvents
      /\ \A k \in Keys : IsPending(k)' <=> IsPending(k)
      /\ SomePending' <=> SomePending
  BY <1>0 DEF InEvents, InCall, IsPending, SomePending
<1>3. Outstanding' = Outstanding
  BY <1>1, <1>2, Places
<1>4. \A q, p : Comparable(q, p)' <=> Comparable(q, p)
  BY <1>0 DEF Comparable
<1>5. /\ r = channel[1] /\ 1 \in DOMAIN channel
      /\ \A i \in DOMAIN channel' :
            i \in Nat /\ i + 1 \in DOMAIN channel /\ channel'[i] = channel[i + 1] /\ 1 < i + 1
  BY <1>0, TailFacts
<1>6. ChannelInLine'
  <2>1. ASSUME NEW i \in DOMAIN channel', NEW j \in DOMAIN channel', i < j,
               Comparable(channel'[i], channel'[j])
        PROVE  channel'[i].id < channel'[j].id
    <3>1. i + 1 < j + 1
      BY <1>5, <2>1
    <3> QED
      BY <1>5, <2>1, <3>1 DEF KeptInv, InLine, ChannelInLine
  <2> QED
    BY <1>4, <2>1 DEF ChannelInLine
<1>7. \A q \in InChannel' : Comparable(r, q) => r.id < q.id
  <2>1. ASSUME NEW i \in DOMAIN channel', Comparable(r, channel'[i])
        PROVE  r.id < channel'[i].id
    BY <1>5, <2>1 DEF KeptInv, InLine, ChannelInLine
  <2>2. InChannel' = {channel'[i] : i \in DOMAIN channel'}
    BY DEF InChannel
  <2> QED
    BY <2>1, <2>2
<1>8. InLine'
  <2>1. EventsInLine'
    BY <1>0, <1>4 DEF KeptInv, InLine, EventsInLine
  <2> QED
    BY <1>1, <1>2, <1>4, <1>6, <1>7, <2>1 DEF KeptInv, InLine
<1>9. PendingLater' /\ Numbered'
  BY <1>0, <1>2, <1>3 DEF KeptInv, PendingLater, Numbered
<1>10. Sent' /\ Lost' /\ Awaited' /\ Telling'
  BY <1>0, <1>2, <1>3 DEF KeptInv, Sent, Lost, Awaited, Latest, Telling
<1> QED
  BY <1>8, <1>9, <1>10 DEF KeptInv

\* It passes an answer on.
LEMMA AnsweredKept ==
    ASSUME TypeOK, Live, KeptInv, daemon' \in [Displays -> Infos],
           NEW type \in {"snapshot", "updated", "failed"}, Answered(type),
           type = "updated" => /\ call.target \in Displays
                               /\ daemon'[call.target].version = call.id,
           type = "snapshot" => call.target = All
    PROVE  KeptInv'
<1> DEFINE e == Event(type, call, daemon')
<1>0. /\ worker = "calling" /\ worker' = "waiting" /\ events' = Append(events, e)
      /\ UNCHANGED <<channel, call, nextId, pending, inFlight, drafts, workerRunning, putBack>>
      /\ e \in EventType /\ e.request = call /\ e.type = type /\ e.infos = daemon'
      /\ events \in Seq(EventType)
  BY DataFacts, Numbers DEF Answered, TypeOK, Event, uiVars, draftVars, sendVars, flagVars
<1>1. /\ InCall = {call} /\ InCall' = {} /\ UNCHANGED InChannel
      /\ \A k \in Keys : IsPending(k)' <=> IsPending(k)
      /\ SomePending' <=> SomePending
  BY <1>0 DEF InChannel, InCall, IsPending, SomePending
<1>2. InEvents' = InEvents \cup {call}
  BY <1>0, EventsGrow
<1>3. Outstanding' = Outstanding
  BY <1>1, <1>2, Places
<1>4. \A q, p : Comparable(q, p)' <=> Comparable(q, p)
  BY <1>0 DEF Comparable
<1>5. /\ \A i \in DOMAIN events : i \in DOMAIN events' /\ events'[i] = events[i]
      /\ \A i \in DOMAIN events' : i \in DOMAIN events \/ events'[i] = e
      /\ \A i, j \in DOMAIN events' : i < j => i \in DOMAIN events
  BY <1>0, AppendFacts
<1>6. EventsInLine'
  <2>1. ASSUME NEW i \in DOMAIN events', NEW j \in DOMAIN events', i < j,
               Comparable(events'[i].request, events'[j].request)
        PROVE  events'[i].request.id < events'[j].request.id
    <3>1. i \in DOMAIN events /\ events'[i] = events[i]
      BY <1>5, <2>1
    <3>2. CASE j \in DOMAIN events
      BY <1>5, <2>1, <3>1, <3>2 DEF KeptInv, InLine, EventsInLine
    <3>3. CASE j \notin DOMAIN events
      <4>1. events'[j].request = call /\ events[i].request \in InEvents
        BY <1>0, <1>5, <3>1, <3>3 DEF InEvents
      <4> QED
        BY <1>1, <2>1, <3>1, <4>1 DEF KeptInv, InLine
    <3> QED
      BY <3>2, <3>3
  <2> QED
    BY <1>4, <2>1 DEF EventsInLine
<1>7. InLine'
  <2>1. ChannelInLine'
    BY <1>0, <1>4 DEF KeptInv, InLine, ChannelInLine
  <2> QED
    BY <1>1, <1>2, <1>4, <1>6, <2>1 DEF KeptInv, InLine
<1>8. PendingLater' /\ Numbered'
  BY <1>0, <1>1, <1>3 DEF KeptInv, PendingLater, Numbered
<1>9. Sent' /\ Awaited'
  BY <1>0, <1>1, <1>3 DEF KeptInv, Sent, Awaited, Latest
<1>10. Lost'
  <2>1. ASSUME NEW r \in inFlight, call.target = All, r.id <= call.id
        PROVE  r \in InEvents'
    <3>1. r \in Outstanding /\ r.target # All
      BY DEF Live, Marked
    <3>2. r \notin InChannel
      <4>1. ASSUME r \in InChannel PROVE FALSE
        <5>1. call.id < r.id
          BY <1>1, <2>1, <4>1 DEF KeptInv, InLine, Comparable
        <5>2. r.id \in Nat /\ call.id \in Nat
          BY <1>1, Numbers, Places
        <5> QED
          BY <2>1, <5>1, <5>2
      <4> QED
        BY <4>1
    <3> QED
      BY <1>1, <1>2, <2>1, <3>1, <3>2, Places
  <2> QED
    BY <1>0, <1>2, <2>1 DEF KeptInv, Lost
<1>11. Telling'
  BY <1>0, <1>5 DEF KeptInv, Telling
<1> QED
  BY <1>7, <1>8, <1>9, <1>10, <1>11 DEF KeptInv

\* It cannot start, which is an answer to the listing.
LEMMA CannotStartKept ==
    ASSUME TypeOK, Live, KeptInv, WorkerCannotStart
    PROVE  KeptInv'
<1> DEFINE e == Event("failed", Request(0, All), daemon)
           r == Request(0, All)
<1>0. /\ worker = "starting" /\ worker' = "gone" /\ channel' = <<>> /\ events = <<>>
      /\ events' = Append(events, e)
      /\ UNCHANGED <<call, nextId, pending, inFlight, drafts, workerRunning, putBack>>
      /\ e \in EventType /\ e.request = r /\ e.type = "failed" /\ r.id = 0 /\ r.target = All
  BY DataFacts DEF WorkerCannotStart, Live, TypeOK, Event, Request, uiVars, draftVars, sendVars,
                   flagVars
<1>1. /\ InEvents = {} /\ InCall = {} /\ InCall' = {} /\ InChannel' = {} /\ InEvents' = {r}
      /\ events' = <<e>> /\ DOMAIN events' = {1} /\ events'[1] = e /\ DOMAIN channel' = {}
      /\ \A k \in Keys : IsPending(k)' <=> IsPending(k)
      /\ SomePending' <=> SomePending
  BY <1>0 DEF InEvents, InCall, InChannel, IsPending, SomePending
<1>2. Outstanding' = {r}
  BY <1>1, Places
<1>3. InLine'
  BY <1>0, <1>1 DEF InLine, EventsInLine, ChannelInLine
<1>4. PendingLater' /\ Numbered'
  BY <1>0, <1>1, <1>2, Numbers DEF KeptInv, PendingLater, Numbered, IsPending
<1>5. Sent' /\ Awaited' /\ Telling'
  BY <1>0, <1>1, <1>2 DEF KeptInv, Sent, Awaited, Latest, Telling
<1>6. Lost'
  <2>1. \A q \in inFlight : q.id \in Nat /\ q.id # 0
    BY <1>1, Numbers, Places DEF Live, Marked, Apart
  <2> QED
    BY <1>0, <1>1, <2>1 DEF KeptInv, Lost
<1> QED
  BY <1>3, <1>4, <1>5, <1>6 DEF KeptInv

\* What an answer leaves of the line, whichever it is of.
LEMMA TakenLine ==
    ASSUME TypeOK, KeptInv, TakeEvent
    PROVE  /\ InLine' /\ Telling' /\ PendingLater'
           /\ Outstanding = Outstanding' \cup {Head(events).request}
           /\ InEvents = InEvents' \cup {Head(events).request}
           /\ \A q \in Outstanding' :
                 /\ q # Head(events).request
                 /\ Comparable(Head(events).request, q) => Head(events).request.id < q.id
           /\ Head(events) \in EventType /\ events # <<>> /\ Head(events) = events[1]
           /\ 1 \in DOMAIN events
<1> DEFINE r == Head(events).request
<1>0. /\ events # <<>> /\ events' = Tail(events) /\ events \in Seq(EventType)
      /\ UNCHANGED <<nextId, pending, channel, worker, call, putBack>>
  BY Numbers DEF TakeEvent, workerVars
<1>1. /\ Head(events) \in EventType /\ Head(events) = events[1] /\ 1 \in DOMAIN events
      /\ \A i \in DOMAIN events' :
            i \in Nat /\ i + 1 \in DOMAIN events /\ events'[i] = events[i + 1] /\ 1 < i + 1
      /\ \A i \in DOMAIN events :
            i \in Nat /\ (i = 1 \/ (i - 1 \in DOMAIN events' /\ events'[i - 1] = events[i]))
  BY <1>0, TailFacts
<1>2. /\ UNCHANGED <<InChannel, InCall>> /\ \A k \in Keys : IsPending(k)' <=> IsPending(k)
      /\ \A q, p : Comparable(q, p)' <=> Comparable(q, p)
      /\ InEvents' = {events'[i].request : i \in DOMAIN events'}
      /\ InEvents = {events[i].request : i \in DOMAIN events}
  BY <1>0 DEF InChannel, InCall, IsPending, Comparable, InEvents
<1>3. InEvents = InEvents' \cup {r}
  BY <1>1, <1>2
<1>4. Outstanding = Outstanding' \cup {r}
  BY <1>2, <1>3, Places
<1>5. EventsInLine'
  <2>1. ASSUME NEW i \in DOMAIN events', NEW j \in DOMAIN events', i < j,
               Comparable(events'[i].request, events'[j].request)
        PROVE  events'[i].request.id < events'[j].request.id
    <3>1. i + 1 < j + 1
      BY <1>1, <2>1
    <3> QED
      BY <1>1, <2>1, <3>1 DEF KeptInv, InLine, EventsInLine
  <2> QED
    BY <1>2, <2>1 DEF EventsInLine
<1>6. \A q \in InEvents' : Comparable(r, q) => r.id < q.id
  <2>1. ASSUME NEW i \in DOMAIN events', Comparable(r, events'[i].request)
        PROVE  r.id < events'[i].request.id
    BY <1>1, <2>1 DEF KeptInv, InLine, EventsInLine
  <2> QED
    BY <1>2, <2>1
<1>7. InLine'
  <2>1. ChannelInLine'
    BY <1>0, <1>2 DEF KeptInv, InLine, ChannelInLine
  <2> QED
    BY <1>2, <1>3, <1>5, <2>1 DEF KeptInv, InLine
<1>8. \A q \in Outstanding' : q # r /\ (Comparable(r, q) => r.id < q.id)
  <2>1. \A q \in InChannel' \cup InCall' : Comparable(r, q) => r.id < q.id
    BY <1>2, <1>3 DEF KeptInv, InLine
  <2>2. \A q \in Outstanding' : Comparable(r, q) => r.id < q.id
    BY <1>6, <2>1, Places
  <2>3. Comparable(r, r) /\ ~(r.id < r.id)
    BY <1>1, DataFacts DEF Comparable, Ids
  <2> QED
    BY <2>2, <2>3
<1>9. Telling'
  BY <1>1 DEF KeptInv, Telling
<1>10. PendingLater'
  BY <1>0, <1>2, <1>4 DEF KeptInv, PendingLater
<1> QED
  BY <1>1, <1>3, <1>4, <1>7, <1>8, <1>9, <1>10

\* Nothing is pending or in flight on a display that has no later input than a
\* listing it is synchronized with.
LEMMA SnapshotFindsQuiet ==
    ASSUME TypeOK, KeptInv, TakeEvent, NEW d \in Displays,
           Head(events).request.target = All,
           ~drafts[d].known \/ Head(events).request.id >= drafts[d].latest
    PROVE  ~Busy(d)
<1> DEFINE r == Head(events).request
<1>0. r \in InEvents /\ r \in Outstanding /\ r.id \in Nat
  BY TakenLine, Numbers
<1>1. ASSUME NEW k \in Keys, k[1] = d, IsPending(k) PROVE FALSE
  <2>1. drafts[d].known /\ pending[k].id <= drafts[d].latest
    BY <1>1 DEF KeptInv, Awaited, Latest
  <2>2. r.id < pending[k].id
    BY <1>0, <1>1 DEF KeptInv, PendingLater
  <2> QED
    BY <1>0, <2>1, <2>2, Numbers
<1>2. ASSUME NEW q \in inFlight, q.target = d PROVE FALSE
  <2>1. drafts[d].known /\ q.id <= drafts[d].latest /\ q # r
    BY <1>2, DataFacts DEF KeptInv, Awaited, Latest
  <2>2. q.id <= r.id
    BY <1>0, <2>1, Numbers
  <2>3. q \in InEvents
    BY <1>0, <2>2 DEF KeptInv, Lost
  <2>4. r.id < q.id
    BY <2>1, <2>3, TakenLine, Places DEF Comparable
  <2> QED
    BY <1>0, <2>2, <2>4, Numbers
<1> QED
  BY <1>1, <1>2 DEF Busy

\* An answer to a write on d is of a write in flight, and if it is not older
\* than the last input on d it is of that; or nothing is busy any more.
LEMMA AnswerFindsWrite ==
    ASSUME TypeOK, KeptInv, TakeEvent, NEW d \in Displays,
           Head(events).request.target = d
    PROVE  \/ \A c \in Displays : ~Busy(c)
           \/ /\ Head(events).request \in inFlight
              /\ Latest(Head(events).request.id, d)
<1>1. Head(events).request \in Outstanding /\ d # All
  BY TakenLine, DataFacts
<1>2. CASE Head(events).request \in inFlight
  BY <1>2 DEF KeptInv, Awaited
<1>3. CASE Head(events).request \notin inFlight
  BY <1>1, <1>3 DEF KeptInv, Sent, SomePending, Busy
<1> QED
  BY <1>2, <1>3

\* What a frame does with an answer leaves what a slider shows as it was, unless
\* nothing is pending or in flight on it.
LEMMA TakenDrafts ==
    ASSUME TypeOK, KeptInv, TakeEvent, NEW d \in Displays
    PROVE  \/ ~Busy(d)
           \/ /\ drafts'[d].known = drafts[d].known
              /\ drafts'[d].shown = drafts[d].shown /\ drafts'[d].latest = drafts[d].latest
<1> DEFINE e == Head(events)
           r == e.request
<1>0. e \in EventType /\ e = events[1] /\ 1 \in DOMAIN events
  BY TakenLine
<1>1. CASE e.type = "snapshot"
  <2>1. Snapshot(e) /\ r.target = All
    BY <1>0, <1>1 DEF TakeEvent, KeptInv, Telling
  <2>2. CASE e.infos[d].listed
    <3>1. drafts'[d] = Sync(d, e.infos[d], r.id)
      BY <2>1, <2>2 DEF Snapshot
    <3>2. r.id \in Nat /\ drafts[d].latest \in Nat
      BY <1>0, Numbers, DataFacts
    <3>3. CASE drafts[d].known /\ r.id < drafts[d].latest
      BY <3>1, <3>3 DEF Sync
    <3>4. CASE ~(drafts[d].known /\ r.id < drafts[d].latest)
      BY <2>1, <3>2, <3>4, SnapshotFindsQuiet
    <3> QED
      BY <3>3, <3>4
  <2>3. CASE ~e.infos[d].listed
    BY <2>1, <2>3 DEF Snapshot
  <2> QED
    BY <2>2, <2>3
<1>2. CASE e.type = "updated"
  <2>1. DisplayUpdated(e) /\ r.target \in Displays /\ e.infos[r.target].version = r.id
    BY <1>0, <1>2 DEF TakeEvent, KeptInv, Telling
  <2>2. drafts' = [drafts EXCEPT ![r.target] = Sync(r.target, e.infos[r.target], r.id)]
    BY <2>1 DEF DisplayUpdated
  <2>3. CASE d # r.target
    BY <2>2, <2>3 DEF TypeOK
  <2>4. CASE d = r.target
    <3>1. drafts'[d] = Sync(d, e.infos[d], r.id)
      BY <2>2, <2>4 DEF TypeOK
    <3>2. CASE \A c \in Displays : ~Busy(c)
      BY <3>2
    <3>3. CASE Latest(r.id, d)
      <4>1. r.id \in Nat /\ drafts[d].latest \in Nat
        BY <1>0, Numbers, DataFacts
      <4>2. CASE r.id < drafts[d].latest
        BY <3>1, <3>3, <4>2 DEF Sync, Latest
      <4>3. CASE ~(r.id < drafts[d].latest)
        <5>1. r.id = drafts[d].latest /\ drafts[d].shown = r.id /\ drafts[d].known
          BY <3>3, <4>1, <4>3 DEF Latest
        <5>2. drafts'[d] = Draft(r.id, r.id, e.infos[d].error) /\ drafts[d].known = TRUE
          BY <2>1, <2>4, <3>1, <4>3, <5>1 DEF Sync, TypeOK
        <5> QED
          BY <5>1, <5>2 DEF Draft
      <4> QED
        BY <4>2, <4>3
    <3> QED
      BY <2>4, <3>2, <3>3, AnswerFindsWrite
  <2> QED
    BY <2>3, <2>4
<1>3. CASE e.type = "failed"
  <2>1. drafts' = WithError(e)
    BY <1>3 DEF TakeEvent, Failed
  <2>2. drafts[d] \in [known : BOOLEAN, shown : Ids, latest : Ids, error : BOOLEAN]
    BY DEF TypeOK
  <2>3. drafts'[d] = drafts[d] \/ drafts'[d] = [drafts[d] EXCEPT !.error = TRUE]
    BY <2>1 DEF WithError
  <2> QED
    BY <2>2, <2>3
<1> QED
  BY <1>0, <1>1, <1>2, <1>3 DEF EventType

\* What a frame does with an answer to the marks: that of its request goes.
LEMMA TakenMarks ==
    ASSUME TypeOK, KeptInv, TakeEvent
    PROVE  /\ inFlight' = inFlight \ {Head(events).request}
           /\ UNCHANGED <<nextId, pending, worker, workerRunning, putBack>>
<1>1. \A r \in inFlight : r.target # All
  BY DataFacts DEF KeptInv, Lost
<1>2. Head(events).type = "snapshot" => Head(events).request.target = All
  BY TakenLine DEF KeptInv, Telling
<1>3. Head(events).type \in {"snapshot", "updated", "failed"}
  BY TakenLine DEF EventType
<1> QED
  BY <1>1, <1>2, <1>3 DEF TakeEvent, Snapshot, DisplayUpdated, Failed, workerVars

\* The applet takes an answer.
LEMMA TakeEventKept ==
    ASSUME TypeOK, KeptInv, TakeEvent
    PROVE  KeptInv'
<1> DEFINE r == Head(events).request
<1>0. /\ Outstanding = Outstanding' \cup {r} /\ InEvents = InEvents' \cup {r}
      /\ inFlight' = inFlight \ {r} /\ r \notin Outstanding'
      /\ UNCHANGED <<nextId, pending, worker, workerRunning, putBack>>
  BY TakenLine, TakenMarks
<1>1. \A k \in Keys : IsPending(k)' <=> IsPending(k)
  BY <1>0 DEF IsPending
<1>2. SomePending' <=> SomePending
  BY <1>0 DEF SomePending, IsPending
<1>3. Numbered'
  BY <1>0 DEF KeptInv, Numbered
<1>4. Sent'
  BY <1>0, <1>2 DEF KeptInv, Sent
<1>5. Lost'
  BY <1>0 DEF KeptInv, Lost
<1>6. Awaited'
  <2>1. ASSUME NEW id, NEW d \in Displays, Busy(d), Latest(id, d)
        PROVE  Latest(id, d)'
    <3>1. /\ drafts'[d].known = drafts[d].known
          /\ drafts'[d].shown = drafts[d].shown /\ drafts'[d].latest = drafts[d].latest
      BY <2>1, TakenDrafts DEF TypeOK
    <3> QED
      BY <2>1, <3>1 DEF Latest
  <2>2. ASSUME NEW k \in Keys, IsPending(k)' PROVE Latest(pending[k].id, k[1])'
    <3>1. Busy(k[1]) /\ Latest(pending[k].id, k[1]) /\ k[1] \in Displays
      BY <1>1, <2>2, Numbers DEF Busy, KeptInv, Awaited
    <3> QED
      BY <1>0, <2>1, <3>1 DEF Latest
  <2>3. ASSUME NEW q \in inFlight' PROVE Latest(q.id, q.target)'
    <3>1. Busy(q.target) /\ Latest(q.id, q.target) /\ q.target \in Displays
      BY <1>0, <2>3 DEF Busy, KeptInv, Awaited, Lost
    <3> QED
      BY <2>1, <3>1
  <2> QED
    BY <2>2, <2>3 DEF Awaited
<1> QED
  BY <1>3, <1>4, <1>5, <1>6, TakenLine DEF KeptInv

\* The writes of a display fall due in their order.
LEMMA StepDue ==
    ASSUME TypeOK, KeptInv, DueInOrder, [Next]_vars
    PROVE  DueInOrder'
<1> USE DEF draftVars, sendVars, flagVars, workerVars, uiVars
<1>0. \A k \in Keys : pending[k] \in [id : Ids, wait : 0 .. Debounce] /\ pending[k].id < nextId
  BY DEF TypeOK, KeptInv, Numbered
<1>1. ASSUME UNCHANGED <<pending, due, putBack>>, ui' # "flush" => due = {}
      PROVE  DueInOrder'
  BY <1>1 DEF DueInOrder, IsPending
<1>2. CASE TakeEvent \/ FlushEnds \/ NoInput \/ ClickRefresh \/ Close \/ UNCHANGED vars
  BY <1>1, <1>2 DEF TakeEvent, FlushEnds, NoInput, ClickRefresh, Close, vars, DueInOrder
<1>3. CASE DrainEnds
  BY <1>3 DEF DrainEnds, DueInOrder, IsPending
<1>4. CASE NoticeWorkerGone \/ SendDisconnected
  <2>1. due' = {} /\ \A k \in Keys : ~IsPending(k)'
    BY <1>4, DataFacts DEF NoticeWorkerGone, SendDisconnected, IsPending
  <2> QED
    BY <2>1 DEF DueInOrder
<1>5. CASE SendDue
  <2>1. NextDue \in Keys
    BY <1>5, FirstDue DEF SendDue
  <2>2. /\ \A k \in Keys : pending'[k] = IF k = NextDue THEN NoWrite ELSE pending[k]
        /\ due' = due \ {NextDue} /\ ui' = "flush" /\ putBack' = putBack
    BY <1>5, <2>1 DEF SendDue, TypeOK
  <2>3. \A k \in Keys : IsPending(k)' => k # NextDue /\ IsPending(k) /\ pending'[k] = pending[k]
    BY <2>2, DataFacts DEF IsPending
  <2> QED
    BY <2>2, <2>3 DEF DueInOrder
<1>6. CASE ChannelFull
  <2>1. NextDue \in Keys
    BY <1>6, FirstDue DEF ChannelFull
  <2>2. /\ \A k \in Keys : pending'[k].id = pending[k].id /\ (k # NextDue => pending'[k] = pending[k])
        /\ due' = {} /\ putBack' = putBack \cup {NextDue[1]}
    BY <1>0, <1>6, <2>1 DEF ChannelFull, TypeOK
  <2> QED
    BY <2>2 DEF DueInOrder, IsPending
<1>7. ASSUME NEW d \in Displays, NEW kind \in WriteKinds, Slide(d, kind)
      PROVE  DueInOrder'
  <2> DEFINE key == <<d, kind>>
  <2>1. due' = {} /\ putBack' = putBack /\ nextId \in Nat
    BY <1>7, Numbers DEF Slide, DueInOrder
  <2>2. \A k \in Keys :
           /\ pending'[k].id = IF k = key THEN nextId ELSE pending[k].id
           /\ k # key /\ k[1] = d => pending'[k].wait = 0
           /\ k[1] # d => pending'[k] = pending[k]
    BY <1>7 DEF Slide, Queued, TypeOK
  <2>3. \A k \in Keys : pending[k].id \in Nat /\ pending[k].id < nextId
    BY <1>0, Numbers
  <2> HIDE DEF key
  <2>4. ASSUME NEW k \in Keys, NEW l \in Keys, IsPending(k)', IsPending(l)', k[1] = l[1],
               k[1] \notin putBack, pending'[k].id < pending'[l].id
        PROVE  pending'[k].wait = 0
    <3>1. CASE k[1] = d
      <4>1. k # key
        BY <2>1, <2>2, <2>3, <2>4
      <4> QED
        BY <2>2, <3>1, <4>1
    <3>2. CASE k[1] # d
      <4>1. pending'[k] = pending[k] /\ pending'[l] = pending[l]
        BY <2>2, <2>4, <3>2
      <4> QED
        BY <2>4, <4>1 DEF DueInOrder, IsPending
    <3> QED
      BY <3>1, <3>2
  <2> QED
    BY <2>1, <2>4 DEF DueInOrder
<1>8. CASE Tick
  <2>1. \A k \in Keys : /\ pending'[k].id = pending[k].id
                        /\ pending[k].wait = 0 => pending'[k].wait = 0
    BY <1>0, <1>8 DEF Tick
  <2>2. UNCHANGED <<due, putBack, ui>>
    BY <1>8 DEF Tick
  <2> QED
    BY <2>1, <2>2 DEF DueInOrder, IsPending
<1>9. CASE Work \/ Trouble
  <2>1. UNCHANGED <<pending, due, putBack, ui>>
    BY <1>9 DEF Work, Trouble, WorkerStarts, TakeCommand, AnswersListing, AnswersRefresh,
           AnswersWrite, AnswersError, Answered, WorkerCannotStart, WorkerDies
  <2> QED
    BY <1>1, <2>1 DEF DueInOrder
<1> QED
  BY <1>2, <1>3, <1>4, <1>5, <1>6, <1>7, <1>8, <1>9 DEF Next, Frame, Input

\* A write that is sent is the oldest one pending on its display.
LEMMA OldestIsSent ==
    ASSUME TypeOK, Live, DueInOrder, SendDue,
           NEW l \in Keys, IsPending(l), l[1] = NextDue[1], l # NextDue, l[1] \notin putBack
    PROVE  pending[NextDue].id < pending[l].id
<1>1. /\ NextDue \in due /\ NextDue \in Keys
      /\ \A other \in due : pending[NextDue].id <= pending[other].id
  BY FirstDue DEF SendDue
<1>2. IsPending(NextDue) /\ pending[NextDue].id # pending[l].id
  BY <1>1 DEF TypeOK, Live, Apart
<1>3. ~(pending[l].id < pending[NextDue].id)
  <2>1. ASSUME pending[l].id < pending[NextDue].id PROVE l \in due
    BY <1>1, <1>2, <2>1 DEF DueInOrder
  <2> QED
    BY <1>1, <2>1, Numbers
<1> QED
  BY <1>1, <1>2, <1>3, Numbers

\* The inductive invariant of the order of requests.
OrderInv == AppletInv /\ KeptInv /\ DueInOrder

\* What the worker passes on.
LEMMA WorkKept ==
    ASSUME OrderInv, Work
    PROVE  KeptInv'
<1>1. TypeOK /\ TypeOK' /\ Live /\ KeptInv
  <2>1. worker # "gone"
    BY DEF Work, WorkerStarts, TakeCommand, AnswersListing, AnswersRefresh,
           AnswersWrite, AnswersError, Answered
  <2> QED
    BY <2>1, StepType DEF OrderInv, AppletInv, Next
<1>2. daemon' \in [Displays -> Infos] /\ call \in Requests
  BY <1>1 DEF TypeOK
<1>3. CASE WorkerStarts \/ TakeCommand
  BY <1>1, <1>3, StartKept, TakeCommandKept
<1>4. CASE AnswersListing
  BY <1>1, <1>2, <1>4, AnsweredKept DEF AnswersListing
<1>5. CASE \E listed, failed \in SUBSET Displays : AnswersRefresh(listed, failed)
  BY <1>1, <1>2, <1>5, AnsweredKept DEF AnswersRefresh
<1>6. CASE AnswersWrite
  <2>1. Answered("updated") /\ call.target \in Displays /\ daemon'[call.target].version = call.id
    BY <1>1, <1>6 DEF AnswersWrite, TypeOK
  <2> QED
    BY <1>1, <1>2, <2>1, AnsweredKept
<1>7. CASE AnswersError
  BY <1>1, <1>2, <1>7, AnsweredKept DEF AnswersError
<1> QED
  BY <1>3, <1>4, <1>5, <1>6, <1>7 DEF Work

\* The order of requests and what sliders show of them holds in every step.
LEMMA StepKept ==
    ASSUME OrderInv, [Next]_vars
    PROVE  KeptInv'
<1> USE DEF draftVars, sendVars, flagVars, workerVars, uiVars
<1>0. TypeOK /\ KeptInv /\ DueInOrder /\ (worker # "gone" => Live)
  BY DEF OrderInv, AppletInv
<1>1. CASE TakeEvent \/ ClickRefresh
  BY <1>0, <1>1, TakeEventKept, ClickKept
<1>2. CASE DrainEnds \/ FlushEnds \/ NoInput \/ UNCHANGED vars
  BY <1>0, <1>2, SameKept DEF DrainEnds, FlushEnds, NoInput, vars
<1>3. CASE ChannelFull \/ Tick
  <2>1. \A k \in Keys : pending'[k].id = pending[k].id
    <3>1. pending \in [Keys -> [id : Ids, wait : 0 .. Debounce]]
      BY <1>0 DEF TypeOK
    <3>2. CASE Tick
      BY <3>1, <3>2 DEF Tick
    <3>3. CASE ChannelFull
      BY <3>1, <3>3 DEF ChannelFull
    <3> QED
      BY <1>3, <3>2, <3>3
  <2> QED
    BY <1>0, <1>3, <2>1, SameKept DEF ChannelFull, Tick
<1>4. CASE NoticeWorkerGone \/ SendDisconnected
  BY <1>0, <1>4, NoticedKept
<1>5. CASE SendDue
  <2>1. Live
    BY <1>0, <1>5 DEF SendDue
  <2> QED
    BY <1>0, <1>5, <2>1, OldestIsSent, SendKept
<1>6. CASE \E d \in Displays, kind \in WriteKinds : Slide(d, kind)
  BY <1>0, <1>6, SlideKept
<1>7. CASE Work
  BY <1>7, WorkKept
<1>8. CASE WorkerCannotStart
  <2>1. Live
    BY <1>0, <1>8 DEF WorkerCannotStart
  <2> QED
    BY <1>0, <1>8, <2>1, CannotStartKept
<1>9. CASE WorkerDies \/ Close
  BY <1>0, <1>9, GoneKept DEF WorkerDies, Close
<1> QED
  BY <1>1, <1>2, <1>3, <1>4, <1>5, <1>6, <1>7, <1>8, <1>9 DEF Next, Frame, Input, Trouble

\* The invariant is inductive.
LEMMA StepOrder == OrderInv /\ [Next]_vars => OrderInv'
BY StepInv, StepKept, StepDue DEF OrderInv, AppletInv

\* It holds at the start.
LEMMA InitOrder == Init => OrderInv
<1> SUFFICES ASSUME Init PROVE OrderInv
  OBVIOUS
<1>1. AppletInv
  BY InitInv
<1>2. /\ InChannel = {} /\ InEvents = {} /\ InCall = {} /\ Outstanding = {} /\ inFlight = {}
      /\ DOMAIN events = {} /\ DOMAIN channel = {}
  BY Places DEF Init, InChannel, InEvents, InCall
<1>3. \A k \in Keys : ~IsPending(k) /\ pending[k].id = 0
  BY DataFacts DEF Init, IsPending
<1>4. KeptInv
  BY <1>2, <1>3 DEF Init, KeptInv, InLine, EventsInLine, ChannelInLine, PendingLater, Numbered,
                    Sent, Lost, Awaited, Telling
<1>5. DueInOrder
  BY <1>3 DEF Init, DueInOrder
<1> QED
  BY <1>1, <1>4, <1>5 DEF OrderInv

\* An answer that comes late, or is one of a refresh, never undoes what the user
\* did since: for any number of displays, sliders, requests and answers on their
\* way, whether the worker lives or not.
THEOREM InputIsKept == Spec => InputKept
<1>1. Spec => []OrderInv
  BY InitOrder, StepOrder, PTL DEF Spec
<1>2. ASSUME OrderInv, [Next]_vars, NEW d \in Displays,
             drafts[d].known, drafts'[d].shown # drafts[d].shown, nextId' = nextId
      PROVE  ~Busy(d)'
  <2>1. TypeOK /\ KeptInv
    BY <1>2 DEF OrderInv, AppletInv
  <2>2. TakeEvent
    <3>1. ASSUME NEW c \in Displays, NEW kind \in WriteKinds, Slide(c, kind)
          PROVE  FALSE
      BY <1>2, <2>1, <3>1, Numbers DEF Slide
    <3>2. ~(Close \/ DrainEnds \/ NoticeWorkerGone \/ SendDue \/ ChannelFull
              \/ SendDisconnected \/ FlushEnds \/ NoInput \/ ClickRefresh \/ Tick
              \/ Work \/ Trouble \/ UNCHANGED vars)
      BY <1>2 DEF Close, DrainEnds, NoticeWorkerGone, SendDue, ChannelFull, SendDisconnected,
             FlushEnds, NoInput, ClickRefresh, Tick, Work, Trouble, WorkerStarts, TakeCommand,
             AnswersListing, AnswersRefresh, AnswersWrite, AnswersError, Answered,
             WorkerCannotStart, WorkerDies, vars, draftVars, uiVars
    <3> QED
      BY <1>2, <3>1, <3>2 DEF Next, Frame, Input
  <2>3. ~Busy(d)
    BY <1>2, <2>1, <2>2, TakenDrafts
  <2>4. inFlight' \subseteq inFlight /\ pending' = pending
    BY <2>1, <2>2, TakenMarks
  <2> QED
    BY <2>3, <2>4 DEF Busy, IsPending
<1>3. OrderInv /\ [Next]_vars =>
          [\A d \in Displays :
              drafts[d].known /\ drafts'[d].shown # drafts[d].shown /\ nextId' = nextId
                => ~Busy(d)']_vars
  BY <1>2
<1> QED
  BY <1>1, <1>3, PTL DEF Spec, InputKept

\* While the worker lives a write stops pending only when it is sent or when the
\* user moves its slider again: no input is dropped, whatever else was due with
\* it and however often the channel was full.
THEOREM InputsAreNotLost == Spec => NoInputLost
<1>1. Spec => []OrderInv
  BY InitOrder, StepOrder, PTL DEF Spec
<1>2. ASSUME OrderInv, [Next]_vars, NEW key \in Keys,
             IsPending(key), pending'[key].id # pending[key].id, worker # "gone"
      PROVE  \/ Request(pending[key].id, key[1]) \in Outstanding'
             \/ pending'[key].id > pending[key].id
  <2>1. TypeOK /\ KeptInv
    BY <1>2 DEF OrderInv, AppletInv
  <2>2. CASE SendDue
    <3>1. NextDue \in Keys /\ pending'[key].id = IF key = NextDue THEN 0 ELSE pending[key].id
      BY <2>1, <2>2, FirstDue DEF SendDue, TypeOK, NoWrite
    <3>2. key = NextDue
      BY <1>2, <3>1
    <3> DEFINE r == Request(pending[key].id, key[1])
    <3>3. r \in Requests /\ channel' = Append(channel, r)
      BY <2>1, <2>2, <3>2, DataFacts DEF SendDue, TypeOK
    <3>4. r \in InChannel'
      BY <2>1, <3>3, ChannelGrows
    <3> QED
      BY <3>4, Places
  <2>3. CASE \E d \in Displays, kind \in WriteKinds : Slide(d, kind)
    <3>1. PICK d \in Displays, kind \in WriteKinds : Slide(d, kind)
      BY <2>3
    <3>2. pending'[key].id = IF key = <<d, kind>> THEN nextId ELSE pending[key].id
      BY <2>1, <3>1 DEF Slide, Queued, TypeOK
    <3>3. pending[key].id < nextId
      BY <2>1 DEF KeptInv, Numbered
    <3> QED
      BY <1>2, <2>1, <3>2, <3>3, Numbers
  <2>4. ~(ChannelFull \/ Tick)
    <3>1. pending \in [Keys -> [id : Ids, wait : 0 .. Debounce]]
      BY <2>1 DEF TypeOK
    <3>2. ~Tick
      BY <1>2, <3>1 DEF Tick
    <3>3. ~ChannelFull
      BY <1>2, <3>1 DEF ChannelFull
    <3> QED
      BY <3>2, <3>3
  <2>5. ~(Close \/ TakeEvent \/ DrainEnds \/ NoticeWorkerGone \/ SendDisconnected \/ FlushEnds
            \/ NoInput \/ ClickRefresh \/ Work \/ Trouble \/ UNCHANGED vars)
    BY <1>2 DEF Close, TakeEvent, DrainEnds, NoticeWorkerGone, SendDisconnected, FlushEnds, NoInput,
           ClickRefresh, Work, Trouble, WorkerStarts, TakeCommand, AnswersListing, AnswersRefresh,
           AnswersWrite, AnswersError, Answered, WorkerCannotStart, WorkerDies, vars, sendVars, uiVars
  <2> QED
    BY <1>2, <2>2, <2>3, <2>4, <2>5 DEF Next, Frame, Input
<1>3. OrderInv /\ [Next]_vars =>
          [\A key \in Keys :
              IsPending(key) /\ pending'[key].id # pending[key].id =>
                  \/ Request(pending[key].id, key[1]) \in Outstanding'
                  \/ pending'[key].id > pending[key].id
                  \/ worker = "gone"]_vars
  BY <1>2
<1> QED
  BY <1>1, <1>3, PTL DEF Spec, NoInputLost

-----------------------------------------------------------------------------
(* What sliders come to show                                               *)

\* Steps that keep what an answer tells of a display true.
LEMMA StepCurrent ==
    ASSUME OrderInv, Live, Current, [Next]_vars, worker' # "gone"
    PROVE  Current'
<1> USE DEF draftVars, sendVars, flagVars, workerVars, uiVars
<1>0. TypeOK /\ events \in Seq(EventType)
  BY Numbers DEF OrderInv, AppletInv
<1>1. ASSUME UNCHANGED <<events, daemon>>
      PROVE  Current'
  BY <1>1 DEF Current
<1>2. CASE TakeEvent
  <2>1. events # <<>> /\ events' = Tail(events) /\ UNCHANGED daemon
    BY <1>2 DEF TakeEvent
  <2>2. /\ \A i \in DOMAIN events' :
              i \in Nat /\ i + 1 \in DOMAIN events /\ events'[i] = events[i + 1]
        /\ \A i \in DOMAIN events :
              i \in Nat /\ (i = 1 \/ (i - 1 \in DOMAIN events' /\ events'[i - 1] = events[i]))
    BY <1>0, <2>1, TailFacts
  <2>3. ASSUME NEW i \in DOMAIN events', NEW d \in Displays,
               \A j \in DOMAIN events' : i < j => events'[j].request.target # d
        PROVE  events'[i].infos[d].version = daemon[d].version
    <3>1. i \in Nat /\ i + 1 \in DOMAIN events /\ events'[i] = events[i + 1]
      BY <2>2
    <3>2. ASSUME NEW j \in DOMAIN events, i + 1 < j
          PROVE  events[j].request.target # d
      <4>1. j - 1 \in DOMAIN events' /\ events'[j - 1] = events[j] /\ i < j - 1
        BY <2>2, <3>1, <3>2
      <4> QED
        BY <2>3, <4>1
    <3> QED
      BY <3>1, <3>2 DEF Current
  <2> QED
    BY <2>1, <2>3 DEF Current
<1>3. ASSUME NEW type, Answered(type), type \in {"snapshot", "updated", "failed"},
             daemon' \in [Displays -> Infos],
             \A d \in Displays \ {call.target} : daemon'[d].version = daemon[d].version
      PROVE  Current'
  <2> DEFINE e == Event(type, call, daemon')
  <2>1. e \in EventType /\ events' = Append(events, e) /\ e.request = call /\ e.infos = daemon'
    BY <1>0, <1>3, DataFacts DEF Answered, Event, TypeOK
  <2>2. /\ \A i \in DOMAIN events :
              i \in DOMAIN events' /\ events'[i] = events[i] /\ i < Len(events) + 1
        /\ Len(events) + 1 \in DOMAIN events' /\ events'[Len(events) + 1] = e
        /\ \A i \in DOMAIN events' : i \in DOMAIN events \/ i = Len(events) + 1
    BY <1>0, <2>1, AppendFacts
  <2>3. ASSUME NEW i \in DOMAIN events', NEW d \in Displays,
               \A j \in DOMAIN events' : i < j => events'[j].request.target # d
        PROVE  events'[i].infos[d].version = daemon'[d].version
    <3>1. CASE i = Len(events) + 1
      BY <2>1, <2>2, <3>1
    <3>2. CASE i \in DOMAIN events
      <4>1. call.target # d
        BY <2>1, <2>2, <2>3, <3>2
      <4>2. events[i].infos[d].version = daemon[d].version
        BY <2>2, <2>3, <3>2 DEF Current
      <4> QED
        BY <1>3, <2>2, <3>2, <4>1, <4>2
    <3> QED
      BY <2>2, <3>1, <3>2
  <2> QED
    BY <2>3 DEF Current
<1>4. CASE Work
  <2>1. TypeOK'
    BY <1>0, <1>4, StepType DEF Next
  <2>2. daemon' \in [Displays -> Infos] /\ daemon \in [Displays -> Infos]
    BY <1>0, <2>1 DEF TypeOK
  <2>3. CASE WorkerStarts \/ TakeCommand
    BY <1>1, <2>3 DEF WorkerStarts, TakeCommand
  <2>4. CASE AnswersListing
    BY <1>3, <2>2, <2>4 DEF AnswersListing
  <2>5. CASE \E listed, failed \in SUBSET Displays : AnswersRefresh(listed, failed)
    BY <1>3, <2>2, <2>5 DEF AnswersRefresh
  <2>6. CASE AnswersWrite
    BY <1>3, <2>2, <2>6 DEF AnswersWrite
  <2>7. CASE AnswersError
    <3>1. Answered("failed")
      BY <2>7 DEF AnswersError
    <3>2. \A d \in Displays \ {call.target} : daemon'[d].version = daemon[d].version
      BY <2>2, <2>7 DEF AnswersError
    <3> QED
      BY <1>3, <2>2, <3>1, <3>2
  <2> QED
    BY <1>4, <2>3, <2>4, <2>5, <2>6, <2>7 DEF Work
<1>5. CASE DrainEnds \/ FlushEnds \/ NoInput \/ SendDue \/ ChannelFull \/ Tick \/ UNCHANGED vars
  BY <1>1, <1>5 DEF DrainEnds, FlushEnds, NoInput, SendDue, ChannelFull, Tick, vars
<1>6. CASE Input
  BY <1>1, <1>6 DEF Input, ClickRefresh, Slide
<1>7. ~(Close \/ NoticeWorkerGone \/ SendDisconnected \/ Trouble)
  BY DEF OrderInv, AppletInv, Close, NoticeWorkerGone, SendDisconnected, Trouble,
         WorkerCannotStart, WorkerDies
<1> QED
  BY <1>2, <1>4, <1>5, <1>6, <1>7 DEF Next, Frame

\* The head of the events tells what the daemon has of a display, unless a
\* later one is of a write of that display.
LEMMA HeadIsCurrent ==
    ASSUME TypeOK, KeptInv, Current, TakeEvent, NEW d \in Displays,
           \A q \in InEvents' : q.target # d
    PROVE  Head(events).infos[d].version = daemon[d].version
<1>1. events \in Seq(EventType) /\ events # <<>> /\ events' = Tail(events)
  BY Numbers DEF TakeEvent
<1>2. /\ Head(events) = events[1] /\ 1 \in DOMAIN events
      /\ \A j \in DOMAIN events :
            j \in Nat /\ (j = 1 \/ (j - 1 \in DOMAIN events' /\ events'[j - 1] = events[j]))
  BY <1>1, TailFacts
<1>3. ASSUME NEW j \in DOMAIN events, 1 < j
      PROVE  events[j].request.target # d
  <2>1. j - 1 \in DOMAIN events' /\ events'[j - 1] = events[j]
    BY <1>2, <1>3
  <2>2. InEvents' = {events'[i].request : i \in DOMAIN events'}
    BY DEF InEvents
  <2> QED
    BY <2>1, <2>2
<1> QED
  BY <1>2, <1>3 DEF Current

\* A display is busy exactly while it has open writes, and none of them is
\* newer than the last input.
LEMMA BusyIsOpen ==
    ASSUME TypeOK, Live, KeptInv, NEW d \in Displays
    PROVE  /\ Busy(d) <=> Open(d) # {}
           /\ \A id \in Open(d) : drafts[d].known /\ id <= drafts[d].latest /\ id \in Nat
<1>1. \A r \in Outstanding : r.target = d => r \in inFlight
  BY DataFacts DEF Live, Marked
<1>2. \A r \in inFlight : r \in Outstanding
  BY DEF Live, Marked
<1>3. \A id : id \in Open(d) <=> \/ \E k \in Keys : k[1] = d /\ IsPending(k) /\ id = pending[k].id
                                 \/ \E r \in Outstanding : r.target = d /\ id = r.id
  BY DEF Open
<1>4. Busy(d) <=> Open(d) # {}
  BY <1>1, <1>2, <1>3 DEF Busy
<1>5. ASSUME NEW id \in Open(d)
      PROVE  drafts[d].known /\ id <= drafts[d].latest /\ id \in Nat
  <2>1. CASE \E k \in Keys : k[1] = d /\ IsPending(k) /\ id = pending[k].id
    BY <2>1, Numbers DEF KeptInv, Awaited, Latest
  <2>2. CASE \E r \in Outstanding : r.target = d /\ id = r.id
    BY <1>1, <2>2, Numbers DEF KeptInv, Awaited, Latest
  <2> QED
    BY <1>3, <1>5, <2>1, <2>2
<1> QED
  BY <1>4, <1>5

\* The applet takes an answer: the open writes of its display are one fewer,
\* and that one was the oldest.
LEMMA TakenOpen ==
    ASSUME TypeOK, KeptInv, TakeEvent, NEW d \in Displays \ putBack
    PROVE  /\ Head(events).request.target # d => Open(d)' = Open(d)
           /\ Head(events).request.target = d =>
                 /\ Open(d) = Open(d)' \cup {Head(events).request.id}
                 /\ \A id \in Open(d)' : Head(events).request.id < id
<1> DEFINE r == Head(events).request
<1>1. /\ Outstanding = Outstanding' \cup {r} /\ r \in Outstanding
      /\ \A q \in Outstanding' : Comparable(r, q) => r.id < q.id
      /\ \A k \in Keys : pending'[k] = pending[k] /\ (IsPending(k)' <=> IsPending(k))
  BY TakenLine, TakenMarks DEF IsPending
<1>2. \A id : id \in Open(d) <=> \/ \E k \in Keys : k[1] = d /\ IsPending(k) /\ id = pending[k].id
                                 \/ \E q \in Outstanding : q.target = d /\ id = q.id
  BY DEF Open
<1>3. \A id : id \in Open(d)' <=> \/ \E k \in Keys : k[1] = d /\ IsPending(k) /\ id = pending[k].id
                                  \/ \E q \in Outstanding' : q.target = d /\ id = q.id
  BY <1>1 DEF Open
<1>4. CASE r.target # d
  <2>1. {q \in Outstanding' : q.target = d} = {q \in Outstanding : q.target = d}
    BY <1>1, <1>4
  <2>2. Open(d)' = Open(d)
    BY <1>1, <2>1 DEF Open
  <2> QED
    BY <1>4, <2>2
<1>5. CASE r.target = d
  <2>1. Open(d) = Open(d)' \cup {r.id}
    BY <1>1, <1>2, <1>3, <1>5
  <2>2. ASSUME NEW k \in Keys, k[1] = d, IsPending(k) PROVE r.id < pending[k].id
    BY <1>1, <1>5, <2>2 DEF KeptInv, PendingLater
  <2>3. ASSUME NEW q \in Outstanding', q.target = d PROVE r.id < q.id
    BY <1>1, <1>5, <2>3 DEF Comparable
  <2> QED
    BY <1>3, <1>5, <2>1, <2>2, <2>3
<1> QED
  BY <1>4, <1>5

\* The applet takes an answer, and the slider is as it should be.
LEMMA TakeEventConverges ==
    ASSUME TypeOK, Live, KeptInv, Current, Converging, TakeEvent,
           NEW d \in Displays \ putBack, drafts'[d].known
    PROVE  IF Open(d)' = {} THEN Agrees(d)' ELSE drafts'[d].latest \in Open(d)'
<1> DEFINE e == Head(events)
           r == e.request
<1>0. /\ e \in EventType /\ r \in Outstanding /\ r.id \in Nat /\ drafts[d].latest \in Nat
      /\ daemon' = daemon /\ Outstanding' \subseteq Outstanding
  BY TakenLine, Numbers DEF TakeEvent, workerVars
<1>1. Open(d)' = {} => e.infos[d].version = daemon[d].version
  <2>1. Open(d)' = {} => \A q \in InEvents' : q.target # d
    BY Places DEF Open
  <2> QED
    BY <2>1, HeadIsCurrent
<1>2. CASE r.target = d
  <2>0. e.type = "updated" => drafts'[d] = Sync(d, e.infos[d], r.id)
    <3>1. e.type = "updated" => drafts' = [drafts EXCEPT ![d] = Sync(d, e.infos[d], r.id)]
      BY <1>2 DEF TakeEvent, DisplayUpdated
    <3> QED
      BY <3>1 DEF TypeOK
  <2>1. /\ Open(d) = Open(d)' \cup {r.id} /\ \A id \in Open(d)' : r.id < id
        /\ r.id \in Open(d)
    BY <1>2, TakenOpen
  <2>2. drafts[d].known /\ drafts[d].latest \in Open(d) /\ r.id <= drafts[d].latest
    BY <2>1, BusyIsOpen DEF Converging
  <2>3. e.type # "snapshot"
    BY <1>2, TakenLine, DataFacts DEF KeptInv, Telling
  <2>4. CASE Open(d)' = {}
    <3>1. drafts[d].latest = r.id
      BY <2>1, <2>2, <2>4
    <3>2. CASE e.type = "updated"
      <4>1. drafts'[d] = Draft(e.infos[d].version, r.id, e.infos[d].error)
        BY <1>0, <2>0, <3>1, <3>2 DEF Sync
      <4> QED
        BY <1>0, <1>1, <2>4, <4>1 DEF Agrees, Draft
    <3>3. CASE e.type = "failed"
      <4>1. drafts'[d] = [drafts[d] EXCEPT !.error = TRUE]
        BY <1>0, <1>2, <2>2, <3>1, <3>3 DEF TakeEvent, Failed, WithError
      <4>2. drafts[d] \in [known : BOOLEAN, shown : Ids, latest : Ids, error : BOOLEAN]
        BY DEF TypeOK
      <4>3. drafts'[d].error
        BY <4>1, <4>2
      <4> QED
        BY <2>4, <4>3 DEF Agrees
    <3> QED
      BY <1>0, <2>3, <3>2, <3>3 DEF EventType
  <2>5. CASE Open(d)' # {}
    <3>1. PICK id \in Open(d)' : TRUE
      BY <2>5
    <3>2. id \in Nat /\ r.id < id /\ id <= drafts[d].latest
      BY <2>1, <3>1, BusyIsOpen
    <3>3. r.id < drafts[d].latest /\ drafts[d].latest \in Open(d)'
      BY <1>0, <2>1, <2>2, <3>2
    <3>4. drafts'[d] = drafts[d]
      <4>1. CASE e.type = "updated"
        BY <2>0, <2>2, <3>3, <4>1 DEF Sync
      <4>2. CASE e.type = "failed"
        <5>1. drafts' = WithError(e)
          BY <4>2 DEF TakeEvent, Failed
        <5>2. ~(r.id >= drafts[d].latest)
          BY <1>0, <3>3
        <5> QED
          BY <5>1, <5>2 DEF WithError
      <4> QED
        BY <1>0, <2>3, <4>1, <4>2 DEF EventType
    <3> QED
      BY <2>5, <3>3, <3>4
  <2> QED
    BY <2>4, <2>5
<1>3. CASE r.target # d
  <2>1. Open(d)' = Open(d)
    BY <1>3, TakenOpen
  <2>2. ASSUME drafts'[d] = drafts[d]
        PROVE  IF Open(d)' = {} THEN Agrees(d)' ELSE drafts'[d].latest \in Open(d)'
    BY <1>0, <2>1, <2>2 DEF Converging, Agrees
  <2>3. CASE e.type = "snapshot"
    <3>1. Snapshot(e) /\ r.target = All
      BY <2>3, TakenLine DEF TakeEvent, KeptInv, Telling
    <3>2. CASE e.infos[d].listed
      <4>1. drafts'[d] = Sync(d, e.infos[d], r.id)
        BY <3>1, <3>2 DEF Snapshot
      <4>2. CASE drafts[d].known /\ r.id < drafts[d].latest
        BY <2>2, <4>1, <4>2 DEF Sync
      <4>3. CASE ~(drafts[d].known /\ r.id < drafts[d].latest)
        <5>1. ~Busy(d)
          BY <1>0, <3>1, <4>3, SnapshotFindsQuiet
        <5>2. Open(d)' = {}
          BY <2>1, <5>1, BusyIsOpen
        <5>3. drafts'[d] = Draft(e.infos[d].version, r.id, e.infos[d].error)
          BY <4>1, <4>3 DEF Sync
        <5> QED
          BY <1>0, <1>1, <5>2, <5>3 DEF Agrees, Draft
      <4> QED
        BY <4>2, <4>3
    <3>3. CASE ~e.infos[d].listed
      <4>1. drafts'[d] = drafts[d] \/ drafts'[d] = NoDraft
        BY <3>1, <3>3 DEF Snapshot
      <4> QED
        BY <2>2, <4>1 DEF NoDraft
    <3> QED
      BY <3>2, <3>3
  <2>4. CASE e.type = "updated"
    BY <1>3, <2>2, <2>4 DEF TakeEvent, DisplayUpdated, TypeOK
  <2>5. CASE e.type = "failed"
    BY <1>3, <2>2, <2>5 DEF TakeEvent, Failed, WithError
  <2> QED
    BY <1>0, <2>3, <2>4, <2>5 DEF EventType
<1> QED
  BY <1>2, <1>3

\* A step that keeps the sliders and the open writes, and what the daemon has
\* of displays with none.
LEMMA SameConverging ==
    ASSUME Converging, UNCHANGED drafts, putBack \subseteq putBack',
           \A d \in Displays \ putBack : /\ Open(d)' = Open(d)
                                         /\ \/ Open(d) # {}
                                            \/ daemon'[d].version = daemon[d].version
    PROVE  Converging'
BY DEF Converging, Agrees

\* The steps that move a write from one place to the next leave it open.
LEMMA OpenKept ==
    ASSUME TypeOK, Live, SendDue \/ ClickRefresh \/ WorkerStarts \/ TakeCommand
                           \/ (\E type \in {"snapshot", "updated", "failed"} : Answered(type)),
           worker # "gone", daemon' \in [Displays -> Infos], NEW d \in Displays
    PROVE  Open(d)' = Open(d)
<1> USE DEF draftVars, sendVars, flagVars, workerVars, uiVars
<1>1. \A id : id \in Open(d) <=> \/ \E k \in Keys : k[1] = d /\ IsPending(k) /\ id = pending[k].id
                                 \/ \E q \in Outstanding : q.target = d /\ id = q.id
  BY DEF Open
<1>2. \A id : id \in Open(d)' <=> \/ \E k \in Keys : k[1] = d /\ IsPending(k)' /\ id = pending'[k].id
                                  \/ \E q \in Outstanding' : q.target = d /\ id = q.id
  BY DEF Open
<1>3. ASSUME pending' = pending,
             {q \in Outstanding' : q.target = d} = {q \in Outstanding : q.target = d}
      PROVE  Open(d)' = Open(d)
  <2>1. \A k \in Keys : IsPending(k)' <=> IsPending(k)
    BY <1>3 DEF IsPending
  <2> QED
    BY <1>3, <2>1 DEF Open
<1>4. CASE SendDue
  <2>a. PICK key \in Keys : key = NextDue
    BY <1>4, FirstDue DEF SendDue
  <2> DEFINE r == Request(pending[key].id, key[1])
  <2>0. IsPending(key)
    BY <1>4, <2>a, FirstDue DEF SendDue, TypeOK
  <2>1. r \in Requests /\ r.id = pending[key].id /\ r.target = key[1]
    BY DataFacts DEF Request, TypeOK
  <2>2. /\ channel' = Append(channel, r)
        /\ UNCHANGED <<events, worker, call>>
        /\ \A k \in Keys : pending'[k] = IF k = key THEN NoWrite ELSE pending[k]
    BY <1>4, <2>a DEF SendDue, TypeOK
  <2>3. Outstanding' = Outstanding \cup {r}
    <3>1. InChannel' = InChannel \cup {r} /\ UNCHANGED <<InEvents, InCall>>
      BY <2>1, <2>2, ChannelGrows DEF InEvents, InCall
    <3> QED
      BY <3>1, Places
  <2>4. \A k \in Keys : /\ IsPending(k)' <=> k # key /\ IsPending(k)
                        /\ k # key => pending'[k] = pending[k]
    BY <2>2, DataFacts DEF IsPending
  <2>5. \A id : id \in Open(d)' <=> id \in Open(d)
    BY <1>1, <1>2, <2>0, <2>1, <2>3, <2>4
  <2> QED
    BY <2>5 DEF Open
<1>5. CASE ClickRefresh
  <2> DEFINE r == Request(nextId, All)
  <2>1. r \in Requests /\ r.target # d
    <3>1. nextId \in Ids
      BY <1>5, Numbers DEF ClickRefresh, Ids
    <3> QED
      BY <3>1, DataFacts DEF Request
  <2>2. UNCHANGED <<pending, events, worker, call>>
    BY <1>5 DEF ClickRefresh
  <2>3. Outstanding' = Outstanding \/ Outstanding' = Outstanding \cup {r}
    <3>1. CASE channel' = channel
      BY <2>2, <3>1 DEF Outstanding
    <3>2. CASE channel' = Append(channel, r)
      <4>1. InChannel' = InChannel \cup {r} /\ UNCHANGED <<InEvents, InCall>>
        BY <2>1, <2>2, <3>2, ChannelGrows DEF InEvents, InCall
      <4> QED
        BY <4>1, Places
    <3> QED
      BY <1>5, <3>1, <3>2 DEF ClickRefresh
  <2> QED
    BY <1>3, <2>1, <2>2, <2>3
<1>6. CASE WorkerStarts
  <2>1. UNCHANGED <<pending, events, channel>> /\ InCall = {} /\ InCall' = {Request(0, All)}
    BY <1>6 DEF WorkerStarts, InCall
  <2>2. Outstanding' = Outstanding \cup {Request(0, All)}
    BY <2>1, Places DEF InEvents, InChannel
  <2> QED
    BY <1>3, <2>1, <2>2, DataFacts DEF Request
<1>7. CASE TakeCommand
  <2>1. UNCHANGED <<pending, events>> /\ InCall = {} /\ InCall' = {Head(channel)}
    BY <1>7 DEF TakeCommand, InCall
  <2>2. InChannel = InChannel' \cup {Head(channel)}
    BY <1>7, ChannelShrinks DEF TakeCommand, Live
  <2>3. Outstanding' = Outstanding
    BY <2>1, <2>2, Places DEF InEvents
  <2> QED
    BY <1>3, <2>1, <2>3
<1>8. CASE \E type \in {"snapshot", "updated", "failed"} : Answered(type)
  <2>1. PICK type \in {"snapshot", "updated", "failed"} : Answered(type)
    BY <1>8
  <2>2. /\ UNCHANGED <<pending, channel>> /\ InCall = {call} /\ InCall' = {}
        /\ events' = Append(events, Event(type, call, daemon'))
        /\ Event(type, call, daemon') \in EventType
        /\ Event(type, call, daemon').request = call
    BY <2>1, DataFacts DEF Answered, InCall, TypeOK, Event
  <2>3. InEvents' = InEvents \cup {call}
    BY <2>2, EventsGrow
  <2>4. Outstanding' = Outstanding
    BY <2>2, <2>3, Places DEF InChannel
  <2> QED
    BY <1>3, <2>2, <2>4
<1> QED
  BY <1>4, <1>5, <1>6, <1>7, <1>8

\* An answer changes what the daemon has of a display only by an open write.
LEMMA AnsweredConverges ==
    ASSUME TypeOK, Live, Converging, daemon' \in [Displays -> Infos],
           NEW type \in {"snapshot", "updated", "failed"}, Answered(type),
           \A d \in Displays \ {call.target} : daemon'[d].version = daemon[d].version
    PROVE  Converging'
<1>1. UNCHANGED <<drafts, putBack>> /\ worker = "calling"
  BY DEF Answered, uiVars, draftVars, sendVars
<1>2. ASSUME NEW d \in Displays
      PROVE  Open(d)' = Open(d) /\ (Open(d) # {} \/ daemon'[d].version = daemon[d].version)
  <2>1. Open(d)' = Open(d)
    BY <1>1, OpenKept
  <2>2. call.target = d => call.id \in Open(d)
    BY <1>1, Places DEF InCall, Open
  <2> QED
    BY <2>1, <2>2
<1> QED
  BY <1>1, <1>2, SameConverging

\* The user moves a slider: the last open write is the new one.
LEMMA SlideConverges ==
    ASSUME TypeOK, Converging, NEW d \in Displays, NEW kind \in WriteKinds, Slide(d, kind)
    PROVE  Converging'
<1> DEFINE key == <<d, kind>>
<1>0. /\ key \in Keys /\ key[1] = d /\ nextId \in Nat \ {0}
      /\ drafts' = [drafts EXCEPT ![d].shown = nextId, ![d].latest = nextId]
      /\ UNCHANGED <<channel, events, worker, call, putBack, daemon>>
  BY Numbers DEF Slide, Keys, workerVars
<1>1. \A k \in Keys : pending'[k].id = IF k = key THEN nextId ELSE pending[k].id
  BY DEF Slide, Queued, TypeOK
<1>2. Outstanding' = Outstanding
  BY <1>0 DEF Outstanding
<1>3. drafts'[d].latest = nextId /\ \A c \in Displays \ {d} : drafts'[c] = drafts[c]
  BY <1>0 DEF TypeOK
<1> HIDE DEF key
<1>4. nextId \in Open(d)'
  <2>1. IsPending(key)' /\ pending'[key].id = nextId
    BY <1>0, <1>1 DEF IsPending
  <2> QED
    BY <1>0, <2>1 DEF Open
<1>5. ASSUME NEW c \in Displays \ {d}
      PROVE  Open(c)' = Open(c)
  <2>1. \A k \in Keys : k[1] = c => pending'[k].id = pending[k].id /\ (IsPending(k)' <=> IsPending(k))
    BY <1>0, <1>1 DEF IsPending
  <2>2. \A id : id \in Open(c)' <=> id \in Open(c)
    BY <1>2, <2>1 DEF Open
  <2> QED
    BY <2>2 DEF Open
<1> QED
  BY <1>0, <1>3, <1>4, <1>5 DEF Converging, Agrees

\* Every step of a worker that goes on living keeps the sliders on their way.
LEMMA StepConverging ==
    ASSUME OrderInv, Live, Current, Converging, [Next]_vars, worker # "gone", worker' # "gone"
    PROVE  Converging'
<1> USE DEF draftVars, sendVars, flagVars, workerVars, uiVars
<1>0. TypeOK /\ TypeOK' /\ KeptInv
  BY StepType DEF OrderInv, AppletInv
<1>1. daemon \in [Displays -> Infos] /\ daemon' \in [Displays -> Infos]
  BY <1>0 DEF TypeOK
<1>2. CASE TakeEvent
  <2>1. putBack' = putBack
    BY <1>2 DEF TakeEvent
  <2> QED
    BY <1>0, <1>2, <2>1, TakeEventConverges DEF Converging
<1>3. CASE DrainEnds \/ FlushEnds \/ NoInput \/ ChannelFull \/ Tick \/ UNCHANGED vars
  <2>1. /\ UNCHANGED <<drafts, channel, events, worker, call, daemon>>
        /\ putBack \subseteq putBack'
    BY <1>3 DEF DrainEnds, FlushEnds, NoInput, ChannelFull, Tick, vars
  <2>2. \A k \in Keys : pending'[k].id = pending[k].id
    <3>1. pending \in [Keys -> [id : Ids, wait : 0 .. Debounce]]
      BY <1>0 DEF TypeOK
    <3>2. CASE Tick
      BY <3>1, <3>2 DEF Tick
    <3>3. CASE ChannelFull
      BY <3>1, <3>3 DEF ChannelFull
    <3> QED
      BY <1>3, <3>2, <3>3 DEF DrainEnds, FlushEnds, NoInput, vars
  <2>3. Outstanding' = Outstanding /\ \A k \in Keys : IsPending(k)' <=> IsPending(k)
    BY <2>1, <2>2 DEF Outstanding, IsPending
  <2>4. ASSUME NEW d \in Displays PROVE Open(d)' = Open(d)
    <3>1. \A id : id \in Open(d)' <=> id \in Open(d)
      BY <2>2, <2>3 DEF Open
    <3> QED
      BY <3>1 DEF Open
  <2> QED
    BY <2>1, <2>4, SameConverging
<1>4. CASE SendDue \/ ClickRefresh \/ WorkerStarts \/ TakeCommand
  <2>1. UNCHANGED <<drafts, putBack, daemon>>
    BY <1>4 DEF SendDue, ClickRefresh, WorkerStarts, TakeCommand
  <2> QED
    BY <1>0, <1>1, <1>4, <2>1, OpenKept, SameConverging
<1>5. CASE \E d \in Displays, kind \in WriteKinds : Slide(d, kind)
  BY <1>0, <1>5, SlideConverges
<1>6. CASE AnswersListing
  BY <1>0, <1>1, <1>6, AnsweredConverges DEF AnswersListing
<1>7. CASE \E listed, failed \in SUBSET Displays : AnswersRefresh(listed, failed)
  <2>1. Answered("snapshot") /\ \A d \in Displays : daemon'[d].version = daemon[d].version
    BY <1>7 DEF AnswersRefresh
  <2> QED
    BY <1>0, <1>1, <2>1, AnsweredConverges
<1>8. CASE AnswersWrite
  <2>1. /\ Answered("updated")
        /\ \A d \in Displays \ {call.target} : daemon'[d].version = daemon[d].version
    BY <1>1, <1>8 DEF AnswersWrite
  <2> QED
    BY <1>0, <1>1, <2>1, AnsweredConverges
<1>9. CASE AnswersError
  <2>1. Answered("failed")
    BY <1>9 DEF AnswersError
  <2>2. \A d \in Displays \ {call.target} : daemon'[d].version = daemon[d].version
    BY <1>1, <1>9 DEF AnswersError
  <2> QED
    BY <1>0, <1>1, <2>1, <2>2, AnsweredConverges
<1>10. ~(Close \/ NoticeWorkerGone \/ SendDisconnected \/ Trouble)
  BY DEF Close, NoticeWorkerGone, SendDisconnected, Trouble, WorkerCannotStart, WorkerDies
<1> QED
  BY <1>2, <1>3, <1>4, <1>5, <1>6, <1>7, <1>8, <1>9, <1>10 DEF Next, Frame, Input, Work

\* What sliders come to show, with the invariants it rests on.
LEMMA InitAgree == Init => OrderInv /\ AgreeInv
<1> SUFFICES ASSUME Init PROVE AgreeInv
  BY InitOrder
<1>1. Current
  BY DEF Init, Current
<1>2. Converging
  BY DEF Init, Converging, NoDraft
<1> QED
  BY <1>1, <1>2 DEF AgreeInv

\* Both are inductive together.
LEMMA StepAgree == OrderInv /\ AgreeInv /\ [Next]_vars => OrderInv' /\ AgreeInv'
<1> SUFFICES ASSUME OrderInv, AgreeInv, [Next]_vars
             PROVE  AgreeInv'
  BY StepOrder
<1>1. CASE worker' = "gone"
  BY <1>1 DEF AgreeInv
<1>2. CASE worker' # "gone"
  <2>1. worker # "gone" /\ Live
    BY <1>2, GoneForGood DEF OrderInv, AppletInv
  <2> QED
    BY <1>2, <2>1, StepCurrent, StepConverging DEF AgreeInv
<1> QED
  BY <1>1, <1>2

\* With nothing pending or under way each slider shows what the daemon has, or
\* an error, on the displays whose writes never met a full channel: for any
\* number of requests, whatever failed or was overtaken.
THEOREM SlidersAgree == Spec => []AgreesUnlessPutBack
<1>1. Spec => [](OrderInv /\ AgreeInv)
  BY InitAgree, StepAgree, PTL DEF Spec
<1>2. OrderInv /\ AgreeInv => AgreesUnlessPutBack
  <2> SUFFICES ASSUME OrderInv, AgreeInv, Quiet, NEW d \in Displays \ putBack
               PROVE  Agrees(d)
    BY DEF AgreesUnlessPutBack
  <2>1. Open(d) = {}
    BY DEF Quiet, SomePending, Open
  <2>2. Converging
    BY DEF Quiet, AgreeInv
  <2> QED
    BY <2>1, <2>2 DEF Converging, Agrees
<1> QED
  BY <1>1, <1>2, PTL
=============================================================================
