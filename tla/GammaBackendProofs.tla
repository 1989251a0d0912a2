-------------------------- MODULE GammaBackendProofs --------------------------
(***************************************************************************)
(* The gamma backend keeps its types and implements GammaControl, for any  *)
(* outputs, levels and bounds.  The invariant says what the events still   *)
(* under way can be of, given what the worker has read and what the        *)
(* compositor has decided meanwhile.                                       *)
(***************************************************************************)
EXTENDS GammaBackend, SequenceTheorems, TLAPS

-----------------------------------------------------------------------------
(* The invariant                                                           *)

\* The variables but the channel and its caller.
TypeInv ==
    /\ plugged \in [Outputs -> BOOLEAN]
    /\ number \in [Outputs -> Nat]
    /\ held \in [Outputs -> Levels \cup {None}]
    /\ asked \subseteq Outputs
    /\ wire \in Seq(Events)
    /\ broken \in BOOLEAN /\ dirty \in BOOLEAN /\ failed \in BOOLEAN
    /\ wpc \in {"none", "spawned", "starting", "loop", "pump", "teardown", "finished"}
    /\ outs \in [Outputs -> [number : Nat, level : Levels,
                             state : {"none", "new", "bound", "ready", "failed"}]]
    /\ cache \in [Outputs -> Levels \cup {None}]

\* Nothing is left of a thread that is not there, or of a broken connection,
\* and what the worker publishes is what it knows unless it is dirty.
PhaseInv ==
    /\ wpc \in {"none", "spawned"} => wire = <<>> /\ held = NoControls /\ ~failed
    /\ wpc \in {"none", "spawned", "starting"} => cache = NoControls
    /\ broken => wire = <<>> /\ held = NoControls /\ asked = {}
    /\ wpc = "loop" => ~dirty
    /\ Listening /\ ~dirty => cache = Snapshot(outs)
    /\ wpc = "starting" /\ failed => \E o \in Outputs : outs[o].state \notin {"bound", "ready"}

\* Of two events d and e of one output, d the earlier one: a global is newer
\* than all that came before it, and what follows its announcement without
\* its having been read is of older globals; a control is granted once, before it
\* fails.
Before(d, e) ==
    d.output = e.output =>
        /\ e.type = "added" => d.number < e.number
        /\ d.type = "added" /\ e.type \in {"ready", "failed"} => e.number < d.number
        /\ d.type \in {"ready", "failed"} /\ e.type = "ready" => d.number # e.number
Sequential(w) == \A i, j \in DOMAIN w : i < j => Before(w[i], w[j])

\* An event on the wire against what is known of its output at both ends.
Fits(e) ==
    /\ e.number \in 1 .. number[e.output]
    /\ e.type = "added" => outs[e.output].number < e.number
    /\ e.type = "ready" /\ Known(e) =>
          outs[e.output].state = "bound" /\ e.output \notin asked
    /\ e.type = "failed" /\ Known(e) =>
          /\ outs[e.output].state # "new" /\ e.output \notin asked
          /\ held[e.output] = None
    /\ e.type = "removed" /\ e.number = number[e.output] => ~plugged[e.output]

WireInv == Sequential(wire) /\ \A e \in Range(wire) : Fits(e)

\* A control the compositor has granted is that of the current global, and the
\* worker knows of it or is about to; a level other than the identity is
\* published.
OutputFits(o) ==
    /\ outs[o].number <= number[o]
    /\ o \in asked => outs[o].state = "bound" /\ held[o] = None
    /\ plugged[o] => number[o] > 0
    /\ outs[o].state \in {"new", "bound"} => outs[o].level = Unit
    /\ IF outs[o].state = "none" THEN outs[o] = NoOutput ELSE outs[o].number > 0
    /\ cache[o] = None => held[o] \in {None, Unit}
    /\ wpc \notin {"none", "spawned", "finished"} =>
          /\ outs[o].state = "bound" => cache[o] = None
          /\ outs[o].state = "ready" =>
                outs[o].level = IF cache[o] = None THEN Unit ELSE cache[o]
    /\ held[o] # None =>
          /\ plugged[o] /\ outs[o].number = number[o]
          /\ outs[o].state \in {"bound", "ready"}

OutputInv == \A o \in Outputs : OutputFits(o)

World == TypeInv /\ PhaseInv /\ WireInv /\ OutputInv

\* A global the worker knows or is to hear of is the current one, or its end is
\* under way, ahead of any newer global of that output.
EndsIn(w, o, n) ==
    \E i \in DOMAIN w :
        /\ w[i].type = "removed" /\ w[i].output = o /\ w[i].number = n
        /\ \A j \in DOMAIN w :
              j < i /\ w[j].type = "added" /\ w[j].output = o => w[j].number <= n
Ends(o, n) == (plugged[o] /\ number[o] = n) \/ EndsIn(wire, o, n)
EndInv ==
    Connected =>
        /\ \A o \in Outputs : outs[o].state # "none" => Ends(o, outs[o].number)
        /\ \A e \in Range(wire) : e.type = "added" => Ends(e.output, e.number)

\* Only the last command in the channel can be another than one that was given
\* up: the caller's, or Shutdown.
ChannelInv ==
    /\ queue \in Seq(Commands)
    /\ hpc \in {"none", "connecting", "ready", "waiting", "joining", "closing"}
    /\ queue # <<>> => Listening
    /\ hpc \in {"ready", "waiting"} => wpc \in {"loop", "pump", "finished"}
    /\ hpc = "none" => wpc = "none"
    /\ hpc = "connecting" <=> wpc \in {"spawned", "starting"}
    /\ \A i \in 1 .. Len(queue) - 1 : IsLate(queue[i])
    /\ Len(queue) <= IF hpc = "ready" THEN MaxLate ELSE MaxLate + 1
    /\ hpc = "waiting" => queue # <<>>
    /\ queue # <<>> =>
          LET last == queue[Len(queue)] IN
            /\ hpc = "waiting" => last.type = "set" /\ last.awaited
            /\ hpc = "ready" => IsLate(last)
            /\ hpc \in {"joining", "closing"} => last = Shutdown

IInv == World /\ EndInv /\ ChannelInv

-----------------------------------------------------------------------------
(* Values and sequences                                                    *)

\* The identity multiplier is a level, and no level is None.
LEMMA ValueFacts == Unit \in Levels /\ None \notin Levels /\ Levels \subseteq Nat
BY ScaleAssumption DEF Levels, None

\* An event is of one output and one global.
LEMMA EventFacts ==
    /\ \A e \in Events : /\ e.output \in Outputs /\ e.number \in Nat
                         /\ e.type \in {"added", "removed", "ready", "failed"}
    /\ \A o \in Outputs, n \in Nat, type \in {"added", "removed", "ready", "failed"} :
          /\ Event(type, o, n) \in Events
          /\ Event(type, o, n).type = type /\ Event(type, o, n).output = o
          /\ Event(type, o, n).number = n
BY DEF Events, Event

\* One more event at the end of the wire.
LEMMA SendOne ==
    ASSUME NEW w \in Seq(Events), Sequential(w), NEW e \in Events,
           \A d \in Range(w) : Before(d, e)
    PROVE  /\ w \o <<e>> \in Seq(Events)
           /\ Sequential(w \o <<e>>)
           /\ Range(w \o <<e>>) = Range(w) \cup {e}
<1> DEFINE n == Len(w)  v == w \o <<e>>
<1>1. n \in Nat /\ DOMAIN w = 1 .. n
  BY LenProperties
<1>2. v \in Seq(Events) /\ Len(v) = n + 1
  BY ConcatProperties
<1>3. DOMAIN v = 1 .. n + 1
  BY <1>1, <1>2, LenProperties
<1>4. (\A i \in 1 .. n : v[i] = w[i]) /\ v[n + 1] = e
  BY <1>1, ConcatProperties
<1> HIDE DEF n, v
<1>5. ASSUME NEW i \in DOMAIN v, NEW j \in DOMAIN v, i < j PROVE Before(v[i], v[j])
  <2>1. CASE j \in 1 .. n
    BY <1>1, <1>3, <1>4, <1>5, <2>1 DEF Sequential
  <2>2. CASE j = n + 1
    <3>1. i \in 1 .. n
      BY <1>1, <1>3, <1>5, <2>2
    <3>2. v[i] \in Range(w) /\ v[j] = e
      BY <1>1, <1>4, <2>2, <3>1 DEF Range
    <3> QED
      BY <3>2
  <2> QED
    BY <1>1, <1>3, <2>1, <2>2
<1>6. Range(v) = Range(w) \cup {e}
  <2>1. Range(v) \subseteq Range(w) \cup {e}
    <3> SUFFICES ASSUME NEW i \in DOMAIN v PROVE v[i] \in Range(w) \cup {e}
      BY DEF Range
    <3>1. i \in 1 .. n \/ i = n + 1
      BY <1>1, <1>3
    <3> QED
      BY <3>1, <1>1, <1>4 DEF Range
  <2>2. Range(w) \cup {e} \subseteq Range(v)
    <3>1. n + 1 \in DOMAIN v /\ DOMAIN w \subseteq DOMAIN v
      BY <1>1, <1>3
    <3> QED
      BY <3>1, <1>1, <1>4 DEF Range
  <2> QED
    BY <2>1, <2>2
<1> QED
  BY <1>2, <1>5, <1>6 DEF Sequential, v

\* What is on the wire after one more event was sent.
LEMMA RangeSent ==
    ASSUME NEW w \in Seq(Events), NEW e \in Events
    PROVE  \A d \in Range(w \o <<e>>) : d \in Range(w) \/ d = e
<1> DEFINE n == Len(w)  v == w \o <<e>>
<1>1. n \in Nat /\ DOMAIN w = 1 .. n
  BY LenProperties
<1>2. v \in Seq(Events) /\ Len(v) = n + 1
  BY ConcatProperties
<1>3. DOMAIN v = 1 .. n + 1
  BY <1>1, <1>2, LenProperties
<1>4. (\A i \in 1 .. n : v[i] = w[i]) /\ v[n + 1] = e
  BY <1>1, ConcatProperties
<1> HIDE DEF n, v
<1> SUFFICES ASSUME NEW i \in DOMAIN v PROVE v[i] \in Range(w) \/ v[i] = e
  BY DEF Range, v
<1>5. i \in 1 .. n \/ i = n + 1
  BY <1>1, <1>3
<1> QED
  BY <1>1, <1>4, <1>5 DEF Range

\* One event read from the wire.
LEMMA ReadOne ==
    ASSUME NEW w \in Seq(Events), Sequential(w), w # <<>>
    PROVE  /\ Tail(w) \in Seq(Events) /\ Sequential(Tail(w))
           /\ Head(w) \in Events /\ Head(w) \in Range(w)
           /\ Range(Tail(w)) \subseteq Range(w)
           /\ \A e \in Range(Tail(w)) : Before(Head(w), e)
<1> DEFINE n == Len(w)  v == Tail(w)
<1>1. n \in Nat \ {0} /\ DOMAIN w = 1 .. n
  BY LenProperties, EmptySeq
<1>2. v \in Seq(Events) /\ Len(v) = n - 1 /\ Head(w) \in Events
  BY HeadTailProperties
<1>3. DOMAIN v = 1 .. n - 1
  BY <1>2, LenProperties
<1>4. (\A i \in 1 .. n - 1 : v[i] = w[i + 1]) /\ Head(w) = w[1]
  BY <1>2, HeadTailProperties
<1> HIDE DEF n, v
<1>5. \A i \in DOMAIN v : i + 1 \in DOMAIN w /\ 1 < i + 1 /\ v[i] = w[i + 1]
  BY <1>1, <1>3, <1>4
<1>6. 1 \in DOMAIN w
  BY <1>1
<1>7. \A i, j \in DOMAIN v : i < j => i + 1 < j + 1
  BY <1>1, <1>3
<1>8. Sequential(v)
  BY <1>5, <1>7 DEF Sequential
<1>9. Range(v) \subseteq Range(w) /\ Head(w) \in Range(w)
  BY <1>4, <1>5, <1>6 DEF Range
<1>10. \A e \in Range(v) : Before(Head(w), e)
  BY <1>4, <1>5, <1>6 DEF Range, Sequential
<1> QED
  BY <1>2, <1>8, <1>9, <1>10 DEF v

\* An empty wire.
LEMMA NothingSent == <<>> \in Seq(Events) /\ Sequential(<<>>) /\ Range(<<>>) = {}
BY EmptySeq DEF Sequential, Range

\* An end under way stays so when more is sent, and until it is read.
LEMMA EndSent ==
    ASSUME NEW w \in Seq(Events), NEW e \in Events, NEW o, NEW n \in Nat,
           \/ EndsIn(w, o, n)
           \/ /\ e.type = "removed" /\ e.output = o /\ e.number = n
              /\ \A d \in Range(w) : d.type = "added" /\ d.output = o => d.number <= n
    PROVE  EndsIn(w \o <<e>>, o, n)
<1> DEFINE l == Len(w)  v == w \o <<e>>
<1>1. l \in Nat /\ DOMAIN w = 1 .. l
  BY LenProperties
<1>2. v \in Seq(Events) /\ Len(v) = l + 1
  BY ConcatProperties
<1>3. DOMAIN v = 1 .. l + 1
  BY <1>1, <1>2, LenProperties
<1>4. (\A i \in 1 .. l : v[i] = w[i]) /\ v[l + 1] = e
  BY <1>1, ConcatProperties
<1> HIDE DEF l, v
<1>5. CASE EndsIn(w, o, n)
  <2>1. PICK i \in DOMAIN w :
            /\ w[i].type = "removed" /\ w[i].output = o /\ w[i].number = n
            /\ \A j \in DOMAIN w :
                  j < i /\ w[j].type = "added" /\ w[j].output = o => w[j].number <= n
    BY <1>5 DEF EndsIn
  <2>2. i \in DOMAIN v /\ v[i] = w[i]
    BY <1>1, <1>3, <1>4
  <2>3. \A j \in DOMAIN v : j < i => j \in DOMAIN w /\ v[j] = w[j]
    BY <1>1, <1>3, <1>4
  <2> QED
    BY <2>1, <2>2, <2>3 DEF EndsIn, v
<1>6. CASE /\ e.type = "removed" /\ e.output = o /\ e.number = n
           /\ \A d \in Range(w) : d.type = "added" /\ d.output = o => d.number <= n
  <2>1. l + 1 \in DOMAIN v
    BY <1>1, <1>3
  <2>2. \A j \in DOMAIN v : j < l + 1 => v[j] \in Range(w)
    BY <1>1, <1>3, <1>4 DEF Range
  <2> QED
    BY <1>4, <1>6, <2>1, <2>2 DEF EndsIn, v
<1> QED
  BY <1>5, <1>6

\* An end under way is still so after another event was read; a newer global of
\* that output is not ahead of it.
LEMMA EndRead ==
    ASSUME NEW w \in Seq(Events), w # <<>>, NEW o, NEW n \in Nat, EndsIn(w, o, n)
    PROVE  LET e == Head(w) IN
             /\ ~(e.type = "removed" /\ e.output = o /\ e.number = n) => EndsIn(Tail(w), o, n)
             /\ e.type = "added" /\ e.output = o => e.number <= n
<1> DEFINE l == Len(w)  v == Tail(w)
<1>1. l \in Nat \ {0} /\ DOMAIN w = 1 .. l
  BY LenProperties, EmptySeq
<1>2. v \in Seq(Events) /\ Len(v) = l - 1
  BY HeadTailProperties
<1>3. DOMAIN v = 1 .. l - 1
  BY <1>2, LenProperties
<1>4. (\A i \in 1 .. l - 1 : v[i] = w[i + 1]) /\ Head(w) = w[1]
  BY <1>2, HeadTailProperties
<1>5. PICK i \in DOMAIN w :
          /\ w[i].type = "removed" /\ w[i].output = o /\ w[i].number = n
          /\ \A j \in DOMAIN w :
                j < i /\ w[j].type = "added" /\ w[j].output = o => w[j].number <= n
  BY DEF EndsIn
<1> HIDE DEF l, v
<1>6. CASE i = 1
  BY <1>4, <1>5, <1>6
<1>7. CASE i # 1
  <2>1. i - 1 \in DOMAIN v /\ v[i - 1] = w[i] /\ 1 < i /\ 1 \in DOMAIN w
    BY <1>1, <1>3, <1>4, <1>7
  <2>2. \A j \in DOMAIN v : j < i - 1 => j + 1 \in DOMAIN w /\ j + 1 < i /\ v[j] = w[j + 1]
    BY <1>1, <1>3, <1>4
  <2>3. EndsIn(v, o, n)
    BY <1>5, <2>1, <2>2 DEF EndsIn
  <2> QED
    BY <1>4, <1>5, <2>1, <2>3 DEF v
<1> QED
  BY <1>6, <1>7

-----------------------------------------------------------------------------
(* The compositor's steps                                                  *)

\* What is sent arrives at the end of the wire, if there is one.
LEMMA SendKeeps ==
    ASSUME World, NEW e \in Events, Send(<<e>>),
           Connected => \A d \in Range(wire) : Before(d, e)
    PROVE  /\ wire' \in Seq(Events) /\ Sequential(wire')
           /\ \A d \in Range(wire') : d \in Range(wire) \/ (d = e /\ Connected)
           /\ ~Connected => wire' = wire
<1>1. wire \in Seq(Events) /\ Sequential(wire)
  BY DEF World, TypeInv, WireInv
<1>2. CASE Connected
  <2>1. wire' = wire \o <<e>>
    BY <1>2 DEF Send
  <2> QED
    BY <1>1, <1>2, <2>1, SendOne
<1>3. CASE ~Connected
  BY <1>1, <1>3 DEF Send
<1> QED
  BY <1>2, <1>3

\* A step of the compositor leaves alone what the thread has.
LEMMA WorldFrom ==
    ASSUME World, TypeInv', Sequential(wire)',
           \A e \in Range(wire)' : Fits(e)', OutputInv',
           UNCHANGED <<broken, threadVars, sharedVars>>,
           wpc \in {"none", "spawned"} \/ broken => wire' = wire /\ held' = NoControls,
           broken => asked' = {}
    PROVE  World'
<1>1. PhaseInv'
  BY DEF World, PhaseInv, threadVars, sharedVars, Listening, Snapshot
<1> QED
  BY <1>1 DEF World, WireInv

\* A new global is newer than all that is under way.
LEMMA PlugKeeps ==
    ASSUME World, NEW o \in Outputs, Plug(o)
    PROVE  World'
<1> USE DEF threadVars, sharedVars
<1>1. PICK e \in Events : /\ e = Event("added", o, number[o] + 1) /\ number[o] \in Nat
                           /\ e.type = "added" /\ e.output = o /\ e.number = number[o] + 1
  BY EventFacts DEF World, TypeInv
<1>2. number' = [number EXCEPT ![o] = number[o] + 1] /\ Send(<<e>>)
  BY <1>1 DEF Plug, World, TypeInv
<1>3. \A d \in Range(wire) : Before(d, e)
  BY <1>1 DEF World, WireInv, Fits, Before
<1>4. /\ wire' \in Seq(Events) /\ Sequential(wire')
      /\ \A d \in Range(wire') : d \in Range(wire) \/ d = e
      /\ ~Connected => wire' = wire
  BY <1>1, <1>2, <1>3, SendKeeps
<1>5. \A d \in Range(wire) : d \in Events
  BY LenProperties DEF World, TypeInv, Range
<1>6. TypeInv'
  BY <1>1, <1>2, <1>4 DEF Plug, World, TypeInv
<1>7. ASSUME NEW d \in Range(wire) PROVE Fits(d)'
  <2>1. Fits(d) /\ d \in Events /\ d.output \in Outputs /\ d.number \in Nat
    BY <1>5, EventFacts DEF World, WireInv
  <2> QED
    BY <1>1, <1>2, <2>1 DEF Plug, World, TypeInv, Fits, Known
<1>8. Fits(e)'
  BY <1>1, <1>2 DEF Plug, World, TypeInv, OutputInv, OutputFits, Fits, Known
<1>9. OutputInv'
  <2> SUFFICES ASSUME NEW p \in Outputs PROVE OutputFits(p)'
    BY DEF OutputInv
  <2>1. OutputFits(p)
    BY DEF World, OutputInv
  <2> QED
    BY <1>1, <1>2, <2>1 DEF Plug, World, TypeInv, OutputFits
<1>10. wpc \in {"none", "spawned"} \/ broken => wire' = wire /\ held' = NoControls
  BY <1>4 DEF Plug, World, PhaseInv, Connected
<1> QED
  BY <1>4, <1>6, <1>7, <1>8, <1>9, <1>10, WorldFrom DEF Plug, World, PhaseInv

\* What the compositor tells of a control it has taken back.
LEMMA LostFacts ==
    ASSUME World, NEW o \in Outputs, held[o] # None
    PROVE  LET e == Event("failed", o, number[o]) IN
             /\ e \in Events /\ e.type = "failed" /\ e.output = o /\ e.number = number[o]
             /\ number[o] > 0 /\ o \notin asked /\ plugged[o]
             /\ outs[o].state \in {"bound", "ready"}
             /\ \A d \in Range(wire) : Before(d, e)
<1> DEFINE e == Event("failed", o, number[o])
<1>1. /\ e \in Events /\ e.type = "failed" /\ e.output = o /\ e.number = number[o]
      /\ number[o] \in Nat
  BY EventFacts DEF World, TypeInv
<1>2. /\ number[o] > 0 /\ o \notin asked /\ plugged[o] /\ outs[o].number = number[o]
      /\ outs[o].state \in {"bound", "ready"}
  BY DEF World, OutputInv, OutputFits
<1> HIDE DEF e
<1>3. \A d \in Range(wire) : Before(d, e)
  BY <1>1, <1>2 DEF World, WireInv, Fits, Before
<1> QED
  BY <1>1, <1>2, <1>3 DEF e

\* A control taken back: its failure is told behind everything else.
LEMMA TakeBackKeeps ==
    ASSUME World, NEW o \in Outputs, TakeBack(o)
    PROVE  World'
<1> USE DEF threadVars, sharedVars
<1>1. PICK e \in Events : /\ e = Event("failed", o, number[o]) /\ number[o] > 0
                           /\ e.type = "failed" /\ e.output = o /\ e.number = number[o]
                           /\ o \notin asked /\ outs[o].state \in {"bound", "ready"}
                           /\ \A d \in Range(wire) : Before(d, e)
  BY LostFacts DEF TakeBack
<1>2. Send(<<e>>) /\ held' = [held EXCEPT ![o] = None]
  BY <1>1 DEF TakeBack
<1>3. /\ wire' \in Seq(Events) /\ Sequential(wire')
      /\ \A d \in Range(wire') : d \in Range(wire) \/ d = e
      /\ ~Connected => wire' = wire
  BY <1>1, <1>2, SendKeeps
<1>4. TypeInv'
  BY <1>2, <1>3 DEF TakeBack, World, TypeInv
<1>5. ASSUME NEW d \in Range(wire) PROVE Fits(d)'
  <2>1. Fits(d)
    BY DEF World, WireInv
  <2> QED
    BY <1>2, <2>1 DEF TakeBack, World, TypeInv, Fits, Known
<1>6. Fits(e)'
  BY <1>1, <1>2 DEF TakeBack, World, TypeInv, Fits, Known
<1>7. OutputInv'
  <2> SUFFICES ASSUME NEW p \in Outputs PROVE OutputFits(p)'
    BY DEF OutputInv
  <2>1. OutputFits(p)
    BY DEF World, OutputInv
  <2> QED
    BY <1>2, <2>1 DEF TakeBack, World, TypeInv, OutputFits
<1>8. wpc \in {"none", "spawned"} \/ broken => wire' = wire /\ held' = NoControls
  BY <1>2, <1>3 DEF World, PhaseInv, Connected, NoControls
<1> QED
  BY <1>3, <1>4, <1>5, <1>6, <1>7, <1>8, WorldFrom DEF TakeBack, World, PhaseInv

\* An output that goes away may have its control failed first.
LEMMA UnplugKeeps ==
    ASSUME World, NEW o \in Outputs, Unplug(o)
    PROVE  World'
<1> USE DEF threadVars, sharedVars
<1>1. PICK e \in Events : /\ e = Event("removed", o, number[o]) /\ number[o] \in Nat
                           /\ e.type = "removed" /\ e.output = o /\ e.number = number[o]
  BY EventFacts DEF World, TypeInv
<1>2. PICK f \in Events : /\ f = Event("failed", o, number[o])
                           /\ f.type = "failed" /\ f.output = o /\ f.number = number[o]
  BY <1>1, EventFacts
<1>3. /\ held' = [held EXCEPT ![o] = None] /\ plugged' = [plugged EXCEPT ![o] = FALSE]
      /\ Send(<<e>>) \/ (held[o] # None /\ Send(<<f>> \o <<e>>))
      /\ number[o] > 0
  <2>1. number[o] > 0
    BY DEF Unplug, World, OutputInv, OutputFits
  <2>2. /\ held' = [held EXCEPT ![o] = None] /\ plugged' = [plugged EXCEPT ![o] = FALSE]
        /\ \/ Send(<<Event("removed", o, number[o])>>)
           \/ /\ held[o] # None
              /\ Send(<<Event("failed", o, number[o])>> \o <<Event("removed", o, number[o])>>)
    BY Zenon DEF Unplug
  <2> QED
    <3>1. /\ <<e>> = <<Event("removed", o, number[o])>>
          /\ <<f>> \o <<e>> = <<Event("failed", o, number[o])>> \o <<Event("removed", o, number[o])>>
      BY <1>1, <1>2, Zenon
    <3> QED
      BY <2>1, <2>2, <3>1, Zenon
<1>4. \A d : Before(d, e)
  BY <1>1 DEF Before
<1>5. held[o] # None =>
        /\ o \notin asked /\ outs[o].state \in {"bound", "ready"}
        /\ \A d \in Range(wire) : Before(d, f)
  BY <1>2, LostFacts
<1>6. /\ wire' \in Seq(Events) /\ Sequential(wire')
      /\ \A d \in Range(wire') : d \in Range(wire) \/ d = e \/ (d = f /\ held[o] # None)
      /\ ~Connected => wire' = wire
  <2>1. CASE Send(<<e>>)
    BY <1>1, <1>4, <2>1, SendKeeps
  <2>2. CASE held[o] # None /\ Send(<<f>> \o <<e>>)
    <3>1. wire \in Seq(Events) /\ Sequential(wire)
      BY DEF World, TypeInv, WireInv
    <3>2. /\ wire \o <<f>> \in Seq(Events) /\ Sequential(wire \o <<f>>)
          /\ Range(wire \o <<f>>) = Range(wire) \cup {f}
      BY <1>5, <2>2, <3>1, SendOne
    <3>3. /\ (wire \o <<f>>) \o <<e>> \in Seq(Events)
          /\ Sequential((wire \o <<f>>) \o <<e>>)
          /\ Range((wire \o <<f>>) \o <<e>>) = Range(wire) \cup {f} \cup {e}
      BY <1>1, <1>4, <3>2, SendOne
    <3>4. (wire \o <<f>>) \o <<e>> = wire \o (<<f>> \o <<e>>)
      <4>1. <<e>> \in Seq(Events) /\ <<f>> \in Seq(Events)
        OBVIOUS
      <4> QED
        BY <3>1, <4>1, ConcatAssociative
    <3> QED
      BY <2>2, <3>1, <3>3, <3>4 DEF Send
  <2> QED
    BY <1>3, <2>1, <2>2
<1>7. TypeInv'
  BY <1>3, <1>6 DEF Unplug, World, TypeInv
<1>8. ASSUME NEW d \in Range(wire) PROVE Fits(d)'
  <2>1. Fits(d)
    BY DEF World, WireInv
  <2> QED
    BY <1>3, <2>1 DEF Unplug, World, TypeInv, Fits, Known
<1>9. Fits(e)' /\ (held[o] # None => Fits(f)')
  BY <1>1, <1>2, <1>3, <1>5 DEF Unplug, World, TypeInv, Fits, Known
<1>10. OutputInv'
  <2> SUFFICES ASSUME NEW p \in Outputs PROVE OutputFits(p)'
    BY DEF OutputInv
  <2>1. OutputFits(p)
    BY DEF World, OutputInv
  <2> QED
    BY <1>3, <2>1 DEF Unplug, World, TypeInv, OutputFits
<1>11. wpc \in {"none", "spawned"} \/ broken => wire' = wire /\ held' = NoControls
  BY <1>3, <1>6 DEF World, PhaseInv, Connected, NoControls
<1> QED
  BY <1>6, <1>7, <1>8, <1>9, <1>10, <1>11, WorldFrom DEF Unplug, World, PhaseInv

\* A control is granted once and only for the current global.
LEMMA GrantKeeps ==
    ASSUME World, NEW o \in Outputs, Grant(o)
    PROVE  World'
<1> USE DEF threadVars, sharedVars
<1>1. PICK e \in Events : /\ e = Event("ready", o, number[o]) /\ number[o] \in Nat
                           /\ e.type = "ready" /\ e.output = o /\ e.number = number[o]
  BY EventFacts DEF World, TypeInv
<1>2. /\ o \in asked /\ plugged[o] /\ outs[o].number = number[o] /\ number[o] > 0
      /\ outs[o].state = "bound" /\ Connected
      /\ held' = [held EXCEPT ![o] = Unit] /\ asked' = asked \ {o} /\ Send(<<e>>)
  BY <1>1 DEF Grant, World, OutputInv, OutputFits
<1>3. \A d \in Range(wire) : Before(d, e)
  BY <1>1, <1>2 DEF World, WireInv, Fits, Before, Known
<1>4. /\ wire' \in Seq(Events) /\ Sequential(wire')
      /\ \A d \in Range(wire') : d \in Range(wire) \/ d = e
  BY <1>1, <1>2, <1>3, SendKeeps
<1>5. TypeInv'
  BY <1>2, <1>4, ValueFacts DEF Grant, World, TypeInv
<1>6. ASSUME NEW d \in Range(wire) PROVE Fits(d)'
  <2>1. Fits(d)
    BY DEF World, WireInv
  <2> QED
    BY <1>2, <2>1 DEF Grant, World, TypeInv, Fits, Known
<1>7. Fits(e)'
  BY <1>1, <1>2 DEF Grant, World, TypeInv, Fits, Known
<1>8. OutputInv'
  <2> SUFFICES ASSUME NEW p \in Outputs PROVE OutputFits(p)'
    BY DEF OutputInv
  <2>1. OutputFits(p)
    BY DEF World, OutputInv
  <2> QED
    BY <1>2, <2>1 DEF Grant, World, TypeInv, OutputFits
<1> QED
  BY <1>2, <1>4, <1>5, <1>6, <1>7, <1>8, WorldFrom DEF Grant, Connected

\* A control refused is not held.
LEMMA DenyKeeps ==
    ASSUME World, NEW o \in Outputs, Deny(o)
    PROVE  World'
<1> USE DEF threadVars, sharedVars, compositorVars
<1>1. PICK e \in Events : /\ e = Event("failed", o, outs[o].number)
                           /\ outs[o].number \in Nat /\ number[o] \in Nat
                           /\ e.type = "failed" /\ e.output = o /\ e.number = outs[o].number
  BY EventFacts DEF World, TypeInv
<1>2. /\ o \in asked /\ outs[o].number > 0 /\ outs[o].number <= number[o]
      /\ outs[o].state = "bound" /\ Connected /\ held[o] = None
      /\ asked' = asked \ {o} /\ Send(<<e>>)
  BY <1>1 DEF Deny, World, OutputInv, OutputFits
<1>3. \A d \in Range(wire) : Before(d, e)
  BY <1>1, <1>2 DEF World, WireInv, Fits, Before
<1>4. /\ wire' \in Seq(Events) /\ Sequential(wire')
      /\ \A d \in Range(wire') : d \in Range(wire) \/ d = e
  BY <1>1, <1>2, <1>3, SendKeeps
<1>5. TypeInv'
  BY <1>2, <1>4 DEF Deny, World, TypeInv
<1>6. ASSUME NEW d \in Range(wire) PROVE Fits(d)'
  <2>1. Fits(d)
    BY DEF World, WireInv
  <2> QED
    BY <1>2, <2>1 DEF Deny, World, TypeInv, Fits, Known
<1>7. Fits(e)'
  BY <1>1, <1>2 DEF Deny, World, TypeInv, Fits, Known
<1>8. OutputInv'
  BY <1>2 DEF Deny, World, OutputInv, OutputFits
<1> QED
  BY <1>2, <1>4, <1>5, <1>6, <1>7, <1>8, WorldFrom DEF Deny, Connected

\* A broken connection carries nothing and holds no control.
LEMMA BreakKeeps ==
    ASSUME World, Break
    PROVE  World'
<1> USE DEF threadVars, sharedVars
<1>1. TypeInv'
  BY NothingSent DEF Break, World, TypeInv, NoControls
<1>2. OutputInv'
  BY DEF Break, World, OutputInv, OutputFits, NoControls
<1>3. PhaseInv'
  BY DEF Break, World, PhaseInv, Listening, Snapshot
<1>4. WireInv'
  BY NothingSent DEF Break, WireInv
<1> QED
  BY <1>1, <1>2, <1>3, <1>4 DEF World

-----------------------------------------------------------------------------
(* The worker's steps                                                      *)

\* A thread that begins or is gone.
LEMMA NoThreadKeeps ==
    ASSUME World, NoThread, wpc' \in {"none", "spawned"}
    PROVE  World'
<1>1. TypeInv'
  BY NothingSent, ValueFacts
     DEF NoThread, World, TypeInv, NoControls, NoOutputs, NoOutput, Managed
<1>2. OutputInv'
  BY DEF NoThread, World, TypeInv, OutputInv, OutputFits, NoControls, NoOutputs, NoOutput, Managed
<1>3. PhaseInv'
  BY DEF NoThread, PhaseInv, Listening
<1>4. WireInv'
  BY NothingSent DEF NoThread, WireInv
<1> QED
  BY <1>1, <1>2, <1>3, <1>4 DEF World

\* The first roundtrip binds what is plugged, and nothing is on the wire.
LEMMA CollectKeeps ==
    ASSUME World, Collect
    PROVE  World'
<1> USE DEF compositorVars, sharedVars
<1>1. TypeInv'
  BY ValueFacts, BackendAssumption DEF Collect, World, TypeInv, NoOutput, Managed
<1>2. wire' = <<>> /\ held' = NoControls /\ cache' = NoControls /\ ~failed'
  BY DEF Collect, World, PhaseInv
<1>3. OutputInv'
  BY <1>2 DEF Collect, World, TypeInv, OutputInv, OutputFits, NoControls, NoOutput, Managed
<1>4. PhaseInv'
  BY <1>2 DEF Collect, PhaseInv, Listening
<1>5. WireInv'
  BY <1>2, NothingSent DEF WireInv
<1> QED
  BY <1>1, <1>3, <1>4, <1>5 DEF World

\* What is published is None or a level.
LEMMA SnapshotFacts ==
    ASSUME TypeInv
    PROVE  /\ Snapshot(outs) \in [Outputs -> Levels \cup {None}]
           /\ \A o \in Outputs : /\ Snapshot(outs)[o] = None <=> outs[o].state # "ready"
                                 /\ outs[o].state = "ready" => Snapshot(outs)[o] = outs[o].level
BY ValueFacts DEF TypeInv, Snapshot

\* The second roundtrip leaves no control without an answer, and publishes.
LEMMA StartedKeeps ==
    ASSUME World, Started
    PROVE  World'
<1> USE DEF compositorVars, connectionVars
<1>1. cache' = Snapshot(outs) /\ ~dirty' /\ wpc' = "loop"
  BY DEF Started
<1>2. TypeInv'
  BY <1>1, SnapshotFacts DEF Started, World, TypeInv
<1>3. OutputInv'
  BY <1>1, SnapshotFacts DEF Started, World, PhaseInv, OutputInv, OutputFits, NoControls
<1>4. PhaseInv'
  BY <1>1 DEF Started, World, PhaseInv, Snapshot
<1>5. WireInv'
  BY DEF Started, World, WireInv, Fits, Known
<1> QED
  BY <1>2, <1>3, <1>4, <1>5 DEF World

\* A flush of what has been asked for since the last one, of outputs os that
\* differ from outs in levels only, which are published.
LEMMA FlushKeeps ==
    ASSUME World, wpc = "loop",
           NEW os, FlushInto(os), os \in [Outputs -> [number : Nat, level : Levels,
                             state : {"none", "new", "bound", "ready", "failed"}]],
           \A o \in Outputs : os[o].state = outs[o].state /\ os[o].number = outs[o].number,
           \A o \in Outputs : outs[o].state # "ready" => os[o] = outs[o],
           cache' = Snapshot(os), ~dirty',  dirty' \in BOOLEAN,
           held' \in [Outputs -> Levels \cup {None}],
           \A o \in Outputs : held[o] = None => held'[o] = None,
           \A o \in Outputs : outs[o].state # "ready" => held'[o] = held[o]
    PROVE  World'
<1>1. /\ outs' \in [Outputs -> [number : Nat, level : Levels,
                               state : {"none", "new", "bound", "ready", "failed"}]]
      /\ asked' \subseteq Outputs
  BY DEF FlushInto, World, TypeInv
<1>2. /\ \A o \in Outputs : cache'[o] = None <=> outs[o].state # "ready"
      /\ \A o \in Outputs : outs[o].state = "ready" => cache'[o] = os[o].level
      /\ cache' \in [Outputs -> Levels \cup {None}]
  BY ValueFacts DEF Snapshot
<1>3. cache = Snapshot(outs)
  BY DEF World, PhaseInv, Listening
<1>4. TypeInv'
  BY <1>1, <1>2 DEF FlushInto, World, TypeInv
<1>5. \A o \in Outputs :
        /\ outs'[o].number = outs[o].number /\ outs'[o].level = os[o].level
        /\ outs'[o].state = IF outs[o].state = "new" /\ ~broken THEN "bound" ELSE outs[o].state
        /\ outs[o].state = "none" => outs'[o] = outs[o]
        /\ o \in asked' <=> o \in asked \/ (outs[o].state = "new" /\ ~broken)
  BY DEF FlushInto, World, TypeInv
<1>6. OutputInv'
  <2> SUFFICES ASSUME NEW o \in Outputs PROVE OutputFits(o)'
    BY DEF OutputInv
  <2>1. OutputFits(o)
    BY DEF World, OutputInv
  <2>2. plugged' = plugged /\ number' = number /\ wpc' = "pump"
    BY DEF FlushInto
  <2>3. outs[o].state = "new" => held[o] = None
    BY <2>1 DEF OutputFits
  <2>4. outs[o].state # "ready" => held[o] \in {None, Unit}
    BY <1>3, <2>1, SnapshotFacts DEF OutputFits, World
  <2> QED
    BY <1>2, <1>5, <2>1, <2>2, <2>3, <2>4 DEF OutputFits
<1>7. PhaseInv'
  <2>1. Snapshot(os) = Snapshot(outs')
    BY <1>5 DEF Snapshot
  <2>2. broken => held' = NoControls /\ asked' = {}
    BY DEF World, TypeInv, PhaseInv, NoControls, FlushInto
  <2> QED
    BY <2>1, <2>2 DEF FlushInto, World, PhaseInv, Listening
<1>8. WireInv'
  <2> SUFFICES ASSUME NEW d \in Range(wire) PROVE Fits(d)'
    BY DEF WireInv, World, FlushInto
  <2>1. Fits(d) /\ d.output \in Outputs
    <3>1. d \in Events
      BY LenProperties DEF World, TypeInv, Range
    <3> QED
      BY <3>1, EventFacts DEF World, WireInv
  <2> QED
    BY <1>5, <2>1 DEF Fits, Known, FlushInto
<1> QED
  BY <1>4, <1>6, <1>7, <1>8 DEF World

\* A command, applied or not, leaves cache and worker in agreement.
LEMMA NextCommandKeeps ==
    ASSUME World, NoCommand \/ ApplyGamma \/ ApplyFails,
           NextIsSet => Head(queue).output \in Outputs /\ Head(queue).level \in Levels
    PROVE  World'
<1>1. wpc = "loop" /\ ~dirty /\ cache = Snapshot(outs)
  BY DEF NoCommand, ApplyGamma, ApplyFails, NextIsSet, World, PhaseInv, Listening
<1>2. CASE NoCommand \/ ApplyFails
  <2>1. /\ FlushInto(outs) /\ UNCHANGED <<held, dirty, cache>>
        /\ outs \in [Outputs -> [number : Nat, level : Levels,
                             state : {"none", "new", "bound", "ready", "failed"}]]
        /\ held \in [Outputs -> Levels \cup {None}] /\ dirty \in BOOLEAN
    BY <1>2 DEF NoCommand, ApplyFails, World, TypeInv
  <2> QED
    BY <1>1, <2>1, FlushKeeps
<1>3. CASE ApplyGamma
  <2> DEFINE o == Head(queue).output
             level == Head(queue).level
             os == [outs EXCEPT ![o].level = level]
             next == [held EXCEPT ![o] = IF @ = None THEN None ELSE level]
  <2>1. /\ o \in Outputs /\ level \in Levels /\ outs[o].state = "ready"
        /\ held' = next /\ cache' = Snapshot(os) /\ ~dirty' /\ dirty' \in BOOLEAN
        /\ FlushInto(os)
    BY <1>3 DEF ApplyGamma
  <2>2. /\ os \in [Outputs -> [number : Nat, level : Levels,
                             state : {"none", "new", "bound", "ready", "failed"}]]
        /\ \A p \in Outputs : os[p].state = outs[p].state /\ os[p].number = outs[p].number
        /\ \A p \in Outputs : outs[p].state # "ready" => os[p] = outs[p]
    BY <2>1 DEF World, TypeInv
  <2>3. /\ next \in [Outputs -> Levels \cup {None}]
        /\ \A p \in Outputs : held[p] = None => next[p] = None
        /\ \A p \in Outputs : outs[p].state # "ready" => next[p] = held[p]
    BY <2>1 DEF World, TypeInv
  <2> HIDE DEF o, level, os, next
  <2> QED
    BY <1>1, <2>1, <2>2, <2>3, FlushKeeps
<1> QED
  BY <1>2, <1>3

\* Reading an event changes only the output and the global it is of.
LEMMA DispatchKeeps ==
    ASSUME World, EndInv, Dispatch
    PROVE  World'
<1> USE DEF compositorVars
<1>1. PICK e \in Events : e = Head(wire)
  BY ReadOne DEF Dispatch, World, TypeInv, WireInv
<1>2. /\ wire' \in Seq(Events) /\ Sequential(wire') /\ e \in Range(wire)
      /\ Range(wire') \subseteq Range(wire) /\ \A d \in Range(wire') : Before(e, d)
      /\ wpc \in {"starting", "pump"} /\ ~broken /\ wpc' = wpc /\ broken' = broken
      /\ UNCHANGED <<plugged, number, held, cache>>
  BY <1>1, ReadOne DEF Dispatch, World, TypeInv, PhaseInv, WireInv
<1>3. /\ e.output \in Outputs /\ e.number \in Nat
      /\ \A d \in Range(wire) : d.output \in Outputs /\ d.number \in Nat
  BY <1>2, EventFacts, LenProperties DEF World, TypeInv, Range
<1>4. Fits(e) /\ \A d \in Range(wire) : Fits(d)
  BY <1>2 DEF World, WireInv
<1> DEFINE o == e.output
<1>5. \/ e.type = "added" /\ (Added(e) \/ Skipped(e))
      \/ e.type = "removed" /\ Removed(e)
      \/ e.type = "ready" /\ Ready(e)
      \/ e.type = "failed" /\ Failed(e)
  BY <1>1 DEF Dispatch
<1>6. 0 < e.number /\ e.number <= number[o]
  BY <1>3, <1>4 DEF Fits, World, TypeInv
<1>7. \A p \in Outputs : OutputFits(p)
  BY DEF World, OutputInv
<1>8. CASE e.type = "added" /\ Added(e)
  <2>1. /\ outs' = [outs EXCEPT ![o] = Managed(e.number, "new", Unit)] /\ dirty' = TRUE
        /\ asked' = asked /\ failed' = failed
    BY <1>8 DEF Added
  <2>2. outs[o].number < e.number
    BY <1>4, <1>8 DEF Fits
  <2>3. outs[o].state = "none"
    <3> SUFFICES ASSUME outs[o].state # "none" PROVE FALSE
      OBVIOUS
    <3>1. Ends(o, outs[o].number)
      BY <1>2, <1>3 DEF EndInv, Connected
    <3>2. outs[o].number \in Nat /\ wire \in Seq(Events) /\ wire # <<>>
      BY <1>3 DEF World, TypeInv, Dispatch
    <3>3. ~EndsIn(wire, o, outs[o].number)
      BY <1>1, <1>3, <1>8, <2>2, <3>2, EndRead
    <3> QED
      BY <1>3, <1>6, <2>2, <3>1, <3>3 DEF Ends, World, TypeInv
  <2>4. held[o] = None /\ o \notin asked
    BY <1>3, <1>7, <2>3 DEF OutputFits
  <2>5. TypeInv'
    BY <1>2, <1>3, <2>1, ValueFacts DEF World, TypeInv, Managed
  <2>6. PhaseInv'
    BY <1>2, <1>3, <2>1 DEF World, TypeInv, PhaseInv, Listening, Managed
  <2>7. OutputInv'
    <3> SUFFICES ASSUME NEW p \in Outputs PROVE OutputFits(p)'
      BY DEF OutputInv
    <3>1. OutputFits(p)
      BY <1>7
    <3> QED
      BY <1>2, <1>3, <1>6, <2>1, <2>4, <3>1 DEF OutputFits, World, TypeInv, Managed
  <2>8. WireInv'
    <3> SUFFICES ASSUME NEW d \in Range(wire') PROVE Fits(d)'
      BY <1>2 DEF WireInv
    <3>1. Fits(d) /\ Before(e, d) /\ d.output \in Outputs /\ d.number \in Nat
      BY <1>2, <1>3, <1>4
    <3> QED
      BY <1>2, <1>3, <1>8, <2>1, <2>2, <3>1 DEF Fits, Known, Before, World, TypeInv, Managed
  <2> QED
    BY <2>5, <2>6, <2>7, <2>8 DEF World
<1>9. CASE e.type = "removed" /\ Removed(e) /\ Known(e)
  <2>1. /\ outs' = [outs EXCEPT ![o] = NoOutput] /\ dirty' = TRUE
        /\ asked' = asked \ {o} /\ failed' = failed
    BY <1>9 DEF Removed
  <2>2. held[o] = None
    BY <1>3, <1>4, <1>7, <1>9 DEF OutputFits, Fits, Known
  <2>3. TypeInv'
    BY <1>2, <1>3, <2>1, ValueFacts DEF World, TypeInv, Managed, NoOutput
  <2>4. PhaseInv'
    BY <1>2, <1>3, <2>1 DEF World, TypeInv, PhaseInv, Listening, Managed, NoOutput
  <2>5. OutputInv'
    <3> SUFFICES ASSUME NEW p \in Outputs PROVE OutputFits(p)'
      BY DEF OutputInv
    <3>1. OutputFits(p)
      BY <1>7
    <3> QED
      BY <1>2, <1>3, <2>1, <2>2, <3>1 DEF OutputFits, World, TypeInv, Managed, NoOutput
  <2>6. WireInv'
    <3> SUFFICES ASSUME NEW d \in Range(wire') PROVE Fits(d)'
      BY <1>2 DEF WireInv
    <3>1. Fits(d) /\ Before(e, d) /\ d.output \in Outputs /\ d.number \in Nat
      BY <1>2, <1>3, <1>4
    <3>2. outs'[o].number = 0 /\ \A p \in Outputs : p # o => outs'[p] = outs[p]
      BY <1>3, <2>1 DEF World, TypeInv, NoOutput, Managed
    <3>3. d.number > 0
      BY <3>1 DEF Fits, World, TypeInv
    <3> QED
      BY <1>2, <1>3, <2>1, <3>1, <3>2, <3>3 DEF Fits, Known, Before, World, TypeInv
  <2> QED
    BY <2>3, <2>4, <2>5, <2>6 DEF World
<1>10. CASE Skipped(e) \/ ((Removed(e) \/ Ready(e) \/ Failed(e)) /\ ~Known(e))
  <2>1. UNCHANGED <<outs, dirty, asked, failed>>
    BY <1>10 DEF Skipped, Removed, Ready, Failed, Becomes, World, TypeInv
  <2>2. TypeInv' /\ OutputInv'
    BY <1>2, <2>1 DEF World, TypeInv, OutputInv, OutputFits
  <2>3. PhaseInv'
    BY <1>2, <2>1 DEF World, PhaseInv, Listening, Snapshot
  <2>4. WireInv'
    BY <1>2, <1>4, <2>1 DEF WireInv, Fits, Known
  <2> QED
    BY <2>2, <2>3, <2>4 DEF World
<1>11. CASE ((e.type = "ready" /\ Ready(e)) \/ (e.type = "failed" /\ Failed(e))) /\ Known(e)
  <2>1. /\ outs' = [outs EXCEPT ![o].state = e.type] /\ dirty' = TRUE
        /\ asked' = asked /\ failed' = (failed \/ e.type = "failed")
    BY <1>11 DEF Ready, Failed, Becomes, World, TypeInv
  <2>2. /\ o \notin asked
        /\ e.type = "ready" => outs[o].state = "bound"
        /\ e.type = "failed" => held[o] = None
    BY <1>4, <1>11 DEF Fits
  <2>3. TypeInv'
    BY <1>2, <1>3, <1>11, <2>1 DEF World, TypeInv
  <2>4. PhaseInv'
    BY <1>2, <1>3, <1>11, <2>1, <2>2 DEF World, TypeInv, PhaseInv, Listening
  <2>5. OutputInv'
    <3> SUFFICES ASSUME NEW p \in Outputs PROVE OutputFits(p)'
      BY DEF OutputInv
    <3>1. OutputFits(p)
      BY <1>7
    <3>2. outs[o].number > 0
      BY <1>6, <1>11 DEF Known
    <3> QED
      BY <1>2, <1>3, <1>11, <2>1, <2>2, <3>1, <3>2
         DEF OutputFits, World, TypeInv, NoOutput, Managed
  <2>6. WireInv'
    <3> SUFFICES ASSUME NEW d \in Range(wire') PROVE Fits(d)'
      BY <1>2 DEF WireInv
    <3>1. Fits(d) /\ Before(e, d) /\ d.output \in Outputs /\ d.number \in Nat
      BY <1>2, <1>3, <1>4
    <3> QED
      BY <1>2, <1>3, <1>11, <2>1, <2>2, <3>1 DEF Fits, Known, Before, World, TypeInv
  <2> QED
    BY <2>3, <2>4, <2>5, <2>6 DEF World
<1>12. CASE Known(e)
  BY <1>5, <1>8, <1>9, <1>10, <1>11, <1>12
<1>13. CASE ~Known(e)
  BY <1>5, <1>8, <1>10, <1>13
<1> QED
  BY <1>12, <1>13

\* After a pump the cache is what the worker knows.
LEMMA PublishKeeps ==
    ASSUME World, Publish
    PROVE  World'
<1> USE DEF compositorVars, connectionVars
<1>1. /\ cache' = (IF dirty THEN Snapshot(outs) ELSE cache) /\ cache' = Snapshot(outs)
      /\ ~dirty' /\ wpc' = "loop" /\ wpc = "pump"
  BY DEF Publish, World, PhaseInv, Listening
<1>2. TypeInv'
  BY <1>1, SnapshotFacts DEF Publish, World, TypeInv
<1>3. OutputInv'
  <2> SUFFICES ASSUME NEW o \in Outputs PROVE OutputFits(o)'
    BY DEF OutputInv
  <2>1. OutputFits(o)
    BY DEF World, OutputInv
  <2>2. /\ cache'[o] = None <=> outs[o].state # "ready"
        /\ outs[o].state = "ready" => cache'[o] = outs[o].level
    BY <1>1, SnapshotFacts DEF World
  <2> QED
    BY <1>1, <2>1, <2>2 DEF Publish, OutputFits
<1>4. PhaseInv'
  BY <1>1 DEF Publish, World, PhaseInv, Snapshot
<1>5. WireInv'
  BY DEF Publish, World, WireInv, Fits, Known
<1> QED
  BY <1>2, <1>3, <1>4, <1>5 DEF World

\* The steps towards the thread's end change no control.
LEMMA EndKeeps ==
    ASSUME World, PumpFails \/ TakeShutdown \/ TeardownEnds
    PROVE  World'
<1> USE DEF compositorVars, connectionVars, sharedVars
<1>1. /\ UNCHANGED <<plugged, number, held, asked, wire, broken, outs, dirty, failed>>
      /\ wpc' \in {"finished", "teardown"} /\ wpc \in {"loop", "pump", "teardown"}
      /\ cache' = cache \/ (broken /\ cache' = NoControls /\ wpc' = "finished")
  BY DEF PumpFails, TakeShutdown, NextIsShutdown, TeardownEnds, Finish
<1>2. TypeInv'
  BY <1>1 DEF World, TypeInv, NoControls
<1>3. OutputInv'
  <2> SUFFICES ASSUME NEW o \in Outputs PROVE OutputFits(o)'
    BY DEF OutputInv
  <2>1. OutputFits(o)
    BY DEF World, OutputInv
  <2>2. broken => held[o] = None
    BY DEF World, PhaseInv, NoControls
  <2> QED
    BY <1>1, <2>1, <2>2 DEF OutputFits
<1>4. PhaseInv'
  BY <1>1 DEF World, PhaseInv, Listening
<1>5. WireInv'
  BY <1>1 DEF World, WireInv, Fits, Known
<1> QED
  BY <1>2, <1>3, <1>4, <1>5 DEF World

\* A control released by the worker is not held any more.
LEMMA ReleaseKeeps ==
    ASSUME World, NEW o \in Outputs, Release(o)
    PROVE  World'
<1> USE DEF sharedVars
<1>1. /\ outs' = [outs EXCEPT ![o] = NoOutput] /\ held' = [held EXCEPT ![o] = None]
      /\ asked' = asked \ {o} /\ wpc = "teardown"
      /\ UNCHANGED <<plugged, number, wire, broken, wpc, dirty, cache, failed>>
  BY DEF Release
<1>2. TypeInv'
  BY <1>1, ValueFacts DEF World, TypeInv, NoOutput, Managed
<1>3. OutputInv'
  <2> SUFFICES ASSUME NEW p \in Outputs PROVE OutputFits(p)'
    BY DEF OutputInv
  <2>1. OutputFits(p)
    BY DEF World, OutputInv
  <2> QED
    BY <1>1, <2>1 DEF OutputFits, World, TypeInv, NoOutput, Managed
<1>4. PhaseInv'
  BY <1>1 DEF World, TypeInv, PhaseInv, Listening, NoControls
<1>5. WireInv'
  <2> SUFFICES ASSUME NEW d \in Range(wire) PROVE Fits(d)'
    BY <1>1 DEF World, WireInv
  <2>1. Fits(d)
    BY DEF World, WireInv
  <2>2. outs'[o].number = 0 /\ d.number > 0
    BY <1>1, <2>1 DEF World, TypeInv, NoOutput, Managed, Fits
  <2> QED
    BY <1>1, <2>1, <2>2 DEF World, TypeInv, Fits, Known
<1> QED
  BY <1>2, <1>3, <1>4, <1>5 DEF World

-----------------------------------------------------------------------------
(* The ends under way                                                      *)

\* Steps that neither announce nor end a global keep what is known of its end.
LEMMA EndsStay ==
    ASSUME EndInv, Connected' => Connected, UNCHANGED <<plugged, number, wire>>,
           \A o \in Outputs : outs'[o].state # "none" =>
               outs[o].state # "none" /\ outs'[o].number = outs[o].number
    PROVE  EndInv'
BY DEF EndInv, Ends

\* The compositor's own steps.
LEMMA EndsTold ==
    ASSUME World, EndInv, Connected' => Connected, outs' = outs,
           Connected => \A o \in Outputs, n \in Nat : Ends(o, n) => Ends(o, n)',
           Connected => \A d \in Range(wire') :
               d \in Range(wire) \/ (d.type = "added" => Ends(d.output, d.number)')
    PROVE  EndInv'
<1> SUFFICES ASSUME Connected PROVE EndInv'
  BY DEF EndInv
<1>1. \A o \in Outputs : outs[o].number \in Nat
  BY DEF World, TypeInv
<1>2. \A d \in Range(wire) : d.output \in Outputs /\ d.number \in Nat
  BY EventFacts, LenProperties DEF World, TypeInv, Range
<1> QED
  BY <1>1, <1>2 DEF EndInv

\* A new global is the current one; the older one's end is ahead of it.
LEMMA PlugEnds ==
    ASSUME World, EndInv, NEW o \in Outputs, Plug(o)
    PROVE  EndInv'
<1>1. PICK e \in Events : /\ e = Event("added", o, number[o] + 1) /\ number[o] \in Nat
                           /\ e.type = "added" /\ e.output = o /\ e.number = number[o] + 1
  BY EventFacts DEF World, TypeInv
<1>2. /\ number' = [number EXCEPT ![o] = number[o] + 1] /\ Send(<<e>>)
      /\ plugged' = [plugged EXCEPT ![o] = TRUE] /\ ~plugged[o] /\ outs' = outs
      /\ Connected' => Connected
  BY <1>1 DEF Plug, World, TypeInv, threadVars, Connected
<1>3. CASE Connected
  <2>1. wire' = wire \o <<e>> /\ wire \in Seq(Events)
    BY <1>2, <1>3 DEF Send, World, TypeInv
  <2>2. ASSUME NEW p \in Outputs, NEW n \in Nat, Ends(p, n) PROVE Ends(p, n)'
    <3>1. EndsIn(wire, p, n) => EndsIn(wire', p, n)
      BY <2>1, EndSent
    <3> QED
      BY <1>2, <2>2, <3>1 DEF Ends, World, TypeInv
  <2>3. \A d \in Range(wire') : d \in Range(wire) \/ d = e
    <3>1. \A d \in Range(wire) : Before(d, e)
      BY <1>1 DEF World, WireInv, Fits, Before
    <3> QED
      BY <2>1, <3>1, SendOne DEF World, WireInv
  <2>4. Ends(e.output, e.number)'
    BY <1>1, <1>2 DEF Ends, World, TypeInv
  <2> QED
    BY <1>2, <2>2, <2>3, <2>4, EndsTold
<1>4. CASE ~Connected
  BY <1>2, <1>4 DEF EndInv
<1> QED
  BY <1>3, <1>4

\* An event other than an announcement, with nothing plugged or unplugged.
LEMMA ToldEnds ==
    ASSUME World, EndInv, NEW e \in Events, Send(<<e>>), e.type # "added",
           UNCHANGED <<plugged, number, wpc, outs, broken>>
    PROVE  EndInv'
<1>1. Connected' <=> Connected
  BY DEF Connected
<1>2. CASE Connected
  <2>1. wire' = wire \o <<e>> /\ wire \in Seq(Events)
    BY <1>2 DEF Send, World, TypeInv
  <2>2. ASSUME NEW p \in Outputs, NEW n \in Nat, Ends(p, n) PROVE Ends(p, n)'
    <3>1. EndsIn(wire, p, n) => EndsIn(wire', p, n)
      BY <2>1, EndSent
    <3> QED
      BY <2>2, <3>1 DEF Ends
  <2>3. \A d \in Range(wire') : d \in Range(wire) \/ d = e
    BY <2>1, RangeSent
  <2> QED
    BY <1>1, <2>2, <2>3, EndsTold
<1>3. CASE ~Connected
  BY <1>1, <1>3 DEF EndInv
<1> QED
  BY <1>2, <1>3

\* The end of the current global is told.
LEMMA UnplugEnds ==
    ASSUME World, EndInv, NEW o \in Outputs, Unplug(o)
    PROVE  EndInv'
<1>1. PICK e \in Events : /\ e = Event("removed", o, number[o]) /\ number[o] \in Nat
                           /\ e.type = "removed" /\ e.output = o /\ e.number = number[o]
  BY EventFacts DEF World, TypeInv
<1>2. PICK f \in Events : /\ f = Event("failed", o, number[o])
                           /\ f.type = "failed" /\ f.output = o /\ f.number = number[o]
  BY <1>1, EventFacts
<1>3. /\ number' = number /\ plugged' = [plugged EXCEPT ![o] = FALSE] /\ outs' = outs
      /\ Connected' <=> Connected
  BY DEF Unplug, threadVars, Connected
<1>4. Send(<<e>>) \/ Send(<<f>> \o <<e>>)
  <2>1. \/ Send(<<Event("removed", o, number[o])>>)
        \/ Send(<<Event("failed", o, number[o])>> \o <<Event("removed", o, number[o])>>)
    BY Zenon DEF Unplug
  <2>2. /\ <<e>> = <<Event("removed", o, number[o])>>
        /\ <<f>> \o <<e>> = <<Event("failed", o, number[o])>> \o <<Event("removed", o, number[o])>>
    BY <1>1, <1>2, Zenon
  <2> QED
    BY <2>1, <2>2, Zenon
<1>5. CASE Connected
  <2>1. PICK w \in Seq(Events) : /\ wire' = w \o <<e>>
                                 /\ \A d \in Range(w) : d \in Range(wire) \/ d = f
                                 /\ \A p : \A n \in Nat : EndsIn(wire, p, n) => EndsIn(w, p, n)
    <3>1. wire \in Seq(Events)
      BY DEF World, TypeInv
    <3>2. CASE Send(<<e>>)
      BY <1>5, <3>1, <3>2 DEF Send
    <3>3. CASE Send(<<f>> \o <<e>>)
      <4>1. <<e>> \in Seq(Events) /\ <<f>> \in Seq(Events)
        OBVIOUS
      <4>2. wire' = (wire \o <<f>>) \o <<e>>
        BY <1>5, <3>1, <3>3, <4>1, ConcatAssociative DEF Send
      <4>3. wire \o <<f>> \in Seq(Events)
        BY <3>1, <4>1, ConcatProperties
      <4> QED
        BY <3>1, <4>2, <4>3, EndSent, RangeSent
    <3> QED
      BY <1>4, <3>2, <3>3
  <2>2. ASSUME NEW p \in Outputs, NEW n \in Nat, Ends(p, n) PROVE Ends(p, n)'
    <3>1. EndsIn(wire, p, n) => EndsIn(wire', p, n)
      BY <2>1, EndSent
    <3>2. \A d \in Range(w) : d.type = "added" /\ d.output = o => d.number <= number[o]
      <4>1. \A d \in Range(wire) : d.output = o => d.number <= number[o]
        BY <1>1 DEF World, WireInv, Fits
      <4> QED
        BY <1>2, <2>1, <4>1
    <3>3. EndsIn(wire', o, number[o])
      BY <1>1, <2>1, <3>2, EndSent
    <3> QED
      BY <1>3, <2>2, <3>1, <3>3 DEF Ends, World, TypeInv
  <2>3. \A d \in Range(wire') : d \in Range(wire) \/ d = e \/ d = f
    BY <2>1, RangeSent
  <2> QED
    BY <1>1, <1>2, <1>3, <2>2, <2>3, EndsTold
<1>6. CASE ~Connected
  BY <1>3, <1>6 DEF EndInv
<1> QED
  BY <1>5, <1>6

\* The end of a global the worker has read leaves it without that output.
LEMMA DispatchEnds ==
    ASSUME World, EndInv, Dispatch
    PROVE  EndInv'
<1> USE DEF compositorVars
<1>1. PICK e \in Events : e = Head(wire)
  BY ReadOne DEF Dispatch, World, TypeInv, WireInv
<1>2. /\ wire' = Tail(wire) /\ wire # <<>> /\ wire \in Seq(Events) /\ e \in Range(wire)
      /\ Range(wire') \subseteq Range(wire) /\ \A d \in Range(wire') : Before(e, d)
      /\ UNCHANGED <<plugged, number>> /\ Connected
  BY <1>1, ReadOne DEF Dispatch, World, TypeInv, PhaseInv, WireInv, Connected
<1>3. /\ e.output \in Outputs /\ e.number \in Nat
      /\ \A d \in Range(wire) : d.output \in Outputs /\ d.number \in Nat
  BY <1>2, EventFacts, LenProperties DEF World, TypeInv, Range
<1>4. /\ \A o \in Outputs : outs[o].state # "none" => Ends(o, outs[o].number)
      /\ \A d \in Range(wire) : d.type = "added" => Ends(d.output, d.number)
      /\ \A o \in Outputs : outs[o].number \in Nat
  BY <1>2 DEF EndInv, World, TypeInv
<1>5. ASSUME NEW o \in Outputs, NEW n \in Nat, Ends(o, n),
             ~(e.type = "removed" /\ e.output = o /\ e.number = n)
      PROVE  Ends(o, n)'
  BY <1>1, <1>2, <1>5, EndRead DEF Ends
<1>6. ASSUME NEW d \in Range(wire'), d.type = "added" PROVE Ends(d.output, d.number)'
  BY <1>2, <1>3, <1>4, <1>5, <1>6 DEF Before
<1>7. ASSUME NEW o \in Outputs, outs'[o].state # "none", NEW n, n = outs'[o].number
      PROVE  Ends(o, n)'
  <2>1. \/ e.type = "added" /\ (Added(e) \/ Skipped(e))
        \/ e.type = "removed" /\ Removed(e)
        \/ e.type = "ready" /\ Ready(e)
        \/ e.type = "failed" /\ Failed(e)
    BY <1>1 DEF Dispatch
  <2>2. \/ outs'[o] = outs[o] /\ ~(e.type = "removed" /\ e.output = o /\ e.number = outs[o].number)
        \/ /\ e.type \in {"ready", "failed"} /\ outs[o].number = e.number
           /\ outs'[o].number = e.number /\ e.output = o
        \/ e.type = "added" /\ e.output = o /\ outs'[o].number = e.number
    BY <1>3, <1>7, <2>1
       DEF Added, Skipped, Removed, Ready, Failed, Becomes, Known, World, TypeInv, Managed, NoOutput
  <2>3. CASE outs'[o] = outs[o] /\ ~(e.type = "removed" /\ e.output = o /\ e.number = outs[o].number)
    BY <1>4, <1>5, <1>7, <2>3
  <2>4. CASE /\ e.type \in {"ready", "failed"} /\ outs[o].number = e.number
             /\ outs'[o].number = e.number /\ e.output = o
    <3>1. outs[o].state # "none"
      BY <1>2, <1>3, <2>4 DEF World, TypeInv, WireInv, Fits, OutputInv, OutputFits, NoOutput, Managed
    <3> QED
      BY <1>3, <1>4, <1>5, <1>7, <2>4, <3>1
  <2>5. CASE e.type = "added" /\ e.output = o /\ outs'[o].number = e.number
    BY <1>2, <1>3, <1>4, <1>5, <1>7, <2>5
  <2> QED
    BY <2>2, <2>3, <2>4, <2>5
<1> QED
  BY <1>6, <1>7 DEF EndInv

\* The thread begins with the current globals.
LEMMA CollectEnds ==
    ASSUME World, Collect
    PROVE  EndInv'
<1>1. wire' = <<>> /\ UNCHANGED <<plugged, number>>
  BY DEF Collect, World, PhaseInv, compositorVars
<1>2. \A o \in Outputs : outs'[o].state # "none" => plugged[o] /\ outs'[o].number = number[o]
  BY DEF Collect, NoOutput, Managed
<1> QED
  BY <1>1, <1>2, NothingSent DEF EndInv, Ends

-----------------------------------------------------------------------------
(* The channel                                                             *)

\* What is in the channel, by where the daemon's thread is.
LEMMA ChannelFacts ==
    ASSUME ChannelInv
    PROVE  /\ Len(queue) \in Nat /\ DOMAIN queue = 1 .. Len(queue)
           /\ queue # <<>> => Len(queue) > 0 /\ Listening
           /\ \A i \in 1 .. Len(queue) : queue[i] \in Commands
           /\ hpc = "ready" => \A i \in 1 .. Len(queue) : IsLate(queue[i])
           /\ MaxLate \in Nat
BY LenProperties, EmptySeq, BackendAssumption DEF ChannelInv

\* A caller waits exactly as long as its command is in the channel.
LEMMA WaitingFacts ==
    ASSUME ChannelInv
    PROVE  hpc = "waiting" <=> \E i \in DOMAIN queue : queue[i].awaited
<1>1. CASE hpc = "waiting"
  BY <1>1, ChannelFacts DEF ChannelInv
<1>2. ASSUME hpc # "waiting", NEW i \in DOMAIN queue PROVE ~queue[i].awaited
  <2>1. i \in 1 .. Len(queue) - 1 \/ i = Len(queue)
    BY ChannelFacts
  <2>2. queue # <<>>
    BY <1>2, ChannelFacts
  <2>3. hpc \in {"ready", "joining", "closing"}
    BY <1>2, <2>2 DEF ChannelInv, Listening
  <2> QED
    BY <1>2, <2>1, <2>2, <2>3 DEF ChannelInv, IsLate, Shutdown
<1> QED
  BY <1>1, <1>2

\* The command at the head: the caller's if it is the only one, else one that
\* was given up.
LEMMA HeadFacts ==
    ASSUME ChannelInv, NextIsSet
    PROVE  /\ Head(queue) = queue[1] /\ Head(queue) \in Commands
           /\ Head(queue).output \in Outputs /\ Head(queue).level \in Levels
           /\ Tail(queue) \in Seq(Commands) /\ Len(Tail(queue)) = Len(queue) - 1
           /\ \A i \in 1 .. Len(queue) - 1 : Tail(queue)[i] = queue[i + 1]
           /\ Tail(queue) = <<>> <=> Len(queue) = 1
           /\ Head(queue).awaited <=> hpc = "waiting" /\ Len(queue) = 1
           /\ ~Head(queue).awaited => IsLate(queue[1])
<1>1. queue \in Seq(Commands) /\ queue # <<>> /\ Len(queue) \in Nat \ {0} /\ 1 \in 1 .. Len(queue)
  BY ChannelFacts DEF ChannelInv, NextIsSet
<1>2. /\ Head(queue) = queue[1] /\ Head(queue) \in Commands
      /\ Tail(queue) \in Seq(Commands) /\ Len(Tail(queue)) = Len(queue) - 1
      /\ \A i \in 1 .. Len(queue) - 1 : Tail(queue)[i] = queue[i + 1]
  BY <1>1, HeadTailProperties
<1>3. Tail(queue) = <<>> <=> Len(queue) = 1
  BY <1>1, <1>2, EmptySeq
<1>4. Head(queue).output \in Outputs /\ Head(queue).level \in Levels /\ Head(queue).awaited \in BOOLEAN
  BY <1>2 DEF NextIsSet, Commands, Shutdown
<1>5. Len(queue) # 1 => IsLate(queue[1])
  <2>1. \A l \in Nat \ {0} : l # 1 => 1 \in 1 .. l - 1
    OBVIOUS
  <2> QED
    BY <1>1, <2>1 DEF ChannelInv
<1>6. Len(queue) = 1 => (Head(queue).awaited <=> hpc = "waiting")
  <2>1. hpc \in {"ready", "waiting", "joining", "closing"}
    BY <1>1 DEF ChannelInv, Listening
  <2> QED
    BY <1>1, <1>2, <2>1 DEF ChannelInv, IsLate, NextIsSet, Shutdown
<1>7. Head(queue).type = "set"
  BY DEF NextIsSet
<1> QED
  BY <1>2, <1>3, <1>4, <1>5, <1>6, <1>7 DEF IsLate

\* An answered command leaves the channel in order.
LEMMA AnswerChannel ==
    ASSUME ChannelInv, ApplyGamma \/ ApplyFails
    PROVE  ChannelInv'
<1>1. /\ NextIsSet /\ queue' = Tail(queue) /\ wpc' = "pump"
      /\ hpc' = IF Head(queue).awaited THEN "ready" ELSE hpc
  BY DEF ApplyGamma, ApplyFails, Answer, FlushInto
<1>2. /\ queue' \in Seq(Commands) /\ Len(queue') = Len(queue) - 1
      /\ \A i \in 1 .. Len(queue) - 1 : queue'[i] = queue[i + 1]
      /\ queue' = <<>> <=> Len(queue) = 1
      /\ Head(queue).awaited <=> hpc = "waiting" /\ Len(queue) = 1
  BY <1>1, HeadFacts
<1>3. Len(queue) \in Nat \ {0} /\ MaxLate \in Nat
  BY <1>1, ChannelFacts DEF NextIsSet
<1>4. CASE Len(queue) = 1
  BY <1>1, <1>2, <1>3, <1>4 DEF ChannelInv, Listening, NextIsSet
<1>5. CASE Len(queue) # 1
  <2>1. queue'[Len(queue')] = queue[Len(queue)] /\ hpc' = hpc
    BY <1>1, <1>2, <1>3, <1>5
  <2>2. \A i \in 1 .. Len(queue') - 1 : IsLate(queue'[i])
    BY <1>2, <1>3 DEF ChannelInv
  <2> QED
    BY <1>1, <1>2, <1>3, <1>5, <2>1, <2>2 DEF ChannelInv, Listening, NextIsSet
<1> QED
  BY <1>4, <1>5

\* A call's command comes last in the channel.
LEMMA CallChannel ==
    ASSUME ChannelInv, NEW o \in Bindable, NEW level \in Levels, CallSet(o, level)
    PROVE  ChannelInv'
<1> DEFINE c == Set(o, level)
<1>1. c \in Commands /\ c.type = "set" /\ c.awaited
  BY BackendAssumption DEF Set, Commands
<1> HIDE DEF c
<1>2. /\ queue' = Append(queue, c) /\ hpc = "ready" /\ hpc' = "waiting" /\ Listening
      /\ wpc' = wpc
  BY DEF CallSet, c, threadState, threadVars
<1>3. /\ queue' \in Seq(Commands) /\ queue' # <<>> /\ Len(queue') = Len(queue) + 1
      /\ \A i \in 1 .. Len(queue) : queue'[i] = queue[i]
      /\ queue'[Len(queue) + 1] = c
  BY <1>1, <1>2, AppendProperties DEF ChannelInv
<1>4. /\ Len(queue) \in Nat /\ MaxLate \in Nat /\ Len(queue) <= MaxLate
      /\ \A i \in 1 .. Len(queue) : IsLate(queue[i])
  BY <1>2, ChannelFacts DEF ChannelInv
<1> QED
  BY <1>1, <1>2, <1>3, <1>4 DEF ChannelInv, Listening

\* Whoever gives up leaves his command last in the channel.
LEMMA GiveUpChannel ==
    ASSUME ChannelInv, GiveUp
    PROVE  /\ ChannelInv' /\ queue # <<>> /\ Len(queue') = Len(queue)
           /\ \A i \in 1 .. Len(queue) - 1 : queue'[i] = queue[i]
           /\ queue'[Len(queue)].output = queue[Len(queue)].output
           /\ queue'[Len(queue)].level = queue[Len(queue)].level
           /\ queue[Len(queue)].output \in Outputs /\ queue[Len(queue)].level \in Levels
<1> DEFINE l == Len(queue)
           c == [queue[l] EXCEPT !.awaited = FALSE]
<1>1. /\ hpc = "waiting" /\ l <= MaxLate /\ hpc' = "ready" /\ queue' = [queue EXCEPT ![l] = c]
      /\ wpc' = wpc
  BY DEF GiveUp, threadState, threadVars
<1>2. /\ l \in Nat /\ l > 0 /\ MaxLate \in Nat /\ l \in 1 .. l /\ queue # <<>> /\ Listening
      /\ queue[l] \in Commands /\ queue[l].type = "set" /\ queue[l].awaited
  BY <1>1, ChannelFacts DEF ChannelInv
<1>3. /\ c \in Commands /\ IsLate(c) /\ c.output = queue[l].output /\ c.level = queue[l].level
      /\ c.output \in Outputs /\ c.level \in Levels
  <2>1. queue[l] \in [type : {"set"}, output : Outputs, level : Levels, awaited : BOOLEAN]
    BY <1>2 DEF Commands, Shutdown
  <2>2. /\ c \in [type : {"set"}, output : Outputs, level : Levels, awaited : BOOLEAN]
        /\ c.output = queue[l].output /\ c.level = queue[l].level /\ ~c.awaited
    BY <2>1
  <2> QED
    BY <2>2 DEF Commands, IsLate
<1> HIDE DEF c
<1>4. /\ queue' \in Seq(Commands) /\ Len(queue') = l
      /\ \A i \in 1 .. l : queue'[i] = IF i = l THEN c ELSE queue[i]
  BY <1>1, <1>2, <1>3, ExceptSeq DEF ChannelInv
<1>5. \A i \in 1 .. l - 1 : queue'[i] = queue[i] /\ IsLate(queue[i])
  BY <1>2, <1>4 DEF ChannelInv
<1>6. queue'[l] = c
  BY <1>2, <1>4
<1> HIDE DEF l
<1>7. ChannelInv'
  BY <1>1, <1>2, <1>3, <1>4, <1>5, <1>6, EmptySeq DEF ChannelInv, Listening
<1> QED
  BY <1>2, <1>3, <1>4, <1>5, <1>6, <1>7 DEF l

\* Shutdown comes last in the channel.
LEMMA JoinChannel ==
    ASSUME ChannelInv, NEW why \in {"joining", "closing"}, Join(why)
    PROVE  ChannelInv'
<1>1. /\ hpc = "ready" /\ hpc' = why /\ wpc' = wpc
      /\ queue' = IF wpc = "finished" THEN queue ELSE Append(queue, Shutdown)
  BY DEF Join, threadState, threadVars
<1>2. Shutdown \in Commands
  BY DEF Commands
<1>3. /\ Len(queue) \in Nat /\ MaxLate \in Nat /\ Len(queue) <= MaxLate
      /\ \A i \in 1 .. Len(queue) : IsLate(queue[i])
  BY <1>1, ChannelFacts DEF ChannelInv
<1>4. CASE wpc = "finished"
  BY <1>1, <1>3, <1>4 DEF ChannelInv, Listening
<1>5. CASE wpc # "finished"
  <2>1. /\ queue' \in Seq(Commands) /\ queue' # <<>> /\ Len(queue') = Len(queue) + 1
        /\ \A i \in 1 .. Len(queue) : queue'[i] = queue[i]
        /\ queue'[Len(queue) + 1] = Shutdown
    BY <1>1, <1>2, <1>5, AppendProperties DEF ChannelInv
  <2> QED
    BY <1>1, <1>3, <1>5, <2>1 DEF ChannelInv, Listening
<1> QED
  BY <1>4, <1>5

\* A channel that is emptied, and steps that leave it alone.
LEMMA EmptyChannel ==
    ASSUME ChannelInv, queue' = <<>>,
           hpc' \in {"none", "connecting", "ready", "joining", "closing"},
           hpc' = "ready" => wpc' \in {"loop", "pump", "finished"},
           hpc' = "none" => wpc' = "none",
           hpc' = "connecting" <=> wpc' \in {"spawned", "starting"}
    PROVE  ChannelInv'
BY EmptySeq, BackendAssumption DEF ChannelInv

\* The channel does not depend on where in its loop the worker is.
LEMMA SameChannel ==
    ASSUME ChannelInv, UNCHANGED <<queue, hpc>>,
           wpc' = wpc \/ (wpc \in {"loop", "pump"} /\ wpc' \in {"loop", "pump"})
    PROVE  ChannelInv'
BY DEF ChannelInv, Listening

-----------------------------------------------------------------------------
(* Every step                                                              *)

\* Before the daemon connects nothing is there.
LEMMA InitInv == Init => IInv
<1> SUFFICES ASSUME Init PROVE IInv
  OBVIOUS
<1>1. TypeInv
  BY NothingSent, ValueFacts DEF Init, TypeInv, NoControls, NoOutputs, NoOutput, Managed
<1>2. OutputInv
  BY DEF Init, OutputInv, OutputFits, NoControls, NoOutputs, NoOutput, Managed
<1>3. PhaseInv /\ WireInv /\ EndInv
  BY NothingSent DEF Init, PhaseInv, WireInv, EndInv, Listening, Connected
<1>4. ChannelInv
  BY EmptySeq, BackendAssumption DEF Init, ChannelInv
<1> QED
  BY <1>1, <1>2, <1>3, <1>4 DEF IInv, World

\* The steps of the compositor and of its answers.
LEMMA CompositorStep ==
    ASSUME IInv, Compositor \/ Answers
    PROVE  IInv'
<1> USE DEF threadVars, sharedVars, compositorVars
<1>0. World /\ EndInv /\ ChannelInv
  BY DEF IInv
<1>1. CASE Break
  <2>1. World' /\ EndInv'
    BY <1>0, <1>1, BreakKeeps DEF Break, EndInv, Connected
  <2>2. ChannelInv'
    BY <1>0, <1>1, SameChannel DEF Break
  <2> QED
    BY <2>1, <2>2 DEF IInv
<1>2. ASSUME NEW o \in Outputs, Plug(o) PROVE IInv'
  <2>1. ChannelInv'
    BY <1>0, <1>2, SameChannel DEF Plug
  <2> QED
    BY <1>0, <1>2, <2>1, PlugKeeps, PlugEnds DEF IInv
<1>3. ASSUME NEW o \in Outputs, Unplug(o) PROVE IInv'
  <2>1. ChannelInv'
    BY <1>0, <1>3, SameChannel DEF Unplug
  <2> QED
    BY <1>0, <1>3, <2>1, UnplugKeeps, UnplugEnds DEF IInv
<1>4. ASSUME NEW o \in Outputs, TakeBack(o) \/ Grant(o) \/ Deny(o) PROVE IInv'
  <2>1. World'
    BY <1>0, <1>4, TakeBackKeeps, GrantKeeps, DenyKeeps
  <2>2. PICK type \in {"ready", "failed"}, n \in Nat : Send(<<Event(type, o, n)>>)
    BY <1>0, <1>4 DEF TakeBack, Grant, Deny, World, TypeInv
  <2>3. /\ UNCHANGED <<plugged, number, wpc, outs, broken, queue, hpc>>
    BY <1>4 DEF TakeBack, Grant, Deny
  <2>4. EndInv'
    BY <1>0, <2>2, <2>3, EventFacts, ToldEnds
  <2>5. ChannelInv'
    BY <1>0, <2>3, SameChannel
  <2> QED
    BY <2>1, <2>4, <2>5 DEF IInv
<1> QED
  BY <1>1, <1>2, <1>3, <1>4 DEF Compositor, Answers

\* The steps of the worker thread.
LEMMA ThreadStep ==
    ASSUME IInv, Thread \/ Dispatch
    PROVE  IInv'
<1> USE DEF threadVars, sharedVars, compositorVars, connectionVars
<1>0. World /\ EndInv /\ ChannelInv /\ TypeInv
  BY DEF IInv, World
<1>1. CASE Collect
  <2>1. ChannelInv'
    BY <1>0, <1>1 DEF Collect, ChannelInv, Listening
  <2> QED
    BY <1>0, <1>1, <2>1, CollectKeeps, CollectEnds DEF IInv
<1>2. CASE Started
  <2>1. queue' = <<>> /\ hpc' = "ready" /\ wpc' = "loop"
    BY <1>0, <1>2 DEF Started, ChannelInv, Listening
  <2>2. ChannelInv'
    BY <1>0, <2>1, EmptyChannel
  <2>3. EndInv'
    BY <1>0, <1>2, EndsStay DEF Started, Connected
  <2> QED
    BY <1>0, <1>2, <2>2, <2>3, StartedKeeps DEF IInv
<1>3. CASE NoCommand \/ ApplyGamma \/ ApplyFails
  <2>1. World'
    BY <1>0, <1>3, HeadFacts, NextCommandKeeps
  <2>2. PICK os : FlushInto(os) /\ wpc = "loop"
                  /\ \A o \in Outputs : os[o].state = outs[o].state /\ os[o].number = outs[o].number
    <3>1. CASE NoCommand \/ ApplyFails
      BY <3>1 DEF NoCommand, ApplyFails, NextIsSet
    <3>2. CASE ApplyGamma
      <4> DEFINE os == [outs EXCEPT ![Head(queue).output].level = Head(queue).level]
      <4>1. FlushInto(os) /\ wpc = "loop" /\ Head(queue).output \in Outputs
        BY <1>0, <3>2, HeadFacts DEF ApplyGamma, NextIsSet
      <4>2. \A o \in Outputs : os[o].state = outs[o].state /\ os[o].number = outs[o].number
        BY <1>0, <4>1 DEF TypeInv
      <4> QED
        BY <4>1, <4>2
    <3> QED
      BY <1>3, <3>1, <3>2
  <2>3. \A o \in Outputs : outs'[o].number = os[o].number /\ (outs'[o].state # "none" => os[o].state # "none")
    BY <1>0, <2>1, <2>2 DEF FlushInto, World, TypeInv
  <2>4. EndInv'
    BY <1>0, <2>2, <2>3, EndsStay DEF FlushInto, Connected
  <2>5. ChannelInv'
    BY <1>0, <1>3, <2>2, AnswerChannel, SameChannel DEF NoCommand, FlushInto
  <2> QED
    BY <2>1, <2>4, <2>5 DEF IInv
<1>4. CASE Publish
  <2>1. EndInv' /\ ChannelInv'
    BY <1>0, <1>4, EndsStay, SameChannel DEF Publish, Connected
  <2> QED
    BY <1>0, <1>4, <2>1, PublishKeeps DEF IInv
<1>5. CASE PumpFails \/ TakeShutdown \/ TeardownEnds
  <2>1. EndInv'
    BY <1>0, <1>5, EndsStay
       DEF PumpFails, TakeShutdown, NextIsShutdown, TeardownEnds, Finish, Connected
  <2>2. hpc # "connecting" /\ hpc # "none"
    BY <1>0, <1>5 DEF ChannelInv, PumpFails, TakeShutdown, NextIsShutdown, TeardownEnds
  <2>3. /\ queue' = <<>> /\ wpc' \in {"finished", "teardown"}
        /\ hpc' \in {"ready", "joining", "closing"}
        /\ hpc' = "ready" => wpc' = "finished"
    <3>1. CASE PumpFails \/ TeardownEnds
      BY <1>0, <2>2, <3>1 DEF PumpFails, TeardownEnds, Finish, ChannelInv
    <3>2. CASE TakeShutdown
      <4>1. Len(queue) = 1 /\ queue[1] = Shutdown /\ queue # <<>>
        BY <3>2 DEF TakeShutdown, NextIsShutdown
      <4>2. hpc \in {"joining", "closing"}
        BY <1>0, <2>2, <4>1 DEF ChannelInv, Shutdown, IsLate
      <4> QED
        BY <3>2, <4>2 DEF TakeShutdown
    <3> QED
      BY <1>5, <3>1, <3>2
  <2>4. ChannelInv'
    BY <1>0, <2>3, EmptyChannel
  <2> QED
    BY <1>0, <1>5, <2>1, <2>4, EndKeeps DEF IInv
<1>6. ASSUME NEW o \in Outputs, Release(o) PROVE IInv'
  <2>1. \A p \in Outputs : outs'[p].state # "none" => outs'[p] = outs[p]
    BY <1>0, <1>6 DEF Release, TypeInv, NoOutput, Managed
  <2>2. EndInv' /\ ChannelInv'
    BY <1>0, <1>6, <2>1, EndsStay, SameChannel DEF Release, Connected
  <2> QED
    BY <1>0, <1>6, <2>2, ReleaseKeeps DEF IInv
<1>7. CASE Dispatch
  <2>1. ChannelInv'
    BY <1>0, <1>7, SameChannel DEF Dispatch
  <2> QED
    BY <1>0, <1>7, <2>1, DispatchKeeps, DispatchEnds DEF IInv
<1> QED
  BY <1>1, <1>2, <1>3, <1>4, <1>5, <1>6, <1>7 DEF Thread

\* The daemon's calls, and the beginning and the end of the thread.
LEMMA DaemonStep ==
    ASSUME IInv, Daemon \/ Joined \/ StartFails \/ Killed \/ UNCHANGED vars
    PROVE  IInv'
<1> USE DEF threadVars, sharedVars, compositorVars, connectionVars
<1>0. World /\ EndInv /\ ChannelInv
  BY DEF IInv
<1>1. CASE Daemon \/ UNCHANGED vars
  <2>1. UNCHANGED threadState
    BY <1>1 DEF Daemon, CallSet, GiveUp, Reconnect, BeginExit, Join, vars, threadState
  <2>2. TypeInv' /\ PhaseInv' /\ WireInv' /\ OutputInv' /\ EndInv'
    BY <1>0, <2>1 DEF threadState, World, TypeInv, PhaseInv, WireInv, Fits, Known,
       OutputInv, OutputFits, EndInv, Ends, Connected, Listening, Snapshot
  <2>3. ChannelInv'
    BY <1>0, <1>1, CallChannel, GiveUpChannel, JoinChannel, SameChannel
       DEF Daemon, Reconnect, BeginExit, vars
  <2> QED
    BY <2>2, <2>3 DEF IInv, World
<1>2. CASE Joined \/ StartFails \/ Killed
  <2>1. /\ NoThread /\ wpc' \in {"none", "spawned"} /\ queue' = <<>>
        /\ hpc' = IF wpc' = "none" THEN "none" ELSE "connecting"
    BY <1>2 DEF Joined, Spawn, Exited, StartFails, Killed, NoThread
  <2>2. World' /\ EndInv'
    BY <1>0, <2>1, NoThreadKeeps DEF EndInv, Connected
  <2>3. ChannelInv'
    BY <1>0, <2>1, EmptyChannel
  <2> QED
    BY <2>2, <2>3 DEF IInv
<1> QED
  BY <1>1, <1>2

\* Every step keeps the invariant.
LEMMA StepInv == IInv /\ [Next]_vars => IInv'
BY CompositorStep, ThreadStep, DaemonStep DEF Next

\* The invariant contains the types.
LEMMA IInvType == IInv => TypeOK
<1> SUFFICES ASSUME IInv PROVE TypeOK
  OBVIOUS
<1>1. asked \subseteq {o \in Outputs : outs[o].state = "bound"}
  BY DEF IInv, World, TypeInv, OutputInv, OutputFits
<1>2. Len(queue) <= MaxLate + 1
  BY ChannelFacts DEF IInv, ChannelInv
<1> QED
  BY <1>1, <1>2, WaitingFacts DEF IInv, World, TypeInv, ChannelInv, TypeOK

\* Every variable of the backend keeps its type, a request for a control is
\* that of an output the worker has, and a caller waits exactly as long as its
\* command is in the channel (gamma.rs:133-152, 300-313).
THEOREM GammaTypeCorrect == Spec => []TypeOK
<1>1. Spec => []IInv
  BY InitInv, StepInv, PTL DEF Spec
<1> QED
  BY <1>1, IInvType, PTL

-----------------------------------------------------------------------------
(* The refinement                                                          *)

\* The abstract backend's values are these.
LEMMA SameValues ==
    Control!None = None /\ Control!Levels = Levels /\ Control!NoControls = [o \in Outputs |-> None]
BY DEF None, Levels, Control!None, Control!Levels, Control!NoControls

\* What the daemon can see of the thread, by its place.
LEMMA SeenFacts ==
    ASSUME IInv
    PROVE  /\ WorkerSeen = "running" <=> (Alive \/ wpc = "finished") /\ ~broken
           /\ Alive /\ broken => WorkerSeen = "stopping"
           /\ wpc = "finished" /\ broken => WorkerSeen = "finished"
           /\ wpc \in {"none", "spawned", "starting"} => WorkerSeen = "none"
           /\ \A o \in Outputs : LutSeen[o] = IF cache[o] = None THEN None ELSE held[o]
           /\ broken => LutSeen = NoControls
           /\ DOMAIN cache = Outputs /\ DOMAIN LutSeen = Outputs
<1>1. wpc \in {"none", "spawned", "starting", "loop", "pump", "teardown", "finished"}
  BY DEF IInv, World, TypeInv
<1>2. broken => LutSeen = NoControls
  BY DEF IInv, World, PhaseInv, LutSeen, NoControls
<1> QED
  BY <1>1, <1>2 DEF IInv, World, TypeInv, WorkerSeen, Alive, LutSeen

\* The commands that were given up.
LEMMA LateFacts ==
    ASSUME ChannelInv, Alive, ~broken
    PROVE  /\ LateCount \in Nat /\ LateSeen \in Seq(Control!Command) /\ Len(LateSeen) = LateCount
           /\ LateCount = IF queue = <<>> \/ hpc = "ready" THEN Len(queue) ELSE Len(queue) - 1
           /\ \A i \in 1 .. LateCount :
                LateSeen[i] = [output |-> queue[i].output, level |-> queue[i].level]
<1>1. /\ Len(queue) \in Nat /\ (queue # <<>> => Len(queue) > 0)
      /\ \A i \in 1 .. Len(queue) : queue[i] \in Commands
  BY ChannelFacts
<1>2. LateCount = IF queue = <<>> \/ hpc = "ready" THEN Len(queue) ELSE Len(queue) - 1
  <2>1. queue # <<>> => hpc \in {"ready", "waiting", "joining", "closing"}
    BY DEF ChannelInv, Listening
  <2> QED
    BY <2>1 DEF ChannelInv, LateCount, IsLate, Shutdown
<1>3. LateCount \in Nat /\ LateCount <= Len(queue)
  BY <1>1, <1>2, EmptySeq
<1>4. \A i \in 1 .. LateCount : i \in 1 .. Len(queue) /\ IsLate(queue[i])
  <2>1. \A i \in 1 .. LateCount : i \in 1 .. Len(queue) - 1 \/ (i = Len(queue) /\ hpc = "ready")
    BY <1>1, <1>2, <1>3, EmptySeq
  <2> QED
    BY <1>1, <1>3, <2>1, ChannelFacts DEF ChannelInv
<1>5. \A i \in 1 .. LateCount :
        [output |-> queue[i].output, level |-> queue[i].level] \in Control!Command
  <2> SUFFICES ASSUME NEW i \in 1 .. LateCount
               PROVE  queue[i].output \in Outputs /\ queue[i].level \in Levels
    BY SameValues DEF Control!Command
  <2>1. queue[i] \in Commands /\ queue[i].type = "set"
    BY <1>1, <1>4 DEF IsLate
  <2> QED
    BY <2>1 DEF Commands, Shutdown
<1> DEFINE s == [i \in 1 .. LateCount |-> [output |-> queue[i].output, level |-> queue[i].level]]
<1>6. LateSeen = s
  BY DEF LateSeen
<1>7. s \in [1 .. LateCount -> Control!Command]
  BY <1>5
<1>8. s \in Seq(Control!Command) /\ Len(s) = LateCount
  BY <1>3, <1>7
<1> QED
  BY <1>2, <1>3, <1>6, <1>8

\* Nothing is late while there is no thread to process it.
LEMMA NothingLate ==
    ASSUME ChannelInv, ~Alive \/ broken \/ ~Listening \/ queue = <<>>
    PROVE  LateSeen = <<>>
<1>1. CASE ~Alive \/ broken
  BY <1>1 DEF LateSeen
<1>2. CASE Alive /\ ~broken /\ queue = <<>>
  <2>1. Len(LateSeen) = 0 /\ LateSeen \in Seq(Control!Command)
    BY <1>2, LateFacts, EmptySeq
  <2> QED
    BY <2>1, EmptySeq
<1> QED
  BY <1>1, <1>2 DEF ChannelInv, Alive

\* The same of the next state.
LEMMA NothingLateNext ==
    (ChannelInv /\ (~Alive \/ broken \/ ~Listening \/ queue = <<>>) => LateSeen = <<>>)'
<1>1. ChannelInv /\ (~Alive \/ broken \/ ~Listening \/ queue = <<>>) => LateSeen = <<>>
  BY NothingLate
<1> QED
  BY <1>1, PTL

\* The late commands of the next state.
LEMMA LateFactsNext ==
    (ChannelInv /\ Alive /\ ~broken =>
        /\ LateCount \in Nat /\ LateSeen \in Seq(Control!Command) /\ Len(LateSeen) = LateCount
        /\ LateCount = IF queue = <<>> \/ hpc = "ready" THEN Len(queue) ELSE Len(queue) - 1
        /\ \A i \in 1 .. LateCount :
              LateSeen[i] = [output |-> queue[i].output, level |-> queue[i].level])'
<1>1. ChannelInv /\ Alive /\ ~broken =>
        /\ LateCount \in Nat /\ LateSeen \in Seq(Control!Command) /\ Len(LateSeen) = LateCount
        /\ LateCount = IF queue = <<>> \/ hpc = "ready" THEN Len(queue) ELSE Len(queue) - 1
        /\ \A i \in 1 .. LateCount :
              LateSeen[i] = [output |-> queue[i].output, level |-> queue[i].level]
  BY LateFacts
<1> QED
  BY <1>1, PTL

\* A step that shows nothing.
LEMMA Unseen ==
    ASSUME UNCHANGED <<LutSeen, WorkerSeen, cache, FlagSeen, LateSeen>>
    PROVE  [Control!GammaNext]_(Control!gammaVars)
BY DEF Control!gammaVars

\* The end of a connection or of a process, seen from the daemon, and the
\* beginning of a new one.
LEMMA CloseRefines ==
    ASSUME NoThread, wpc' \in {"none", "spawned"}
    PROVE  Control!Close
<1>1. LutSeen' = Control!NoControls /\ cache' = Control!NoControls
  <2>1. cache' = [o \in Outputs |-> None]
    BY DEF NoThread, NoControls
  <2>2. LutSeen' = [o \in Outputs |-> None]
    BY <2>1 DEF LutSeen
  <2> QED
    BY <2>1, <2>2, SameValues
<1>2. WorkerSeen' = "none" /\ FlagSeen' = FALSE /\ LateSeen' = <<>>
  BY DEF NoThread, WorkerSeen, FlagSeen, LateSeen, Alive
<1> QED
  BY <1>1, <1>2 DEF Control!Close

\* A start that succeeded is a Connect of the controls that are ready.
LEMMA StartedRefines ==
    ASSUME IInv, IInv', Started
    PROVE  [Control!GammaNext]_(Control!gammaVars)
<1> DEFINE granted == {o \in Outputs : outs[o].state = "ready"}
           kept == {o \in granted : held[o] # None}
<1>1. /\ wpc = "starting" /\ wpc' = "loop" /\ ~broken /\ ~broken' /\ queue' = queue /\ failed' = failed
      /\ cache' = Snapshot(outs) /\ held' = held
  BY DEF Started, compositorVars, connectionVars
<1>2. queue = <<>>
  BY <1>1 DEF IInv, ChannelInv, Listening
<1>3. LateSeen = <<>> /\ LateSeen' = <<>>
  BY <1>1, <1>2, NothingLate, NothingLateNext DEF IInv, Alive
<1>4. WorkerSeen = "none" /\ WorkerSeen' = "running"
  BY <1>1 DEF WorkerSeen, Alive
<1>5. failed \in BOOLEAN
  BY DEF IInv, World, TypeInv
<1>5a. FlagSeen' = failed
  BY <1>1, <1>5 DEF FlagSeen
<1>6. \A o \in Outputs : /\ outs[o].state = "ready" => outs[o].level = Unit
                         /\ held[o] \in {None, Unit}
  BY <1>1 DEF IInv, World, PhaseInv, OutputInv, OutputFits, NoControls
<1>7. cache' = [o \in Outputs |-> IF o \in granted THEN Unit ELSE None]
  BY <1>1, <1>6 DEF Snapshot
<1>8. LutSeen' = [o \in Outputs |-> IF o \in kept THEN Unit ELSE None]
  BY <1>1, <1>6, <1>7, ValueFacts DEF LutSeen
<1>9. failed => granted # Outputs
  BY <1>1 DEF IInv, World, PhaseInv
<1>10. failed \in BOOLEAN /\ kept \subseteq granted /\ granted \subseteq Outputs
  BY DEF IInv, World, TypeInv
<1> HIDE DEF granted, kept
<1>11. Control!Connect(granted, kept, failed)
  BY SameValues, <1>3, <1>4, <1>5a, <1>7, <1>8, <1>9 DEF Control!Connect, Control!NeedsReconnect
<1> QED
  BY <1>10, <1>11 DEF Control!GammaNext

\* A step that changes neither what is published nor what is in the channel.
LEMMA StayRefines ==
    ASSUME UNCHANGED <<queue, broken, cache, failed>>, LutSeen' = LutSeen,
           wpc' = wpc \/ (Alive /\ Alive')
    PROVE  [Control!GammaNext]_(Control!gammaVars)
<1>1. WorkerSeen' = WorkerSeen /\ FlagSeen' = FlagSeen
  BY DEF WorkerSeen, FlagSeen, Alive
<1>2. LateSeen' = LateSeen
  BY DEF LateSeen, LateCount, Alive
<1> QED
  BY <1>1, <1>2, Unseen

\* A control is lost: the daemon sees it if it was published.
LEMMA LossRefines ==
    ASSUME IInv, NEW o \in Outputs, held' = [held EXCEPT ![o] = None],
           UNCHANGED <<queue, broken, cache, failed, wpc>>
    PROVE  [Control!GammaNext]_(Control!gammaVars)
<1>1. held \in [Outputs -> Levels \cup {None}]
  BY DEF IInv, World, TypeInv
<1>2. CASE cache[o] = None \/ held[o] = None
  <2>1. \A p \in Outputs : held'[p] = held[p] \/ cache[p] = None
    BY <1>1, <1>2
  <2>2. LutSeen' = LutSeen
    BY <2>1 DEF LutSeen
  <2> QED
    BY <2>2, StayRefines
<1>3. CASE cache[o] # None /\ held[o] # None
  <2>1. ~broken /\ wpc \notin {"none", "spawned", "starting"}
    BY <1>3 DEF IInv, World, PhaseInv, NoControls
  <2>2. WorkerSeen = "running" /\ WorkerSeen' = WorkerSeen /\ FlagSeen' = FlagSeen
    BY <2>1 DEF WorkerSeen, FlagSeen, Alive
  <2>3. LateSeen' = LateSeen
    BY DEF LateSeen, LateCount, Alive
  <2>4. LutSeen[o] # None /\ LutSeen' = [LutSeen EXCEPT ![o] = None]
    BY <1>1, <1>3 DEF LutSeen
  <2>5. Control!Withdrawn(o)
    BY <2>2, <2>3, <2>4, SameValues DEF Control!Withdrawn
  <2> QED
    BY <2>5 DEF Control!GammaNext, Control!CompositorActs
<1> QED
  BY <1>2, <1>3

\* The break is seen once the thread has started.
LEMMA BreakRefines ==
    ASSUME IInv, IInv', Break
    PROVE  [Control!GammaNext]_(Control!gammaVars)
<1>1. /\ wpc \in {"spawned", "starting", "loop", "pump", "teardown"} /\ ~broken /\ broken'
      /\ UNCHANGED <<wpc, cache, failed, queue>> /\ held' = NoControls
  BY DEF Break, threadVars, sharedVars
<1>2. LutSeen' = [o \in Outputs |-> None]
  BY <1>1 DEF LutSeen, NoControls
<1>3. LateSeen' = <<>> /\ FlagSeen' = FlagSeen
  BY <1>1 DEF LateSeen, FlagSeen
<1>4. CASE Alive
  <2>1. WorkerSeen = "running" /\ WorkerSeen' = "stopping"
    BY <1>1, <1>4 DEF WorkerSeen, Alive
  <2>2. Control!ConnectionLost
    BY <1>1, <1>2, <1>3, <2>1, SameValues DEF Control!ConnectionLost
  <2> QED
    BY <2>2 DEF Control!GammaNext, Control!CompositorActs
<1>5. CASE ~Alive
  <2>1. wpc \in {"spawned", "starting"}
    BY <1>1, <1>5 DEF Alive
  <2>2. WorkerSeen' = WorkerSeen /\ LateSeen = <<>>
    BY <1>1, <2>1 DEF WorkerSeen, LateSeen, Alive
  <2>3. LutSeen = [o \in Outputs |-> None]
    BY <2>1 DEF IInv, World, PhaseInv, NoControls, LutSeen
  <2> QED
    BY <1>1, <1>2, <1>3, <2>2, <2>3, Unseen
<1> QED
  BY <1>4, <1>5

\* The compositor's steps, seen from the daemon.
LEMMA CompositorRefines ==
    ASSUME IInv, IInv', Compositor \/ Answers
    PROVE  [Control!GammaNext]_(Control!gammaVars)
<1> USE DEF threadVars, sharedVars, compositorVars
<1>1. ASSUME NEW o \in Outputs, Plug(o) \/ Deny(o) PROVE [Control!GammaNext]_(Control!gammaVars)
  <2>1. LutSeen' = LutSeen
    BY <1>1 DEF Plug, Deny, LutSeen
  <2> QED
    BY <1>1, <2>1, StayRefines DEF Plug, Deny
<1>2. ASSUME NEW o \in Outputs, Unplug(o) \/ TakeBack(o)
      PROVE  [Control!GammaNext]_(Control!gammaVars)
  BY <1>2, LossRefines DEF Unplug, TakeBack
<1>3. ASSUME NEW o \in Outputs, Grant(o) PROVE [Control!GammaNext]_(Control!gammaVars)
  <2>1. outs[o].state = "bound" /\ OutputFits(o) /\ wpc \in {"starting", "loop", "pump", "teardown"}
    BY <1>3 DEF Grant, Connected, IInv, World, OutputInv, OutputFits
  <2>2. cache[o] = None
    BY <2>1 DEF OutputFits
  <2>3. \A p \in Outputs : held'[p] = held[p] \/ cache[p] = None
    BY <1>3, <2>2 DEF Grant, IInv, World, TypeInv
  <2>4. LutSeen' = LutSeen
    BY <1>3, <2>3 DEF Grant, LutSeen
  <2> QED
    BY <1>3, <2>4, StayRefines DEF Grant
<1> QED
  BY <1>1, <1>2, <1>3, BreakRefines DEF Compositor, Answers

\* The worker applies a command of a caller who waits, or has given up.
LEMMA AppliedFacts ==
    ASSUME IInv, ApplyGamma
    PROVE  LET o == Head(queue).output  level == Head(queue).level IN
             /\ o \in Outputs /\ level \in Levels /\ cache[o] # None
             /\ LutSeen' = [LutSeen EXCEPT ![o] = IF @ = None THEN None ELSE level]
             /\ cache' = [cache EXCEPT ![o] = level]
             /\ UNCHANGED <<broken, failed>> /\ ~broken
<1> DEFINE o == Head(queue).output
           level == Head(queue).level
<1>1. o \in Outputs /\ level \in Levels /\ wpc = "loop"
  BY HeadFacts DEF ApplyGamma, NextIsSet, IInv
<1>2. /\ outs[o].state = "ready" /\ ~broken /\ UNCHANGED <<broken, failed>>
      /\ held' = [held EXCEPT ![o] = IF @ = None THEN None ELSE level]
      /\ cache' = Snapshot([outs EXCEPT ![o].level = level])
  BY DEF ApplyGamma, FlushInto
<1> HIDE DEF o, level
<1>3. cache = Snapshot(outs)
  BY <1>1 DEF IInv, World, PhaseInv, Listening
<1>4. /\ held \in [Outputs -> Levels \cup {None}]
      /\ outs \in [Outputs -> [number : Nat, level : Levels,
                             state : {"none", "new", "bound", "ready", "failed"}]]
  BY DEF IInv, World, TypeInv
<1>5. cache[o] # None
  BY <1>1, <1>2, <1>3, SnapshotFacts DEF IInv, World
<1>6. cache' = [cache EXCEPT ![o] = level]
  BY <1>1, <1>2, <1>3, <1>4 DEF Snapshot
<1>7. DOMAIN cache = Outputs
  BY DEF IInv, World, TypeInv
<1>8. LutSeen' = [LutSeen EXCEPT ![o] = IF @ = None THEN None ELSE level]
  <2>1. \A p \in Outputs : /\ cache'[p] = IF p = o THEN level ELSE cache[p]
                           /\ held'[p] = IF p = o THEN (IF held[o] = None THEN None ELSE level) ELSE held[p]
    BY <1>1, <1>2, <1>4, <1>6, <1>7
  <2>2. \A p \in Outputs : (IF cache'[p] = None THEN None ELSE held'[p])
            = IF p = o THEN (IF LutSeen[o] = None THEN None ELSE level) ELSE LutSeen[p]
    BY <1>1, <1>5, <2>1, ValueFacts DEF LutSeen
  <2> QED
    BY <1>1, <2>2 DEF LutSeen
<1> QED
  BY <1>1, <1>2, <1>5, <1>6, <1>8 DEF o, level

\* A command that is processed is an Apply or a CatchUp, as its caller waits or
\* has given up, and nothing when it fails and its caller waits.
LEMMA ApplyRefines ==
    ASSUME IInv, IInv', ApplyGamma \/ ApplyFails
    PROVE  [Control!GammaNext]_(Control!gammaVars)
<1> DEFINE c == Head(queue)
<1>1. /\ NextIsSet /\ wpc = "loop" /\ wpc' = "pump" /\ queue' = Tail(queue)
      /\ UNCHANGED <<broken, failed>>
  BY DEF ApplyGamma, ApplyFails, Answer, FlushInto, NextIsSet
<1>2. WorkerSeen' = WorkerSeen /\ FlagSeen' = FlagSeen /\ (~broken => WorkerSeen = "running")
  BY <1>1 DEF WorkerSeen, FlagSeen, Alive
<1>3. ApplyFails => LutSeen' = LutSeen /\ cache' = cache
  BY DEF ApplyFails, LutSeen
<1>4. /\ c = queue[1] /\ c.output \in Outputs /\ c.level \in Levels
      /\ Len(Tail(queue)) = Len(queue) - 1
      /\ \A i \in 1 .. Len(queue) - 1 : Tail(queue)[i] = queue[i + 1]
      /\ Tail(queue) = <<>> <=> Len(queue) = 1
      /\ c.awaited <=> hpc = "waiting" /\ Len(queue) = 1
      /\ ~c.awaited => IsLate(queue[1])
  BY <1>1, HeadFacts DEF IInv
<1>5. Len(queue) \in Nat /\ Len(queue) > 0 /\ queue # <<>>
  BY <1>1, ChannelFacts DEF IInv, NextIsSet
<1>6. CASE broken
  <2>1. ApplyFails /\ LateSeen = <<>> /\ LateSeen' = <<>>
    BY <1>1, <1>6 DEF ApplyGamma, LateSeen
  <2> QED
    BY <1>2, <1>3, <2>1, Unseen
<1>7. ASSUME ~broken, c.awaited PROVE [Control!GammaNext]_(Control!gammaVars)
  <2>1. Len(queue) = 1 /\ hpc = "waiting" /\ queue' = <<>>
    BY <1>1, <1>4, <1>7
  <2>2. LateSeen' = <<>>
    BY <2>1, NothingLateNext DEF IInv
  <2>3. LateSeen = <<>>
    <3>1. Len(LateSeen) = 0 /\ LateSeen \in Seq(Control!Command)
      BY <1>1, <1>5, <1>7, <2>1, LateFacts DEF IInv, Alive
    <3> QED
      BY <3>1, EmptySeq
  <2>4. CASE ApplyFails
    BY <1>2, <1>3, <2>2, <2>3, <2>4, Unseen
  <2>5. CASE ApplyGamma
    <3>1. Control!Apply(c.output, c.level)
      BY <1>2, <1>7, <2>2, <2>3, <2>5, AppliedFacts, SameValues
         DEF Control!Apply, Control!Responsive, Control!Written
    <3> QED
      BY <1>4, <3>1, SameValues DEF Control!GammaNext
  <2> QED
    BY <2>4, <2>5
<1>8. ASSUME ~broken, ~c.awaited PROVE [Control!GammaNext]_(Control!gammaVars)
  <2> DEFINE k == LateCount
  <2>1. /\ k \in Nat /\ LateSeen \in Seq(Control!Command) /\ Len(LateSeen) = k
        /\ k = IF hpc = "ready" THEN Len(queue) ELSE Len(queue) - 1
        /\ \A i \in 1 .. k :
              LateSeen[i] = [output |-> queue[i].output, level |-> queue[i].level]
    BY <1>1, <1>5, <1>8, LateFacts DEF IInv, Alive
  <2>2. hpc' = hpc
    BY <1>8 DEF ApplyGamma, ApplyFails, Answer
  <2>3. k > 0
    <3>1. Len(queue) = 1 => hpc = "ready"
      <4>1. hpc \in {"ready", "waiting", "joining", "closing"}
        BY <1>1, <1>5 DEF IInv, ChannelInv, NextIsSet
      <4> QED
        BY <1>4, <1>5, <1>8, <4>1 DEF IInv, ChannelInv, IsLate, Shutdown
    <3>2. k = IF hpc = "ready" THEN Len(queue) ELSE Len(queue) - 1
      BY <2>1
    <3> HIDE DEF k
    <3> QED
      BY <1>5, <3>1, <3>2
  <2>4. /\ LateCount' \in Nat /\ LateSeen' \in Seq(Control!Command) /\ Len(LateSeen') = LateCount'
        /\ LateCount' = IF queue' = <<>> \/ hpc' = "ready" THEN Len(queue') ELSE Len(queue') - 1
        /\ \A i \in 1 .. LateCount' :
              LateSeen'[i] = [output |-> queue'[i].output, level |-> queue'[i].level]
    BY <1>1, <1>8, LateFactsNext DEF IInv, Alive
  <2>5. LateCount' = k - 1
    BY <1>1, <1>4, <1>5, <2>1, <2>2, <2>3, <2>4, EmptySeq
  <2> HIDE DEF k
  <2>6. \A i \in 1 .. k - 1 : LateSeen'[i] = LateSeen[i + 1]
    <3> SUFFICES ASSUME NEW i \in 1 .. k - 1 PROVE LateSeen'[i] = LateSeen[i + 1]
      OBVIOUS
    <3>1. k \in Nat /\ k <= Len(queue) /\ Len(queue) \in Nat
      <4>1. k = Len(queue) \/ k = Len(queue) - 1
        BY <2>1
      <4> QED
        BY <1>5, <2>1, <4>1
    <3>2. i + 1 \in 1 .. k /\ i \in 1 .. Len(queue) - 1
      BY <3>1
    <3>3. queue'[i] = queue[i + 1]
      BY <1>1, <1>4, <3>2
    <3> QED
      BY <2>1, <2>4, <2>5, <3>2, <3>3
  <2>7. LateSeen # <<>>
    BY <2>1, <2>3, EmptySeq
  <2>8. /\ Tail(LateSeen) \in Seq(Control!Command) /\ Len(Tail(LateSeen)) = k - 1
        /\ \A i \in 1 .. k - 1 : Tail(LateSeen)[i] = LateSeen[i + 1]
    BY <2>1, <2>7, HeadTailProperties
  <2>9. LateSeen' = Tail(LateSeen)
    BY <2>4, <2>5, <2>6, <2>8, SeqEqual
  <2>10. Head(LateSeen) = [output |-> c.output, level |-> c.level]
    <3>1. 1 \in 1 .. k
      BY <2>1, <2>3
    <3>2. Head(LateSeen) = LateSeen[1]
      BY <2>1, <2>7
    <3> QED
      BY <1>4, <2>1, <3>1, <3>2
  <2>11. Control!CatchUp
    <3>1. CASE ApplyFails
      BY <1>2, <1>3, <2>7, <2>9, <3>1 DEF Control!CatchUp
    <3>2. CASE ApplyGamma
      BY <1>2, <2>7, <2>9, <2>10, <3>2, AppliedFacts, SameValues
         DEF Control!CatchUp, Control!Written
    <3> QED
      BY <3>1, <3>2
  <2> QED
    BY <2>11 DEF Control!GammaNext, Control!WorkerActs
<1> QED
  BY <1>6, <1>7, <1>8

-----------------------------------------------------------------------------
(* The thread's other steps, seen from the daemon                          *)

\* The thread begins to collect controls: nothing is seen of it yet.
LEMMA CollectRefines ==
    ASSUME IInv, Collect
    PROVE  [Control!GammaNext]_(Control!gammaVars)
<1>1. /\ wpc = "spawned" /\ wpc' = "starting"
      /\ UNCHANGED <<held, broken, cache, failed, queue>>
  BY DEF Collect, compositorVars, sharedVars
<1>2. LutSeen' = LutSeen /\ WorkerSeen' = WorkerSeen
  BY <1>1 DEF LutSeen, WorkerSeen, Alive
<1>3. FlagSeen' = FlagSeen /\ LateSeen' = LateSeen
  BY <1>1 DEF FlagSeen, LateSeen, Alive
<1> QED
  BY <1>1, <1>2, <1>3, Unseen

\* What the worker publishes has appeared since the last time, or is gone.
LEMMA PublishRefines ==
    ASSUME IInv, Publish
    PROVE  [Control!GammaNext]_(Control!gammaVars)
<1>1. /\ wpc = "pump" /\ wpc' = "loop" /\ ~broken
      /\ cache' = (IF dirty THEN Snapshot(outs) ELSE cache)
      /\ UNCHANGED <<held, broken, outs, failed, queue>>
  BY DEF Publish, compositorVars, connectionVars
<1>2. CASE ~dirty
  <2>1. cache' = cache /\ LutSeen' = LutSeen
    BY <1>1, <1>2 DEF LutSeen
  <2> QED
    BY <1>1, <2>1, StayRefines DEF Alive
<1>3. CASE dirty
  <2> DEFINE added == {o \in Outputs : cache[o] = None /\ cache'[o] # None}
             gone == {o \in Outputs : cache[o] # None /\ cache'[o] = None}
             kept == {o \in added : held[o] # None}
  <2>1. WorkerSeen = "running" /\ WorkerSeen' = WorkerSeen /\ FlagSeen' = FlagSeen
    BY <1>1 DEF WorkerSeen, FlagSeen, Alive
  <2>2. LateSeen' = LateSeen
    BY <1>1 DEF LateSeen, LateCount, Alive
  <2>3. /\ cache' = [o \in Outputs |-> cache'[o]]
        /\ \A o \in Outputs : cache'[o] = IF outs[o].state = "ready" THEN outs[o].level ELSE None
    BY <1>1, <1>3 DEF Snapshot
  <2>4. ASSUME NEW o \in Outputs
        PROVE  /\ outs[o].level \in Levels
               /\ outs[o].state = "bound" => cache[o] = None
               /\ outs[o].state = "ready" => outs[o].level = IF cache[o] = None THEN Unit ELSE cache[o]
               /\ cache[o] = None => held[o] \in {None, Unit}
               /\ held[o] # None => outs[o].state \in {"bound", "ready"}
    BY <1>1 DEF IInv, World, TypeInv, OutputInv, OutputFits
  <2>5. \A o \in added : cache[o] = None
    OBVIOUS
  <2>6. \A o \in gone : cache[o] # None /\ LutSeen[o] = None
    BY <2>3, <2>4, ValueFacts DEF LutSeen
  <2>7. ASSUME NEW o \in Outputs
        PROVE  cache'[o] = CASE o \in added -> Unit
                             [] o \in gone  -> None
                             [] OTHER       -> cache[o]
    BY <2>3, <2>4, ValueFacts
  <2>8. cache' = [o \in Outputs |-> CASE o \in added -> Unit
                                      [] o \in gone  -> None
                                      [] OTHER       -> cache[o]]
    BY <2>3, <2>7, Zenon
  <2>9. ASSUME NEW o \in Outputs
        PROVE  (IF cache'[o] = None THEN None ELSE held[o]) = IF o \in kept THEN Unit ELSE LutSeen[o]
    BY <2>4, <2>6 DEF LutSeen
  <2>10. LutSeen' = [o \in Outputs |-> IF o \in kept THEN Unit ELSE LutSeen[o]]
    BY <1>1, <2>9 DEF LutSeen
  <2>11. added \subseteq Outputs /\ gone \subseteq Outputs /\ kept \subseteq added
    OBVIOUS
  <2> HIDE DEF added, gone, kept
  <2>12. Control!Publish(added, gone)
    BY <2>1, <2>2, <2>5, <2>6, <2>8, <2>10, <2>11, SameValues DEF Control!Publish
  <2>13. Control!CompositorActs \/ Control!WorkerActs
    BY <2>11, <2>12 DEF Control!CompositorActs, Control!WorkerActs
  <2> QED
    BY <2>13 DEF Control!GammaNext
<1> QED
  BY <1>2, <1>3

\* Reading an event shows only when it is of a control that failed.
LEMMA DispatchRefines ==
    ASSUME IInv, Dispatch
    PROVE  [Control!GammaNext]_(Control!gammaVars)
<1>1. /\ wpc \in {"starting", "pump"} /\ wire # <<>>
      /\ UNCHANGED <<held, broken, wpc, cache, queue>>
  BY DEF Dispatch, compositorVars
<1>2. LutSeen' = LutSeen /\ WorkerSeen' = WorkerSeen /\ LateSeen' = LateSeen
  BY <1>1 DEF LutSeen, WorkerSeen, LateSeen, LateCount, Alive
<1>3. CASE failed' = failed \/ wpc = "starting"
  <2>1. FlagSeen' = FlagSeen
    BY <1>1, <1>3 DEF FlagSeen
  <2> QED
    BY <1>1, <1>2, <2>1, Unseen
<1>4. CASE failed' # failed /\ wpc = "pump"
  <2>1. PICK e \in Events : e = Head(wire) /\ e \in Range(wire)
    BY <1>1, ReadOne DEF IInv, World, TypeInv, WireInv
  <2>2. e.type = "failed" /\ Failed(e)
    BY <1>4, <2>1 DEF Dispatch, Added, Skipped, Removed, Ready
  <2>3. Known(e) /\ failed'
    BY <1>4, <2>2 DEF Failed, IInv, World, TypeInv
  <2>4. e.output \in Outputs /\ held[e.output] = None
    BY <2>1, <2>2, <2>3, EventFacts DEF IInv, World, WireInv, Fits
  <2>5. WorkerSeen = "running"
    BY <1>1, <1>4 DEF WorkerSeen, Alive, IInv, World, PhaseInv
  <2>6. FlagSeen' = TRUE /\ LutSeen[e.output] = None
    BY <1>1, <1>4, <2>3, <2>4 DEF FlagSeen, LutSeen
  <2>7. Control!ControlFailed(e.output)
    BY <1>1, <1>2, <2>5, <2>6, SameValues DEF Control!ControlFailed
  <2>8. Control!CompositorActs \/ Control!WorkerActs
    BY <2>4, <2>7 DEF Control!CompositorActs, Control!WorkerActs
  <2> QED
    BY <2>8 DEF Control!GammaNext
<1> QED
  BY <1>1, <1>3, <1>4

\* The thread's last step shows when it was the connection that broke.
LEMMA FinishRefines ==
    ASSUME IInv, IInv', PumpFails \/ TeardownEnds
    PROVE  [Control!GammaNext]_(Control!gammaVars)
<1>1. /\ wpc \in {"pump", "teardown"} /\ wpc' = "finished" /\ queue' = <<>>
      /\ UNCHANGED <<held, broken, failed>>
      /\ cache' = IF broken THEN NoControls ELSE cache
      /\ wpc = "pump" => broken
  BY DEF PumpFails, TeardownEnds, Finish, compositorVars, connectionVars
<1>2. FlagSeen' = FlagSeen /\ LateSeen' = <<>>
  BY <1>1 DEF FlagSeen, LateSeen, Alive
<1>3. LateSeen = <<>>
  BY <1>1, NothingLate DEF IInv, Listening
<1>4. CASE broken
  <2>1. WorkerSeen = "stopping" /\ WorkerSeen' = "finished"
    BY <1>1, <1>4 DEF WorkerSeen, Alive
  <2>2. \A o \in Outputs : held[o] = None
    BY <1>4 DEF IInv, World, PhaseInv, NoControls
  <2>3. LutSeen' = LutSeen
    BY <1>1, <2>2 DEF LutSeen
  <2>4. cache' = Control!NoControls
    BY <1>1, <1>4, SameValues DEF NoControls
  <2>5. Control!ThreadEnds
    BY <1>2, <1>3, <2>1, <2>3, <2>4 DEF Control!ThreadEnds
  <2> QED
    BY <2>5 DEF Control!GammaNext, Control!WorkerActs
<1>5. CASE ~broken
  <2>1. WorkerSeen' = WorkerSeen
    BY <1>1, <1>5 DEF WorkerSeen, Alive
  <2>2. cache' = cache /\ LutSeen' = LutSeen
    BY <1>1, <1>5 DEF LutSeen
  <2> QED
    BY <1>2, <1>3, <2>1, <2>2, Unseen
<1> QED
  BY <1>4, <1>5

\* Shutdown was not given up by anybody.
LEMMA ShutdownRefines ==
    ASSUME IInv, IInv', TakeShutdown
    PROVE  [Control!GammaNext]_(Control!gammaVars)
<1>1. /\ wpc = "loop" /\ queue = <<Shutdown>> /\ wpc' = "teardown" /\ queue' = <<>>
      /\ UNCHANGED <<held, broken, cache, failed>>
  BY DEF TakeShutdown, NextIsShutdown, compositorVars, connectionVars, sharedVars
<1>2. LutSeen' = LutSeen /\ WorkerSeen' = WorkerSeen /\ FlagSeen' = FlagSeen
  BY <1>1 DEF LutSeen, WorkerSeen, FlagSeen, Alive
<1>3. LateSeen' = <<>>
  BY <1>1, NothingLateNext DEF IInv
<1>4. LateSeen = <<>>
  <2>1. CASE broken
    BY <2>1, NothingLate DEF IInv
  <2>2. CASE ~broken
    <3>1. Len(queue) = 1 /\ queue[1] = Shutdown /\ queue # <<>>
      BY <1>1
    <3>2. hpc # "ready"
      BY <3>1 DEF IInv, ChannelInv, IsLate, Shutdown
    <3>3. Len(LateSeen) = 0 /\ LateSeen \in Seq(Control!Command)
      BY <1>1, <2>2, <3>1, <3>2, LateFacts DEF IInv, Alive
    <3> QED
      BY <3>3, EmptySeq
  <2> QED
    BY <2>1, <2>2
<1> QED
  BY <1>1, <1>2, <1>3, <1>4, Unseen

-----------------------------------------------------------------------------
(* The daemon's calls, seen from the daemon                                *)

\* A command somebody waits for, or Shutdown, is not a late one.
LEMMA SentRefines ==
    ASSUME IInv, IInv', NEW c, queue' = Append(queue, c),
           hpc = "ready", hpc' # "ready", Listening, UNCHANGED threadState
    PROVE  [Control!GammaNext]_(Control!gammaVars)
<1>1. UNCHANGED <<held, broken, wpc, cache, failed>>
  BY DEF threadState, compositorVars, connectionVars, threadVars, sharedVars
<1>2. UNCHANGED <<LutSeen, WorkerSeen, cache, FlagSeen>>
  BY <1>1 DEF LutSeen, WorkerSeen, FlagSeen, Alive
<1>3. CASE broken
  BY <1>1, <1>2, <1>3, Unseen DEF LateSeen
<1>4. CASE ~broken
  <2>1. /\ Len(queue) \in Nat /\ Len(queue') = Len(queue) + 1
        /\ \A i \in 1 .. Len(queue) : queue'[i] = queue[i]
    <3>1. queue \in Seq(Commands) /\ queue' \in Seq(Commands)
      BY DEF IInv, ChannelInv
    <3>2. /\ Len(queue) \in Nat /\ DOMAIN queue = 1 .. Len(queue)
      BY <3>1, LenProperties
    <3> QED
      BY <3>2
  <2>2. /\ LateSeen \in Seq(Control!Command) /\ Len(LateSeen) = Len(queue)
        /\ LateCount = Len(queue)
        /\ \A i \in 1 .. LateCount :
              LateSeen[i] = [output |-> queue[i].output, level |-> queue[i].level]
    BY <1>4, <2>1, LateFacts DEF IInv, Alive, Listening
  <2>3. queue' # <<>>
    BY <2>1, EmptySeq DEF IInv, ChannelInv
  <2>4. /\ LateSeen' \in Seq(Control!Command) /\ Len(LateSeen') = LateCount'
        /\ LateCount' = Len(queue') - 1
        /\ \A i \in 1 .. LateCount' :
              LateSeen'[i] = [output |-> queue'[i].output, level |-> queue'[i].level]
    BY <1>1, <1>4, <2>3, LateFactsNext DEF IInv, Alive, Listening
  <2>5. LateCount' = Len(queue)
    BY <2>1, <2>4
  <2>6. \A i \in 1 .. Len(queue) : LateSeen'[i] = LateSeen[i]
    BY <2>1, <2>2, <2>4, <2>5
  <2>7. LateSeen' = LateSeen
    BY <2>2, <2>4, <2>5, <2>6, SeqEqual
  <2> QED
    BY <1>2, <2>7, Unseen
<1> QED
  BY <1>3, <1>4

\* Whoever gives up leaves one more late command behind.
LEMMA GiveUpRefines ==
    ASSUME IInv, IInv', GiveUp
    PROVE  [Control!GammaNext]_(Control!gammaVars)
<1> DEFINE n == Len(queue)
           o == queue[n].output
           level == queue[n].level
           record == [output |-> o, level |-> level]
<1>1. /\ UNCHANGED <<held, broken, wpc, cache, failed>> /\ hpc = "waiting" /\ hpc' = "ready"
      /\ n <= MaxLate
  BY DEF GiveUp, threadState, compositorVars, connectionVars, threadVars, sharedVars
<1>2. UNCHANGED <<LutSeen, WorkerSeen, cache, FlagSeen>>
  BY <1>1 DEF LutSeen, WorkerSeen, FlagSeen, Alive
<1>3. /\ queue # <<>> /\ Len(queue') = n
      /\ \A i \in 1 .. n - 1 : queue'[i] = queue[i]
      /\ queue'[n].output = o /\ queue'[n].level = level
      /\ o \in Outputs /\ level \in Levels
  BY GiveUpChannel DEF IInv
<1>4. n \in Nat /\ n > 0 /\ Listening /\ MaxLate \in Nat
  BY <1>3, ChannelFacts DEF IInv
<1> HIDE DEF n, o, level
<1>5. CASE broken
  BY <1>1, <1>2, <1>5, Unseen DEF LateSeen
<1>6. CASE ~broken
  <2>1. /\ LateSeen \in Seq(Control!Command) /\ LateCount = n - 1 /\ Len(LateSeen) = n - 1
        /\ \A i \in 1 .. LateCount :
              LateSeen[i] = [output |-> queue[i].output, level |-> queue[i].level]
    BY <1>1, <1>3, <1>4, <1>6, LateFacts DEF IInv, Alive, Listening, n
  <2>2. /\ LateSeen' \in Seq(Control!Command) /\ LateCount' = n /\ Len(LateSeen') = n
        /\ \A i \in 1 .. LateCount' :
              LateSeen'[i] = [output |-> queue'[i].output, level |-> queue'[i].level]
    BY <1>1, <1>3, <1>4, <1>6, LateFactsNext DEF IInv, Alive, Listening
  <2>3. record \in Control!Command
    BY <1>3, SameValues DEF Control!Command
  <2>4. /\ Append(LateSeen, record) \in Seq(Control!Command)
        /\ Len(Append(LateSeen, record)) = n
        /\ \A i \in 1 .. n - 1 : Append(LateSeen, record)[i] = LateSeen[i]
        /\ Append(LateSeen, record)[n] = record
    BY <1>4, <2>1, <2>3, AppendProperties
  <2>5. \A i \in 1 .. n - 1 : LateSeen'[i] = LateSeen[i]
    BY <1>3, <1>4, <2>1, <2>2
  <2>6. LateSeen'[n] = record
    BY <1>3, <1>4, <2>2
  <2> HIDE DEF record
  <2>7. \A i \in 1 .. n : LateSeen'[i] = Append(LateSeen, record)[i]
    <3> SUFFICES ASSUME NEW i \in 1 .. n PROVE LateSeen'[i] = Append(LateSeen, record)[i]
      OBVIOUS
    <3>1. i \in 1 .. n - 1 \/ i = n
      BY <1>4
    <3> QED
      BY <2>4, <2>5, <2>6, <3>1
  <2>8. LateSeen' = Append(LateSeen, record)
    BY <2>2, <2>4, <2>7, SeqEqual
  <2>9. WorkerSeen = "running"
    BY <1>4, <1>6 DEF WorkerSeen, Alive, Listening
  <2>10. Len(LateSeen) < MaxLate
    BY <1>1, <1>4, <2>1
  <2>11. Control!TimeOut(o, level)
    BY <1>2, <2>8, <2>9, <2>10 DEF Control!TimeOut, record
  <2> QED
    BY <1>3, <2>11, SameValues DEF Control!GammaNext
<1> QED
  BY <1>5, <1>6

\* The daemon's calls, seen from the daemon.
LEMMA DaemonRefines ==
    ASSUME IInv, IInv', Daemon
    PROVE  [Control!GammaNext]_(Control!gammaVars)
<1>1. ASSUME NEW o \in Bindable, NEW level \in Levels, CallSet(o, level)
      PROVE  [Control!GammaNext]_(Control!gammaVars)
  BY <1>1, SentRefines DEF CallSet
<1>2. ASSUME NEW why \in {"joining", "closing"}, Join(why)
      PROVE  [Control!GammaNext]_(Control!gammaVars)
  <2>1. /\ hpc = "ready" /\ hpc' # "ready" /\ UNCHANGED threadState
        /\ queue' = IF wpc = "finished" THEN queue ELSE Append(queue, Shutdown)
    BY <1>2 DEF Join
  <2>2. CASE wpc = "finished"
    <3>1. UNCHANGED <<queue, broken, cache, failed, held, wpc>>
      BY <2>1, <2>2 DEF threadState, compositorVars, connectionVars, threadVars, sharedVars
    <3>2. LutSeen' = LutSeen
      BY <3>1 DEF LutSeen
    <3> QED
      BY <3>1, <3>2, StayRefines
  <2>3. CASE wpc # "finished"
    <3>1. Listening
      BY <2>1, <2>3 DEF IInv, ChannelInv, Listening
    <3> QED
      BY <2>1, <2>3, <3>1, SentRefines
  <2> QED
    BY <2>2, <2>3
<1> QED
  BY <1>1, <1>2, GiveUpRefines DEF Daemon, Reconnect, BeginExit

\* The thread's steps, seen from the daemon.
LEMMA ThreadRefines ==
    ASSUME IInv, IInv', Thread
    PROVE  [Control!GammaNext]_(Control!gammaVars)
<1>1. CASE NoCommand
  <2>1. UNCHANGED <<queue, broken, cache, failed, held>> /\ Alive /\ Alive'
    BY <1>1 DEF NoCommand, FlushInto, Alive
  <2>2. LutSeen' = LutSeen
    BY <2>1 DEF LutSeen
  <2> QED
    BY <2>1, <2>2, StayRefines
<1>2. ASSUME NEW o \in Outputs, Release(o) PROVE [Control!GammaNext]_(Control!gammaVars)
  BY <1>2, LossRefines DEF Release, sharedVars
<1> QED
  BY <1>1, <1>2, CollectRefines, StartedRefines, ApplyRefines, PublishRefines, FinishRefines,
     ShutdownRefines DEF Thread

\* A thread that is gone, or is spawned, is a closed backend.
LEMMA EndRefines ==
    ASSUME StartFails \/ Joined \/ Killed
    PROVE  [Control!GammaNext]_(Control!gammaVars)
<1>1. NoThread /\ wpc' \in {"none", "spawned"}
  BY DEF StartFails, Joined, Killed, Spawn, Exited
<1> QED
  BY <1>1, CloseRefines DEF Control!GammaNext

\* Every step is one GammaControl allows, or shows nothing.
LEMMA StepRefines == IInv /\ IInv' /\ [Next]_vars => [Control!GammaNext]_(Control!gammaVars)
<1> SUFFICES ASSUME IInv, IInv', [Next]_vars PROVE [Control!GammaNext]_(Control!gammaVars)
  OBVIOUS
<1>1. CASE UNCHANGED vars
  <2>1. UNCHANGED <<queue, broken, cache, failed, held, wpc>>
    BY <1>1 DEF vars, compositorVars, connectionVars, threadVars, sharedVars
  <2>2. LutSeen' = LutSeen
    BY <2>1 DEF LutSeen
  <2> QED
    BY <2>1, <2>2, StayRefines
<1> QED
  BY <1>1, CompositorRefines, ThreadRefines, DispatchRefines, DaemonRefines, EndRefines DEF Next

\* The initial states agree.
LEMMA InitRefines == Init => Control!GammaInit
<1> SUFFICES ASSUME Init PROVE Control!GammaInit
  OBVIOUS
<1>1. cache = [o \in Outputs |-> None] /\ LutSeen = [o \in Outputs |-> None]
  BY DEF Init, NoControls, LutSeen
<1>2. WorkerSeen = "none" /\ FlagSeen = FALSE /\ LateSeen = <<>>
  BY DEF Init, WorkerSeen, FlagSeen, LateSeen, Alive
<1> QED
  BY <1>1, <1>2, SameValues DEF Control!GammaInit

\* What the daemon sees of the backend, it sees of GammaControl: the thread,
\* its channel and its late events add nothing to it (gamma.rs as a whole).
THEOREM GammaRefines == Spec => ImplementsGammaControl
<1>1. Spec => []IInv
  BY InitInv, StepInv, PTL DEF Spec
<1>2. Init => Control!GammaInit
  BY InitRefines
<1>3. IInv /\ IInv' /\ [Next]_vars => [Control!GammaNext]_(Control!gammaVars)
  BY StepRefines
<1> QED
  BY <1>1, <1>2, <1>3, PTL DEF Spec, ImplementsGammaControl, Control!GammaSpec
=============================================================================
