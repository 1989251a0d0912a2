---------------------------- MODULE DisplayService ----------------------------
(***************************************************************************)
(* What the D-Bus interface io.github.wlight.Manager1 promises its callers *)
(* (wlight-dbus): each call takes effect at one moment between its sending *)
(* and its answer, and the answer is the truth of that moment.  The        *)
(* displays are known by the changes made to them, in order.  A call that  *)
(* loses its answer because the daemon goes away may have taken effect,    *)
(* may still do so, or never will.                                         *)
(***************************************************************************)
EXTENDS Sequences, Naturals

CONSTANTS
    Calls,
    Kind            \* [Calls -> {"list", "change", "invalid"}]

VARIABLES
    made,           \* the changes made, in order
    status,         \* [Calls -> idle, open, served, closed, lost]
    answer          \* [Calls -> Answers]

serviceVars == <<made, status, answer>>

Answers  == [kind : {"none", "error", "displays"}, displays : Seq(Calls)]
NoAnswer == [kind |-> "none", displays |-> <<>>]
Error    == [kind |-> "error", displays |-> <<>>]
Showing(list) == [kind |-> "displays", displays |-> list]

Elements(list) == {list[i] : i \in 1 .. Len(list)}

ServiceInit ==
    /\ made = <<>>
    /\ status = [c \in Calls |-> "idle"]
    /\ answer = [c \in Calls |-> NoAnswer]

Move(c, from, to) ==
    /\ status[c] = from
    /\ status' = [status EXCEPT ![c] = to]

Open(c) == Move(c, "idle", "open") /\ UNCHANGED <<made, answer>>

\* A change is made, in full or as far as an error let it.
Change(c) ==
    /\ Kind[c] = "change" /\ c \notin Elements(made)
    /\ Move(c, "open", "served")
    /\ made' = Append(made, c)
    /\ \E a \in {Showing(made'), Error} : answer' = [answer EXCEPT ![c] = a]

\* None is: the arguments are wrong or the daemon cannot go on.
Refuse(c) ==
    /\ Kind[c] # "list"
    /\ Move(c, "open", "served")
    /\ answer' = [answer EXCEPT ![c] = Error]
    /\ UNCHANGED made

ListDisplays(c) ==
    /\ Kind[c] = "list"
    /\ Move(c, "open", "served")
    /\ answer' = [answer EXCEPT ![c] = Showing(made)]
    /\ UNCHANGED made

Close(c) == Move(c, "served", "closed") /\ UNCHANGED <<made, answer>>

\* The daemon leaves the bus, and all calls in it lose their answers.
Lose(S) ==
    /\ \A c \in S : status[c] \in {"open", "served"}
    /\ status' = [c \in Calls |-> IF c \in S THEN "lost" ELSE status[c]]
    /\ answer' = [c \in Calls |-> IF c \in S THEN NoAnswer ELSE answer[c]]
    /\ UNCHANGED made

LateChange(c) ==
    /\ Kind[c] = "change" /\ c \notin Elements(made)
    /\ status[c] = "lost"
    /\ made' = Append(made, c)
    /\ UNCHANGED <<status, answer>>

ServiceNext ==
    \/ \E c \in Calls : \/ Open(c) \/ Change(c) \/ Refuse(c) \/ ListDisplays(c)
                        \/ Close(c) \/ LateChange(c)
    \/ \E S \in SUBSET Calls : Lose(S)

ServiceSpec == ServiceInit /\ [][ServiceNext]_serviceVars
=============================================================================
