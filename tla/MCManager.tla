------------------------------ MODULE MCManager ------------------------------
(***************************************************************************)
(* Manager on small instances.  The number of requests, failures and moves *)
(* of the environment is bounded by a budget; what the daemon and the      *)
(* gamma worker do by themselves is not.  A shutdown is a request while    *)
(* there are any left, and always possible.                                *)
(***************************************************************************)
EXTENDS ManagerInvariant

CONSTANTS MaxRequests, MaxFailures, MaxMoves, VcpTop, Monitors

\* Every DDC monitor of an instance has the same VCP maximum.
MCVcpMax == [o \in Monitors |-> VcpTop]

VARIABLE left
mcvars == <<vars, left>>

Spend(what) == left[what] > 0 /\ left' = [left EXCEPT ![what] = @ - 1]

\* A gamma write that cannot succeed costs nothing.
GammaGone == worker # "running" \/ cache[op.id.output] = None

\* A control granted to a new worker and taken back before it can notice
\* costs a move.
FreeWork == Work /\ LostAtOnce = {}

MCInit ==
    /\ Init
    /\ left = [requests |-> MaxRequests, failures |-> MaxFailures, moves |-> MaxMoves]

MCNext ==
    \/ Request /\ Spend("requests")
    \/ Stop /\ IF left.requests = 0 THEN UNCHANGED left ELSE Spend("requests")
    \/ WriteFails /\ IF GammaGone THEN UNCHANGED left ELSE Spend("failures")
    \/ (SaveFails \/ Crash) /\ Spend("failures")
    \/ (Environment \/ (Work /\ LostAtOnce # {})) /\ Spend("moves")
    \/ (FreeWork \/ WorkerMoves \/ Start \/ Exit) /\ UNCHANGED left

MCSpec == MCInit /\ [][MCNext]_mcvars

\* FairSpec with the budgets: the daemon's own steps need none.
MCFairSpec ==
    /\ MCSpec
    /\ WF_mcvars((FreeWork \/ (WriteFails /\ GammaGone)) /\ UNCHANGED left)
    /\ WF_mcvars(WorkerMoves /\ UNCHANGED left)

-----------------------------------------------------------------------------
(* The laws of the policy on a finer scale than the states allow:          *)
(* percentages of 6 steps, gamma of 7, monitors coarser and finer than     *)
(* that.  They have no state; so that TLC evaluates them a few times only, *)
(* they are stated of the states before the first request.                 *)

Fine == INSTANCE PolicyLaws WITH
    Full <- 6, Unit <- 7, Maxima <- {0, 4, 6, 7, 10, 13}, Sizes <- {2, 3, 6}, Peak <- 31

Unasked == pc = "down" /\ left.requests = MaxRequests

\* The split of a target between DDC and gamma (lib.rs:83-98).
PlanMeetsTarget == Unasked => Fine!PlanMeetsTarget

\* Percentages and raw VCP values (ddc.rs:41-50, 150).
VcpRoundTrip == Unasked => Fine!VcpRoundTrip

\* The lookup table of one channel (lib.rs:119-139).
GammaTableShape == Unasked => Fine!GammaTableShape
=============================================================================
