---------------------------- MODULE SettingsStore ----------------------------
(***************************************************************************)
(* What the daemon promises of the settings it saves (wlight-daemon,       *)
(* config.rs and the set methods of state.rs): a request to change a       *)
(* profile is recorded in memory as a whole, and memory replaces what is   *)
(* saved as a whole, before the request is answered with success.  A       *)
(* request that fails, and a daemon that stops at any moment, leaves what  *)
(* is saved as it was.                                                     *)
(***************************************************************************)

CONSTANTS
    Profiles,       \* the ids settings are saved under
    Fields,         \* what a profile has a setting for
    Plans,          \* what a request may ask of a profile
    Blank,          \* the settings of an id nothing is saved under
    Unset           \* a field without a setting

VARIABLES
    running,        \* a daemon is running
    memory,         \* its settings, by profile
    saved,          \* what the next start reads: one element, or none if it cannot
    request,        \* the request in progress, if any
    reply           \* the answer to the last request

storeVars == <<running, memory, saved, request, reply>>

NoSettings == [p \in Profiles |-> Blank]

Updated(settings, plan) ==
    [f \in Fields |-> IF plan[f] # Unset THEN plan[f] ELSE settings[f]]

StoreInit ==
    /\ running = FALSE
    /\ memory = NoSettings
    /\ saved = {NoSettings}
    /\ request = {}
    /\ reply = "none"

Load ==
    /\ ~running
    /\ running' = TRUE
    /\ memory' \in saved
    /\ reply' = "none"
    /\ UNCHANGED <<saved, request>>

Ask(p, plan) ==
    /\ running /\ request = {}
    /\ request' = {[profile |-> p, plan |-> plan, stage |-> "asked"]}
    /\ reply' = "none"
    /\ UNCHANGED <<running, memory, saved>>

\* Something else, or a request refused at once.
Pass ==
    /\ running /\ request = {}
    /\ reply' \in {"none", "error"}
    /\ UNCHANGED <<running, memory, saved, request>>

\* The hardware has the new values: only now are they worth keeping.
Record ==
    \E r \in request :
        /\ r.stage = "asked"
        /\ request' = {[r EXCEPT !.stage = "recorded"]}
        /\ memory' = [memory EXCEPT ![r.profile] = Updated(@, r.plan)]
        /\ UNCHANGED <<running, saved, reply>>

\* All of memory is saved, with what earlier saves that failed left in it.  The
\* answer may be an error: the display may have gone in the meantime.
Save ==
    /\ \E r \in request : r.stage = "recorded"
    /\ saved' = {memory}
    /\ request' = {}
    /\ reply' \in {"ok", "error"}
    /\ UNCHANGED <<running, memory>>

Fail ==
    /\ request # {}
    /\ request' = {}
    /\ reply' = "error"
    /\ UNCHANGED <<running, memory, saved>>

Stop ==
    /\ running
    /\ running' = FALSE
    /\ memory' = NoSettings
    /\ request' = {}
    /\ reply' = "none"
    /\ UNCHANGED saved

StoreNext ==
    \/ Load \/ Stop
    \/ \E p \in Profiles, plan \in Plans : Ask(p, plan)
    \/ Pass \/ Record \/ Save \/ Fail

StoreSpec == StoreInit /\ [][StoreNext]_storeVars
=============================================================================
