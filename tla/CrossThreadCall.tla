-------------------------- MODULE CrossThreadCall --------------------------
(***************************************************************************)
(* What uv::async promises to the worker threads that share one: a         *)
(* synchronous call of a function that runs on the loop thread.  At most   *)
(* one call is in progress, the function runs exactly once for a call that *)
(* returns normally, and the caller receives what its own run produced.  A *)
(* caller that finds the line taken is told so at once and disturbs        *)
(* nobody.                                                                 *)
(***************************************************************************)
CONSTANTS Callers, NoCaller

VARIABLES
    phase,    \* "free", "calling", "executing", "executed" or "leaving"
    holder,   \* the caller whose call is in progress
    result,   \* what the run of the function produced for the holder
    outcome   \* what each caller's latest call ended with

callVars == <<phase, holder, result, outcome>>

Init ==
    /\ phase = "free"
    /\ holder = NoCaller
    /\ result = "none"
    /\ outcome = [c \in Callers |-> "none"]

\* The line was free: c's call begins.
Begin(c) ==
    /\ phase = "free"
    /\ phase' = "calling"
    /\ holder' = c
    /\ result' = "none"
    /\ outcome' = [outcome EXCEPT ![c] = "none"]

\* The line is taken by another caller.
Refuse(c) ==
    /\ phase # "free"
    /\ holder # c
    /\ outcome' = [outcome EXCEPT ![c] = "busy"]
    /\ UNCHANGED <<phase, holder, result>>

Execute ==
    /\ phase = "calling"
    /\ phase' = "executing"
    /\ UNCHANGED <<holder, result, outcome>>

Produce(r) ==
    /\ phase = "executing"
    /\ phase' = "executed"
    /\ result' = r
    /\ UNCHANGED <<holder, outcome>>

\* The holder receives exactly what the run produced.
Deliver ==
    /\ phase = "executed"
    /\ phase' = "leaving"
    /\ outcome' = [outcome EXCEPT ![holder] = result]
    /\ UNCHANGED <<holder, result>>

\* The wake-up of the loop failed: the function did not run and will not.
Abort ==
    /\ phase = "calling"
    /\ phase' = "leaving"
    /\ outcome' = [outcome EXCEPT ![holder] = "abort"]
    /\ UNCHANGED <<holder, result>>

Leave ==
    /\ phase = "leaving"
    /\ phase' = "free"
    /\ holder' = NoCaller
    /\ result' = "none"
    /\ UNCHANGED outcome

Next ==
    \/ \E c \in Callers : Begin(c) \/ Refuse(c)
    \/ Execute
    \/ \E r \in {"value", "exception"} : Produce(r)
    \/ Deliver
    \/ Abort
    \/ Leave

Spec == Init /\ [][Next]_callVars
=============================================================================
