------------------------------ MODULE UvAsync ------------------------------
(***************************************************************************)
(* uv::async (src/uv/async.hpp): a worker thread calls a function that     *)
(* runs on the loop thread and waits for its result.                       *)
(*                                                                         *)
(* The caller's argument tuple and promise live in its own stack frame     *)
(* (async_data); the shared uv_async_t only holds a raw pointer to the     *)
(* frame, which is never reset.  running (an atomic_bool) is what keeps    *)
(* two callers from sharing that pointer.  When the function's result is   *)
(* itself a uv::future (nested), the caller then waits for that inner      *)
(* future, which some consumer on the loop thread settles.                 *)
(***************************************************************************)
CONSTANTS
    Callers,    \* worker threads that hold (a copy of) the same async
    NoCaller    \* the null pointer in handle->data

ASSUME CallersAssumption == NoCaller \notin Callers

VARIABLES
    nested,     \* the function returns a uv::future: its type, never changed
    pc,         \* where each caller is in operator()
    running,    \* async_handle::running
    data,       \* handle->data: whose frame it points to
    pending,    \* libuv's wake-up flag of the uv_async_t (external)
    executing,  \* whose function the loop thread is running in invoke_async
    promise,    \* async_data::promise of each frame ("none": no frame)
    inner,      \* the uv::future the function returned ("none": none yet)
    outcome,    \* how each caller's latest call ended
    owned,      \* the async object itself still holds the shared handle
    handle      \* the uv_async_t: "none", "open", "closing" or "freed"

\* What the steps change.
state == <<pc, running, data, pending, executing, promise, inner, outcome,
           owned, handle>>

vars == <<nested, state>>

Results == {"value", "exception"}

Control == {"idle", "entered", "armed", "waiting", "nested", "unwinding",
            "dropping"}

(***************************************************************************)
(* The frame of operator() between lines 25 and 37: async_data is alive.   *)
(***************************************************************************)
HasFrame(c) == pc[c] \in {"armed", "waiting", "nested", "unwinding"}

\* Between running.exchange(true) = false and running = false.
Inside(c) == pc[c] \in {"entered", "armed", "waiting", "nested", "unwinding"}

\* running_scope (and async_data::owner) of c hold the shared handle.
HoldsRef(c) == pc[c] # "idle"

Init ==
    /\ nested \in BOOLEAN
    /\ pc = [c \in Callers |-> "idle"]
    /\ running = FALSE
    /\ data = NoCaller
    /\ pending = FALSE
    /\ executing = NoCaller
    /\ promise = [c \in Callers |-> "none"]
    /\ inner = [c \in Callers |-> "none"]
    /\ outcome = [c \in Callers |-> "none"]
    /\ owned = FALSE
    /\ handle = "none"

-----------------------------------------------------------------------------
(* The owner: construction and release of the async object. *)

\* async_handle's constructor: uv_async_init succeeds.
Create ==
    /\ handle = "none"
    /\ handle' = "open"
    /\ owned' = TRUE
    /\ UNCHANGED <<pc, running, data, pending, executing, promise, inner, outcome>>

\* uv_async_init fails: the uv_async_t is deleted and the error rethrown.
CreateFails ==
    /\ handle = "none"
    /\ handle' = "freed"
    /\ UNCHANGED <<pc, running, data, pending, executing, promise, inner,
                   outcome, owned>>

\* Fault: the handle is a plain member, closed by whoever is destroyed first.
CloseAlways(others) == handle' = "closing"

\* Fault: the reference of the last caller is leaked.
CloseNever(others) == handle' = handle

\* A shared_handle goes away: uv_close when no other is left.
CloseIfLast(others) == handle' = IF others THEN handle ELSE "closing"

\* The async object is destroyed.  The owner may not do so while a caller
\* still reads _handle out of it (lines 22 to 30).
Release ==
    /\ owned
    /\ \A c \in Callers : pc[c] \notin {"entered", "armed"}
    /\ owned' = FALSE
    /\ CloseIfLast(\E c \in Callers : HoldsRef(c))
    /\ UNCHANGED <<pc, running, data, pending, executing, promise, inner, outcome>>

-----------------------------------------------------------------------------
(* A worker thread inside operator(). *)

\* Fault: running is set without looking at what exchange answered.
EnterUnchecked(c) ==
    /\ owned
    /\ pc[c] = "idle"
    /\ running' = TRUE
    /\ pc' = [pc EXCEPT ![c] = "entered"]
    /\ outcome' = [outcome EXCEPT ![c] = "none"]
    /\ UNCHANGED <<data, pending, executing, promise, inner, owned, handle>>

\* running_scope: exchange(true) answered false, the line is ours.
Enter(c) ==
    /\ owned
    /\ pc[c] = "idle"
    /\ ~running
    /\ running' = TRUE
    /\ pc' = [pc EXCEPT ![c] = "entered"]
    /\ outcome' = [outcome EXCEPT ![c] = "none"]
    /\ UNCHANGED <<data, pending, executing, promise, inner, owned, handle>>

\* Fault: the refused scope is destroyed like a complete one.
EnterBusyResets(c) ==
    /\ owned
    /\ pc[c] = "idle"
    /\ running
    /\ running' = FALSE
    /\ pc' = [pc EXCEPT ![c] = "dropping"]
    /\ outcome' = [outcome EXCEPT ![c] = "busy"]
    /\ UNCHANGED <<data, pending, executing, promise, inner, owned, handle>>

\* running_scope: exchange(true) answered true; the constructor throws, so
\* only its copy of the handle is destroyed and running is left alone.
EnterBusy(c) ==
    /\ owned
    /\ pc[c] = "idle"
    /\ running
    /\ pc' = [pc EXCEPT ![c] = "dropping"]
    /\ outcome' = [outcome EXCEPT ![c] = "busy"]
    /\ UNCHANGED <<running, data, pending, executing, promise, inner, owned, handle>>

\* async_data on the stack, its address and the callback in the handle.
Arm(c) ==
    /\ pc[c] = "entered"
    /\ pc' = [pc EXCEPT ![c] = "armed"]
    /\ promise' = [promise EXCEPT ![c] = "unset"]
    /\ data' = c
    /\ UNCHANGED <<running, pending, executing, inner, outcome, owned, handle>>

\* uv_async_send: wake-ups that are not yet served coalesce into one.
Send(c) ==
    /\ pc[c] = "armed"
    /\ pc' = [pc EXCEPT ![c] = "waiting"]
    /\ pending' = TRUE
    /\ UNCHANGED <<running, data, executing, promise, inner, outcome, owned, handle>>

\* Fault: the error path leaves without unwinding.
SendFailsLeaks(c) ==
    /\ pc[c] = "armed"
    /\ pc' = [pc EXCEPT ![c] = "dropping"]
    /\ outcome' = [outcome EXCEPT ![c] = "abort"]
    /\ UNCHANGED <<running, data, pending, executing, promise, inner, owned, handle>>

\* check_result throws out of operator().
SendFails(c) ==
    /\ pc[c] = "armed"
    /\ pc' = [pc EXCEPT ![c] = "unwinding"]
    /\ outcome' = [outcome EXCEPT ![c] = "abort"]
    /\ UNCHANGED <<running, data, pending, executing, promise, inner, owned, handle>>

\* Fault: the inner future is dropped, not waited for.
ReturnEarly(c) ==
    /\ pc[c] = "waiting"
    /\ promise[c] \in Results
    /\ pc' = [pc EXCEPT ![c] = "unwinding"]
    /\ outcome' = [outcome EXCEPT ![c] = promise[c]]
    /\ UNCHANGED <<running, data, pending, executing, promise, inner, owned, handle>>

\* future.get() returns or rethrows; a uv::future is then waited for.
Return(c) ==
    /\ pc[c] = "waiting"
    /\ promise[c] \in Results
    /\ IF nested /\ promise[c] = "value"
         THEN /\ pc' = [pc EXCEPT ![c] = "nested"]
              /\ UNCHANGED outcome
         ELSE /\ pc' = [pc EXCEPT ![c] = "unwinding"]
              /\ outcome' = [outcome EXCEPT ![c] = promise[c]]
    /\ UNCHANGED <<running, data, pending, executing, promise, inner, owned, handle>>

\* The second get() of future.get().get().
ReturnNested(c) ==
    /\ pc[c] = "nested"
    /\ inner[c] \in Results
    /\ pc' = [pc EXCEPT ![c] = "unwinding"]
    /\ outcome' = [outcome EXCEPT ![c] = inner[c]]
    /\ UNCHANGED <<running, data, pending, executing, promise, inner, owned, handle>>

\* Fault: the line is given back only when the call failed.
UnwindKeepsLine(c) ==
    /\ pc[c] = "unwinding"
    /\ pc' = [pc EXCEPT ![c] = "dropping"]
    /\ promise' = [promise EXCEPT ![c] = "none"]
    /\ inner' = [inner EXCEPT ![c] = "none"]
    /\ running' = (outcome[c] = "value")
    /\ UNCHANGED <<data, pending, executing, outcome, owned, handle>>

\* The frame is destroyed, then ~running_scope gives the line back.
\* handle->data keeps pointing at the dead frame.
Unwind(c) ==
    /\ pc[c] = "unwinding"
    /\ pc' = [pc EXCEPT ![c] = "dropping"]
    /\ promise' = [promise EXCEPT ![c] = "none"]
    /\ inner' = [inner EXCEPT ![c] = "none"]
    /\ running' = FALSE
    /\ UNCHANGED <<data, pending, executing, outcome, owned, handle>>

\* running_scope's shared_handle member is destroyed, on this worker thread.
DropRef(c) ==
    /\ pc[c] = "dropping"
    /\ pc' = [pc EXCEPT ![c] = "idle"]
    /\ CloseIfLast(owned \/ \E d \in Callers \ {c} : HoldsRef(d))
    /\ UNCHANGED <<running, data, pending, executing, promise, inner, outcome, owned>>

-----------------------------------------------------------------------------
(* The loop thread. *)

\* libuv clears the flag and calls async_cb, which reads handle->data.
InvokeAsync ==
    /\ pending
    /\ executing = NoCaller
    /\ handle = "open"
    /\ pending' = FALSE
    /\ executing' = data
    /\ UNCHANGED <<pc, running, data, promise, inner, outcome, owned, handle>>

\* The callback of data->owner returned; a returned uv::future may be ready
\* already (i is its state).
CallbackReturns(i) ==
    /\ executing # NoCaller
    /\ promise' = [promise EXCEPT ![executing] = "value"]
    /\ inner' = [inner EXCEPT ![executing] = i]
    /\ executing' = NoCaller
    /\ UNCHANGED <<pc, running, data, pending, outcome, owned, handle>>

\* Fault: invoke_async swallows the exception.
CallbackThrowsUncaught ==
    /\ executing # NoCaller
    /\ executing' = NoCaller
    /\ UNCHANGED <<pc, running, data, pending, promise, inner, outcome, owned, handle>>

\* The callback threw: catch (...) hands the exception to the promise.
CallbackThrows ==
    /\ executing # NoCaller
    /\ promise' = [promise EXCEPT ![executing] = "exception"]
    /\ executing' = NoCaller
    /\ UNCHANGED <<pc, running, data, pending, inner, outcome, owned, handle>>

InnerStates == IF nested THEN {"unset"} \cup Results ELSE {"none"}

\* The consumer settles the future the function returned (iterable::next).
Settle(c, r) ==
    /\ inner[c] = "unset"
    /\ inner' = [inner EXCEPT ![c] = r]
    /\ UNCHANGED <<pc, running, data, pending, executing, promise, outcome,
                   owned, handle>>

\* libuv runs delete_async_handle, the close callback.
DeleteHandle ==
    /\ handle = "closing"
    /\ handle' = "freed"
    /\ UNCHANGED <<pc, running, data, pending, executing, promise, inner,
                   outcome, owned>>

\* Nothing is left to do once the handle is gone.
Terminated ==
    /\ handle = "freed"
    /\ UNCHANGED state

-----------------------------------------------------------------------------
OperatorCall(c) ==
    \/ Arm(c) \/ Send(c) \/ SendFails(c)
    \/ Return(c) \/ ReturnNested(c)
    \/ Unwind(c) \/ DropRef(c)

Loop ==
    \/ InvokeAsync
    \/ \E i \in InnerStates : CallbackReturns(i)
    \/ CallbackThrows
    \/ DeleteHandle

Consume(c) == \E r \in Results : Settle(c, r)

Step ==
    \/ Create \/ CreateFails \/ Release
    \/ \E c \in Callers : Enter(c) \/ EnterBusy(c) \/ OperatorCall(c) \/ Consume(c)
    \/ Loop
    \/ Terminated

Next == Step /\ UNCHANGED nested

Spec == Init /\ [][Next]_vars

\* Threads run, and so does the loop; the consumer keeps consuming.  Nobody
\* has to call, create or release anything.
Fairness ==
    /\ \A c \in Callers : WF_state(OperatorCall(c)) /\ WF_state(Consume(c))
    /\ WF_state(Loop)

FairSpec == Spec /\ Fairness

-----------------------------------------------------------------------------
(* Properties. *)

\* Types, and that a promise exists exactly as long as its frame does and an
\* inner future only after the function returned it.
TypeOK ==
    /\ nested \in BOOLEAN
    /\ pc \in [Callers -> Control]
    /\ running \in BOOLEAN
    /\ data \in Callers \cup {NoCaller}
    /\ pending \in BOOLEAN
    /\ executing \in Callers \cup {NoCaller}
    /\ promise \in [Callers -> {"none", "unset"} \cup Results]
    /\ inner \in [Callers -> {"none", "unset"} \cup Results]
    /\ outcome \in [Callers -> {"none", "busy", "abort"} \cup Results]
    /\ owned \in BOOLEAN
    /\ handle \in {"none", "open", "closing", "freed"}
    /\ \A c \in Callers : /\ promise[c] # "none" <=> HasFrame(c)
                          /\ inner[c] # "none" => promise[c] = "value"
                          /\ pc[c] = "nested" => promise[c] = "value"

\* The raw pointer in handle->data (async.hpp:28, never reset) is only ever
\* followed while the frame it points to is alive, waits, and still has an
\* unsatisfied promise: no wake-up outlives its call, none is for an older one.
CallbackSound ==
    /\ pending => /\ data \in Callers
                  /\ pc[data] = "waiting" /\ promise[data] = "unset"
                  /\ executing = NoCaller
    /\ executing # NoCaller =>
                  /\ data = executing
                  /\ pc[executing] = "waiting" /\ promise[executing] = "unset"

\* Between storing the pointer and sending, nobody else stores one.
ArmedOK == \A c \in Callers : pc[c] = "armed" => data = c /\ promise[c] = "unset"

\* Every waiting caller is going to be served: it has its result, or its
\* wake-up is pending, or the loop thread is running its function.
NoLostWakeup ==
    \A c \in Callers :
        (pc[c] = "waiting" /\ promise[c] = "unset") =>
            \/ pending /\ data = c
            \/ executing = c

\* running is true exactly while one caller is inside, and then only one is
\* (running_scope, async.hpp:80-95).
OneCallAtATime ==
    /\ running <=> \E c \in Callers : Inside(c)
    /\ \A c, d \in Callers : Inside(c) /\ Inside(d) => c = d

\* The uv_async_t is open as long as the async object or any call holds it,
\* so no thread sends on, and the loop never delivers to, a closed handle.
HandleOutlivesCalls ==
    owned \/ pending \/ executing # NoCaller \/ (\E c \in Callers : HoldsRef(c))
        => handle = "open"

\* Only a callback that returns a uv::future leaves an inner one, and a caller
\* whose inner future is not settled does not leave.
NestedOK ==
    \A c \in Callers :
        /\ inner[c] # "none" \/ pc[c] = "nested" => nested
        /\ inner[c] = "unset" => pc[c] \in {"waiting", "nested"}

\* The inductive strengthening of the invariants above.
IInv ==
    /\ TypeOK
    /\ OneCallAtATime
    /\ ArmedOK
    /\ NestedOK
    /\ CallbackSound
    /\ NoLostWakeup
    /\ HandleOutlivesCalls

\* A worker thread that calls operator() comes out of it again, whether the
\* callback returned, threw, or the call was refused (async.hpp:18-37).
CallReturns == \A c \in Callers : pc[c] # "idle" ~> pc[c] = "idle"

-----------------------------------------------------------------------------
(* uv::async implements CrossThreadCall. *)

holder ==
    IF \E c \in Callers : Inside(c) THEN CHOOSE c \in Callers : Inside(c)
                                    ELSE NoCaller

\* What the holder's call has produced so far.
produced(c) ==
    IF promise[c] = "exception" THEN "exception"
    ELSE IF promise[c] = "value"
         THEN IF nested THEN (IF inner[c] \in Results THEN inner[c] ELSE "none")
                        ELSE "value"
         ELSE "none"

phase ==
    IF holder = NoCaller THEN "free"
    ELSE IF pc[holder] = "unwinding" THEN "leaving"
    ELSE IF produced(holder) # "none" THEN "executed"
    ELSE IF executing = holder \/ promise[holder] = "value" THEN "executing"
    ELSE "calling"

result == IF holder = NoCaller THEN "none" ELSE produced(holder)

Call == INSTANCE CrossThreadCall

\* Calls never overlap, a callback runs exactly once for a call that returns,
\* and the caller gets what its own callback produced (async.hpp:18-37, 112-127).
ImplementsCall == Call!Spec
=============================================================================
