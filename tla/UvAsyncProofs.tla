--------------------------- MODULE UvAsyncProofs ---------------------------
(***************************************************************************)
(* Proofs about UvAsync, for any set of callers and for both kinds of      *)
(* callback.                                                               *)
(***************************************************************************)
EXTENDS UvAsync, TLAPS

USE CallersAssumption

\* Nothing is held, stored or pending when the program starts.
LEMMA InitIInv == Init => IInv
BY DEF Init, IInv, TypeOK, Control, Results, HasFrame, OneCallAtATime, Inside,
       ArmedOK, NestedOK, CallbackSound, NoLostWakeup, HandleOutlivesCalls, HoldsRef

\* Every step of operator(), of invoke_async and of the handle's owner keeps
\* the state well formed (async.hpp:18-127).
LEMMA NextTypeOK == IInv /\ [Next]_vars => TypeOK'
<1> SUFFICES ASSUME IInv, [Next]_vars PROVE TypeOK'
  OBVIOUS
<1>0. nested' = nested
  BY DEF Next, vars
<1> USE <1>0
<1> USE DEF TypeOK, Control, Results, HasFrame
<1>1. CASE Create
  BY <1>1 DEF Create, IInv
<1>2. CASE CreateFails
  BY <1>2 DEF CreateFails, IInv
<1>3. CASE Release
  BY <1>3 DEF Release, CloseIfLast, IInv
<1>4. ASSUME NEW c \in Callers, Enter(c) PROVE TypeOK'
  BY <1>4 DEF Enter, IInv
<1>5. ASSUME NEW c \in Callers, EnterBusy(c) PROVE TypeOK'
  BY <1>5 DEF EnterBusy, IInv
<1>6. ASSUME NEW c \in Callers, OperatorCall(c) PROVE TypeOK'
  <2>1. CASE Arm(c)
    BY <2>1 DEF Arm, IInv
  <2>2. CASE Send(c)
    BY <2>2 DEF Send, IInv
  <2>3. CASE SendFails(c)
    BY <2>3 DEF SendFails, IInv
  <2>4. CASE Return(c)
    <3>1. CASE nested /\ promise[c] = "value"
      BY <2>4, <3>1 DEF Return, IInv
    <3>2. CASE ~(nested /\ promise[c] = "value")
      BY <2>4, <3>2 DEF Return, IInv
    <3> QED BY <3>1, <3>2
  <2>5. CASE ReturnNested(c)
    BY <2>5 DEF ReturnNested, IInv
  <2>6. CASE Unwind(c)
    BY <2>6 DEF Unwind, IInv
  <2>7. CASE DropRef(c)
    BY <2>7 DEF DropRef, CloseIfLast, IInv
  <2> QED BY <1>6, <2>1, <2>2, <2>3, <2>4, <2>5, <2>6, <2>7 DEF OperatorCall
<1>7. ASSUME NEW c \in Callers, Consume(c) PROVE TypeOK'
  BY <1>7 DEF Consume, Settle, IInv
<1>8. CASE Loop
  <2>1. CASE InvokeAsync
    BY <2>1 DEF InvokeAsync, IInv
  <2>2. ASSUME NEW i \in InnerStates, CallbackReturns(i) PROVE TypeOK'
    BY <2>2 DEF CallbackReturns, InnerStates, IInv, CallbackSound
  <2>3. CASE CallbackThrows
    BY <2>3 DEF CallbackThrows, IInv, CallbackSound
  <2>4. CASE DeleteHandle
    BY <2>4 DEF DeleteHandle, IInv
  <2> QED BY <1>8, <2>1, <2>2, <2>3, <2>4 DEF Loop
<1>9. CASE UNCHANGED vars
  BY <1>9 DEF vars, state, IInv
<1>10. CASE Terminated
  BY <1>10 DEF Terminated, state, IInv
<1> QED
  BY <1>1, <1>2, <1>3, <1>4, <1>5, <1>6, <1>7, <1>8, <1>9, <1>10 DEF Next, Step

\* running_scope: the exchange admits a caller only when nobody is inside.
LEMMA NextOneCall == IInv /\ [Next]_vars => OneCallAtATime'
<1> SUFFICES ASSUME IInv, [Next]_vars PROVE OneCallAtATime'
  OBVIOUS
<1>0. nested' = nested
  BY DEF Next, vars
<1> USE <1>0
<1> USE DEF OneCallAtATime, Inside, TypeOK
<1>1. CASE Create \/ CreateFails \/ Release \/ Loop \/ Terminated \/ UNCHANGED vars
  <2> pc' = pc /\ running' = running
    BY <1>1 DEF Create, CreateFails, Release, Loop, InvokeAsync, CallbackReturns,
                CallbackThrows, DeleteHandle, Terminated, vars, state
  <2> QED BY DEF IInv
<1>2. ASSUME NEW c \in Callers, Enter(c) PROVE OneCallAtATime'
  BY <1>2 DEF Enter, IInv
<1>3. ASSUME NEW c \in Callers, EnterBusy(c) PROVE OneCallAtATime'
  BY <1>3 DEF EnterBusy, IInv
<1>4. ASSUME NEW c \in Callers, OperatorCall(c) PROVE OneCallAtATime'
  <2>1. CASE Arm(c)
    BY <2>1 DEF Arm, IInv
  <2>2. CASE Send(c)
    BY <2>2 DEF Send, IInv
  <2>3. CASE SendFails(c)
    BY <2>3 DEF SendFails, IInv
  <2>4. CASE Return(c)
    <3>1. pc' = [pc EXCEPT ![c] = "nested"] \/ pc' = [pc EXCEPT ![c] = "unwinding"]
      BY <2>4 DEF Return
    <3> QED BY <2>4, <3>1 DEF Return, IInv
  <2>5. CASE ReturnNested(c)
    BY <2>5 DEF ReturnNested, IInv
  <2>6. CASE Unwind(c)
    BY <2>6 DEF Unwind, IInv
  <2>7. CASE DropRef(c)
    BY <2>7 DEF DropRef, IInv
  <2> QED BY <1>4, <2>1, <2>2, <2>3, <2>4, <2>5, <2>6, <2>7 DEF OperatorCall
<1>5. ASSUME NEW c \in Callers, Consume(c) PROVE OneCallAtATime'
  BY <1>5 DEF Consume, Settle, IInv
<1> QED BY <1>1, <1>2, <1>3, <1>4, <1>5 DEF Next, Step

\* The pointer a caller stored is its own until it has sent.
LEMMA NextArmedOK == IInv /\ [Next]_vars => ArmedOK'
<1> SUFFICES ASSUME IInv, [Next]_vars PROVE ArmedOK'
  OBVIOUS
<1>0. nested' = nested
  BY DEF Next, vars
<1> USE <1>0
<1> USE DEF ArmedOK, OneCallAtATime, Inside, TypeOK
<1>1. CASE Create \/ CreateFails \/ Release \/ DeleteHandle \/ InvokeAsync \/ Terminated
           \/ UNCHANGED vars
  <2> pc' = pc /\ data' = data /\ promise' = promise
    BY <1>1 DEF Create, CreateFails, Release, InvokeAsync, DeleteHandle, Terminated, vars, state
  <2> QED BY DEF IInv
<1>2. ASSUME NEW c \in Callers, Enter(c) \/ EnterBusy(c) PROVE ArmedOK'
  BY <1>2 DEF Enter, EnterBusy, IInv
<1>3. ASSUME NEW c \in Callers, OperatorCall(c) PROVE ArmedOK'
  <2>1. CASE Arm(c)
    BY <2>1 DEF Arm, IInv
  <2>2. CASE Send(c) \/ SendFails(c)
    BY <2>2 DEF Send, SendFails, IInv
  <2>3. CASE Return(c)
    <3>1. pc' = [pc EXCEPT ![c] = "nested"] \/ pc' = [pc EXCEPT ![c] = "unwinding"]
      BY <2>3 DEF Return
    <3> QED BY <2>3, <3>1 DEF Return, IInv
  <2>4. CASE ReturnNested(c)
    BY <2>4 DEF ReturnNested, IInv
  <2>5. CASE Unwind(c) \/ DropRef(c)
    BY <2>5 DEF Unwind, DropRef, IInv
  <2> QED BY <1>3, <2>1, <2>2, <2>3, <2>4, <2>5 DEF OperatorCall
<1>4. ASSUME NEW c \in Callers, Consume(c) PROVE ArmedOK'
  BY <1>4 DEF Consume, Settle, IInv
<1>5. ASSUME NEW i \in InnerStates, CallbackReturns(i) PROVE ArmedOK'
  BY <1>5 DEF CallbackReturns, IInv, CallbackSound
<1>6. CASE CallbackThrows
  BY <1>6 DEF CallbackThrows, IInv, CallbackSound
<1> QED BY <1>1, <1>2, <1>3, <1>4, <1>5, <1>6 DEF Next, Step, Loop

\* The inner future of a call is waited for before the call returns.
LEMMA NextNestedOK == IInv /\ [Next]_vars => NestedOK'
<1> SUFFICES ASSUME IInv, [Next]_vars PROVE NestedOK'
  OBVIOUS
<1>0. nested' = nested
  BY DEF Next, vars
<1> USE <1>0
<1> USE DEF NestedOK, TypeOK, HasFrame, Results
<1>1. CASE Create \/ CreateFails \/ Release \/ DeleteHandle \/ InvokeAsync \/ Terminated
           \/ UNCHANGED vars
  <2> pc' = pc /\ inner' = inner
    BY <1>1 DEF Create, CreateFails, Release, InvokeAsync, DeleteHandle, Terminated, vars, state
  <2> QED BY DEF IInv
<1>2. ASSUME NEW c \in Callers, Enter(c) \/ EnterBusy(c) PROVE NestedOK'
  BY <1>2 DEF Enter, EnterBusy, IInv
<1>3. ASSUME NEW c \in Callers, OperatorCall(c) PROVE NestedOK'
  <2>1. CASE Arm(c) \/ Send(c) \/ SendFails(c)
    BY <2>1 DEF Arm, Send, SendFails, IInv
  <2>2. CASE Return(c)
    <3>1. CASE nested /\ promise[c] = "value"
      BY <2>2, <3>1 DEF Return, IInv
    <3>2. CASE ~(nested /\ promise[c] = "value")
      BY <2>2, <3>2 DEF Return, IInv
    <3> QED BY <3>1, <3>2
  <2>3. CASE ReturnNested(c)
    BY <2>3 DEF ReturnNested, IInv
  <2>4. CASE Unwind(c)
    BY <2>4 DEF Unwind, IInv
  <2>5. CASE DropRef(c)
    BY <2>5 DEF DropRef, IInv
  <2> QED BY <1>3, <2>1, <2>2, <2>3, <2>4, <2>5 DEF OperatorCall
<1>4. ASSUME NEW c \in Callers, Consume(c) PROVE NestedOK'
  BY <1>4 DEF Consume, Settle, IInv
<1>5. ASSUME NEW i \in InnerStates, CallbackReturns(i) PROVE NestedOK'
  BY <1>5 DEF CallbackReturns, InnerStates, IInv, CallbackSound
<1>6. CASE CallbackThrows
  BY <1>6 DEF CallbackThrows, IInv
<1> QED BY <1>1, <1>2, <1>3, <1>4, <1>5, <1>6 DEF Next, Step, Loop

\* The loop thread follows handle->data only into the frame of the caller it
\* was stored by, which is still waiting there.
LEMMA NextCallbackSound == IInv /\ [Next]_vars => CallbackSound'
<1> SUFFICES ASSUME IInv, [Next]_vars PROVE CallbackSound'
  OBVIOUS
<1>0. nested' = nested
  BY DEF Next, vars
<1> USE <1>0
<1> USE DEF CallbackSound, OneCallAtATime, Inside, TypeOK
<1>1. CASE Create \/ CreateFails \/ Release \/ DeleteHandle \/ Terminated \/ UNCHANGED vars
  <2> UNCHANGED <<pc, data, pending, executing, promise>>
    BY <1>1 DEF Create, CreateFails, Release, DeleteHandle, Terminated, vars, state
  <2> QED BY DEF IInv
<1>2. ASSUME NEW c \in Callers, Enter(c) \/ EnterBusy(c) PROVE CallbackSound'
  BY <1>2 DEF Enter, EnterBusy, IInv
<1>3. ASSUME NEW c \in Callers, OperatorCall(c) PROVE CallbackSound'
  <2>1. CASE Arm(c)
    BY <2>1 DEF Arm, IInv
  <2>2. CASE Send(c)
    BY <2>2 DEF Send, IInv, ArmedOK
  <2>3. CASE SendFails(c)
    BY <2>3 DEF SendFails, IInv
  <2>4. CASE Return(c)
    <3>1. ~pending /\ executing = NoCaller
      BY <2>4 DEF Return, Results, IInv
    <3> QED BY <2>4, <3>1 DEF Return
  <2>5. CASE ReturnNested(c)
    <3>1. ~pending /\ executing = NoCaller
      BY <2>5 DEF ReturnNested, IInv
    <3> QED BY <2>5, <3>1 DEF ReturnNested
  <2>6. CASE Unwind(c)
    BY <2>6 DEF Unwind, IInv
  <2>7. CASE DropRef(c)
    BY <2>7 DEF DropRef, IInv
  <2> QED BY <1>3, <2>1, <2>2, <2>3, <2>4, <2>5, <2>6, <2>7 DEF OperatorCall
<1>4. ASSUME NEW c \in Callers, Consume(c) PROVE CallbackSound'
  BY <1>4 DEF Consume, Settle, IInv
<1>5. CASE InvokeAsync
  BY <1>5 DEF InvokeAsync, IInv
<1>6. ASSUME NEW i \in InnerStates, CallbackReturns(i) PROVE CallbackSound'
  BY <1>6 DEF CallbackReturns, IInv
<1>7. CASE CallbackThrows
  BY <1>7 DEF CallbackThrows, IInv
<1> QED BY <1>1, <1>2, <1>3, <1>4, <1>5, <1>6, <1>7 DEF Next, Step, Loop

\* No step drops the wake-up of a caller that still waits.
LEMMA NextNoLostWakeup == IInv /\ [Next]_vars => NoLostWakeup'
<1> SUFFICES ASSUME IInv, [Next]_vars PROVE NoLostWakeup'
  OBVIOUS
<1>0. nested' = nested
  BY DEF Next, vars
<1> USE <1>0
<1> USE DEF NoLostWakeup, OneCallAtATime, Inside, TypeOK
<1>1. CASE Create \/ CreateFails \/ Release \/ DeleteHandle \/ Terminated \/ UNCHANGED vars
  <2> UNCHANGED <<pc, data, pending, executing, promise>>
    BY <1>1 DEF Create, CreateFails, Release, DeleteHandle, Terminated, vars, state
  <2> QED BY DEF IInv
<1>2. ASSUME NEW c \in Callers, Enter(c) \/ EnterBusy(c) PROVE NoLostWakeup'
  BY <1>2 DEF Enter, EnterBusy, IInv
<1>3. ASSUME NEW c \in Callers, OperatorCall(c) PROVE NoLostWakeup'
  <2>1. CASE Arm(c)
    BY <2>1 DEF Arm, IInv
  <2>2. CASE Send(c)
    BY <2>2 DEF Send, IInv, ArmedOK
  <2>3. CASE SendFails(c)
    BY <2>3 DEF SendFails, IInv
  <2>4. CASE Return(c)
    <3>1. pc' = [pc EXCEPT ![c] = "nested"] \/ pc' = [pc EXCEPT ![c] = "unwinding"]
      BY <2>4 DEF Return
    <3> QED BY <2>4, <3>1 DEF Return, IInv
  <2>5. CASE ReturnNested(c)
    BY <2>5 DEF ReturnNested, IInv
  <2>6. CASE Unwind(c)
    BY <2>6 DEF Unwind, IInv
  <2>7. CASE DropRef(c)
    BY <2>7 DEF DropRef, IInv
  <2> QED BY <1>3, <2>1, <2>2, <2>3, <2>4, <2>5, <2>6, <2>7 DEF OperatorCall
<1>4. ASSUME NEW c \in Callers, Consume(c) PROVE NoLostWakeup'
  BY <1>4 DEF Consume, Settle, IInv
<1>5. CASE InvokeAsync
  BY <1>5 DEF InvokeAsync, IInv
<1>6. ASSUME NEW i \in InnerStates, CallbackReturns(i) PROVE NoLostWakeup'
  BY <1>6 DEF CallbackReturns, IInv, CallbackSound
<1>7. CASE CallbackThrows
  BY <1>7 DEF CallbackThrows, IInv, CallbackSound
<1> QED BY <1>1, <1>2, <1>3, <1>4, <1>5, <1>6, <1>7 DEF Next, Step, Loop

\* The shared handle is closed only by the last one to let go of it.
LEMMA NextHandleOutlives == IInv /\ [Next]_vars => HandleOutlivesCalls'
<1> SUFFICES ASSUME IInv, [Next]_vars PROVE HandleOutlivesCalls'
  OBVIOUS
<1>0. nested' = nested
  BY DEF Next, vars
<1> USE <1>0
<1> USE DEF HandleOutlivesCalls, HoldsRef, TypeOK, CallbackSound
<1>1. CASE Create \/ CreateFails \/ DeleteHandle \/ Terminated \/ UNCHANGED vars
  BY <1>1 DEF Create, CreateFails, DeleteHandle, Terminated, vars, state, IInv
<1>2. CASE Release
  <2>1. pending \/ executing # NoCaller => \E c \in Callers : HoldsRef(c)
    BY DEF IInv
  <2>2. CASE \E c \in Callers : HoldsRef(c)
    BY <1>2, <2>2 DEF Release, CloseIfLast, IInv
  <2>3. CASE ~\E c \in Callers : HoldsRef(c)
    BY <1>2, <2>1, <2>3 DEF Release, CloseIfLast, IInv
  <2> QED BY <2>2, <2>3
<1>3. ASSUME NEW c \in Callers, Enter(c) \/ EnterBusy(c) PROVE HandleOutlivesCalls'
  BY <1>3 DEF Enter, EnterBusy, IInv
<1>4. ASSUME NEW c \in Callers, OperatorCall(c) PROVE HandleOutlivesCalls'
  <2>1. CASE DropRef(c)
    <3> DEFINE others == owned \/ \E d \in Callers \ {c} : HoldsRef(d)
    <3>1. handle = "open"
      BY <2>1 DEF DropRef, IInv
    <3>2. CASE others
      BY <2>1, <3>1, <3>2 DEF DropRef, CloseIfLast, IInv
    <3>3. CASE ~others
      <4>1. ~pending /\ executing = NoCaller
        BY <2>1, <3>3 DEF DropRef, IInv
      <4> QED BY <2>1, <3>3, <4>1 DEF DropRef, IInv
    <3> QED BY <3>2, <3>3
  <2>2. CASE ~DropRef(c)
    <3>1. HoldsRef(c) /\ handle' = handle
      BY <1>4, <2>2 DEF OperatorCall, Arm, Send, SendFails, Return, ReturnNested, Unwind
    <3> QED BY <3>1 DEF IInv
  <2> QED BY <2>1, <2>2
<1>5. ASSUME NEW c \in Callers, Consume(c) PROVE HandleOutlivesCalls'
  BY <1>5 DEF Consume, Settle, IInv
<1>6. CASE InvokeAsync
  BY <1>6 DEF InvokeAsync, IInv
<1>7. ASSUME NEW i \in InnerStates, CallbackReturns(i) PROVE HandleOutlivesCalls'
  BY <1>7 DEF CallbackReturns, IInv
<1>8. CASE CallbackThrows
  BY <1>8 DEF CallbackThrows, IInv
<1> QED BY <1>1, <1>2, <1>3, <1>4, <1>5, <1>6, <1>7, <1>8 DEF Next, Step, Loop

LEMMA NextIInv == IInv /\ [Next]_vars => IInv'
BY NextTypeOK, NextOneCall, NextArmedOK, NextNestedOK, NextCallbackSound, NextNoLostWakeup,
   NextHandleOutlives DEF IInv

\* IInv is inductive, for every number of callers and both kinds of callback.
THEOREM Invariance == Spec => []IInv
BY InitIInv, NextIInv, PTL DEF Spec

\* The state stays well formed: a promise lives exactly as long as its frame.
THEOREM TypeCorrect == Spec => []TypeOK
BY Invariance, PTL DEF IInv

\* The dangling pointer in handle->data (async.hpp:28) is never followed.
THEOREM CallbackIsSound == Spec => []CallbackSound
BY Invariance, PTL DEF IInv

\* A waiting caller always has a wake-up pending, in service or served.
THEOREM WakeupNotLost == Spec => []NoLostWakeup
BY Invariance, PTL DEF IInv

\* running_scope (async.hpp:80-95) is a mutual exclusion of calls.
THEOREM CallsExclude == Spec => []OneCallAtATime
BY Invariance, PTL DEF IInv

\* The uv_async_t is open whenever anybody can still touch it.
THEOREM HandleSafe == Spec => []HandleOutlivesCalls
BY Invariance, PTL DEF IInv

-----------------------------------------------------------------------------
(* The refinement. *)

\* With at most one caller inside, the holder of the refinement mapping is it.
LEMMA HolderInside ==
  ASSUME OneCallAtATime, NEW c \in Callers, Inside(c)
  PROVE  holder = c
BY DEF holder, OneCallAtATime

\* And nobody holds the line when nobody is inside.
LEMMA HolderNone ==
  ASSUME \A c \in Callers : ~Inside(c)
  PROVE  holder = NoCaller
BY DEF holder

\* The same two facts about the next state.
LEMMA HolderInsideNext ==
  ASSUME OneCallAtATime', NEW c \in Callers, Inside(c)'
  PROVE  holder' = c
BY DEF holder, OneCallAtATime

LEMMA HolderNoneNext ==
  ASSUME \A c \in Callers : ~Inside(c)'
  PROVE  holder' = NoCaller
BY DEF holder

\* Nothing the mapping reads has changed.
LEMMA MappingStutters ==
  ASSUME UNCHANGED <<nested, pc, executing, promise, inner, outcome>>
  PROVE  UNCHANGED Call!callVars
BY DEF Call!callVars, phase, result, holder, Inside, produced

\* A refused caller only learns that the line is taken.
LEMMA RefineRefuse ==
  ASSUME IInv, IInv', nested' = nested, NEW c \in Callers, EnterBusy(c)
  PROVE  Call!Refuse(c)
<1>1. PICK d \in Callers : Inside(d)
  BY DEF EnterBusy, IInv, OneCallAtATime
<1>2. d # c
  BY <1>1 DEF EnterBusy, Inside
<1>3. Inside(d)' /\ pc'[d] = pc[d]
  BY <1>1, <1>2 DEF EnterBusy, Inside, IInv, TypeOK
<1>4. holder = d /\ holder' = d
  BY <1>1, <1>3, HolderInside, HolderInsideNext DEF IInv
<1>5. phase' = phase /\ result' = result
  BY <1>3, <1>4 DEF phase, result, produced, EnterBusy
<1>6. phase # "free"
  BY <1>4 DEF phase
<1> QED BY <1>2, <1>4, <1>5, <1>6 DEF Call!Refuse, EnterBusy

\* Every step of operator(), the loop, the consumer and the owner is a step of
\* the abstract call or leaves it alone.
LEMMA RefineStep ==
  ASSUME IInv, IInv', [Next]_vars
  PROVE  [Call!Next]_(Call!callVars)
<1>0. nested' = nested
  BY DEF Next, vars
<1> USE <1>0 DEF Inside, Results
<1>1. CASE Create \/ CreateFails \/ Release \/ DeleteHandle \/ Terminated \/ UNCHANGED vars
  <2>1. UNCHANGED <<nested, pc, executing, promise, inner, outcome>>
    BY <1>1 DEF Create, CreateFails, Release, DeleteHandle, Terminated, vars, state
  <2> QED BY <2>1, MappingStutters
<1>2. ASSUME NEW c \in Callers, Enter(c) PROVE Call!Begin(c)
  <2>1. \A d \in Callers : ~Inside(d)
    BY <1>2 DEF Enter, IInv, OneCallAtATime
  <2>2. pc'[c] = "entered" /\ Inside(c)'
    BY <1>2 DEF Enter, IInv, TypeOK
  <2>3. holder = NoCaller /\ holder' = c
    BY <2>1, <2>2, HolderNone, HolderInsideNext DEF IInv
  <2>4. promise'[c] = "none" /\ executing' # c
    BY <1>2, <2>2 DEF IInv, TypeOK, HasFrame, CallbackSound
  <2>5. phase = "free" /\ phase' = "calling" /\ result' = "none"
    BY <2>2, <2>3, <2>4 DEF phase, result, produced
  <2> QED BY <1>2, <2>3, <2>5 DEF Call!Begin, Enter
<1>3. ASSUME NEW c \in Callers, OperatorCall(c) PROVE [Call!Next]_(Call!callVars)
  <2>1. CASE Arm(c) \/ Send(c)
    <3>1. Inside(c) /\ Inside(c)' /\ pc[c] # "unwinding" /\ pc'[c] # "unwinding"
      BY <2>1 DEF Arm, Send, IInv, TypeOK
    <3>2. holder = c /\ holder' = c
      BY <3>1, HolderInside, HolderInsideNext DEF IInv
    <3>3. promise[c] \in {"none", "unset"} /\ promise'[c] \in {"none", "unset"}
      BY <2>1 DEF Arm, Send, IInv, TypeOK, ArmedOK, HasFrame
    <3>4. executing # c /\ executing' # c
      BY <2>1 DEF Arm, Send, IInv, CallbackSound
    <3>5. phase = "calling" /\ phase' = "calling" /\ result = "none" /\ result' = "none"
      BY <3>1, <3>2, <3>3, <3>4 DEF phase, result, produced
    <3>6. outcome' = outcome
      BY <2>1 DEF Arm, Send
    <3> QED BY <3>2, <3>5, <3>6 DEF Call!callVars
  <2>2. CASE SendFails(c)
    <3>1. Inside(c) /\ Inside(c)' /\ pc[c] = "armed" /\ pc'[c] = "unwinding"
      BY <2>2 DEF SendFails, IInv, TypeOK
    <3>2. holder = c /\ holder' = c
      BY <3>1, HolderInside, HolderInsideNext DEF IInv
    <3>3. promise[c] = "unset" /\ executing # c
      BY <3>1 DEF IInv, ArmedOK, CallbackSound
    <3>4. phase = "calling" /\ phase' = "leaving" /\ result' = result
      BY <2>2, <3>1, <3>2, <3>3 DEF phase, result, produced, SendFails
    <3> QED BY <2>2, <3>2, <3>4 DEF Call!Next, Call!Abort, SendFails
  <2>3. CASE Return(c)
    <3>1. executing # c
      BY <2>3 DEF Return, IInv, CallbackSound
    <3>2. CASE nested /\ promise[c] = "value"
      <4>1. Inside(c) /\ Inside(c)' /\ pc[c] = "waiting" /\ pc'[c] = "nested"
        BY <2>3, <3>2 DEF Return, IInv, TypeOK
      <4>2. holder = c /\ holder' = c
        BY <4>1, HolderInside, HolderInsideNext DEF IInv
      <4>3. phase' = phase /\ result' = result /\ outcome' = outcome
        BY <2>3, <3>2, <4>1, <4>2 DEF phase, result, produced, Return
      <4> QED BY <4>2, <4>3 DEF Call!callVars
    <3>3. CASE ~(nested /\ promise[c] = "value")
      <4>1. Inside(c) /\ Inside(c)' /\ pc[c] = "waiting" /\ pc'[c] = "unwinding"
        BY <2>3, <3>3 DEF Return, IInv, TypeOK
      <4>2. holder = c /\ holder' = c
        BY <4>1, HolderInside, HolderInsideNext DEF IInv
      <4>3. produced(c) = promise[c] /\ promise[c] # "none"
        BY <2>3, <3>3 DEF produced, Return
      <4>4. phase = "executed" /\ phase' = "leaving" /\ result = promise[c]
        BY <4>1, <4>2, <4>3 DEF phase, result
      <4>5. result' = result
        BY <2>3, <4>2 DEF result, produced, Return
      <4> QED BY <2>3, <3>3, <4>2, <4>4, <4>5 DEF Call!Next, Call!Deliver, Return
    <3> QED BY <3>2, <3>3
  <2>4. CASE ReturnNested(c)
    <3>1. Inside(c) /\ Inside(c)' /\ pc[c] = "nested" /\ pc'[c] = "unwinding"
      BY <2>4 DEF ReturnNested, IInv, TypeOK
    <3>2. holder = c /\ holder' = c
      BY <3>1, HolderInside, HolderInsideNext DEF IInv
    <3>3. promise[c] = "value"
      BY <3>1 DEF IInv, TypeOK
    <3>4. produced(c) = inner[c]
      <4>1. CASE nested
        BY <2>4, <3>3, <4>1 DEF produced, ReturnNested
      <4>2. CASE ~nested
        BY <2>4, <3>3, <4>2 DEF produced, ReturnNested, IInv, NestedOK
      <4> QED BY <4>1, <4>2
    <3>5. phase = "executed" /\ phase' = "leaving" /\ result = inner[c]
      BY <2>4, <3>1, <3>2, <3>4 DEF phase, result, ReturnNested
    <3>6. result' = result
      BY <2>4, <3>2 DEF result, produced, ReturnNested
    <3> QED BY <2>4, <3>2, <3>5, <3>6 DEF Call!Next, Call!Deliver, ReturnNested
  <2>5. CASE Unwind(c)
    <3>1. Inside(c) /\ pc[c] = "unwinding" /\ \A d \in Callers : ~Inside(d)'
      BY <2>5 DEF Unwind, IInv, TypeOK, OneCallAtATime
    <3>2. holder = c /\ holder' = NoCaller
      BY <3>1, HolderInside, HolderNoneNext DEF IInv
    <3>3. phase = "leaving" /\ phase' = "free" /\ result' = "none"
      BY <3>1, <3>2 DEF phase, result
    <3> QED BY <2>5, <3>2, <3>3 DEF Call!Next, Call!Leave, Unwind
  <2>6. CASE DropRef(c)
    <3>1. \A d \in Callers : Inside(d)' <=> Inside(d)
      BY <2>6 DEF DropRef, IInv, TypeOK
    <3>2. CASE \E d \in Callers : Inside(d)
      <4>1. PICK d \in Callers : Inside(d)
        BY <3>2
      <4>2. d # c /\ pc'[d] = pc[d] /\ Inside(d)'
        BY <2>6, <3>1, <4>1 DEF DropRef, IInv, TypeOK
      <4>3. holder = d /\ holder' = d
        BY <4>1, <4>2, HolderInside, HolderInsideNext DEF IInv
      <4>4. phase' = phase /\ result' = result
        BY <2>6, <4>2, <4>3 DEF phase, result, produced, DropRef
      <4> QED BY <2>6, <4>3, <4>4 DEF Call!callVars, DropRef
    <3>3. CASE \A d \in Callers : ~Inside(d)
      <4>1. holder = NoCaller /\ holder' = NoCaller
        BY <3>1, <3>3, HolderNone, HolderNoneNext
      <4>2. phase' = phase /\ result' = result
        BY <4>1 DEF phase, result
      <4> QED BY <2>6, <4>1, <4>2 DEF Call!callVars, DropRef
    <3> QED BY <3>2, <3>3
  <2> QED BY <1>3, <2>1, <2>2, <2>3, <2>4, <2>5, <2>6 DEF OperatorCall
<1>4. ASSUME NEW c \in Callers, Consume(c) PROVE [Call!Next]_(Call!callVars)
  <2>1. PICK r \in Results : Settle(c, r)
    BY <1>4 DEF Consume
  <2>2. promise[c] = "value" /\ nested /\ HasFrame(c) /\ executing # c
    BY <2>1 DEF Settle, IInv, TypeOK, NestedOK, CallbackSound
  <2>3. Inside(c) /\ Inside(c)'
    BY <2>1, <2>2 DEF HasFrame, Settle
  <2>4. holder = c /\ holder' = c
    BY <2>3, HolderInside, HolderInsideNext DEF IInv
  <2>5. pc[c] # "unwinding"
    BY <2>1, <2>2 DEF Settle, IInv, NestedOK
  <2>6. produced(c) = "none" /\ produced(c)' = r
    BY <2>1, <2>2 DEF produced, Settle, IInv, TypeOK
  <2>7. phase = "executing" /\ phase' = "executed" /\ result' = r
    BY <2>1, <2>2, <2>4, <2>5, <2>6 DEF phase, result, Settle
  <2> QED BY <2>1, <2>4, <2>7 DEF Call!Next, Call!Produce, Settle
<1>5. CASE InvokeAsync
  <2>1. PICK c \in Callers : c = data /\ pc[c] = "waiting" /\ promise[c] = "unset"
    BY <1>5 DEF InvokeAsync, IInv, CallbackSound
  <2>2. Inside(c) /\ Inside(c)'
    BY <1>5, <2>1 DEF InvokeAsync
  <2>3. holder = c /\ holder' = c
    BY <2>2, HolderInside, HolderInsideNext DEF IInv
  <2>4. phase = "calling" /\ phase' = "executing" /\ result' = result
    BY <1>5, <2>1, <2>3 DEF phase, result, produced, InvokeAsync
  <2> QED BY <1>5, <2>3, <2>4 DEF Call!Next, Call!Execute, InvokeAsync
<1>6. ASSUME executing # NoCaller
      PROVE  /\ executing \in Callers /\ Inside(executing) /\ holder = executing
             /\ pc[executing] = "waiting" /\ phase = "executing"
  <2>1. /\ executing \in Callers /\ Inside(executing)
        /\ pc[executing] = "waiting" /\ promise[executing] = "unset"
    BY <1>6 DEF IInv, CallbackSound, TypeOK
  <2>2. holder = executing
    BY <2>1, HolderInside DEF IInv
  <2> QED BY <1>6, <2>1, <2>2 DEF phase, produced
<1>7. ASSUME NEW i \in InnerStates, CallbackReturns(i) PROVE [Call!Next]_(Call!callVars)
  <2> DEFINE e == executing
  <2>1. e \in Callers /\ Inside(e) /\ holder = e /\ pc[e] = "waiting" /\ phase = "executing"
    BY <1>6, <1>7 DEF CallbackReturns
  <2>2. pc' = pc
    BY <1>7 DEF CallbackReturns
  <2>3. holder' = e
    BY <2>1, <2>2, HolderInsideNext DEF IInv
  <2>4. promise'[e] = "value" /\ inner'[e] = i /\ pc'[e] = "waiting" /\ outcome' = outcome
    BY <1>7, <2>1 DEF CallbackReturns, IInv, TypeOK
  <2>5. result = "none"
    BY <1>7, <2>1 DEF result, produced, CallbackReturns, IInv, CallbackSound
  <2>6. CASE i = "unset" /\ nested
    <3>1. result' = "none" /\ phase' = "executing"
      BY <2>1, <2>3, <2>4, <2>6 DEF result, phase, produced
    <3> QED BY <2>1, <2>3, <2>4, <2>5, <3>1 DEF Call!callVars
  <2>7. CASE ~(i = "unset" /\ nested)
    <3>1. PICK r \in {"value", "exception"} : result' = r /\ phase' = "executed"
      BY <2>1, <2>3, <2>4, <2>7 DEF result, phase, produced, InnerStates
    <3> QED BY <2>1, <2>3, <2>4, <3>1 DEF Call!Next, Call!Produce
  <2> QED BY <2>6, <2>7
<1>8. CASE CallbackThrows
  <2> DEFINE e == executing
  <2>1. e \in Callers /\ Inside(e) /\ holder = e /\ pc[e] = "waiting" /\ phase = "executing"
    BY <1>6, <1>8 DEF CallbackThrows
  <2>2. promise'[e] = "exception" /\ pc'[e] = "waiting" /\ outcome' = outcome
    BY <1>8, <2>1 DEF CallbackThrows, IInv, TypeOK
  <2>3. holder' = e
    BY <2>1, <2>2, <1>8, HolderInsideNext DEF IInv, CallbackThrows
  <2>4. result' = "exception" /\ phase' = "executed"
    BY <2>1, <2>2, <2>3 DEF result, phase, produced
  <2> QED BY <2>1, <2>2, <2>3, <2>4 DEF Call!Next, Call!Produce
<1> QED
  BY <1>1, <1>2, <1>3, <1>4, <1>5, <1>7, <1>8, RefineRefuse DEF Next, Step, Loop, Call!Next

\* uv::async implements the synchronous cross-thread call: calls never overlap,
\* each callback runs once, and its result goes to its own caller.
THEOREM Refinement == Spec => ImplementsCall
<1>1. Init => Call!Init
  BY DEF Init, Call!Init, phase, result, holder, Inside
<1>2. IInv /\ IInv' /\ [Next]_vars => [Call!Next]_(Call!callVars)
  BY RefineStep
<1> QED BY <1>1, <1>2, Invariance, PTL DEF Spec, ImplementsCall, Call!Spec
=============================================================================
