------------------------ MODULE IterableMethodProofs ------------------------
(***************************************************************************)
(* Proofs about IterableMethod, for any set of users, any number of items  *)
(* and any number of next() calls in flight.  The proofs of its two        *)
(* components are instantiated (AP, IP), so that what is left to show is   *)
(* that the composition takes only their steps, and how they are linked.   *)
(***************************************************************************)
EXTENDS IterableMethod, SequenceTheorems, TLAPS

AP == INSTANCE UvAsyncProofs WITH Callers <- {Worker}, NoCaller <- Nobody, nested <- TRUE
IP == INSTANCE IterableProofs

LEMMA NobodyCalls == Nobody \notin {Worker}
BY WorkerAssumption

-----------------------------------------------------------------------------
(* The definitions of the instances are those of the components. *)

LEMMA SameAsyncInit == A!Init <=> AP!Init
BY DEF A!Init, AP!Init

LEMMA SameAsync == A!IInv <=> AP!IInv
BY DEF A!IInv, A!TypeOK, A!Control, A!Results, A!HasFrame, A!OneCallAtATime, A!Inside,
       A!ArmedOK, A!NestedOK, A!CallbackSound, A!NoLostWakeup, A!HandleOutlivesCalls, A!HoldsRef,
       AP!IInv, AP!TypeOK, AP!Control, AP!Results, AP!HasFrame, AP!OneCallAtATime, AP!Inside,
       AP!ArmedOK, AP!NestedOK, AP!CallbackSound, AP!NoLostWakeup, AP!HandleOutlivesCalls, AP!HoldsRef

LEMMA SameIter == I!IInv <=> IP!IInv
<1> USE DEF I!Pending, I!Item, I!Done, I!Error, I!Outcomes, I!Promise, I!Uses, I!InSlot,
            IP!Pending, IP!Item, IP!Done, IP!Error, IP!Outcomes, IP!Promise, IP!Uses, IP!InSlot
<1>1. I!TypeOK <=> IP!TypeOK
  BY DEF I!TypeOK, IP!TypeOK
<1>2. I!SlotSound <=> IP!SlotSound
  BY DEF I!SlotSound, IP!SlotSound
<1>3. I!OneUser <=> IP!OneUser
  BY DEF I!OneUser, IP!OneUser
<1>4. I!WaitedOnce <=> IP!WaitedOnce
  BY DEF I!WaitedOnce, IP!WaitedOnce
<1>5. I!SlotAsked <=> IP!SlotAsked
  BY DEF I!SlotAsked, IP!SlotAsked, I!AsksLast, IP!AsksLast, I!Unanswered, IP!Unanswered
<1>6. I!Conservation <=> IP!Conservation
  BY DEF I!Conservation, IP!Conservation, I!Handed, IP!Handed, I!HeldBy, IP!HeldBy
<1> QED
  BY <1>1, <1>2, <1>3, <1>4, <1>5, <1>6 DEF I!IInv, IP!IInv

LEMMA SameIterNext == I!Next <=> IP!Next
<1> USE DEF I!Pending, I!Item, I!Done, I!Error, I!Terminal, I!iterVars, I!jsVars, I!ResolveThrows,
            IP!Pending, IP!Item, IP!Done, IP!Error, IP!Terminal, IP!iterVars, IP!jsVars, IP!ResolveThrows
<1>1. I!Producer <=> IP!Producer
  BY DEF I!Producer, IP!Producer, I!Ended, IP!Ended, I!Yield, IP!Yield, I!End, IP!End,
         I!Reject, IP!Reject, I!Resolve, IP!Resolve
<1>2. I!ResolveReturns <=> IP!ResolveReturns
  BY DEF I!ResolveReturns, IP!ResolveReturns
<1>3. ASSUME NEW l \in Loops PROVE I!JavaScript(l) <=> IP!JavaScript(l)
  <2>1. I!GetAsyncIterator(l) <=> IP!GetAsyncIterator(l)
    BY DEF I!GetAsyncIterator, IP!GetAsyncIterator
  <2>2. I!Next_(l) <=> IP!Next_(l)
    BY DEF I!Next_, IP!Next_, I!WantsNext, IP!WantsNext
  <2>3. I!Receive(l) <=> IP!Receive(l)
    BY DEF I!Receive, IP!Receive
  <2>4. I!Break(l) <=> IP!Break(l)
    BY DEF I!Break, IP!Break
  <2> QED
    BY <2>1, <2>2, <2>3, <2>4 DEF I!JavaScript, IP!JavaScript
<1> QED
  BY <1>1, <1>2, <1>3 DEF I!Next, IP!Next

LEMMA SameAsyncStep == A!Step <=> AP!Step
<1> USE DEF A!Results, AP!Results, A!CloseIfLast, AP!CloseIfLast, A!HoldsRef, AP!HoldsRef
<1>1. /\ A!Create <=> AP!Create
      /\ A!CreateFails <=> AP!CreateFails
      /\ A!Release <=> AP!Release
  BY DEF A!Create, AP!Create, A!CreateFails, AP!CreateFails, A!Release, AP!Release
<1>2. ASSUME NEW c \in {Worker}
      PROVE  /\ A!Enter(c) <=> AP!Enter(c)
             /\ A!EnterBusy(c) <=> AP!EnterBusy(c)
             /\ A!Consume(c) <=> AP!Consume(c)
             /\ A!OperatorCall(c) <=> AP!OperatorCall(c)
  <2>1. /\ A!Enter(c) <=> AP!Enter(c)
        /\ A!EnterBusy(c) <=> AP!EnterBusy(c)
        /\ A!Consume(c) <=> AP!Consume(c)
    BY DEF A!Enter, AP!Enter, A!EnterBusy, AP!EnterBusy, A!Consume, AP!Consume,
           A!Settle, AP!Settle
  <2>2. /\ A!Arm(c) <=> AP!Arm(c)
        /\ A!Send(c) <=> AP!Send(c)
        /\ A!SendFails(c) <=> AP!SendFails(c)
        /\ A!Return(c) <=> AP!Return(c)
        /\ A!ReturnNested(c) <=> AP!ReturnNested(c)
        /\ A!Unwind(c) <=> AP!Unwind(c)
        /\ A!DropRef(c) <=> AP!DropRef(c)
    BY DEF A!Arm, AP!Arm, A!Send, AP!Send, A!SendFails, AP!SendFails, A!Return, AP!Return,
           A!ReturnNested, AP!ReturnNested, A!Unwind, AP!Unwind, A!DropRef, AP!DropRef
  <2> QED
    BY <2>1, <2>2 DEF A!OperatorCall, AP!OperatorCall
<1>3. A!Loop <=> AP!Loop
  BY DEF A!Loop, AP!Loop, A!InvokeAsync, AP!InvokeAsync, A!CallbackReturns, AP!CallbackReturns,
         A!CallbackThrows, AP!CallbackThrows, A!DeleteHandle, AP!DeleteHandle,
         A!InnerStates, AP!InnerStates
<1>4. A!Terminated <=> AP!Terminated
  BY DEF A!Terminated, AP!Terminated, A!state, AP!state
<1> QED
  BY <1>1, <1>2, <1>3, <1>4 DEF A!Step, AP!Step

\* What the two components' own proofs say.
LEMMA AsyncInductive ==
  ASSUME A!IInv, A!Step \/ UNCHANGED asyncVars
  PROVE  A!IInv'
<1>1. AP!IInv
  BY SameAsync
<1>2. [AP!Next]_(AP!vars)
  <2>1. CASE A!Step
    BY <2>1, SameAsyncStep DEF AP!Next
  <2>2. CASE UNCHANGED asyncVars
    BY <2>2 DEF asyncVars, AP!vars, AP!state
  <2> QED
    BY <2>1, <2>2
<1>3. AP!IInv'
  BY NobodyCalls, <1>1, <1>2, AP!NextIInv
<1> QED
  BY <1>3
  DEF A!IInv, A!TypeOK, A!Control, A!Results, A!HasFrame, A!OneCallAtATime, A!Inside,
      A!ArmedOK, A!NestedOK, A!CallbackSound, A!NoLostWakeup, A!HandleOutlivesCalls, A!HoldsRef,
      AP!IInv, AP!TypeOK, AP!Control, AP!Results, AP!HasFrame, AP!OneCallAtATime, AP!Inside,
      AP!ArmedOK, AP!NestedOK, AP!CallbackSound, AP!NoLostWakeup, AP!HandleOutlivesCalls, AP!HoldsRef

LEMMA IterInductive ==
  ASSUME I!IInv, [I!Next]_iterVars
  PROVE  I!IInv'
<1>1. IP!IInv
  BY SameIter
<1>2. [IP!Next]_(IP!vars)
  BY SameIterNext DEF iterVars, IP!vars
<1>3. IP!IInv'
  BY DepthAssumption, MayBreakAssumption, MaxItemsAssumption, <1>1, <1>2, IP!NextIInv
<1> USE DEF I!Pending, I!Item, I!Done, I!Error, I!Outcomes, I!Promise, I!Uses, I!InSlot,
            IP!Pending, IP!Item, IP!Done, IP!Error, IP!Outcomes, IP!Promise, IP!Uses, IP!InSlot
<1>4. I!TypeOK'
  BY <1>3 DEF I!TypeOK, IP!TypeOK, IP!IInv
<1>5. I!SlotSound'
  BY <1>3 DEF I!SlotSound, IP!SlotSound, IP!IInv
<1>6. I!OneUser'
  BY <1>3 DEF I!OneUser, IP!OneUser, IP!IInv
<1>7. I!WaitedOnce'
  BY <1>3 DEF I!WaitedOnce, IP!WaitedOnce, IP!IInv
<1>8. I!SlotAsked'
  BY <1>3 DEF I!SlotAsked, IP!SlotAsked, I!AsksLast, IP!AsksLast, I!Unanswered, IP!Unanswered,
              IP!IInv
<1>9. I!Conservation'
  BY <1>3 DEF I!Conservation, IP!Conservation, I!Handed, IP!Handed, I!HeldBy, IP!HeldBy, IP!IInv
<1> QED
  BY <1>4, <1>5, <1>6, <1>7, <1>8, <1>9 DEF I!IInv

-----------------------------------------------------------------------------
(* The components take only their own steps. *)

LEMMA AsyncStep == [Next]_vars => A!Step \/ UNCHANGED asyncVars
<1> SUFFICES ASSUME [Next]_vars PROVE A!Step \/ UNCHANGED asyncVars
  OBVIOUS
<1>1. CASE PoolThread
  <2>1. CASE StartWork
    BY <2>1 DEF StartWork, A!Step
  <2>2. CASE SvnCallsBack
    BY <2>2 DEF SvnCallsBack, A!Step
  <2>3. CASE InOperatorCall
    BY <2>3 DEF InOperatorCall, A!Step, A!OperatorCall
  <2>4. CASE CallbackDone
    BY <2>4 DEF CallbackDone, A!Step, A!OperatorCall
  <2>5. ASSUME NEW r \in {"value", "svn_error"}, SvnReturns(r)
        PROVE  A!Step \/ UNCHANGED asyncVars
    BY <2>5 DEF SvnReturns, A!Step
  <2>6. CASE CommitInfoThrows
    BY <2>6 DEF CommitInfoThrows
  <2> QED
    BY <1>1, <2>1, <2>2, <2>3, <2>4, <2>5, <2>6 DEF PoolThread
<1>2. CASE LoopThread
  <2>1. CASE InvokeAsync
    BY <2>1 DEF InvokeAsync, A!Step, A!Loop
  <2>2. CASE CallbackReturns
    <3>1. (IF consume = "set" THEN "value" ELSE "unset") \in A!InnerStates
      BY DEF A!InnerStates, A!Results
    <3> QED
      BY <2>2, <3>1 DEF CallbackReturns, A!Step, A!Loop
  <2>3. CASE CallbackThrows
    BY <2>3 DEF CallbackThrows, A!Step, A!Loop
  <2>4. CASE DeleteHandle
    BY <2>4 DEF DeleteHandle, A!Step, A!Loop
  <2>5. CASE CallbackYields \/ AfterWork \/ AfterWorkEscapes
    BY <2>5 DEF CallbackYields, AfterWork, AfterWorkEscapes
  <2>6. CASE CallMethod \/ AfterWorkReturns
    BY <2>6 DEF CallMethod, AfterWorkReturns, DeleteWork, A!Step
  <2> QED
    BY <1>2, <2>1, <2>2, <2>3, <2>4, <2>5, <2>6 DEF LoopThread
<1>3. ASSUME NEW l \in Loops, JavaScript(l) PROVE A!Step \/ UNCHANGED asyncVars
  <2>1. A!Settle(Worker, "value") \/ UNCHANGED asyncVars
    BY <1>3 DEF JavaScript
  <2> QED
    BY <2>1 DEF A!Step, A!Consume, A!Results
<1>4. CASE UNCHANGED vars
  BY <1>4 DEF vars
<1> QED
  BY <1>1, <1>2, <1>3, <1>4 DEF Next

\* What the invariant says of the worker and of the slot, in the terms below.
LEMMA Worker_ ==
  ASSUME A!IInv, I!IInv
  PROVE  /\ executing \in {Worker, Nobody}
         /\ executing = Worker => pc[Worker] = "waiting" /\ promise[Worker] = "unset"
         /\ pc[Worker] = "idle" =>
               /\ ~running /\ ~pending /\ executing = Nobody
               /\ promise[Worker] = "none" /\ inner[Worker] = "none"
         /\ inner[Worker] # "none" => promise[Worker] = "value"
         /\ inner[Worker] = "unset" => pc[Worker] \in {"waiting", "nested"}
         /\ owned => handle = "open"
         /\ pc \in [{Worker} -> A!Control] /\ DOMAIN promise = {Worker}
         /\ DOMAIN inner = {Worker} /\ DOMAIN outcome = {Worker}
         /\ outcome[Worker] \in {"none", "busy", "abort", "value", "exception"}
         /\ fulfilled \in BOOLEAN /\ consume \in {"none", "unset", "set"}
         /\ (fulfilled <=> consume = "unset")
<1>1. /\ executing \in {Worker, Nobody}
      /\ pc \in [{Worker} -> A!Control] /\ DOMAIN promise = {Worker}
      /\ DOMAIN inner = {Worker} /\ DOMAIN outcome = {Worker}
      /\ outcome[Worker] \in {"none", "busy", "abort", "value", "exception"}
      /\ running \in BOOLEAN /\ pending \in BOOLEAN
      /\ (promise[Worker] # "none" <=> A!HasFrame(Worker))
      /\ inner[Worker] # "none" => promise[Worker] = "value"
  BY DEF A!IInv, A!TypeOK, A!Results
<1>2. executing = Worker => pc[Worker] = "waiting" /\ promise[Worker] = "unset"
  BY WorkerAssumption DEF A!IInv, A!CallbackSound
<1>3. inner[Worker] = "unset" => pc[Worker] \in {"waiting", "nested"}
  BY DEF A!IInv, A!NestedOK
<1>4. ASSUME pc[Worker] = "idle"
      PROVE  /\ ~running /\ ~pending /\ executing = Nobody
             /\ promise[Worker] = "none" /\ inner[Worker] = "none"
  <2>1. ~running
    BY <1>4 DEF A!IInv, A!OneCallAtATime, A!Inside
  <2>2. ~pending
    BY <1>1, <1>4 DEF A!IInv, A!CallbackSound
  <2>3. promise[Worker] = "none"
    BY <1>1, <1>4 DEF A!HasFrame
  <2> QED
    BY <1>1, <1>2, <1>4, <2>1, <2>2, <2>3
<1>5. owned => handle = "open"
  BY DEF A!IInv, A!HandleOutlivesCalls
<1>6. /\ fulfilled \in BOOLEAN /\ consume \in {"none", "unset", "set"}
      /\ (fulfilled <=> consume = "unset")
  BY DEF I!IInv, I!TypeOK, I!SlotSound
<1> QED
  BY <1>1, <1>2, <1>3, <1>4, <1>5, <1>6

\* The slot is free whenever the worker's callback or after_work resolves.
LEMMA SlotFree ==
  ASSUME IInv
  PROVE  Handshake
<1>1. A!IInv /\ I!IInv /\ SlotLinked
  BY DEF IInv
<1>2. pc[Worker] # "idle" <=> work = "callback"
  BY DEF IInv, TypeOK
<1>3. (executing = Worker /\ ~microtasks) \/ work = "worked" => ~fulfilled
  BY <1>1, <1>2, Worker_, WorkerAssumption DEF SlotLinked
<1>4. inner[Worker] = "unset" <=> consume = "unset" /\ promise[Worker] = "value"
  BY <1>1, <1>2, Worker_, WorkerAssumption DEF SlotLinked
<1> QED
  BY <1>3, <1>4 DEF Handshake

\* What a resolve(), its return and a step of a user do to the slot.
LEMMA Resolves ==
  ASSUME I!IInv, NEW o \in I!Outcomes, I!Resolve(o)
  PROVE  /\ ~fulfilled /\ ~microtasks /\ microtasks' /\ consume' \in {"unset", "set"}
         /\ sent \in Seq(I!Outcomes) /\ sent' = Append(sent, o)
         /\ sent' # <<>> /\ Len(sent') = Len(sent) + 1 /\ sent'[Len(sent')] = o
         /\ UNCHANGED got
<1>1. /\ ~fulfilled /\ ~microtasks /\ microtasks' /\ consume' \in {"unset", "set"}
      /\ sent' = Append(sent, o) /\ UNCHANGED got
  BY DEF I!Resolve, I!ResolveThrows, I!jsVars
<1>2. sent \in Seq(I!Outcomes)
  BY DEF I!IInv, I!TypeOK
<1>3. Len(sent) \in Nat /\ Len(sent') = Len(sent) + 1 /\ sent'[Len(sent) + 1] = o
  BY <1>1, <1>2, AppendProperties, LenProperties
<1> QED
  BY <1>1, <1>2, <1>3

LEMMA Consumes ==
  ASSUME NEW l \in Loops, I!JavaScript(l)
  PROVE  /\ UNCHANGED <<microtasks, sent>>
         /\ \/ UNCHANGED <<fulfilled, consume>>
            \/ fulfilled /\ ~fulfilled' /\ consume' = "set"
<1>1. CASE I!GetAsyncIterator(l)
  BY <1>1 DEF I!GetAsyncIterator
<1>2. CASE I!Next_(l)
  BY <1>2 DEF I!Next_
<1>3. CASE I!Receive(l) \/ I!Break(l)
  BY <1>3 DEF I!Receive, I!Break, I!iterVars
<1> QED
  BY <1>1, <1>2, <1>3 DEF I!JavaScript

LEMMA IterStep ==
  ASSUME IInv, [Next]_vars
  PROVE  [I!Next]_iterVars
<1>1. ASSUME NEW o, I!Resolve(o) PROVE consume # "unset"
  <2>1. ~fulfilled
    BY <1>1 DEF I!Resolve, I!ResolveThrows
  <2> QED
    BY <2>1, Worker_ DEF IInv
<1>2. CASE PoolThread
  BY <1>2 DEF PoolThread, StartWork, SvnCallsBack, CommitInfoThrows, InOperatorCall,
              CallbackDone, SvnReturns
<1>3. CASE LoopThread
  <2>1. CASE CallbackYields
    <3>1. work = "callback"
      BY <2>1, Worker_ DEF CallbackYields, IInv, TypeOK
    <3>2. ~I!Ended(sent)
      BY <3>1 DEF IInv, PhaseSound
    <3>3. I!Yield
      BY <2>1 DEF CallbackYields
    <3> QED
      BY <1>1, <3>2, <3>3 DEF I!Yield, I!Next, I!Producer
  <2>2. CASE AfterWork
    <3>1. ~I!Ended(sent)
      BY <2>2 DEF AfterWork, IInv, PhaseSound
    <3>2. I!End \/ I!Reject
      BY <2>2 DEF AfterWork
    <3> QED
      BY <1>1, <3>1, <3>2 DEF I!End, I!Reject, I!Next, I!Producer
  <2>3. CASE CallbackReturns \/ AfterWorkReturns
    BY <2>3 DEF CallbackReturns, AfterWorkReturns, I!Next
  <2>4. CASE CallMethod \/ InvokeAsync \/ CallbackThrows \/ AfterWorkEscapes \/ DeleteHandle
    BY <2>4 DEF CallMethod, InvokeAsync, CallbackThrows, AfterWorkEscapes, DeleteHandle
  <2> QED
    BY <1>3, <2>1, <2>2, <2>3, <2>4 DEF LoopThread
<1>4. ASSUME NEW l \in Loops, JavaScript(l) PROVE I!Next
  BY <1>4 DEF JavaScript, I!Next
<1>5. CASE UNCHANGED vars
  BY <1>5 DEF vars
<1> QED
  BY <1>2, <1>3, <1>4, <1>5 DEF Next

-----------------------------------------------------------------------------
(* The invariant is inductive. *)

\* The part of TypeOK that is not in the components' own.
WorkTypeOK ==
    /\ early \in BOOLEAN
    /\ work \in {"called", "refused", "queued", "svn", "callback", "worked", "ending",
                "deleted", "crashed"}
    /\ raised \in {"none", "other"}
    /\ verdict \in {"none", "value", "svn_error", "other", "unwound"}
    /\ reported \in 0 .. MaxItems
    /\ pc[Worker] # "idle" <=> work = "callback"

\* The invariants of the composition itself.
Linked ==
    /\ WorkTypeOK
    /\ SlotLinked
    /\ NoException
    /\ PhaseSound
    /\ AsyncHeld
    /\ Counted
    /\ EndsLast
    /\ NothingOutlivesWork
    /\ NoOwnEscape

LEMMA Split == IInv <=> A!IInv /\ I!IInv /\ Linked
BY DEF IInv, Linked, TypeOK, WorkTypeOK, A!IInv, I!IInv

LEMMA InitLinked == Init => Linked
<1> SUFFICES ASSUME Init PROVE Linked
  OBVIOUS
<1>1. /\ early \in BOOLEAN /\ work = "called" /\ raised = "none" /\ verdict = "none"
      /\ reported = 0 /\ pc[Worker] = "idle" /\ sent = <<>> /\ outcome[Worker] = "none"
      /\ promise[Worker] = "none" /\ inner[Worker] = "none" /\ ~owned
      /\ ~fulfilled /\ ~microtasks
  BY DEF Init, A!Init, I!Init
<1>2. WorkTypeOK /\ SlotLinked /\ NoException /\ PhaseSound
  BY <1>1, MaxItemsAssumption DEF WorkTypeOK, SlotLinked, NoException, PhaseSound, I!Ended
<1>3. AsyncHeld /\ Counted /\ EndsLast /\ NothingOutlivesWork /\ NoOwnEscape
  BY <1>1 DEF AsyncHeld, Counted, EndsLast, NothingOutlivesWork, NoOwnEscape
<1> QED
  BY <1>2, <1>3 DEF Linked

\* While the iteration has not ended, nothing sent is an end.
LEMMA NoneEnded ==
  ASSUME sent \in Seq(I!Outcomes), EndsLast, ~I!Ended(sent)
  PROVE  \A i \in DOMAIN sent : ~I!Terminal(sent[i])
<1> SUFFICES ASSUME NEW i \in DOMAIN sent, I!Terminal(sent[i]) PROVE FALSE
  OBVIOUS
<1>1. i = Len(sent) /\ sent # <<>>
  BY DEF EndsLast
<1> QED
  BY <1>1 DEF I!Ended

\* EndsLast when nothing is sent ...
LEMMA NothingSent ==
  ASSUME EndsLast, sent' = sent, reported' = reported
  PROVE  EndsLast'
BY DEF EndsLast, I!Terminal, I!Done, I!Error

\* ... and when an outcome is.
LEMMA Sends ==
  ASSUME sent \in Seq(I!Outcomes), EndsLast, ~I!Ended(sent), reported' = reported,
         NEW o \in I!Outcomes, sent' = Append(sent, o), o = I!Done => Len(sent) = reported
  PROVE  EndsLast' /\ (I!Ended(sent)' <=> I!Terminal(o))
<1>1. /\ Len(sent) \in Nat /\ Len(sent') = Len(sent) + 1 /\ DOMAIN sent' = 1 .. Len(sent) + 1
      /\ sent'[Len(sent')] = o /\ sent' # <<>> /\ DOMAIN sent = 1 .. Len(sent)
      /\ \A i \in DOMAIN sent : sent'[i] = sent[i]
  BY AppendProperties, LenProperties
<1>2. \A i \in DOMAIN sent : ~I!Terminal(sent[i])
  BY NoneEnded
<1>3. ASSUME NEW i \in DOMAIN sent'
      PROVE  /\ I!Terminal(sent'[i]) => i = Len(sent')
             /\ sent'[i] = I!Done => Len(sent') = reported' + 1
  <2>1. CASE i = Len(sent')
    BY <1>1, <2>1
  <2>2. CASE i # Len(sent')
    <3>1. i \in DOMAIN sent
      BY <1>1, <2>2
    <3> QED
      BY <1>1, <1>2, <3>1 DEF I!Terminal
  <2> QED
    BY <2>1, <2>2
<1>4. EndsLast'
  BY <1>3 DEF EndsLast, I!Terminal, I!Done, I!Error
<1> QED
  BY <1>1, <1>4 DEF I!Ended, I!Terminal, I!Done, I!Error

\* A step of the pool thread.
LEMMA PoolThreadLinked ==
  ASSUME IInv, A!IInv', Running, PoolThread, UNCHANGED early
  PROVE  Linked'
<1>1. /\ A!IInv /\ I!IInv /\ WorkTypeOK /\ SlotLinked /\ NoException /\ PhaseSound
      /\ AsyncHeld /\ Counted /\ EndsLast /\ NothingOutlivesWork /\ NoOwnEscape
  BY Split DEF Linked
<1>2. /\ executing \in {Worker, Nobody} /\ Nobody # Worker
      /\ executing = Worker => pc[Worker] = "waiting" /\ promise[Worker] = "unset"
      /\ pc[Worker] = "idle" =>
            /\ ~running /\ ~pending /\ executing = Nobody
            /\ promise[Worker] = "none" /\ inner[Worker] = "none"
      /\ inner[Worker] # "none" => promise[Worker] = "value"
      /\ inner[Worker] = "unset" => pc[Worker] \in {"waiting", "nested"}
      /\ owned => handle = "open"
      /\ DOMAIN pc = {Worker} /\ DOMAIN promise = {Worker}
      /\ DOMAIN inner = {Worker} /\ DOMAIN outcome = {Worker}
  BY <1>1, Worker_, WorkerAssumption
<1>3. UNCHANGED iterVars
  BY DEF PoolThread, StartWork, SvnCallsBack, CommitInfoThrows, InOperatorCall, CallbackDone,
         SvnReturns
<1>4. /\ fulfilled' = fulfilled /\ microtasks' = microtasks /\ consume' = consume
      /\ sent' = sent /\ (I!Ended(sent)' <=> I!Ended(sent)) /\ early' = early
  BY <1>3 DEF iterVars, I!Ended
<1>5. pc'[Worker] = "idle" => ~running' /\ ~pending' /\ executing' = Nobody
  <2> SUFFICES ASSUME pc'[Worker] = "idle"
               PROVE  ~running' /\ ~pending' /\ executing' = Nobody
    OBVIOUS
  <2>1. running' \in BOOLEAN /\ pending' \in BOOLEAN /\ executing' \in {Worker, Nobody}
    BY DEF A!IInv, A!TypeOK
  <2> QED
    BY <1>2, <2>1 DEF A!IInv, A!OneCallAtATime, A!Inside, A!CallbackSound
<1>6. sent \in Seq(I!Outcomes) /\ Len(sent) \in Nat
  BY <1>1, LenProperties DEF I!IInv, I!TypeOK
<1>7. CASE StartWork
  <2>1. /\ work = "queued" /\ raised' = raised /\ raised = "none" /\ pc' = pc
        /\ UNCHANGED <<executing, promise, inner, outcome, reported>>
        /\ \/ ~early /\ work' = "svn" /\ verdict' = verdict /\ owned'
           \/ /\ ~early /\ work' = "worked" /\ verdict' = "other"
              /\ handle = "none" /\ handle' = "freed" /\ owned' = owned
           \/ early /\ work' = "svn" /\ verdict' = verdict /\ owned' = owned
    BY <1>1, <1>7 DEF StartWork, A!Create, A!CreateFails, PhaseSound, asyncVars
  <2>2. pc[Worker] = "idle" /\ pc'[Worker] = "idle"
    BY <1>1, <2>1 DEF WorkTypeOK
  <2>3. WorkTypeOK' /\ SlotLinked'
    BY <1>1, <1>2, <1>4, <2>1, <2>2 DEF WorkTypeOK, SlotLinked
  <2>4. NoException'
    BY <1>1, <1>4, <2>1, <2>2 DEF NoException, PhaseSound, WorkTypeOK
  <2>5. PhaseSound' /\ NoOwnEscape'
    BY <1>1, <1>4, <2>1 DEF PhaseSound, NoOwnEscape
  <2>6. AsyncHeld' /\ NothingOutlivesWork'
    BY <1>1, <1>2, <1>4, <1>5, <2>1, <2>2 DEF AsyncHeld, NothingOutlivesWork
  <2>7. Counted'
    BY <1>1, <1>4, <2>1 DEF Counted, PhaseSound
  <2>8. EndsLast'
    BY <1>1, <1>4, <2>1, NothingSent
  <2> QED
    BY <2>3, <2>4, <2>5, <2>6, <2>7, <2>8 DEF Linked
<1>8. CASE SvnCallsBack
  <2>1. /\ work = "svn" /\ work' = "callback" /\ raised = "none"
        /\ UNCHANGED <<raised, verdict, executing, promise, inner, owned>>
        /\ reported' = reported + 1 /\ Len(sent) < MaxItems
        /\ pc[Worker] = "idle" /\ pc'[Worker] = "entered" /\ outcome'[Worker] = "none"
    BY <1>2, <1>8 DEF SvnCallsBack, A!Enter
  <2>2. Len(sent) = reported
    BY <1>1, <2>1 DEF Counted
  <2>3. WorkTypeOK' /\ SlotLinked'
    BY <1>1, <1>2, <1>4, <1>6, <2>1, <2>2, MaxItemsAssumption DEF WorkTypeOK, SlotLinked
  <2>4. NoException' /\ PhaseSound'
    BY <1>1, <1>4, <2>1 DEF NoException, PhaseSound
  <2>5. AsyncHeld' /\ NothingOutlivesWork' /\ NoOwnEscape'
    BY <1>1, <1>4, <2>1 DEF AsyncHeld, NothingOutlivesWork, NoOwnEscape
  <2>6. Counted'
    BY <1>2, <1>4, <2>1, <2>2 DEF Counted, Yielded
  <2>7. EndsLast'
    <3>1. \A i \in DOMAIN sent : ~I!Terminal(sent[i])
      BY <1>1, <1>6, <2>1, NoneEnded DEF PhaseSound
    <3> QED
      BY <1>4, <3>1 DEF EndsLast, I!Terminal, I!Done, I!Error
  <2> QED
    BY <2>3, <2>4, <2>5, <2>6, <2>7 DEF Linked
<1>9. CASE CommitInfoThrows
  <2>1. /\ early /\ work = "svn" /\ raised = "none" /\ raised' = raised
        /\ work' \in {"crashed", "worked"} /\ verdict' = "unwound"
        /\ UNCHANGED <<pc, executing, promise, inner, outcome, owned, handle, reported>>
    BY <1>9 DEF CommitInfoThrows, asyncVars
  <2>2. pc[Worker] = "idle" /\ pc'[Worker] = "idle"
    BY <1>1, <2>1 DEF WorkTypeOK
  <2>3. WorkTypeOK' /\ SlotLinked'
    BY <1>1, <1>2, <1>4, <2>1, <2>2 DEF WorkTypeOK, SlotLinked
  <2>4. NoException' /\ PhaseSound' /\ NoOwnEscape'
    BY <1>1, <1>4, <2>1, <2>2 DEF NoException, PhaseSound, NoOwnEscape
  <2>5. AsyncHeld' /\ NothingOutlivesWork'
    BY <1>1, <1>2, <1>4, <1>5, <2>1, <2>2 DEF AsyncHeld, NothingOutlivesWork
  <2>6. Counted'
    BY <2>1 DEF Counted
  <2>7. EndsLast'
    BY <1>1, <1>4, <2>1, NothingSent
  <2> QED
    BY <2>3, <2>4, <2>5, <2>6, <2>7 DEF Linked
<1>10. CASE InOperatorCall
  <2>1. UNCHANGED <<work, raised, verdict, reported, executing, owned>>
    BY <1>10 DEF InOperatorCall, workVars, A!Arm, A!Send, A!SendFails, A!Return, A!ReturnNested,
                A!Unwind
  <2>2. pc[Worker] # "idle" /\ pc'[Worker] # "idle"
    BY <1>2, <1>10 DEF InOperatorCall, A!Arm, A!Send, A!SendFails, A!Return, A!ReturnNested,
                A!Unwind
  <2>3. work = "callback"
    BY <1>1, <2>2 DEF WorkTypeOK
  <2>4. /\ promise'[Worker] \in {"none", "unset", promise[Worker]}
        /\ inner'[Worker] \in {"none", inner[Worker]}
        /\ outcome'[Worker] \in {outcome[Worker], "abort", promise[Worker], inner[Worker]}
        /\ inner[Worker] = "unset" => inner'[Worker] = "unset"
    <3>1. CASE A!Arm(Worker)
      BY <1>2, <3>1 DEF A!Arm
    <3>2. CASE A!Send(Worker) \/ A!SendFails(Worker)
      BY <1>2, <3>2 DEF A!Send, A!SendFails
    <3>3. CASE A!Return(Worker)
      BY <1>2, <3>3 DEF A!Return
    <3>4. CASE A!ReturnNested(Worker)
      BY <1>2, <3>4 DEF A!ReturnNested
    <3>5. CASE A!Unwind(Worker)
      BY <1>2, <3>5 DEF A!Unwind
    <3> QED
      BY <1>10, <3>1, <3>2, <3>3, <3>4, <3>5 DEF InOperatorCall
  <2>5. /\ outcome'[Worker] \in {"none", "value", "abort"}
        /\ pc'[Worker] \in {"entered", "armed", "waiting", "nested"} => outcome'[Worker] = "none"
        /\ pc'[Worker] \in {"unwinding", "dropping"} => outcome'[Worker] # "none"
        /\ pc'[Worker] = "unwinding" /\ promise'[Worker] = "value" => outcome'[Worker] = "value"
    <3>1. CASE A!Arm(Worker)
      BY <1>1, <1>2, <3>1 DEF A!Arm, NoException
    <3>2. CASE A!Send(Worker)
      BY <1>1, <1>2, <3>2 DEF A!Send, NoException
    <3>3. CASE A!SendFails(Worker)
      <4>1. pc[Worker] = "armed" /\ promise' = promise /\ outcome'[Worker] = "abort"
            /\ pc'[Worker] = "unwinding"
        BY <1>2, <3>3 DEF A!SendFails
      <4>2. promise[Worker] # "value"
        BY <1>1, <4>1 DEF A!IInv, A!ArmedOK
      <4> QED
        BY <4>1, <4>2
    <3>4. CASE A!Return(Worker)
      BY <1>1, <1>2, <3>4 DEF A!Return, A!Results, NoException
    <3>5. CASE A!ReturnNested(Worker)
      BY <1>1, <1>2, <3>5 DEF A!ReturnNested, A!Results, NoException
    <3>6. CASE A!Unwind(Worker)
      BY <1>1, <1>2, <3>6 DEF A!Unwind, NoException
    <3> QED
      BY <1>10, <3>1, <3>2, <3>3, <3>4, <3>5, <3>6 DEF InOperatorCall
  <2>6. WorkTypeOK' /\ SlotLinked'
    BY <1>1, <1>2, <1>4, <2>1, <2>2, <2>3, <2>4 DEF WorkTypeOK, SlotLinked
  <2>7. NoException'
    BY <1>1, <2>1, <2>3, <2>4, <2>5 DEF NoException, PhaseSound
  <2>8. PhaseSound'
    BY <1>1, <1>4, <2>1, <2>3 DEF PhaseSound
  <2>9. AsyncHeld' /\ NothingOutlivesWork' /\ NoOwnEscape'
    BY <1>1, <1>4, <2>1, <2>3 DEF AsyncHeld, NothingOutlivesWork, NoOwnEscape
  <2>10. Yielded' <=> Yielded
    <3>1. CASE A!Arm(Worker)
      <4>1. pc[Worker] = "entered" /\ promise[Worker] # "value" /\ promise'[Worker] = "unset"
            /\ outcome' = outcome
        BY <1>1, <1>2, <3>1 DEF A!Arm, A!IInv, A!TypeOK, A!HasFrame
      <4> QED
        BY <1>4, <2>1, <4>1 DEF Yielded
    <3>2. CASE A!Send(Worker)
      BY <1>4, <2>1, <3>2 DEF A!Send, Yielded
    <3>3. CASE A!SendFails(Worker)
      <4>1. pc[Worker] = "armed" /\ promise' = promise /\ outcome'[Worker] = "abort"
        BY <1>2, <3>3 DEF A!SendFails
      <4>2. outcome[Worker] # "value"
        BY <1>1, <4>1 DEF NoException
      <4> QED
        BY <1>4, <2>1, <4>1, <4>2 DEF Yielded
    <3>4. CASE A!Return(Worker) \/ A!ReturnNested(Worker)
      <4>1. /\ promise[Worker] \in {"value", "exception"} /\ promise' = promise
        BY <1>1, <1>2, <3>4 DEF A!Return, A!ReturnNested, A!Results, A!IInv, A!TypeOK
      <4>2. promise[Worker] = "value"
        BY <1>1, <4>1 DEF NoException
      <4> QED
        BY <4>1, <4>2 DEF Yielded
    <3>5. CASE A!Unwind(Worker)
      <4>1. pc[Worker] = "unwinding" /\ promise'[Worker] = "none" /\ outcome' = outcome
        BY <1>2, <3>5 DEF A!Unwind
      <4>2. promise[Worker] = "value" => outcome[Worker] = "value"
        BY <1>1, <4>1 DEF NoException
      <4> QED
        BY <1>2, <1>4, <2>1, <4>1, <4>2 DEF Yielded
    <3> QED
      BY <1>10, <3>1, <3>2, <3>3, <3>4, <3>5 DEF InOperatorCall
  <2>11. Counted'
    BY <1>1, <1>4, <2>1, <2>3, <2>10 DEF Counted
  <2>12. EndsLast'
    BY <1>1, <1>4, <2>1, NothingSent
  <2> QED
    BY <2>6, <2>7, <2>8, <2>9, <2>11, <2>12 DEF Linked
<1>11. CASE CallbackDone
  <2>1. /\ pc[Worker] = "dropping" /\ pc'[Worker] = "idle" /\ work' = "svn"
        /\ raised' = IF outcome[Worker] = "value" THEN "none" ELSE "other"
        /\ UNCHANGED <<verdict, reported, executing, promise, inner, outcome, owned>>
    BY <1>2, <1>11 DEF CallbackDone, A!DropRef
  <2>2. work = "callback"
    BY <1>1, <2>1 DEF WorkTypeOK
  <2>3. WorkTypeOK' /\ SlotLinked'
    BY <1>1, <1>2, <1>4, <2>1, <2>2 DEF WorkTypeOK, SlotLinked
  <2>4. outcome[Worker] # "none"
    BY <1>1, <2>1 DEF NoException
  <2>5. NoException'
    BY <1>1, <2>1, <2>2, <2>4 DEF NoException
  <2>6. PhaseSound'
    BY <1>1, <1>4, <2>1, <2>2 DEF PhaseSound
  <2>7. AsyncHeld' /\ NothingOutlivesWork' /\ NoOwnEscape'
    BY <1>1, <1>4, <2>1, <2>2 DEF AsyncHeld, NothingOutlivesWork, NoOwnEscape
  <2>8. Counted'
    BY <1>1, <1>4, <1>6, <2>1, <2>2 DEF Counted, Yielded
  <2>9. EndsLast'
    BY <1>1, <1>4, <2>1, NothingSent
  <2> QED
    BY <2>3, <2>5, <2>6, <2>7, <2>8, <2>9 DEF Linked
<1>12. ASSUME NEW r \in {"value", "svn_error"}, SvnReturns(r) PROVE Linked'
  <2>1. /\ work = "svn" /\ work' = "worked" /\ raised' = raised
        /\ verdict' = IF raised # "none" THEN raised ELSE r
        /\ pc' = pc /\ UNCHANGED <<executing, promise, inner, outcome, reported>>
    BY <1>12 DEF SvnReturns, Verdict, A!Release, asyncVars
  <2>2. pc[Worker] = "idle" /\ pc'[Worker] = "idle"
    BY <1>1, <2>1 DEF WorkTypeOK
  <2>3. IF early THEN owned' = owned /\ handle' = handle ELSE ~owned' /\ handle' = "closing"
    BY <1>12, <2>2 DEF SvnReturns, A!Release, A!CloseIfLast, A!HoldsRef, asyncVars
  <2>4. WorkTypeOK' /\ SlotLinked'
    BY <1>1, <1>2, <1>4, <1>12, <2>1, <2>2 DEF WorkTypeOK, SlotLinked
  <2>5. NoException'
    BY <1>1, <1>4, <1>12, <2>1 DEF NoException, WorkTypeOK
  <2>6. PhaseSound' /\ NoOwnEscape'
    BY <1>1, <1>4, <1>12, <2>1 DEF PhaseSound, NoOwnEscape, WorkTypeOK
  <2>7. AsyncHeld' /\ NothingOutlivesWork'
    BY <1>1, <1>2, <1>4, <1>5, <2>1, <2>2, <2>3 DEF AsyncHeld, NothingOutlivesWork
  <2>8. Counted'
    BY <1>1, <1>4, <2>1 DEF Counted, WorkTypeOK
  <2>9. EndsLast'
    BY <1>1, <1>4, <2>1, NothingSent
  <2> QED
    BY <2>4, <2>5, <2>6, <2>7, <2>8, <2>9 DEF Linked
<1> QED
  BY <1>7, <1>8, <1>9, <1>10, <1>11, <1>12 DEF PoolThread

\* A step of the loop thread.
LEMMA LoopThreadLinked ==
  ASSUME IInv, A!IInv', Running, LoopThread, UNCHANGED early
  PROVE  Linked'
<1>1. /\ A!IInv /\ I!IInv /\ WorkTypeOK /\ SlotLinked /\ NoException /\ PhaseSound
      /\ AsyncHeld /\ Counted /\ EndsLast /\ NothingOutlivesWork /\ NoOwnEscape
  BY Split DEF Linked
<1>2. /\ executing \in {Worker, Nobody} /\ Nobody # Worker
      /\ executing = Worker => pc[Worker] = "waiting" /\ promise[Worker] = "unset"
      /\ pc[Worker] = "idle" =>
            /\ ~running /\ ~pending /\ executing = Nobody
            /\ promise[Worker] = "none" /\ inner[Worker] = "none"
      /\ inner[Worker] # "none" => promise[Worker] = "value"
      /\ inner[Worker] = "unset" => pc[Worker] \in {"waiting", "nested"}
      /\ owned => handle = "open"
      /\ consume \in {"none", "unset", "set"} /\ (fulfilled <=> consume = "unset")
      /\ DOMAIN promise = {Worker} /\ DOMAIN inner = {Worker}
  BY <1>1, Worker_, WorkerAssumption
<1>3. executing = Worker => work = "callback"
  BY <1>1, <1>2 DEF WorkTypeOK
<1>4. (executing = Worker /\ ~microtasks) \/ work = "worked" => ~fulfilled
  BY SlotFree DEF Handshake
<1>5. ASSUME sent' = sent PROVE I!Ended(sent)' <=> I!Ended(sent)
  BY <1>5 DEF I!Ended
<1>6. sent \in Seq(I!Outcomes) /\ Len(sent) \in Nat
  BY <1>1, LenProperties DEF I!IInv, I!TypeOK
<1>7. CASE CallMethod
  <2>1. /\ work = "called" /\ UNCHANGED <<raised, verdict, reported, iterVars, pc, running, pending>>
        /\ UNCHANGED <<executing, promise, inner, outcome>>
        /\ \/ ~early /\ work' = "queued" /\ owned' = owned
           \/ early /\ work' = "queued" /\ owned'
           \/ early /\ work' = "refused" /\ owned' = owned
    BY <1>7 DEF CallMethod, A!Create, A!CreateFails, asyncVars
  <2>2. WorkTypeOK' /\ SlotLinked'
    BY <1>1, <2>1 DEF WorkTypeOK, SlotLinked, iterVars
  <2>3. NoException' /\ PhaseSound' /\ NoOwnEscape'
    BY <1>1, <1>5, <2>1 DEF NoException, PhaseSound, NoOwnEscape, iterVars
  <2>4. AsyncHeld' /\ NothingOutlivesWork' /\ Counted'
    BY <1>1, <2>1 DEF AsyncHeld, NothingOutlivesWork, Counted
  <2>5. EndsLast'
    BY <1>1, <2>1, NothingSent DEF iterVars
  <2> QED
    BY <2>2, <2>3, <2>4, <2>5 DEF Linked
<1>8. CASE InvokeAsync
  <2>1. /\ executing' \in {Worker, Nobody} /\ ~microtasks
        /\ UNCHANGED <<pc, promise, inner, outcome, handle, owned, running, iterVars, workVars>>
        /\ pc[Worker] # "idle"
    <3>1. pending /\ UNCHANGED <<pc, promise, inner, outcome, handle, owned, running>>
      BY <1>8 DEF InvokeAsync, A!InvokeAsync
    <3>2. executing' \in {Worker, Nobody}
      BY DEF A!IInv, A!TypeOK
    <3> QED
      BY <1>2, <1>8, <3>1, <3>2 DEF InvokeAsync, LoopFree
  <2>2. work = "callback"
    BY <1>1, <2>1 DEF WorkTypeOK
  <2>3. WorkTypeOK' /\ SlotLinked'
    BY <1>1, <2>1 DEF WorkTypeOK, SlotLinked, iterVars, workVars
  <2>4. NoException' /\ PhaseSound' /\ NoOwnEscape'
    BY <1>1, <1>5, <2>1 DEF NoException, PhaseSound, NoOwnEscape, iterVars, workVars
  <2>5. AsyncHeld' /\ NothingOutlivesWork'
    BY <1>1, <2>1, <2>2 DEF AsyncHeld, NothingOutlivesWork, workVars
  <2>6. Counted'
    BY <1>1, <2>1 DEF Counted, Yielded, iterVars, workVars
  <2>7. EndsLast'
    BY <1>1, <2>1, NothingSent DEF iterVars, workVars
  <2> QED
    BY <2>3, <2>4, <2>5, <2>6, <2>7 DEF Linked
<1>9. CASE CallbackYields
  <2>1. executing = Worker /\ I!Yield /\ UNCHANGED <<workVars, asyncVars>>
    BY <1>9 DEF CallbackYields
  <2>2. I!Item(Len(sent) + 1) \in I!Outcomes
    <3>1. Len(sent) + 1 \in 1..MaxItems
      BY <1>6, <2>1, MaxItemsAssumption DEF I!Yield
    <3> QED
      BY <3>1 DEF I!Outcomes
  <2>3. /\ microtasks' /\ ~microtasks /\ consume' \in {"unset", "set"}
        /\ sent' = Append(sent, I!Item(Len(sent) + 1)) /\ Len(sent') = Len(sent) + 1
    BY <1>1, <2>1, <2>2, Resolves DEF I!Yield
  <2>4. ~I!Terminal(I!Item(Len(sent) + 1)) /\ I!Item(Len(sent) + 1) # I!Done
    BY DEF I!Terminal, I!Item, I!Done, I!Error
  <2>5. work = "callback" /\ inner[Worker] # "unset" /\ promise[Worker] = "unset"
        /\ outcome[Worker] = "none"
    BY <1>1, <1>2, <1>3, <2>1 DEF NoException
  <2>6. EndsLast' /\ ~I!Ended(sent)'
    <3>1. ~I!Ended(sent)
      BY <1>1, <2>5 DEF PhaseSound
    <3> QED
      BY <1>1, <1>6, <2>1, <2>2, <2>3, <2>4, <3>1, Sends DEF workVars
  <2>7. WorkTypeOK' /\ SlotLinked'
    BY <1>1, <2>1, <2>3, <2>5 DEF WorkTypeOK, SlotLinked, workVars, asyncVars
  <2>8. NoException' /\ PhaseSound'
    BY <1>1, <2>1, <2>5, <2>6 DEF NoException, PhaseSound, workVars, asyncVars
  <2>9. AsyncHeld' /\ NothingOutlivesWork' /\ NoOwnEscape'
    BY <1>1, <2>1, <2>5 DEF AsyncHeld, NothingOutlivesWork, NoOwnEscape, workVars, asyncVars
  <2>10. Counted'
    <3>1. reported = Len(sent) + 1
      BY <1>1, <2>3, <2>5 DEF Counted, Yielded
    <3>2. Yielded'
      BY <2>1, <2>3 DEF Yielded, asyncVars
    <3> QED
      BY <1>6, <2>1, <2>3, <2>5, <3>1, <3>2 DEF Counted, workVars
  <2> QED
    BY <2>6, <2>7, <2>8, <2>9, <2>10 DEF Linked
<1>10. CASE CallbackReturns
  <2>1. /\ executing = Worker /\ microtasks /\ microtasks' = FALSE /\ executing' = Nobody
        /\ UNCHANGED <<fulfilled, consume, sent, workVars, pc, outcome, handle, owned, running>>
        /\ promise'[Worker] = "value"
        /\ inner'[Worker] = IF consume = "set" THEN "value" ELSE "unset"
    BY <1>2, <1>10 DEF CallbackReturns, I!ResolveReturns, A!CallbackReturns
  <2>2. work = "callback" /\ inner[Worker] # "unset" /\ pc[Worker] = "waiting"
    BY <1>2, <1>3, <2>1
  <2>3. consume # "none"
    BY <1>1, <2>1 DEF SlotLinked
  <2>4. WorkTypeOK' /\ SlotLinked'
    BY <1>1, <1>2, <2>1, <2>2, <2>3 DEF WorkTypeOK, SlotLinked, workVars
  <2>5. NoException' /\ PhaseSound'
    BY <1>1, <1>5, <2>1, <2>2 DEF NoException, PhaseSound, workVars
  <2>6. AsyncHeld' /\ NothingOutlivesWork' /\ NoOwnEscape'
    BY <1>1, <2>1, <2>2 DEF AsyncHeld, NothingOutlivesWork, NoOwnEscape, workVars
  <2>7. Counted'
    BY <1>1, <2>1, <2>2 DEF Counted, Yielded, workVars
  <2>8. EndsLast'
    BY <1>1, <2>1, NothingSent DEF workVars
  <2> QED
    BY <2>4, <2>5, <2>6, <2>7, <2>8 DEF Linked
<1>11. ~CallbackThrows
  BY <1>4 DEF CallbackThrows, I!ResolveThrows
<1>12. CASE AfterWork
  <2>1. /\ work = "worked" /\ work' = "ending" /\ UNCHANGED <<raised, verdict, reported, asyncVars>>
    BY <1>12 DEF AfterWork
  <2>2. PICK o \in {I!Done, I!Error} :
           I!Resolve(o) /\ (o = I!Done => verdict = "value") /\ verdict \in {"value", "svn_error"}
    BY <1>12 DEF AfterWork, I!End, I!Reject, I!Done, I!Error
  <2>3. /\ o \in I!Outcomes /\ microtasks' /\ consume' # "none"
        /\ sent' = Append(sent, o)
    <3>1. o \in I!Outcomes
      BY DEF I!Outcomes
    <3> QED
      BY <1>1, <2>2, <3>1, Resolves
  <2>4. WorkTypeOK'
    BY <1>1, <2>1 DEF WorkTypeOK, asyncVars
  <2>5. pc[Worker] = "idle" /\ inner[Worker] # "unset"
    BY <1>1, <1>2, <2>1 DEF WorkTypeOK
  <2>6. SlotLinked'
    BY <2>1, <2>3, <2>5 DEF SlotLinked, asyncVars
  <2>7. NoException' /\ PhaseSound' /\ NoOwnEscape'
    BY <1>1, <2>1, <2>2 DEF NoException, PhaseSound, NoOwnEscape, asyncVars
  <2>8. AsyncHeld' /\ NothingOutlivesWork' /\ Counted'
    BY <1>1, <2>1 DEF AsyncHeld, NothingOutlivesWork, Counted, asyncVars
  <2>9. EndsLast'
    <3>1. o = I!Done => Len(sent) = reported
      BY <1>1, <2>1, <2>2 DEF Counted
    <3>2. ~I!Ended(sent)
      BY <1>1, <2>1 DEF PhaseSound
    <3> QED
      BY <1>1, <1>6, <2>1, <2>3, <3>1, <3>2, Sends
  <2> QED
    BY <2>4, <2>6, <2>7, <2>8, <2>9 DEF Linked
<1>13. CASE AfterWorkEscapes
  <2>1. /\ work = "worked" /\ work' = "crashed" /\ ~microtasks
        /\ verdict \in {"other", "unwound"}
        /\ UNCHANGED <<raised, verdict, reported, asyncVars, iterVars>>
    BY <1>4, <1>13 DEF AfterWorkEscapes, LoopFree, I!ResolveThrows
  <2>2. WorkTypeOK' /\ SlotLinked'
    BY <1>1, <2>1 DEF WorkTypeOK, SlotLinked, asyncVars, iterVars
  <2>3. NoException' /\ NoOwnEscape'
    BY <1>1, <2>1 DEF NoException, NoOwnEscape, asyncVars, iterVars
  <2>4. PhaseSound'
    BY <1>1, <1>5, <2>1 DEF PhaseSound, asyncVars, iterVars
  <2>5. AsyncHeld' /\ NothingOutlivesWork' /\ Counted'
    BY <1>1, <2>1 DEF AsyncHeld, NothingOutlivesWork, Counted, asyncVars
  <2>6. EndsLast'
    BY <1>1, <2>1, NothingSent DEF iterVars
  <2> QED
    BY <2>2, <2>3, <2>4, <2>5, <2>6 DEF Linked
<1>14. CASE AfterWorkReturns
  <2>1. /\ work = "ending" /\ work' = "deleted" /\ microtasks' = FALSE
        /\ UNCHANGED <<raised, verdict, reported, fulfilled, consume, sent>>
        /\ UNCHANGED <<pc, running, pending, executing, promise, inner, outcome>>
    BY <1>14 DEF AfterWorkReturns, DeleteWork, I!ResolveReturns, A!Release, asyncVars
  <2>2. pc[Worker] = "idle"
    BY <1>1, <2>1 DEF WorkTypeOK
  <2>3. IF early THEN ~owned' /\ handle' = "closing" ELSE owned' = owned /\ handle' = handle
    BY <1>14, <2>2 DEF AfterWorkReturns, DeleteWork, A!Release, A!CloseIfLast, A!HoldsRef, asyncVars
  <2>4. WorkTypeOK' /\ SlotLinked'
    BY <1>1, <2>1 DEF WorkTypeOK, SlotLinked
  <2>5. NoException' /\ PhaseSound' /\ NoOwnEscape'
    BY <1>1, <1>5, <2>1 DEF NoException, PhaseSound, NoOwnEscape
  <2>6. AsyncHeld' /\ NothingOutlivesWork'
    BY <1>1, <1>2, <2>1, <2>2, <2>3 DEF AsyncHeld, NothingOutlivesWork
  <2>7. Counted'
    BY <2>1 DEF Counted
  <2>8. EndsLast'
    BY <1>1, <2>1, NothingSent
  <2> QED
    BY <2>4, <2>5, <2>6, <2>7, <2>8 DEF Linked
<1>15. CASE DeleteHandle
  <2>1. /\ handle = "closing" /\ handle' = "freed"
        /\ UNCHANGED <<pc, running, pending, executing, promise, inner, outcome, owned>>
        /\ UNCHANGED <<iterVars, workVars>>
    BY <1>15 DEF DeleteHandle, A!DeleteHandle
  <2>2. WorkTypeOK' /\ SlotLinked'
    BY <1>1, <2>1 DEF WorkTypeOK, SlotLinked, iterVars, workVars
  <2>3. NoException' /\ PhaseSound' /\ NoOwnEscape'
    BY <1>1, <1>5, <2>1
    DEF NoException, PhaseSound, NoOwnEscape, iterVars, workVars
  <2>4. AsyncHeld' /\ NothingOutlivesWork'
    BY <1>1, <2>1 DEF AsyncHeld, NothingOutlivesWork, workVars
  <2>5. Counted'
    BY <1>1, <2>1 DEF Counted, Yielded, iterVars, workVars
  <2>6. EndsLast'
    BY <1>1, <2>1, NothingSent DEF iterVars, workVars
  <2> QED
    BY <2>2, <2>3, <2>4, <2>5, <2>6 DEF Linked
<1> QED
  BY <1>7, <1>8, <1>9, <1>10, <1>11, <1>12, <1>13, <1>14, <1>15 DEF LoopThread

\* A step of a user of the iterable.
LEMMA JavaScriptLinked ==
  ASSUME IInv, A!IInv', Running, NEW l \in Loops, JavaScript(l), UNCHANGED early
  PROVE  Linked'
<1>1. /\ A!IInv /\ I!IInv /\ WorkTypeOK /\ SlotLinked /\ NoException /\ PhaseSound
      /\ AsyncHeld /\ Counted /\ EndsLast /\ NothingOutlivesWork /\ NoOwnEscape
  BY Split DEF Linked
<1>2. /\ consume \in {"none", "unset", "set"} /\ (fulfilled <=> consume = "unset")
      /\ DOMAIN inner = {Worker}
  BY <1>1, Worker_
<1>3. /\ UNCHANGED <<microtasks, sent>>
      /\ \/ UNCHANGED <<fulfilled, consume>>
         \/ fulfilled /\ ~fulfilled' /\ consume' = "set"
  BY Consumes DEF JavaScript
<1>4. /\ UNCHANGED <<pc, running, pending, executing, promise, outcome, owned, handle>>
      /\ UNCHANGED <<work, raised, verdict, reported>>
      /\ \/ inner[Worker] = "unset" /\ consume' = "set" /\ inner'[Worker] = "value"
         \/ ~(inner[Worker] = "unset" /\ consume' = "set") /\ inner' = inner
  BY <1>2 DEF JavaScript, A!Settle, asyncVars, workVars
<1>5. I!Ended(sent)' <=> I!Ended(sent)
  BY <1>3 DEF I!Ended
<1>6. WorkTypeOK' /\ SlotLinked'
  BY <1>1, <1>2, <1>3, <1>4 DEF WorkTypeOK, SlotLinked
<1>7. NoException' /\ PhaseSound'
  BY <1>1, <1>3, <1>4, <1>5 DEF NoException, PhaseSound
<1>8. AsyncHeld' /\ NothingOutlivesWork' /\ NoOwnEscape'
  BY <1>1, <1>3, <1>4 DEF AsyncHeld, NothingOutlivesWork, NoOwnEscape
<1>9. Counted'
  BY <1>1, <1>3, <1>4 DEF Counted, Yielded
<1>10. EndsLast'
  BY <1>1, <1>3, <1>4, NothingSent
<1> QED
  BY <1>6, <1>7, <1>8, <1>9, <1>10 DEF Linked

LEMMA NextIInv == IInv /\ [Next]_vars => IInv'
<1> SUFFICES ASSUME IInv, [Next]_vars PROVE IInv'
  OBVIOUS
<1>1. A!IInv'
  BY AsyncStep, AsyncInductive DEF IInv
<1>2. I!IInv'
  BY IterStep, IterInductive DEF IInv
<1>3. Linked'
  <2>1. CASE Running /\ PoolThread /\ UNCHANGED early
    BY <1>1, <2>1, PoolThreadLinked
  <2>2. CASE Running /\ LoopThread /\ UNCHANGED early
    BY <1>1, <2>2, LoopThreadLinked
  <2>3. ASSUME Running, NEW l \in Loops, JavaScript(l), UNCHANGED early PROVE Linked'
    BY <1>1, <2>3, JavaScriptLinked
  <2>4. CASE UNCHANGED vars
    <3>1. Linked
      BY Split
    <3>2. /\ UNCHANGED <<early, work, raised, verdict, reported, pc, running, pending, executing>>
          /\ UNCHANGED <<promise, inner, outcome, owned, handle, fulfilled, consume, microtasks>>
          /\ sent' = sent /\ (I!Ended(sent)' <=> I!Ended(sent))
      BY <2>4 DEF vars, asyncVars, iterVars, workVars, I!Ended
    <3>3. WorkTypeOK' /\ SlotLinked' /\ NoException' /\ PhaseSound'
      BY <3>1, <3>2 DEF Linked, WorkTypeOK, SlotLinked, NoException, PhaseSound
    <3>4. AsyncHeld' /\ Counted' /\ NothingOutlivesWork' /\ NoOwnEscape'
      BY <3>1, <3>2 DEF Linked, AsyncHeld, Counted, Yielded, NothingOutlivesWork, NoOwnEscape
    <3>5. EndsLast'
      BY <3>1, <3>2, NothingSent DEF Linked
    <3> QED
      BY <3>3, <3>4, <3>5 DEF Linked
  <2> QED
    BY <2>1, <2>2, <2>3, <2>4 DEF Next
<1> QED
  BY <1>1, <1>2, <1>3 DEF IInv, Linked, TypeOK, WorkTypeOK, A!IInv, I!IInv

LEMMA InitIInv == Init => IInv
<1> SUFFICES ASSUME Init PROVE IInv
  OBVIOUS
<1>1. A!IInv
  <2>1. AP!Init
    BY SameAsyncInit DEF Init
  <2> QED
    BY <2>1, NobodyCalls, AP!InitIInv, SameAsync
<1>2. I!IInv
  <2>1. IP!Init
    BY DEF Init, I!Init, IP!Init
  <2> QED
    BY <2>1, DepthAssumption, MayBreakAssumption, MaxItemsAssumption, IP!InitIInv, SameIter
<1> QED
  BY <1>1, <1>2, InitLinked, Split

-----------------------------------------------------------------------------
(* The results. *)

\* Everything below is a consequence of the inductive invariant.
THEOREM Invariance == Spec => []IInv
BY InitIInv, NextIInv, PTL DEF Spec

\* The state of a call of an iterable method is well formed, and the worker is
\* inside operator() exactly while Subversion waits for its callback.
THEOREM TypeCorrect == Spec => []TypeOK
<1>1. IInv => TypeOK
  BY DEF IInv
<1> QED
  BY <1>1, Invariance, PTL

\* yield(), end() and reject() never find the slot taken (iterable.hpp:104-106).
THEOREM HandshakeHolds == Spec => []Handshake
<1>1. IInv => Handshake
  BY SlotFree
<1> QED
  BY <1>1, Invariance, PTL

\* No exception of the handshake leaves after_work: what does is a failure of
\* libuv or a commit info that could not be converted.
THEOREM NothingOwnEscapes == Spec => []NoOwnEscape
<1>1. IInv => NoOwnEscape
  BY DEF IInv
<1> QED
  BY <1>1, Invariance, PTL

\* Once the work has returned nobody uses its async; it is closed then, or for
\* remove with the work itself.
THEOREM AsyncUnusedAfterWork == Spec => []NothingOutlivesWork
<1>1. IInv => NothingOutlivesWork
  BY DEF IInv
<1> QED
  BY <1>1, Invariance, PTL

\* A loop that is told the end has received every item Subversion reported.
THEOREM EndIsComplete == Spec => []EndMeansComplete
<1>1. ASSUME IInv PROVE EndMeansComplete
  <2> SUFFICES ASSUME NEW l \in Loops, got[l] # <<>>, got[l][Len(got[l])] = I!Done
               PROVE  Len(got[l]) = reported + 1
    BY DEF EndMeansComplete
  <2>1. I!TypeOK /\ I!OneUser /\ I!Conservation /\ EndsLast
    BY <1>1 DEF IInv, I!IInv
  <2>2. I!Uses(l)
    BY <2>1 DEF I!OneUser
  <2>3. /\ Len(got[l]) <= Len(sent) - I!InSlot
        /\ \A i \in DOMAIN got[l] : sent[i] = got[l][i]
    BY <2>1, <2>2 DEF I!Conservation
  <2>4. got[l] \in Seq(I!Outcomes) /\ sent \in Seq(I!Outcomes)
    BY <2>1 DEF I!TypeOK
  <2>5. Len(got[l]) \in 1 .. Len(got[l]) /\ DOMAIN got[l] = 1 .. Len(got[l])
        /\ Len(sent) \in Nat /\ DOMAIN sent = 1 .. Len(sent)
    BY <2>4, EmptySeq, LenProperties
  <2>6. Len(got[l]) \in DOMAIN sent
    <3>1. Len(sent) - I!InSlot <= Len(sent)
      BY <2>5 DEF I!InSlot
    <3>2. Len(got[l]) \in Nat /\ I!InSlot \in Nat
      BY <2>4, LenProperties DEF I!InSlot
    <3> HIDE DEF I!InSlot
    <3>3. Len(got[l]) <= Len(sent) /\ 1 <= Len(got[l])
      BY <2>3, <2>5, <3>1, <3>2
    <3> QED
      BY <2>5, <3>2, <3>3
  <2>7. sent[Len(got[l])] = I!Done
    BY <2>3, <2>5
  <2> QED
    BY <2>1, <2>6, <2>7 DEF EndsLast, I!Terminal
<1> QED
  BY <1>1, Invariance, PTL

\* The worker and after_work keep the producer's protocol: seen from the
\* iterable, the call only takes steps of Iterable.
THEOREM IterableRefinement == Spec => ImplementsIterable
<1>1. Init => I!Init
  BY DEF Init
<1>2. IInv /\ [Next]_vars => [I!Next]_(I!vars)
  <2>1. ASSUME IInv, [Next]_vars PROVE [I!Next]_(I!vars)
    BY <2>1, IterStep DEF iterVars, I!vars
  <2> QED
    BY <2>1
<1> QED
  BY <1>1, <1>2, Invariance, PTL DEF Spec, ImplementsIterable, I!Spec

\* Each callback of Subversion is one CrossThreadCall: it runs once, on the loop
\* thread, and the worker gets what it produced.
THEOREM CallRefinement == Spec => AP!ImplementsCall
<1>1. Init => AP!Init
  BY SameAsyncInit DEF Init
<1>2. [Next]_vars => [AP!Next]_(AP!vars)
  <2>1. ASSUME [Next]_vars PROVE [AP!Next]_(AP!vars)
    <3>1. CASE A!Step
      BY <3>1, SameAsyncStep DEF AP!Next
    <3>2. CASE UNCHANGED asyncVars
      BY <3>2 DEF asyncVars, AP!vars, AP!state
    <3> QED
      BY <2>1, <3>1, <3>2, AsyncStep
  <2> QED
    BY <2>1
<1>3. Spec => AP!Spec
  BY <1>1, <1>2, PTL DEF Spec, AP!Spec
<1>4. AP!Spec => AP!ImplementsCall
  BY NobodyCalls, AP!Refinement
<1> QED
  BY <1>3, <1>4, PTL

\* So the call as a whole, between the svn operation and the JavaScript loop,
\* is the bounded first-in first-out stream ItemStream describes.
THEOREM StreamRefinement == Spec => IP!ImplementsStream
<1>1. Init => IP!Init
  BY DEF Init, I!Init, IP!Init
<1>2. IInv /\ [Next]_vars => [IP!Next]_(IP!vars)
  <2>1. ASSUME IInv, [Next]_vars PROVE [IP!Next]_(IP!vars)
    BY <2>1, IterStep, SameIterNext DEF iterVars, IP!vars
  <2> QED
    BY <2>1
<1>3. Spec => IP!Spec
  BY <1>1, <1>2, Invariance, PTL DEF Spec, IP!Spec
<1>4. IP!Spec => IP!ImplementsStream
  BY DepthAssumption, MayBreakAssumption, MaxItemsAssumption, IP!Refinement
<1> QED
  BY <1>3, <1>4, PTL
=============================================================================
