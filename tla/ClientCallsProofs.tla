------------------------- MODULE ClientCallsProofs -------------------------
(***************************************************************************)
(* Proofs about ClientCalls, for any finite set of calls, any set of       *)
(* Clients, any mix of methods, and any size of the thread pool.           *)
(***************************************************************************)
EXTENDS ClientCalls, FiniteSetTheorems, TLAPS

USE NoCallAssumption, TargetsAssumption, MethodsAssumption, ThreadsAssumption,
    MaxOpenAssumption, MaxItemsAssumption

\* keepAlive and iterable are Booleans for the method of every call.
LEMMA MethodKinds ==
    ASSUME TypeOK, NEW c \in Calls
    PROVE  method[c].keepAlive \in BOOLEAN /\ method[c].iterable \in BOOLEAN
<1>1. CASE method[c] \in Methods
  BY <1>1
<1>2. CASE method[c] = NoMethod
  BY <1>2 DEF NoMethod
<1> QED BY <1>1, <1>2 DEF TypeOK

\* Nothing is called, queued or collected when the program starts.
LEMMA InitIInv == Init => IInv
<1> SUFFICES ASSUME Init PROVE IInv
  OBVIOUS
<1>1. TypeOK
  BY DEF Init, TypeOK, QueueOK
<1>2. ClientOutlivesCalls /\ UnheldIsDestroyed /\ NoMutualWait
  BY DEF Init, ClientOutlivesCalls, UnheldIsDestroyed, NoMutualWait, InFlight, Holds
<1>3. OpenIsBounded
  <2>1. OpenIterables = {}
    BY DEF Init, OpenIterables, InFlight
  <2>2. Cardinality(OpenIterables) = 0
    BY <2>1, FS_EmptySet
  <2> QED BY <2>2 DEF Init, OpenIsBounded
<1> QED BY <1>1, <1>2, <1>3 DEF IInv

-----------------------------------------------------------------------------
(* Types and the queue of work. *)

\* A step that makes no call queued and no queued call anything else, and
\* leaves the queue alone, keeps the queue and the calls in agreement.
LEMMA SameQueue ==
    ASSUME QueueOK, queue \in Seq(Calls), queue' = queue,
           \A c \in Calls : (stage'[c] = "queued") <=> (stage[c] = "queued")
    PROVE  QueueOK'
<1>1. \A i \in 1 .. Len(queue) : queue[i] \in Calls
  OBVIOUS
<1> QED BY <1>1 DEF QueueOK

\* A call that is made joins the queue at its end.
LEMMA InvokeTypeOK ==
    ASSUME TypeOK, NEW c \in Calls, NEW m \in Methods, Invoke(c, m),
           nested' \in [Calls -> Calls \cup {NoCall}]
    PROVE  TypeOK'
<1>1. CASE svn[target[c]] = "destroyed"
  <2>1. QueueOK'
    BY <1>1, SameQueue DEF Invoke, TypeOK
  <2> QED BY <1>1, <2>1 DEF Invoke, TypeOK
<1>2. CASE svn[target[c]] # "destroyed"
  <2>1. /\ queue' = Append(queue, c)
        /\ stage' = [stage EXCEPT ![c] = "queued"]
        /\ stage[c] = "idle"
    BY <1>2 DEF Invoke
  <2>2. /\ queue' \in Seq(Calls)
        /\ Len(queue') = Len(queue) + 1
        /\ queue'[Len(queue) + 1] = c
        /\ \A i \in 1 .. Len(queue) : queue'[i] = queue[i] /\ queue[i] \in Calls
    BY <2>1 DEF TypeOK
  <2>3. \A i \in 1 .. Len(queue) : stage[queue[i]] = "queued" /\ queue[i] # c
    BY <2>1 DEF TypeOK, QueueOK
  <2>4. Len(queue) \in Nat
    BY DEF TypeOK
  <2>5. \A i \in 1 .. Len(queue') : stage'[queue'[i]] = "queued"
    BY <2>1, <2>2, <2>3, <2>4 DEF TypeOK
  <2>6. \A d \in Calls : stage'[d] = "queued" => \E i \in 1 .. Len(queue') : queue'[i] = d
    <3>1. ASSUME NEW d \in Calls, stage'[d] = "queued", d # c
          PROVE  \E i \in 1 .. Len(queue') : queue'[i] = d
      <4>1. PICK i \in 1 .. Len(queue) : queue[i] = d
        BY <2>1, <3>1 DEF TypeOK, QueueOK
      <4> QED BY <4>1, <2>2, <2>4
    <3> QED BY <3>1, <2>2, <2>4
  <2>7. \A i, j \in 1 .. Len(queue') : queue'[i] = queue'[j] => i = j
    <3>1. \A i, j \in 1 .. Len(queue) : queue[i] = queue[j] => i = j
      BY DEF TypeOK, QueueOK
    <3> QED BY <3>1, <2>2, <2>3, <2>4
  <2>8. QueueOK'
    BY <2>5, <2>6, <2>7 DEF QueueOK
  <2>9. /\ stage' \in [Calls -> {"idle", "refused", "queued", "working", "blocked",
                                "worked", "settled", "crashed"}]
        /\ method' \in [Calls -> Methods \cup {NoMethod}]
        /\ user' \in [Calls -> {"none", "asking", "body", "over", "left"}]
    <3>1. /\ method' = [method EXCEPT ![c] = m]
          /\ user' = [user EXCEPT ![c] = IF m.iterable THEN "body" ELSE "none"]
      BY <1>2 DEF Invoke
    <3>2. (IF m.iterable THEN "body" ELSE "none") \in {"body", "none"}
      OBVIOUS
    <3>3. user' \in [Calls -> {"none", "asking", "body", "over", "left"}]
      BY <3>1, <3>2 DEF TypeOK
    <3>4. method' \in [Calls -> Methods \cup {NoMethod}]
      BY <3>1 DEF TypeOK
    <3> QED BY <2>1, <3>3, <3>4 DEF TypeOK
  <2>10. UNCHANGED <<svn, wrapper, target, items>>
    BY DEF Invoke
  <2> QED BY <2>2, <2>8, <2>9, <2>10 DEF TypeOK
<1> QED BY <1>1, <1>2

\* The call a thread takes leaves the queue at its front.
LEMMA StartTypeOK ==
    ASSUME TypeOK, Start
    PROVE  TypeOK'
<1> DEFINE c == Head(queue)
<1>1. /\ queue # <<>> /\ queue' = Tail(queue) /\ queue \in Seq(Calls)
      /\ c \in Calls /\ c = queue[1]
  BY DEF Start, TypeOK
<1>2. PICK s \in {"working", "crashed"} : stage' = [stage EXCEPT ![c] = s]
  BY DEF Start
<1>3. /\ queue' \in Seq(Calls) /\ Len(queue) \in Nat \ {0} /\ Len(queue') = Len(queue) - 1
      /\ \A i \in 1 .. Len(queue') : queue'[i] = queue[i + 1] /\ queue[i + 1] \in Calls
  BY <1>1
<1>4. /\ \A i \in 1 .. Len(queue) : stage[queue[i]] = "queued"
      /\ \A d \in Calls : stage[d] = "queued" => \E i \in 1 .. Len(queue) : queue[i] = d
      /\ \A i, j \in 1 .. Len(queue) : queue[i] = queue[j] => i = j
  BY DEF TypeOK, QueueOK
<1>5. \A i \in 1 .. Len(queue') : queue'[i] # c /\ stage'[queue'[i]] = "queued"
  <2> SUFFICES ASSUME NEW i \in 1 .. Len(queue')
               PROVE  queue'[i] # c /\ stage'[queue'[i]] = "queued"
    OBVIOUS
  <2>1. i + 1 \in 1 .. Len(queue) /\ 1 \in 1 .. Len(queue) /\ i + 1 # 1
    BY <1>3
  <2>2. queue[i + 1] # c
    BY <2>1, <1>1, <1>4
  <2>3. stage[queue[i + 1]] = "queued" /\ queue[i + 1] \in Calls
    BY <2>1, <1>3, <1>4
  <2>4. stage'[queue[i + 1]] = "queued"
    BY <2>2, <2>3, <1>2 DEF TypeOK
  <2> QED BY <2>2, <2>4, <1>3
<1>6. \A d \in Calls : stage'[d] = "queued" => \E i \in 1 .. Len(queue') : queue'[i] = d
  <2> SUFFICES ASSUME NEW d \in Calls, stage'[d] = "queued"
               PROVE  \E i \in 1 .. Len(queue') : queue'[i] = d
    OBVIOUS
  <2>1. d # c /\ stage[d] = "queued"
    BY <1>1, <1>2 DEF TypeOK
  <2>2. PICK i \in 1 .. Len(queue) : queue[i] = d
    BY <2>1, <1>4
  <2>3. i # 1
    BY <2>1, <2>2, <1>1
  <2>4. i - 1 \in 1 .. Len(queue') /\ (i - 1) + 1 = i
    BY <2>3, <1>3
  <2> QED BY <2>2, <2>4, <1>3
<1>7. \A i, j \in 1 .. Len(queue') : queue'[i] = queue'[j] => i = j
  BY <1>3, <1>4
<1>8. QueueOK'
  BY <1>5, <1>6, <1>7 DEF QueueOK
<1> QED BY <1>1, <1>2, <1>3, <1>8 DEF Start, TypeOK
\* Every step of JavaScript, the pool and the loop keeps the types and the
\* queue of work.
LEMMA NextTypeOK == TypeOK /\ [Next]_vars => TypeOK'
<1> SUFFICES ASSUME TypeOK, [Next]_vars PROVE TypeOK'
  OBVIOUS
<1>1. CASE Start
  BY <1>1, StartTypeOK
<1>2. ASSUME NEW c \in Calls, NEW m \in Methods, InvokeTop(c, m) PROVE TypeOK'
  BY <1>2, InvokeTypeOK DEF InvokeTop, TypeOK
<1>3. ASSUME NEW c \in Calls, NEW m \in Methods, NEW p \in Calls, InvokeNested(c, m, p)
      PROVE  TypeOK'
  BY <1>3, InvokeTypeOK DEF InvokeNested, TypeOK
<1>4. ASSUME NEW c \in Calls, Ask(c) PROVE TypeOK'
  <2>1. \A d \in Calls : (stage'[d] = "queued") <=> (stage[d] = "queued")
    BY <1>4 DEF Ask, TypeOK
  <2>2. QueueOK'
    BY <1>4, <2>1, SameQueue DEF Ask, TypeOK
  <2>3. /\ stage' \in [Calls -> {"idle", "refused", "queued", "working", "blocked",
                                "worked", "settled", "crashed"}]
        /\ user' \in [Calls -> {"none", "asking", "body", "over", "left"}]
    BY <1>4 DEF Ask, TypeOK
  <2> QED BY <1>4, <2>2, <2>3 DEF Ask, TypeOK
<1>5. ASSUME NEW c \in Calls, Break(c) PROVE TypeOK'
  <2>1. QueueOK'
    BY <1>5, SameQueue DEF Break, TypeOK
  <2> QED BY <1>5, <2>1 DEF Break, TypeOK
<1>6. ASSUME NEW c \in Calls, Worker(c) PROVE TypeOK'
  <2>1. QueueOK'
    BY <1>6, SameQueue DEF Worker, YieldItem, Finish, UseAfterFree, TypeOK
  <2>2. CASE YieldItem(c)
    <3>1. items[c] \in Nat /\ items[c] + 1 \in 0 .. MaxItems
      BY <2>2 DEF YieldItem, TypeOK
    <3>2. items' \in [Calls -> 0 .. MaxItems]
      BY <2>2, <3>1 DEF YieldItem, TypeOK
    <3>3. CASE user[c] = "asking"
      BY <2>1, <2>2, <3>2, <3>3 DEF YieldItem, TypeOK
    <3>4. CASE user[c] # "asking"
      BY <2>1, <2>2, <3>2, <3>4 DEF YieldItem, TypeOK
    <3> QED BY <3>3, <3>4
  <2>3. CASE Finish(c) \/ UseAfterFree(c)
    BY <2>1, <2>3 DEF Finish, UseAfterFree, TypeOK
  <2> QED BY <1>6, <2>2, <2>3 DEF Worker
<1>7. ASSUME NEW c \in Calls, AfterWork(c) PROVE TypeOK'
  <2>1. QueueOK'
    BY <1>7, SameQueue DEF AfterWork, TypeOK
  <2>2. svn' \in [Clients -> {"alive", "destroyed"}]
    BY <1>7 DEF AfterWork, SvnAfterDrop, TypeOK
  <2> QED BY <1>7, <2>1, <2>2 DEF AfterWork, TypeOK
<1>8. ASSUME NEW k \in Clients, Dispose(k) \/ Forget(k) \/ Collect(k) PROVE TypeOK'
  <2>1. QueueOK'
    BY <1>8, SameQueue DEF Dispose, Forget, Collect, TypeOK
  <2>2. CASE Dispose(k)
    BY <2>1, <2>2 DEF Dispose, TypeOK
  <2>3. CASE Forget(k)
    BY <2>1, <2>3 DEF Forget, TypeOK
  <2>4. CASE Collect(k)
    <3>1. svn' \in [Clients -> {"alive", "destroyed"}]
      BY <2>4 DEF Collect, SvnAfterDrop, TypeOK
    <3> QED BY <2>1, <2>4, <3>1 DEF Collect, TypeOK
  <2> QED BY <1>8, <2>2, <2>3, <2>4
<1>9. CASE UNCHANGED vars
  <2>1. QueueOK'
    BY <1>9, SameQueue DEF vars, TypeOK
  <2> QED BY <1>9, <2>1 DEF vars, TypeOK
<1> QED
  BY <1>1, <1>2, <1>3, <1>4, <1>5, <1>6, <1>7, <1>8, <1>9 DEF Next

-----------------------------------------------------------------------------
(* Lifetime of the svn::client of each Client. *)

\* A call that is made finds its Client alive, and no other call changes.
LEMMA InvokeFacts ==
    ASSUME TypeOK, NEW c \in Calls, NEW m \in Methods, Invoke(c, m)
    PROVE  /\ UNCHANGED <<svn, wrapper, target>>
           /\ wrapper[target[c]] = "reachable"
           /\ ~InFlight(c)
           /\ InFlight(c)' => /\ svn[target[c]] = "alive"
                              /\ method'[c] = m
                              /\ m.iterable => Cardinality(OpenIterables) < MaxOpen
           /\ stage'[c] # "blocked"
           /\ \A d \in Calls \ {c} : /\ stage'[d] = stage[d]
                                    /\ method'[d] = method[d]
                                    /\ user'[d] = user[d]
<1>1. CASE svn[target[c]] = "destroyed"
  BY <1>1 DEF Invoke, InFlight, TypeOK
<1>2. CASE svn[target[c]] # "destroyed"
  <2>1. svn[target[c]] = "alive"
    BY <1>2 DEF TypeOK
  <2> QED BY <1>2, <2>1 DEF Invoke, InFlight, TypeOK
<1> QED BY <1>1, <1>2

\* The steps of the pool and of a consumer leave every Client as it is, and a
\* call leaves its thread half-way only if its Client is gone.
LEMMA QuietFacts ==
    ASSUME TypeOK,
           \/ Start
           \/ \E c \in Calls : Ask(c) \/ Break(c) \/ Worker(c)
           \/ UNCHANGED vars
    PROVE  /\ UNCHANGED <<svn, wrapper, target, method>>
           /\ \A d \in Calls : InFlight(d)' => InFlight(d)
           /\ \A d \in Calls : InFlight(d) /\ ~InFlight(d)' => svn[target[d]] = "destroyed"
<1>1. CASE Start
  <2>1. Head(queue) \in Calls /\ stage[Head(queue)] = "queued"
    BY <1>1 DEF Start, TypeOK, QueueOK
  <2>2. svn[target[Head(queue)]] \in {"alive", "destroyed"}
    BY <2>1 DEF TypeOK
  <2> QED BY <1>1, <2>1, <2>2 DEF Start, InFlight, TypeOK
<1>2. ASSUME NEW c \in Calls, Ask(c) \/ Break(c)
      PROVE  /\ UNCHANGED <<svn, wrapper, target, method>>
             /\ \A d \in Calls : InFlight(d)' <=> InFlight(d)
  BY <1>2 DEF Ask, Break, InFlight, TypeOK
<1>3. ASSUME NEW c \in Calls, Worker(c)
      PROVE  /\ UNCHANGED <<svn, wrapper, target, method>>
             /\ \A d \in Calls : InFlight(d)' => InFlight(d)
             /\ \A d \in Calls : InFlight(d) /\ ~InFlight(d)' => svn[target[d]] = "destroyed"
  BY <1>3 DEF Worker, YieldItem, Finish, UseAfterFree, InFlight, TypeOK
<1>4. CASE UNCHANGED vars
  BY <1>4 DEF vars, InFlight
<1> QED BY <1>1, <1>2, <1>3, <1>4

\* after_work drops one call and, if it held the last reference to a collected
\* Client, that Client; nothing else.
LEMMA AfterWorkFacts ==
    ASSUME TypeOK, NEW c \in Calls, AfterWork(c)
    PROVE  /\ UNCHANGED <<wrapper, target, method>>
           /\ InFlight(c) /\ ~InFlight(c)'
           /\ \A d \in Calls \ {c} : stage'[d] = stage[d]
           /\ \A k \in Clients : svn'[k] # svn[k] =>
                /\ k = target[c] /\ wrapper[k] = "collected"
                /\ \A d \in Calls \ {c} : target[d] = k => ~Holds(d)
           /\ Holds(c) /\ wrapper[target[c]] = "collected"
                /\ (\A d \in Calls \ {c} : target[d] = target[c] => ~Holds(d))
              => svn'[target[c]] = "destroyed"
<1>1. InFlight(c) /\ ~InFlight(c)' /\ (\A d \in Calls \ {c} : stage'[d] = stage[d])
  BY DEF AfterWork, InFlight, TypeOK
<1>2. target[c] \in Clients
  BY DEF TypeOK
<1> QED BY <1>1, <1>2 DEF AfterWork, SvnAfterDrop, Holds, TypeOK

\* keep_alive: no step but a dispose() in flight destroys the svn::client
\* under a call that holds it or whose Client object is still there.
LEMMA NextOutlives ==
    ASSUME IInv, ClientOutlivesCalls, [Next]_vars, DisposePolicy # "any"
    PROVE  ClientOutlivesCalls'
<1> SUFFICES ASSUME NEW d \in Calls, InFlight(d)',
                    method'[d].keepAlive \/ wrapper'[target'[d]] # "collected"
             PROVE  svn'[target'[d]] = "alive"
  BY DEF ClientOutlivesCalls
<1> USE DEF IInv
<1>1. ASSUME NEW c \in Calls, NEW m \in Methods, Invoke(c, m)
      PROVE  svn'[target'[d]] = "alive"
  <2>1. CASE d = c
    BY <1>1, <2>1, InvokeFacts
  <2>2. CASE d # c
    BY <1>1, <2>2, InvokeFacts DEF ClientOutlivesCalls, InFlight, Holds
  <2> QED BY <2>1, <2>2
<1>2. CASE \/ Start
           \/ \E c \in Calls : Ask(c) \/ Break(c) \/ Worker(c)
           \/ UNCHANGED vars
  BY <1>2, QuietFacts DEF ClientOutlivesCalls, Holds
<1>3. ASSUME NEW c \in Calls, AfterWork(c) PROVE svn'[target'[d]] = "alive"
  <2>1. d # c /\ stage'[d] = stage[d] /\ UNCHANGED <<wrapper, target, method>>
    BY <1>3, AfterWorkFacts
  <2>2. InFlight(d) /\ (method[d].keepAlive \/ wrapper[target[d]] # "collected")
    BY <2>1 DEF InFlight, Holds
  <2>3. svn[target[d]] = "alive" /\ target[d] \in Clients
    BY <2>2 DEF ClientOutlivesCalls, TypeOK
  <2> QED BY <1>3, <2>1, <2>2, <2>3, AfterWorkFacts DEF Holds
<1>4. ASSUME NEW k \in Clients, Dispose(k) PROVE svn'[target'[d]] = "alive"
  <2>1. InFlight(d) /\ (method[d].keepAlive \/ wrapper[target[d]] # "collected") /\ target[d] # k
    BY <1>4 DEF Dispose, InFlight, Holds
  <2> QED BY <1>4, <2>1 DEF Dispose, ClientOutlivesCalls, TypeOK
<1>5. ASSUME NEW k \in Clients, Forget(k) PROVE svn'[target'[d]] = "alive"
  <2>1. InFlight(d) /\ (method[d].keepAlive \/ wrapper[target[d]] # "collected")
    BY <1>5 DEF Forget, InFlight, Holds, TypeOK
  <2> QED BY <1>5, <2>1 DEF Forget, ClientOutlivesCalls
<1>6. ASSUME NEW k \in Clients, Collect(k) PROVE svn'[target'[d]] = "alive"
  <2>1. InFlight(d) /\ (method[d].keepAlive \/ (wrapper[target[d]] # "collected" /\ target[d] # k))
    BY <1>6 DEF Collect, InFlight, Holds, TypeOK
  <2>2. svn[target[d]] = "alive"
    BY <2>1 DEF ClientOutlivesCalls
  <2> QED BY <1>6, <2>1, <2>2 DEF Collect, SvnAfterDrop, Holds, TypeOK
<1> QED
  BY <1>1, <1>2, <1>3, <1>4, <1>5, <1>6 DEF Next, InvokeTop, InvokeNested

\* The last reference to a collected Client takes its svn::client with it.
LEMMA NextUnheld ==
    ASSUME IInv, [Next]_vars
    PROVE  UnheldIsDestroyed'
<1> SUFFICES ASSUME NEW k \in Clients, wrapper'[k] = "collected",
                    \A d \in Calls : Holds(d)' => target'[d] # k
             PROVE  svn'[k] = "destroyed"
  BY DEF UnheldIsDestroyed
<1> USE DEF IInv
<1>1. ASSUME NEW c \in Calls, NEW m \in Methods, Invoke(c, m)
      PROVE  svn'[k] = "destroyed"
  <2>1. \A d \in Calls : Holds(d) => target[d] # k
    BY <1>1, InvokeFacts DEF Holds, InFlight
  <2> QED BY <1>1, <2>1, InvokeFacts DEF UnheldIsDestroyed
<1>2. CASE \/ Start
           \/ \E c \in Calls : Ask(c) \/ Break(c) \/ Worker(c)
           \/ UNCHANGED vars
  <2>1. CASE \E d \in Calls : Holds(d) /\ target[d] = k
    BY <1>2, <2>1, QuietFacts DEF Holds
  <2>2. CASE \A d \in Calls : Holds(d) => target[d] # k
    BY <1>2, <2>2, QuietFacts DEF UnheldIsDestroyed
  <2> QED BY <2>1, <2>2
<1>3. ASSUME NEW c \in Calls, AfterWork(c) PROVE svn'[k] = "destroyed"
  <2>1. \A d \in Calls \ {c} : Holds(d) => target[d] # k
    BY <1>3, AfterWorkFacts DEF Holds, InFlight
  <2>2. wrapper[k] = "collected"
    BY <1>3, AfterWorkFacts
  <2>3. CASE Holds(c) /\ target[c] = k
    BY <1>3, <2>1, <2>2, <2>3, AfterWorkFacts
  <2>4. CASE ~(Holds(c) /\ target[c] = k)
    <3>1. svn[k] = "destroyed"
      BY <2>1, <2>2, <2>4 DEF UnheldIsDestroyed
    <3> QED BY <1>3, <3>1 DEF AfterWork, SvnAfterDrop, TypeOK
  <2> QED BY <2>3, <2>4
<1>4. ASSUME NEW j \in Clients, Dispose(j) \/ Forget(j) PROVE svn'[k] = "destroyed"
  <2>1. wrapper[k] = "collected" /\ \A d \in Calls : Holds(d) => target[d] # k
    BY <1>4 DEF Dispose, Forget, Holds, InFlight, TypeOK
  <2>2. svn[k] = "destroyed"
    BY <2>1 DEF UnheldIsDestroyed
  <2> QED BY <1>4, <2>2 DEF Dispose, Forget, TypeOK
<1>5. ASSUME NEW j \in Clients, Collect(j) PROVE svn'[k] = "destroyed"
  <2>1. \A d \in Calls : Holds(d) => target[d] # k
    BY <1>5 DEF Collect, Holds, InFlight
  <2>2. CASE j = k
    BY <1>5, <2>1, <2>2 DEF Collect, SvnAfterDrop, TypeOK
  <2>3. CASE j # k
    <3>1. svn[k] = "destroyed"
      BY <1>5, <2>1, <2>3 DEF Collect, UnheldIsDestroyed, TypeOK
    <3> QED BY <1>5, <3>1 DEF Collect, SvnAfterDrop, TypeOK
  <2> QED BY <2>2, <2>3
<1> QED
  BY <1>1, <1>2, <1>3, <1>4, <1>5 DEF Next, InvokeTop, InvokeNested

-----------------------------------------------------------------------------
(* The handshake of worker and consumer, and the pool. *)

\* A worker blocks only when nobody asks, a consumer waits only when the
\* worker is not blocked.
LEMMA NextNoMutualWait ==
    ASSUME IInv, [Next]_vars
    PROVE  NoMutualWait'
<1> SUFFICES ASSUME NEW d \in Calls, stage'[d] = "blocked" PROVE user'[d] # "asking"
  BY DEF NoMutualWait
<1> USE DEF IInv
<1>1. ASSUME NEW c \in Calls, NEW m \in Methods, Invoke(c, m) PROVE user'[d] # "asking"
  <2>1. d # c
    BY <1>1, InvokeFacts
  <2> QED BY <1>1, <2>1, InvokeFacts DEF NoMutualWait
<1>2. CASE Start
  <2>1. user' = user /\ Head(queue) \in Calls
    BY <1>2 DEF Start, TypeOK
  <2>2. stage[d] = "blocked"
    BY <1>2, <2>1 DEF Start, TypeOK
  <2> QED BY <2>1, <2>2 DEF NoMutualWait
<1>3. ASSUME NEW c \in Calls, Ask(c) \/ Break(c) \/ Worker(c) \/ AfterWork(c)
      PROVE  user'[d] # "asking"
  BY <1>3, ZenonT(60) DEF Ask, Break, Worker, YieldItem, Finish, UseAfterFree, AfterWork,
              NoMutualWait, TypeOK
<1>4. CASE (\E k \in Clients : Dispose(k) \/ Forget(k) \/ Collect(k)) \/ UNCHANGED vars
  BY <1>4 DEF Dispose, Forget, Collect, vars, NoMutualWait
<1> QED
  BY <1>1, <1>2, <1>3, <1>4 DEF Next, InvokeTop, InvokeNested

\* A step that starts no iterable call opens none.
LEMMA FewerOpen ==
    ASSUME Cardinality(OpenIterables) <= MaxOpen, OpenIterables' \subseteq OpenIterables
    PROVE  Cardinality(OpenIterables') <= MaxOpen
<1>1. IsFiniteSet(OpenIterables)
  BY CallsAssumption, FS_Subset DEF OpenIterables
<1>2. Cardinality(OpenIterables') <= Cardinality(OpenIterables)
  BY <1>1, FS_Subset
<1>3. Cardinality(OpenIterables) \in Nat /\ Cardinality(OpenIterables') \in Nat
  BY <1>1, FS_Subset, FS_CardinalityType
<1> QED BY <1>2, <1>3

\* The calls that block are among the open iterables, and JavaScript opens
\* only so many.
LEMMA NextOpenIsBounded ==
    ASSUME IInv, [Next]_vars
    PROVE  OpenIsBounded'
<1> USE DEF IInv
<1>1. ASSUME NEW c \in Calls, NEW m \in Methods, Invoke(c, m) PROVE OpenIsBounded'
  <2>1. \A d \in Calls : stage'[d] = "blocked" => method'[d].iterable
    BY <1>1, InvokeFacts DEF OpenIsBounded
  <2>2. ASSUME NEW d \in Calls, d # c
        PROVE  d \in OpenIterables' <=> d \in OpenIterables
    <3>1. stage'[d] = stage[d] /\ method'[d] = method[d]
      BY <1>1, <2>2, InvokeFacts
    <3>2. InFlight(d)' <=> InFlight(d)
      BY <3>1 DEF InFlight
    <3> QED BY <3>1, <3>2 DEF OpenIterables
  <2>3. CASE m.iterable /\ InFlight(c)'
    <3>1. OpenIterables' \subseteq OpenIterables \cup {c} /\ c \notin OpenIterables
      BY <1>1, <2>2, InvokeFacts DEF OpenIterables
    <3>2. Cardinality(OpenIterables) < MaxOpen
      BY <1>1, <2>3, InvokeFacts
    <3>3. IsFiniteSet(OpenIterables)
      BY CallsAssumption, FS_Subset DEF OpenIterables
    <3>4. /\ IsFiniteSet(OpenIterables \cup {c})
          /\ Cardinality(OpenIterables \cup {c}) = Cardinality(OpenIterables) + 1
      BY <3>1, <3>3, FS_AddElement
    <3>5. /\ IsFiniteSet(OpenIterables')
          /\ Cardinality(OpenIterables') <= Cardinality(OpenIterables \cup {c})
      BY <3>1, <3>4, FS_Subset
    <3>6. Cardinality(OpenIterables) \in Nat /\ Cardinality(OpenIterables') \in Nat
      BY <3>3, <3>5, FS_CardinalityType
    <3>7. Cardinality(OpenIterables') <= MaxOpen
      BY <3>2, <3>4, <3>5, <3>6
    <3> QED BY <2>1, <3>7 DEF OpenIsBounded
  <2>4. CASE ~(m.iterable /\ InFlight(c)')
    <3>1. c \notin OpenIterables'
      <4>1. c \in OpenIterables' => InFlight(c)' /\ method'[c].iterable
        BY DEF OpenIterables
      <4> QED BY <1>1, <2>4, <4>1, InvokeFacts
    <3>2. OpenIterables' \subseteq Calls
      BY DEF OpenIterables
    <3>3. OpenIterables' \subseteq OpenIterables
      BY <2>2, <3>1, <3>2
    <3> QED BY <2>1, <3>3, FewerOpen DEF OpenIsBounded
  <2> QED BY <2>3, <2>4
<1>2. CASE \/ Start
           \/ \E c \in Calls : Ask(c) \/ Break(c) \/ Worker(c)
           \/ UNCHANGED vars
  <2>1. OpenIterables' \subseteq OpenIterables
    BY <1>2, QuietFacts DEF OpenIterables
  <2>2. ASSUME NEW d \in Calls, stage'[d] = "blocked" PROVE method'[d].iterable
    <3>1. CASE Start
      <4>1. method' = method /\ stage[d] = "blocked"
        BY <2>2, <3>1 DEF Start, TypeOK
      <4> QED BY <4>1 DEF OpenIsBounded
    <3>2. ASSUME NEW c \in Calls, Ask(c) \/ Break(c) \/ Worker(c)
          PROVE  method'[d].iterable
      BY <2>2, <3>2 DEF Ask, Break, Worker, YieldItem, Finish, UseAfterFree,
                        OpenIsBounded, TypeOK
    <3>3. CASE UNCHANGED vars
      BY <2>2, <3>3 DEF vars, OpenIsBounded
    <3> QED BY <1>2, <3>1, <3>2, <3>3
  <2> QED BY <2>1, <2>2, FewerOpen DEF OpenIsBounded
<1>3. ASSUME NEW c \in Calls, AfterWork(c) PROVE OpenIsBounded'
  <2>1. OpenIterables' \subseteq OpenIterables
    BY <1>3, AfterWorkFacts DEF OpenIterables, InFlight
  <2>2. \A d \in Calls : stage'[d] = "blocked" => method'[d].iterable
    BY <1>3 DEF AfterWork, OpenIsBounded, TypeOK
  <2> QED BY <2>1, <2>2, FewerOpen DEF OpenIsBounded
<1>4. CASE \E k \in Clients : Dispose(k) \/ Forget(k) \/ Collect(k)
  BY <1>4 DEF Dispose, Forget, Collect, OpenIsBounded, OpenIterables, InFlight
<1> QED
  BY <1>1, <1>2, <1>3, <1>4 DEF Next, InvokeTop, InvokeNested

-----------------------------------------------------------------------------
(* The theorems. *)

\* IInv is an invariant, whatever the program calls, drops and disposes.
THEOREM Invariance == Spec => []IInv
<1>1. IInv /\ [Next]_vars => IInv'
  BY NextTypeOK, NextUnheld, NextNoMutualWait, NextOpenIsBounded DEF IInv
<1> QED BY InitIInv, <1>1, PTL DEF Spec

\* Types, and the agreement of libuv's queue with the calls.
THEOREM TypeCorrect == Spec => []TypeOK
<1>1. IInv => TypeOK
  BY DEF IInv
<1> QED BY Invariance, <1>1, PTL

\* keep_alive does its work: a call that holds it, and any call on a Client
\* that is still there, has an svn::client to run on (node_client.cpp:404).
THEOREM KeptAlive ==
    ASSUME DisposePolicy # "any"
    PROVE  Spec => []ClientOutlivesCalls
<1>1. Init => ClientOutlivesCalls
  BY DEF Init, ClientOutlivesCalls, InFlight
<1>2. IInv /\ ClientOutlivesCalls /\ [Next]_vars => ClientOutlivesCalls'
  BY NextOutlives
<1> QED BY Invariance, <1>1, <1>2, PTL DEF Spec

\* Garbage collection and keep_alive together leak no svn::client.
THEOREM NothingLeaks == Spec => []NoClientLeak
<1>1. IInv => NoClientLeak
  BY DEF IInv, UnheldIsDestroyed, NoClientLeak, Holds
<1> QED BY Invariance, <1>1, PTL

\* A consumer that waits never has a worker that waits for it.
THEOREM NobodyWaitsForEachOther == Spec => []NoMutualWait
<1>1. IInv => NoMutualWait
  BY DEF IInv
<1> QED BY Invariance, <1>1, PTL

\* With fewer open iterables than pool threads, whatever their number, a
\* thread is always left that does not wait for JavaScript.
THEOREM PoolNeverFull == Spec => []ThreadAvailable
<1> DEFINE Blocked == {c \in Calls : stage[c] = "blocked"}
<1>1. IInv => ThreadAvailable
  <2> SUFFICES ASSUME IInv, MaxOpen < Threads PROVE Cardinality(Blocked) < Threads
    BY DEF ThreadAvailable
  <2>1. Blocked \subseteq OpenIterables
    BY DEF IInv, OpenIsBounded, OpenIterables, InFlight
  <2>2. IsFiniteSet(OpenIterables)
    BY CallsAssumption, FS_Subset DEF OpenIterables
  <2>3. IsFiniteSet(Blocked) /\ Cardinality(Blocked) <= Cardinality(OpenIterables)
    BY <2>1, <2>2, FS_Subset
  <2>4. Cardinality(Blocked) \in Nat /\ Cardinality(OpenIterables) \in Nat
    BY <2>2, <2>3, FS_CardinalityType
  <2> QED BY <2>3, <2>4 DEF IInv, OpenIsBounded
<1> QED BY Invariance, <1>1, PTL
=============================================================================
