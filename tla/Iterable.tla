------------------------------ MODULE Iterable ------------------------------
(***************************************************************************)
(* no::iterable (src/node/iterable.hpp): the async iterator an operation   *)
(* yields its items through, and the JavaScript that consumes it.          *)
(*                                                                         *)
(* One slot, _resolver, serves both directions: a promise handed out by    *)
(* next() that waits for an item, or (when _resolver_fulfilled) a promise  *)
(* already settled with an item that waits for next().  The producer gets  *)
(* a future, _consume_promise, that becomes ready when its item has been   *)
(* handed to a next() call.  Everything here runs on the JavaScript        *)
(* thread, but resolve() runs the microtasks before it returns, so the     *)
(* consumer may re-enter next() in the middle of it.                       *)
(***************************************************************************)
EXTENDS Naturals, Sequences

CONSTANTS
    Loops,      \* `for await` loops (or other users) over the same iterable
    Depth,      \* next() calls one user leaves unanswered; 1 is `for await`
    MayBreak,   \* the loops may be left early
    MaxItems    \* bound on the number of items an operation yields

ASSUME DepthAssumption == Depth \in Nat \ {0}
ASSUME MayBreakAssumption == MayBreak \in BOOLEAN
ASSUME MaxItemsAssumption == MaxItems \in Nat

VARIABLES
    created,     \* _iterator_created
    resolver,    \* _resolver: a promise, 0 when empty
    fulfilled,   \* _resolver_fulfilled
    consume,     \* _consume_promise: "none", "unset" or "set"
    microtasks,  \* resolve() is in RunMicrotasks
    promises,    \* every JavaScript promise made so far and its outcome
    sent,        \* outcomes passed to resolve() so far
    loop,        \* where each user of the iterable is
    waiting,     \* the promises each user has from next() and not yet received
    got          \* the outcomes each user has received

iterVars == <<created, resolver, fulfilled, consume, microtasks, promises, sent>>
jsVars == <<loop, waiting, got>>
vars == <<created, resolver, fulfilled, consume, microtasks, promises, sent,
          loop, waiting, got>>

Pending == <<"pending", 0>>
Item(n) == <<"item", n>>
Done == <<"done", 0>>
Error == <<"error", 0>>

Outcomes == {Done, Error} \cup {Item(n) : n \in 1 .. MaxItems}
Terminal(o) == o \in {Done, Error}
Ended(s) == s # <<>> /\ Terminal(s[Len(s)])

Init ==
    /\ created = FALSE
    /\ resolver = 0
    /\ fulfilled = FALSE
    /\ consume = "none"
    /\ microtasks = FALSE
    /\ promises = <<>>
    /\ sent = <<>>
    /\ loop = [l \in Loops |-> "out"]
    /\ waiting = [l \in Loops |-> <<>>]
    /\ got = [l \in Loops |-> <<>>]

-----------------------------------------------------------------------------
(* The native side. *)

\* resolve() throws: the item before has not been taken yet.
ResolveThrows == fulfilled

\* Fault: an item nobody waits for is reported as consumed.
ResolveNoBackpressure(o) ==
    /\ ~microtasks
    /\ microtasks' = TRUE
    /\ sent' = Append(sent, o)
    /\ consume' = "set"
    /\ IF resolver = 0 \/ fulfilled
         THEN /\ promises' = Append(promises, o)
              /\ resolver' = Len(promises) + 1
              /\ fulfilled' = TRUE
         ELSE /\ promises' = [promises EXCEPT ![resolver] = o]
              /\ resolver' = 0
              /\ UNCHANGED fulfilled
    /\ UNCHANGED <<created, jsVars>>

\* resolve() up to RunMicrotasks: settle the promise a next() waits on, or
\* leave a settled one in the slot.
Resolve(o) ==
    /\ ~microtasks
    /\ ~ResolveThrows
    /\ microtasks' = TRUE
    /\ sent' = Append(sent, o)
    /\ IF resolver = 0
         THEN /\ promises' = Append(promises, o)
              /\ resolver' = Len(promises) + 1
              /\ fulfilled' = TRUE
              /\ consume' = "unset"
         ELSE /\ promises' = [promises EXCEPT ![resolver] = o]
              /\ resolver' = 0
              /\ consume' = "set"
              /\ UNCHANGED fulfilled
    /\ UNCHANGED <<created, jsVars>>

\* yield, end and reject.
Yield == Len(sent) < MaxItems /\ Resolve(Item(Len(sent) + 1))
End == Resolve(Done)
Reject == Resolve(Error)

\* RunMicrotasks is over and resolve() returns the future.
ResolveReturns ==
    /\ microtasks
    /\ microtasks' = FALSE
    /\ UNCHANGED <<created, resolver, fulfilled, consume, promises, sent, jsVars>>

-----------------------------------------------------------------------------
(* The JavaScript side. *)

\* Fault: the iterable hands out its iterator more than once.
GetAsyncIteratorTwice(l) ==
    /\ loop[l] = "out"
    /\ created' = TRUE
    /\ loop' = [loop EXCEPT ![l] = "in"]
    /\ UNCHANGED <<resolver, fulfilled, consume, microtasks, promises, sent, waiting, got>>

\* iterable[Symbol.asyncIterator](): "You can only get iterable once".
GetAsyncIterator(l) ==
    /\ loop[l] = "out"
    /\ created' = TRUE
    /\ loop' = [loop EXCEPT ![l] = IF created THEN "refused" ELSE "in"]
    /\ UNCHANGED <<resolver, fulfilled, consume, microtasks, promises, sent, waiting, got>>

\* A user calls next() until it has received the end or an error, with at
\* most Depth calls unanswered.
WantsNext(l) ==
    /\ loop[l] = "in"
    /\ Len(waiting[l]) < Depth

\* Fault: taking the settled promise does not tell the producer.
NextForgetsConsume(l) ==
    /\ WantsNext(l)
    /\ IF fulfilled
         THEN /\ waiting' = [waiting EXCEPT ![l] = Append(@, resolver)]
              /\ resolver' = 0
              /\ fulfilled' = FALSE
              /\ UNCHANGED <<promises, consume>>
         ELSE /\ promises' = Append(promises, Pending)
              /\ resolver' = Len(promises) + 1
              /\ waiting' = [waiting EXCEPT ![l] = Append(@, resolver')]
              /\ UNCHANGED <<fulfilled, consume>>
    /\ UNCHANGED <<created, microtasks, sent, loop, got>>

\* Fault: the settled promise is overlooked and a new one made.
NextOverlooks(l) ==
    /\ WantsNext(l)
    /\ promises' = Append(promises, Pending)
    /\ resolver' = Len(promises) + 1
    /\ waiting' = [waiting EXCEPT ![l] = Append(@, resolver')]
    /\ fulfilled' = FALSE
    /\ consume' = IF fulfilled THEN "set" ELSE consume
    /\ UNCHANGED <<created, microtasks, sent, loop, got>>

\* next(): take the settled promise and tell the producer, or make one to
\* wait on (whatever the slot held is dropped).
Next_(l) ==
    /\ WantsNext(l)
    /\ IF fulfilled
         THEN /\ waiting' = [waiting EXCEPT ![l] = Append(@, resolver)]
              /\ resolver' = 0
              /\ fulfilled' = FALSE
              /\ consume' = "set"
              /\ UNCHANGED promises
         ELSE /\ promises' = Append(promises, Pending)
              /\ resolver' = Len(promises) + 1
              /\ waiting' = [waiting EXCEPT ![l] = Append(@, resolver')]
              /\ UNCHANGED <<fulfilled, consume>>
    /\ UNCHANGED <<created, microtasks, sent, loop, got>>

\* The reaction of the oldest promise a user waits on (external: a microtask
\* of the JavaScript engine).
Receive(l) ==
    /\ loop[l] = "in"
    /\ waiting[l] # <<>>
    /\ LET o == promises[Head(waiting[l])]
       IN  /\ o # Pending
           /\ got' = [got EXCEPT ![l] = Append(@, o)]
           /\ waiting' = [waiting EXCEPT ![l] = Tail(@)]
           /\ loop' = [loop EXCEPT ![l] = IF Terminal(o) THEN "finished" ELSE "in"]
    /\ UNCHANGED iterVars

\* break, return or throw in the body of the loop (external).  The iterator
\* has no return(), so the native side is not told.
Break(l) ==
    /\ MayBreak
    /\ loop[l] = "in"
    /\ waiting[l] = <<>>
    /\ loop' = [loop EXCEPT ![l] = "left"]
    /\ UNCHANGED <<iterVars, waiting, got>>

JavaScript(l) == GetAsyncIterator(l) \/ Next_(l) \/ Receive(l) \/ Break(l)

-----------------------------------------------------------------------------
(* A producer that, like the worker behind uv::async, waits for the future *)
(* of an item before it goes on, and stops after the end or an error.      *)

Producer ==
    /\ consume # "unset"
    /\ ~Ended(sent)
    /\ Yield \/ End \/ Reject

Next ==
    \/ Producer
    \/ ResolveReturns
    \/ \E l \in Loops : JavaScript(l)

Spec == Init /\ [][Next]_vars

-----------------------------------------------------------------------------
(* Properties. *)

Promise == 0 .. Len(promises)

\* The outcomes have their shape and every promise mentioned exists.
TypeOK ==
    /\ created \in BOOLEAN
    /\ resolver \in Promise
    /\ fulfilled \in BOOLEAN
    /\ consume \in {"none", "unset", "set"}
    /\ microtasks \in BOOLEAN
    /\ promises \in Seq(Outcomes \cup {Pending})
    /\ sent \in Seq(Outcomes)
    /\ loop \in [Loops -> {"out", "in", "refused", "finished", "left"}]
    /\ waiting \in [Loops -> Seq(Promise \ {0})]
    /\ got \in [Loops -> Seq(Outcomes)]

\* The slot is used for one thing at a time: settled exactly when
\* _resolver_fulfilled says so, and then the producer's future is still open
\* (next() satisfies it once: a second set_value would throw out of next()).
SlotSound ==
    /\ fulfilled => /\ resolver # 0
                    /\ promises[resolver] # Pending
                    /\ consume = "unset"
    /\ ~fulfilled => /\ consume # "unset"
                     /\ resolver # 0 => promises[resolver] = Pending

\* Every unsettled promise that JavaScript waits on is the one in the slot, so
\* the next resolve() settles it: none is forgotten.
NoOrphanedPromise ==
    \A l \in Loops : \A i \in DOMAIN waiting[l] :
        promises[waiting[l][i]] = Pending => waiting[l][i] = resolver

\* A user who was given the iterator.
Uses(l) == loop[l] \notin {"out", "refused"}

\* How many outcomes wait in the slot.
InSlot == IF fulfilled THEN 1 ELSE 0

\* The outcomes, by their place in sent, that were taken out of the slot and
\* that user l has not received yet.
Handed(l) == Len(got[l]) + 1 .. Len(sent) - InSlot

\* They are what the settled ones of the promises l waits on hold, in order: at
\* tells which promise holds an outcome.
HeldBy(l, at) ==
    /\ \A i, j \in Handed(l) : i < j => at[i] < at[j]
    /\ \A i \in Handed(l) : sent[i] = promises[waiting[l][at[i]]]
    /\ \A k \in DOMAIN waiting[l] :
          promises[waiting[l][k]] # Pending => \E i \in Handed(l) : at[i] = k

\* Nothing is lost, duplicated or reordered on the way: what the operation
\* sent is what the one user received, what it was handed settled, and what
\* waits in the slot, in this order.
Conservation ==
    /\ fulfilled => sent # <<>> /\ sent[Len(sent)] = promises[resolver]
    /\ \A l \in Loops : Uses(l) =>
          /\ Len(got[l]) <= Len(sent) - InSlot
          /\ \A i \in DOMAIN got[l] : sent[i] = got[l][i]
          /\ \E at \in [Handed(l) -> DOMAIN waiting[l]] : HeldBy(l, at)
    /\ (\A l \in Loops : ~Uses(l)) => Len(sent) = InSlot

\* The iterator goes to one user; nobody else has anything from it.
OneUser ==
    /\ ~created => \A l \in Loops : loop[l] = "out"
    /\ \A l, k \in Loops : Uses(l) /\ Uses(k) => l = k
    /\ \A l \in Loops : ~Uses(l) => waiting[l] = <<>> /\ got[l] = <<>>

\* No promise is waited on twice, and a settled one in the slot not yet.
WaitedOnce ==
    \A l \in Loops : \A i \in DOMAIN waiting[l] :
        /\ \A j \in DOMAIN waiting[l] : waiting[l][i] = waiting[l][j] => i = j
        /\ fulfilled => waiting[l][i] # resolver

\* The user whose next() put an unsettled promise into the slot.
AsksLast(l) == waiting[l] # <<>> /\ waiting[l][Len(waiting[l])] = resolver

\* How many of the promises user l waits on are the unsettled one in the slot.
Unanswered(l) == IF ~fulfilled /\ AsksLast(l) THEN 1 ELSE 0

\* An unsettled promise in the slot is the newest that the user waits on, and
\* the user was not handed more outcomes than it waits for.
SlotAsked ==
    /\ ~fulfilled /\ resolver # 0 => \E l \in Loops : Uses(l) /\ AsksLast(l)
    /\ \A l \in Loops : Uses(l) =>
          /\ Len(waiting[l]) <= Depth
          /\ Len(sent) - Len(got[l]) - InSlot <= Len(waiting[l]) - Unanswered(l)

\* The inductive strengthening of the invariants above, but NoOrphanedPromise,
\* which holds for Depth = 1 only.
IInv ==
    /\ TypeOK
    /\ SlotSound
    /\ OneUser
    /\ WaitedOnce
    /\ SlotAsked
    /\ Conservation

received ==
    IF \E l \in Loops : got[l] # <<>>
      THEN got[CHOOSE l \in Loops : got[l] # <<>>]
      ELSE <<>>

Stream == INSTANCE ItemStream WITH Capacity <- Depth + 1

\* The iterable is a bounded first-in first-out stream.
ImplementsStream == Stream!Spec
=============================================================================
