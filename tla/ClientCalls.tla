---------------------------- MODULE ClientCalls ----------------------------
(***************************************************************************)
(* Many method calls on several Client objects (src/node/node_client.cpp): *)
(* the pool of libuv threads they share, the lifetime of the svn::client   *)
(* they use, and the JavaScript that calls, iterates, awaits, disposes and *)
(* drops clients.                                                          *)
(*                                                                         *)
(* The inside of one call is UvAsync and IterableMethod; here a call of an *)
(* iterable method yields an item in one step and then blocks its pool     *)
(* thread unless its consumer is already asking.                           *)
(***************************************************************************)
EXTENDS Naturals, Sequences, FiniteSets

CONSTANTS
    Clients,        \* JavaScript Client objects
    Calls,          \* method calls that may be made
    NoCall,
    Targets,        \* on which Client each call is made: some [Calls -> Clients]
    Methods,        \* the methods used, some of the records below
    Threads,        \* UV_THREADPOOL_SIZE
    MaxOpen,        \* iterable calls JavaScript has running at a time
    MaxItems,       \* bound on the items of one iterable call
    MayBreak,       \* a loop over an iterable may be left early
    MayForget,      \* the program may drop its reference to a Client
    DisposePolicy   \* dispose() is called "never", when "idle", or at "any" time

ASSUME NoCallAssumption == NoCall \notin Calls
ASSUME CallsAssumption == IsFiniteSet(Calls)
ASSUME TargetsAssumption == Targets \subseteq [Calls -> Clients]
ASSUME ThreadsAssumption == Threads \in Nat \ {0}
ASSUME MaxOpenAssumption == MaxOpen \in Nat
ASSUME MaxItemsAssumption == MaxItems \in Nat
ASSUME MethodsAssumption ==
    \A m \in Methods : m.keepAlive \in BOOLEAN /\ m.iterable \in BOOLEAN

VARIABLES
    svn,      \* _client of each Client: "alive" or "destroyed"
    wrapper,  \* the JavaScript object: "reachable", "unreachable", "collected"
    queue,    \* libuv's queue of work that no thread has taken
    stage,    \* where each call is
    target,   \* the Client it was made on
    method,   \* the method
    items,    \* how many items it has yielded
    user,     \* the loop over its iterable: "none", "asking", "body", "over", "left"
    nested    \* the call the body of that loop awaits

vars == <<svn, wrapper, queue, stage, target, method, items, user, nested>>

-----------------------------------------------------------------------------
(* The methods: does the work lambda hold keep_alive, and is the result an *)
(* iterable or a promise?                                                  *)

\* METHOD_BEGIN ... METHOD_RETURN: ASYNC_BEGIN captures this, not keep_alive.
MacroMethod(n) == [name |-> n, keepAlive |-> FALSE, iterable |-> FALSE]
KeptIterable(n) == [name |-> n, keepAlive |-> TRUE, iterable |-> TRUE]

add_to_changelist == [name |-> "add_to_changelist", keepAlive |-> TRUE, iterable |-> FALSE]
get_changelists == KeptIterable("get_changelists")
remove_from_changelists == MacroMethod("remove_from_changelists")
add == MacroMethod("add")
blame == KeptIterable("blame")
cat == MacroMethod("cat")
checkout == MacroMethod("checkout")
cleanup == MacroMethod("cleanup")
commit == KeptIterable("commit")
info == KeptIterable("info")
log == KeptIterable("log")
remove == KeptIterable("remove")
resolve == MacroMethod("resolve")
revert == MacroMethod("revert")
status == KeptIterable("status")
update == KeptIterable("update")
get_working_copy_root == MacroMethod("get_working_copy_root")

AllMethods ==
    {add_to_changelist, get_changelists, remove_from_changelists, add, blame, cat,
     checkout, cleanup, commit, info, log, remove, resolve, revert, status, update,
     get_working_copy_root}

-----------------------------------------------------------------------------
NoMethod == [name |-> "none", keepAlive |-> FALSE, iterable |-> FALSE]

Init ==
    /\ svn = [k \in Clients |-> "alive"]
    /\ wrapper = [k \in Clients |-> "reachable"]
    /\ queue = <<>>
    /\ stage = [c \in Calls |-> "idle"]
    /\ target \in Targets
    /\ method = [c \in Calls |-> NoMethod]
    /\ items = [c \in Calls |-> 0]
    /\ user = [c \in Calls |-> "none"]
    /\ nested = [c \in Calls |-> NoCall]

\* The uv::work of the call exists.
InFlight(c) == stage[c] \in {"queued", "working", "blocked", "worked"}

\* The calls of iterable methods that are not over.
OpenIterables == {c \in Calls : InFlight(c) /\ method[c].iterable}

\* A pool thread is inside invoke_work for the call.
OnThread(c) == stage[c] \in {"working", "blocked"}

\* Fault: no method holds keep_alive.
HoldsNothing(c) == FALSE

\* The call's work lambda owns a shared_ptr to the Client.
Holds(c) == InFlight(c) /\ method[c].keepAlive

\* The last shared_ptr to a Client goes away: its svn::client is destroyed.
SvnAfterDrop(k, held) == IF held THEN svn ELSE [svn EXCEPT ![k] = "destroyed"]

-----------------------------------------------------------------------------
(* JavaScript. *)

\* A method of a Client is called.  check_disposed throws a TypeError;
\* otherwise the work is queued and an iterable or a promise returned.
Invoke(c, m) ==
    /\ stage[c] = "idle"
    /\ wrapper[target[c]] = "reachable"
    /\ m.iterable => Cardinality(OpenIterables) < MaxOpen
    /\ IF svn[target[c]] = "destroyed"
         THEN /\ stage' = [stage EXCEPT ![c] = "refused"]
              /\ UNCHANGED <<queue, method, user>>
         ELSE /\ stage' = [stage EXCEPT ![c] = "queued"]
              /\ queue' = Append(queue, c)
              /\ method' = [method EXCEPT ![c] = m]
              /\ user' = [user EXCEPT ![c] = IF m.iterable THEN "body" ELSE "none"]
    /\ UNCHANGED <<svn, wrapper, target, items>>

\* The call is made outside every loop.
InvokeTop(c, m) == Invoke(c, m) /\ UNCHANGED nested

\* The body of the loop over p makes the call and awaits it.
InvokeNested(c, m, p) ==
    /\ user[p] = "body"
    /\ items[p] > 0
    /\ nested[p] = NoCall
    /\ Invoke(c, m)
    /\ nested' = [nested EXCEPT ![p] = c]

\* What the body awaits has been answered (or thrown).
BodyDone(c) == nested[c] # NoCall => stage[nested[c]] \in {"settled", "refused"}

\* next(): take the item the worker is blocked on, learn that the iteration
\* is over, or wait.
Ask(c) ==
    /\ user[c] = "body"
    /\ BodyDone(c)
    /\ nested' = [nested EXCEPT ![c] = NoCall]
    /\ \/ /\ stage[c] = "blocked"
          /\ stage' = [stage EXCEPT ![c] = "working"]
          /\ UNCHANGED user
       \/ /\ stage[c] = "settled"
          /\ user' = [user EXCEPT ![c] = "over"]
          /\ UNCHANGED stage
       \/ /\ stage[c] \in {"queued", "working", "worked"}
          /\ user' = [user EXCEPT ![c] = "asking"]
          /\ UNCHANGED stage
    /\ UNCHANGED <<svn, wrapper, queue, target, method, items>>

\* break: the iterable is not told, a blocked worker stays blocked.
Break(c) ==
    /\ MayBreak
    /\ user[c] = "body"
    /\ BodyDone(c)
    /\ user' = [user EXCEPT ![c] = "left"]
    /\ UNCHANGED <<svn, wrapper, queue, stage, target, method, items, nested>>

\* client::dispose: _client = nullptr, whatever runs on it.
Dispose(k) ==
    /\ wrapper[k] = "reachable"
    /\ svn[k] = "alive"
    /\ \/ DisposePolicy = "any"
       \/ DisposePolicy = "idle" /\ \A c \in Calls : InFlight(c) => target[c] # k
    /\ svn' = [svn EXCEPT ![k] = "destroyed"]
    /\ UNCHANGED <<wrapper, queue, stage, target, method, items, user, nested>>

\* The program forgets its last reference to the Client.
Forget(k) ==
    /\ MayForget
    /\ wrapper[k] = "reachable"
    /\ wrapper' = [wrapper EXCEPT ![k] = "unreachable"]
    /\ UNCHANGED <<svn, queue, stage, target, method, items, user, nested>>

\* weak_callback: the wrapper's shared_ptr is dropped.
Collect(k) ==
    /\ wrapper[k] = "unreachable"
    /\ wrapper' = [wrapper EXCEPT ![k] = "collected"]
    /\ svn' = SvnAfterDrop(k, \E c \in Calls : target[c] = k /\ Holds(c))
    /\ UNCHANGED <<queue, stage, target, method, items, user, nested>>

-----------------------------------------------------------------------------
(* libuv and the pool threads. *)

FreeThread == Cardinality({c \in Calls : OnThread(c)}) < Threads

\* Fault: the work stays in the queue while a thread runs it.
StartKeepsQueue ==
    /\ queue # <<>>
    /\ FreeThread
    /\ LET c == Head(queue)
       IN  stage' = [stage EXCEPT ![c] = IF svn[target[c]] = "alive" THEN "working"
                                                                     ELSE "crashed"]
    /\ UNCHANGED <<svn, wrapper, queue, target, method, items, user, nested>>

\* A thread takes the oldest work and dereferences _client.
Start ==
    /\ queue # <<>>
    /\ FreeThread
    /\ LET c == Head(queue)
       IN  stage' = [stage EXCEPT ![c] = IF svn[target[c]] = "alive" THEN "working"
                                                                     ELSE "crashed"]
    /\ queue' = Tail(queue)
    /\ UNCHANGED <<svn, wrapper, target, method, items, user, nested>>

\* Fault: yield() waits for a consumer that asked before the item came.
YieldItemAlwaysWaits(c) ==
    /\ method[c].iterable
    /\ stage[c] = "working"
    /\ items[c] < MaxItems
    /\ items' = [items EXCEPT ![c] = @ + 1]
    /\ stage' = [stage EXCEPT ![c] = "blocked"]
    /\ UNCHANGED <<svn, wrapper, queue, target, method, user, nested>>

\* Fault: the methods that return a promise yield to JavaScript as well.
YieldItemAnyMethod(c) ==
    /\ stage[c] = "working"
    /\ items[c] < MaxItems
    /\ items' = [items EXCEPT ![c] = @ + 1]
    /\ IF user[c] = "asking"
         THEN user' = [user EXCEPT ![c] = "body"] /\ UNCHANGED stage
         ELSE stage' = [stage EXCEPT ![c] = "blocked"] /\ UNCHANGED user
    /\ UNCHANGED <<svn, wrapper, queue, target, method, nested>>

\* Subversion reports an item through the async and yield(): it goes to a
\* consumer that asks, else the thread waits for one.
YieldItem(c) ==
    /\ method[c].iterable
    /\ stage[c] = "working"
    /\ items[c] < MaxItems
    /\ items' = [items EXCEPT ![c] = @ + 1]
    /\ IF user[c] = "asking"
         THEN user' = [user EXCEPT ![c] = "body"] /\ UNCHANGED stage
         ELSE stage' = [stage EXCEPT ![c] = "blocked"] /\ UNCHANGED user
    /\ UNCHANGED <<svn, wrapper, queue, target, method, nested>>

\* The operation is over (result or svn_error) and the thread is free again.
Finish(c) ==
    /\ stage[c] = "working"
    /\ stage' = [stage EXCEPT ![c] = "worked"]
    /\ UNCHANGED <<svn, wrapper, queue, target, method, items, user, nested>>

\* Undefined behaviour: the svn::client went away under a running operation.
\* It may crash, or go on by one of the other steps.
UseAfterFree(c) ==
    /\ stage[c] = "working"
    /\ svn[target[c]] = "destroyed"
    /\ stage' = [stage EXCEPT ![c] = "crashed"]
    /\ UNCHANGED <<svn, wrapper, queue, target, method, items, user, nested>>

\* Fault: keep_alive is released without destroying the last Client.
AfterWorkLeaks(c) ==
    /\ stage[c] = "worked"
    /\ stage' = [stage EXCEPT ![c] = "settled"]
    /\ user' = [user EXCEPT ![c] = IF @ = "asking" THEN "over" ELSE @]
    /\ UNCHANGED <<svn, wrapper, queue, target, method, items, nested>>

\* after_work on the loop thread: settle the promise or end the iterable,
\* then delete the work with the keep_alive in its lambda.
AfterWork(c) ==
    LET k == target[c]
    IN  /\ stage[c] = "worked"
        /\ stage' = [stage EXCEPT ![c] = "settled"]
        /\ user' = [user EXCEPT ![c] = IF @ = "asking" THEN "over" ELSE @]
        /\ svn' = SvnAfterDrop(k, \/ ~method[c].keepAlive
                                  \/ wrapper[k] # "collected"
                                  \/ \E d \in Calls \ {c} : target[d] = k /\ Holds(d))
        /\ UNCHANGED <<wrapper, queue, target, method, items, nested>>

-----------------------------------------------------------------------------
Running == \A c \in Calls : stage[c] # "crashed"

Worker(c) == YieldItem(c) \/ Finish(c) \/ UseAfterFree(c)

Next ==
    /\ Running
    /\ \/ Start
       \/ \E c \in Calls :
            \/ \E m \in Methods : InvokeTop(c, m) \/ \E p \in Calls \ {c} : InvokeNested(c, m, p)
            \/ Ask(c) \/ Break(c) \/ Worker(c) \/ AfterWork(c)
       \/ \E k \in Clients : Dispose(k) \/ Forget(k) \/ Collect(k)

Spec == Init /\ [][Next]_vars

\* Threads run, the loop turns, and a loop over an iterable goes on asking
\* when its body is done.  Nobody has to call, dispose or collect.
Fairness ==
    /\ WF_vars(Running /\ Start)
    /\ \A c \in Calls :
         /\ WF_vars(Running /\ Worker(c))
         /\ WF_vars(Running /\ AfterWork(c))
         /\ WF_vars(Running /\ Ask(c))

FairSpec == Spec /\ Fairness

-----------------------------------------------------------------------------
(* Properties. *)

\* Exactly the calls that wait for a thread are queued, once.
QueueOK ==
    /\ \A i \in 1 .. Len(queue) : stage[queue[i]] = "queued"
    /\ \A c \in Calls : stage[c] = "queued" => \E i \in 1 .. Len(queue) : queue[i] = c
    /\ \A i, j \in 1 .. Len(queue) : queue[i] = queue[j] => i = j

\* Types, with the agreement of libuv's queue and the calls that wait.
TypeOK ==
    /\ svn \in [Clients -> {"alive", "destroyed"}]
    /\ wrapper \in [Clients -> {"reachable", "unreachable", "collected"}]
    /\ queue \in Seq(Calls)
    /\ stage \in [Calls -> {"idle", "refused", "queued", "working", "blocked",
                            "worked", "settled", "crashed"}]
    /\ target \in [Calls -> Clients]
    /\ method \in [Calls -> Methods \cup {NoMethod}]
    /\ items \in [Calls -> 0 .. MaxItems]
    /\ user \in [Calls -> {"none", "asking", "body", "over", "left"}]
    /\ nested \in [Calls -> Calls \cup {NoCall}]
    /\ QueueOK

\* A call whose lambda holds keep_alive, or whose Client object has not been
\* collected, never runs on a destroyed svn::client, as long as nobody
\* disposes a Client in use.
ClientOutlivesCalls ==
    \A c \in Calls :
        InFlight(c) /\ (method[c].keepAlive \/ wrapper[target[c]] # "collected")
            => svn[target[c]] = "alive"

\* A Client that is garbage and unused is destroyed, not leaked.
NoClientLeak ==
    \A k \in Clients :
        wrapper[k] = "collected" /\ (\A c \in Calls : InFlight(c) => target[c] # k)
            => svn[k] = "destroyed"

\* A worker runs at most one item ahead of its consumer: a consumer that waits
\* never has a worker that waits for it.
NoMutualWait ==
    \A c \in Calls : ~(stage[c] = "blocked" /\ user[c] = "asking")

\* While fewer iterables are open than the pool has threads, the pool is
\* never full of threads that wait for JavaScript.
ThreadAvailable ==
    MaxOpen < Threads => Cardinality({c \in Calls : stage[c] = "blocked"}) < Threads

\* Only calls of iterable methods block, and JavaScript keeps to MaxOpen.
OpenIsBounded ==
    /\ \A c \in Calls : stage[c] = "blocked" => method[c].iterable
    /\ Cardinality(OpenIterables) <= MaxOpen

\* A collected Client nobody holds is destroyed: NoClientLeak, made inductive
\* (a call without keep_alive does not count).
UnheldIsDestroyed ==
    \A k \in Clients :
        wrapper[k] = "collected" /\ (\A c \in Calls : Holds(c) => target[c] # k)
            => svn[k] = "destroyed"

\* The inductive invariant of ClientCallsProofs.  ClientOutlivesCalls joins it
\* for a program that disposes no Client in use.
IInv ==
    /\ TypeOK
    /\ UnheldIsDestroyed
    /\ NoMutualWait
    /\ OpenIsBounded

\* A call at work on a pool thread has its svn::client, what check_disposed
\* asserts when a method is called (node_client.hpp:52-61).  Fails when dispose()
\* comes during the work.
DisposedIsUnused == \A c \in Calls : OnThread(c) => svn[target[c]] = "alive"

\* checkout() returns a promise of the revision, whatever the program does
\* with the Client meanwhile.  Fails: ASYNC_BEGIN has no keep_alive.
CheckoutNeverCrashes ==
    \A c \in Calls : method[c] = checkout => stage[c] # "crashed"

\* Every call that was queued is answered, whatever other loops were left early:
\* unless its own loop is, or the process ends (iterable.hpp:82, work.hpp:16).
EveryCallAnswered ==
    \A c \in Calls :
        (stage[c] = "queued") ~> (stage[c] = "settled" \/ user[c] = "left" \/ ~Running)
=============================================================================
