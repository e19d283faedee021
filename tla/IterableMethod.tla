--------------------------- MODULE IterableMethod ---------------------------
(***************************************************************************)
(* One call of an iterable method of no::client (get_changelists, blame,   *)
(* info, log, remove, status: src/node/node_client.cpp): uv::queue_work    *)
(* runs the svn operation on a pool thread; for each item Subversion calls *)
(* callback_data::invoke, which calls a uv::async, whose callback yields   *)
(* into the iterable on the loop thread; after_work ends or rejects it.    *)
(*                                                                         *)
(* The async is a temporary of the work lambda, but for remove: there the  *)
(* method makes it before it queues the work, and the work lambda keeps it *)
(* until it is itself destroyed, on the loop thread after after_work.      *)
(*                                                                         *)
(* Composes UvAsync, with the pool thread as its one caller, and Iterable, *)
(* whose consume future is the inner future the caller waits for.          *)
(***************************************************************************)
EXTENDS Naturals, Sequences

CONSTANTS
    Worker,     \* the pool thread
    Nobody,     \* the null pointer of UvAsync
    Loops, Depth, MayBreak, MaxItems   \* as in Iterable

ASSUME WorkerAssumption == Worker # Nobody
ASSUME DepthAssumption == Depth \in Nat \ {0}
ASSUME MayBreakAssumption == MayBreak \in BOOLEAN
ASSUME MaxItemsAssumption == MaxItems \in Nat

VARIABLES
    pc, running, data, pending, executing, promise, inner, outcome, owned, handle,
    created, resolver, fulfilled, consume, microtasks, promises, sent,
    loop, waiting, got,
    early,    \* the method is remove: which one is called, never changed
    work,     \* where the call and its uv::work object are
    raised,   \* callback_data::_exception: "none" or "other"
    verdict,  \* the promise of uv::work: "none", "value", "svn_error", "other"
              \* or, for what Subversion's frames were unwound by, "unwound"
    reported  \* history: how many items Subversion called back with

A == INSTANCE UvAsync WITH Callers <- {Worker}, NoCaller <- Nobody, nested <- TRUE
I == INSTANCE Iterable

workVars == <<work, raised, verdict, reported>>
asyncVars == <<pc, running, data, pending, executing, promise, inner, outcome,
               owned, handle>>
iterVars == <<created, resolver, fulfilled, consume, microtasks, promises, sent,
              loop, waiting, got>>
vars == <<early, asyncVars, iterVars, workVars>>

Init ==
    /\ A!Init
    /\ I!Init
    /\ early \in BOOLEAN
    /\ work = "called"
    /\ raised = "none"
    /\ verdict = "none"
    /\ reported = 0

-----------------------------------------------------------------------------
(* The pool thread. *)

\* invoke_work: the work lambda makes the async it passes to svn::client, or
\* passes the one it has captured.
StartWork ==
    /\ work = "queued"
    /\ \/ ~early /\ A!Create /\ work' = "svn" /\ UNCHANGED verdict
       \/ ~early /\ A!CreateFails /\ work' = "worked" /\ verdict' = "other"
       \/ early /\ work' = "svn" /\ UNCHANGED <<verdict, asyncVars>>
    /\ UNCHANGED <<raised, reported, iterVars>>

\* Subversion has an item: callback_data::invoke enters the async.
SvnCallsBack ==
    /\ work = "svn"
    /\ raised = "none"
    /\ Len(sent) < MaxItems
    /\ A!Enter(Worker)
    /\ work' = "callback"
    /\ reported' = reported + 1
    /\ UNCHANGED <<raised, verdict, iterVars>>

\* Subversion has committed for remove, with an author or a date that is null:
\* invoke_commit makes a std::string of it before it calls invoke, outside its
\* try.  The exception unwinds Subversion's frames: the process ends, or it
\* reaches invoke_work, which keeps it.
CommitInfoThrows ==
    /\ early
    /\ work = "svn"
    /\ raised = "none"
    /\ work' \in {"crashed", "worked"}
    /\ verdict' = "unwound"
    /\ UNCHANGED <<raised, reported, asyncVars, iterVars>>

\* operator() until its frame is gone.
InOperatorCall ==
    /\ \/ A!Arm(Worker) \/ A!Send(Worker) \/ A!SendFails(Worker)
       \/ A!Return(Worker) \/ A!ReturnNested(Worker) \/ A!Unwind(Worker)
    /\ UNCHANGED <<workVars, iterVars>>

\* operator() is left.  callback_data::invoke keeps what it threw and answers
\* SVN_ERR_CANCELLED to Subversion.
CallbackDone ==
    /\ A!DropRef(Worker)
    /\ work' = "svn"
    /\ raised' = IF outcome[Worker] = "value" THEN "none" ELSE "other"
    /\ UNCHANGED <<verdict, reported, iterVars>>

\* Fault: only Subversion's own result is looked at.
VerdictOfSvn(result) == result

\* callback_data::check_result: the exception of the callback comes first,
\* whatever Subversion made of its SVN_ERR_CANCELLED.
Verdict(result) == IF raised # "none" THEN raised ELSE result

\* Subversion returns, an async made by the work lambda is destroyed with its
\* temporaries, and invoke_work keeps the result or the exception.
SvnReturns(result) ==
    /\ work = "svn"
    /\ IF early THEN UNCHANGED asyncVars ELSE A!Release
    /\ verdict' = Verdict(result)
    /\ work' = "worked"
    /\ UNCHANGED <<raised, reported, iterVars>>

PoolThread ==
    \/ StartWork \/ SvnCallsBack \/ CommitInfoThrows \/ InOperatorCall \/ CallbackDone
    \/ \E result \in {"value", "svn_error"} : SvnReturns(result)

-----------------------------------------------------------------------------
(* The loop thread, which is also the JavaScript thread. *)

\* The method of no::client: it queues the work and returns the iterable.
\* remove makes its async first; if uv_async_init fails there, the exception
\* leaves the method, no work is queued and no iterable is returned.
CallMethod ==
    /\ work = "called"
    /\ \/ ~early /\ work' = "queued" /\ UNCHANGED asyncVars
       \/ early /\ A!Create /\ work' = "queued"
       \/ early /\ A!CreateFails /\ work' = "refused"
    /\ UNCHANGED <<raised, verdict, reported, iterVars>>

\* Neither in invoke_async nor in after_work.
LoopFree == executing = Nobody /\ ~microtasks

\* libuv calls invoke_async.
InvokeAsync ==
    /\ LoopFree
    /\ A!InvokeAsync
    /\ UNCHANGED <<workVars, iterVars>>

\* The callback converts the item and yields it.
CallbackYields ==
    /\ executing = Worker
    /\ I!Yield
    /\ UNCHANGED <<workVars, asyncVars>>

\* Fault: the future of yield() is dropped, the worker does not wait.
CallbackReturnsReady ==
    /\ executing = Worker
    /\ I!ResolveReturns
    /\ A!CallbackReturns("value")
    /\ UNCHANGED workVars

\* yield() returns the future of _consume_promise, which is handed to the
\* worker; next() may have satisfied it during the microtasks.
CallbackReturns ==
    /\ executing = Worker
    /\ I!ResolveReturns
    /\ A!CallbackReturns(IF consume = "set" THEN "value" ELSE "unset")
    /\ UNCHANGED workVars

\* yield() throws because the previous item is still in the slot.
CallbackThrows ==
    /\ executing = Worker
    /\ ~microtasks
    /\ I!ResolveThrows
    /\ A!CallbackThrows
    /\ UNCHANGED <<workVars, iterVars>>

\* invoke_after_work: end() or, for an svn_error only, reject().
AfterWork ==
    /\ work = "worked"
    /\ LoopFree
    /\ \/ verdict = "value" /\ I!End
       \/ verdict = "svn_error" /\ I!Reject
    /\ work' = "ending"
    /\ UNCHANGED <<raised, verdict, reported, asyncVars>>

\* Any other exception, or one from end() or reject(), leaves after_work and
\* goes through libuv: the process ends.
AfterWorkEscapes ==
    /\ work = "worked"
    /\ LoopFree
    /\ verdict \in {"other", "unwound"} \/ I!ResolveThrows
    /\ work' = "crashed"
    /\ UNCHANGED <<raised, verdict, reported, asyncVars, iterVars>>

\* delete _this: the work lambda is destroyed, and for remove the async in it.
DeleteWork ==
    /\ work' = "deleted"
    /\ IF early THEN A!Release ELSE UNCHANGED asyncVars

\* Fault: the error path falls through to end().
AfterWorkReturnsTwice ==
    /\ work = "ending"
    /\ I!ResolveReturns
    /\ IF verdict = "svn_error"
         THEN work' = "worked" /\ verdict' = "value" /\ UNCHANGED asyncVars
         ELSE DeleteWork /\ UNCHANGED verdict
    /\ UNCHANGED <<raised, reported>>

\* end() or reject() returns, its future is dropped, the work is deleted.
AfterWorkReturns ==
    /\ work = "ending"
    /\ I!ResolveReturns
    /\ DeleteWork
    /\ UNCHANGED <<raised, verdict, reported>>

\* The close callback of the async handle.
DeleteHandle ==
    /\ LoopFree
    /\ A!DeleteHandle
    /\ UNCHANGED <<workVars, iterVars>>

LoopThread ==
    \/ CallMethod
    \/ InvokeAsync \/ CallbackYields \/ CallbackReturns \/ CallbackThrows
    \/ AfterWork \/ AfterWorkEscapes \/ AfterWorkReturns \/ DeleteHandle

\* JavaScript runs between the callbacks of the loop and in the microtasks.
\* A next() that takes a settled promise satisfies _consume_promise, which is
\* the inner future the worker waits for once it has been returned.
JavaScript(l) ==
    /\ work \notin {"called", "refused"}
    /\ executing = Nobody \/ microtasks
    /\ I!JavaScript(l)
    /\ IF inner[Worker] = "unset" /\ consume' = "set"
         THEN A!Settle(Worker, "value")
         ELSE UNCHANGED asyncVars
    /\ UNCHANGED workVars

-----------------------------------------------------------------------------
Running == work # "crashed"

Next ==
    /\ Running
    /\ PoolThread \/ LoopThread \/ \E l \in Loops : JavaScript(l)
    /\ UNCHANGED early

Spec == Init /\ [][Next]_vars

\* The pool runs the work and Subversion ends, the loop turns, and the users
\* of the iterable keep asking (unless they leave).
Fairness ==
    /\ WF_vars(Running /\ PoolThread /\ UNCHANGED early)
    /\ WF_vars(Running /\ LoopThread /\ UNCHANGED early)
    /\ \A l \in Loops : WF_vars(Running /\ JavaScript(l) /\ UNCHANGED early)

FairSpec == Spec /\ Fairness

-----------------------------------------------------------------------------
(* Properties. *)

\* The two components are in their own states, and the worker is inside
\* operator() exactly while Subversion waits for its callback.
TypeOK ==
    /\ A!TypeOK
    /\ I!TypeOK
    /\ early \in BOOLEAN
    /\ work \in {"called", "refused", "queued", "svn", "callback", "worked", "ending",
                "deleted", "crashed"}
    /\ raised \in {"none", "other"}
    /\ verdict \in {"none", "value", "svn_error", "other", "unwound"}
    /\ reported \in 0 .. MaxItems
    /\ pc[Worker] # "idle" <=> work = "callback"

\* The handshake of an item: yield(), end() and reject() always find the slot
\* free (iterable.hpp:104-106 never throws), because the worker waits for exactly
\* the future that next() satisfies (iterable.hpp:161-166, async.hpp:33).
Handshake ==
    /\ (executing = Worker /\ ~microtasks) \/ work = "worked" => ~fulfilled
    /\ inner[Worker] = "unset" <=> consume = "unset" /\ promise[Worker] = "value"

\* What takes the process down is never an exception of the handshake: a libuv
\* call failed, or the commit info of a remove could not be converted.
NoOwnEscape ==
    work = "crashed" =>
        \/ outcome[Worker] = "abort"                            \* uv_async_send
        \/ ~early /\ outcome[Worker] = "none" /\ sent = <<>>     \* uv_async_init
        \/ early /\ verdict = "unwound"                         \* invoke_commit

\* When the work has returned nobody uses its async any more, so that nothing
\* wakes the loop for a call that is over: not even for remove, whose handle is
\* still open while after_work runs the program's microtasks, and is closed
\* with the work (node_client.cpp:816-819, work.hpp:38-40).
NothingOutlivesWork ==
    work \in {"worked", "ending", "deleted"} =>
        /\ ~running /\ ~pending /\ executing = Nobody
        /\ pc[Worker] = "idle"
        /\ IF early /\ work # "deleted"
             THEN owned /\ handle = "open"
             ELSE ~owned /\ handle \in {"closing", "freed"}

\* A loop that ends normally was given every item Subversion reported: one that
\* was lost in between makes the iteration fail, whatever Subversion returned
\* (client.cpp:52-70).
EndMeansComplete ==
    \A l \in Loops :
        got[l] # <<>> /\ got[l][Len(got[l])] = I!Done => Len(got[l]) = reported + 1

\* The worker waits for the consumer exactly while its item is in the slot.
SlotLinked ==
    /\ fulfilled => \/ executing = Worker /\ microtasks
                    \/ inner[Worker] = "unset"
                    \/ work \in {"ending", "deleted"}
    /\ inner[Worker] = "unset" => fulfilled
    /\ microtasks => /\ executing = Worker \/ work = "ending"
                     /\ consume # "none"

\* yield() never throws in the callback, so a call that fails failed in libuv.
NoException ==
    /\ promise[Worker] # "exception"
    /\ inner[Worker] # "exception"
    /\ outcome[Worker] \in {"none", "value", "abort"}
    /\ pc[Worker] \in {"entered", "armed", "waiting", "nested"} => outcome[Worker] = "none"
    /\ pc[Worker] \in {"unwinding", "dropping"} => outcome[Worker] # "none"
    /\ pc[Worker] = "unwinding" /\ promise[Worker] = "value" => outcome[Worker] = "value"
    /\ raised = "other" => outcome[Worker] = "abort"
    /\ verdict = "other" =>
          /\ work \in {"worked", "crashed"}
          /\ \/ outcome[Worker] = "abort"
             \/ ~early /\ outcome[Worker] = "none" /\ sent = <<>>
    /\ verdict = "unwound" => early /\ work \in {"worked", "crashed"}

\* What is already known in each phase of the work.
PhaseSound ==
    /\ verdict = "none" <=> work \in {"called", "refused", "queued", "svn", "callback"}
    /\ work \in {"called", "refused", "queued", "callback"} => raised = "none"
    /\ work \in {"called", "refused", "queued"} =>
          sent = <<>> /\ reported = 0 /\ outcome[Worker] = "none"
    /\ work \notin {"ending", "deleted"} => ~I!Ended(sent)

\* The async exists from where it is made to where it is destroyed.
AsyncHeld ==
    /\ owned => work \in {"queued", "svn", "callback", "worked", "ending", "crashed"}
    /\ early /\ work \in {"queued", "svn", "callback", "worked", "ending"} => owned
    /\ ~early /\ work \in {"worked", "ending", "deleted"} => ~owned

\* The item Subversion waits for has been put into the slot.
Yielded ==
    \/ executing = Worker /\ microtasks
    \/ promise[Worker] = "value"
    \/ outcome[Worker] = "value"

\* Every item reported is sent before the next one is.
Counted ==
    /\ (work = "svn" /\ raised = "none") \/ (work = "worked" /\ verdict = "value") =>
          Len(sent) = reported
    /\ work = "callback" => reported = Len(sent) + (IF Yielded THEN 0 ELSE 1)

\* The end or an error comes last, and the end after every item.
EndsLast ==
    \A i \in DOMAIN sent :
        /\ I!Terminal(sent[i]) => i = Len(sent)
        /\ sent[i] = I!Done => Len(sent) = reported + 1

\* The inductive strengthening of the invariants above.
IInv ==
    /\ TypeOK
    /\ A!IInv
    /\ I!IInv
    /\ SlotLinked
    /\ NoException
    /\ PhaseSound
    /\ AsyncHeld
    /\ Counted
    /\ EndsLast
    /\ NothingOutlivesWork
    /\ NoOwnEscape

\* A consumed operation gives its pool thread back, and the consumer gets to
\* the end of its iteration (node_client.cpp:440-468).
BothSidesFinish ==
    /\ (work = "svn") ~> (work \in {"deleted", "crashed"})
    /\ \A l \in Loops :
          (loop[l] = "in") ~> (loop[l] \in {"finished", "left"} \/ work = "crashed")

\* The worker keeps the protocol Iterable expects of its producer, so that the
\* operation as a whole is the bounded first-in first-out stream Iterable is.
ImplementsIterable == I!Spec
=============================================================================
