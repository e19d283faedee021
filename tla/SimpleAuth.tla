----------------------------- MODULE SimpleAuth -----------------------------
(***************************************************************************)
(* Simple authentication: Subversion, on a pool thread, prompts for a user *)
(* name and password; src/cpp/client.cpp passes the prompt to the one      *)
(* provider of svn::client, which is no::simple_auth_provider               *)
(* (src/node/auth/simple.cpp); that calls uv::async and, on the loop       *)
(* thread, asks the JavaScript functions in the order of registration.     *)
(*                                                                         *)
(* Composes UvAsync.  One Client: its methods are called, its providers    *)
(* are added and removed (also by a provider that runs), and it is         *)
(* garbage-collected only when no operation is left (a Client that is lost *)
(* earlier is the business of ClientCalls).                                *)
(***************************************************************************)
EXTENDS Naturals, Sequences, SequencesExt

CONSTANTS
    Workers,     \* method calls on the Client, each with its pool thread
    Nobody,      \* the null pointer of UvAsync
    Providers,   \* the JavaScript functions a program registers
    MaxPrompts,  \* bound on the prompts of one operation
    MaxEdits     \* bound on the registrations and removals of a program

ASSUME NobodyAssumption == Nobody \notin Workers
ASSUME BoundsAssumption == MaxPrompts \in Nat /\ MaxEdits \in Nat

VARIABLES
    pc, running, data, pending, executing, promise, inner, outcome, owned, handle,
    serial,     \* the program keeps to one operation per Client at a time
    alive,      \* the node process
    operation,  \* where each method call is
    prompts,    \* how often each has prompted
    functions,  \* simple_auth_provider::_functions: a Set, in insertion order
    edits,
    loop,       \* where the loop thread is in _invoke_implement
    array,      \* what is left of the array it iterates over
    asked,      \* the functions called for this prompt (history)
    kept,       \* those registered ever since it began (history)
    future,     \* no::promise::then's future: "none": the answer was no promise
    credential, \* what each worker's latest prompt gave to Subversion
    offered     \* whether a function answered that prompt with a SimpleAuth (history)

A == INSTANCE UvAsync WITH Callers <- Workers, NoCaller <- Nobody, nested <- FALSE

asyncVars == <<pc, running, data, pending, executing, promise, inner, outcome,
               owned, handle>>
programVars == <<serial, alive, operation, prompts>>
setVars == <<functions, edits>>
promptVars == <<loop, array, asked, future, credential, offered>>
vars == <<asyncVars, programVars, setVars, promptVars, kept>>

Init ==
    /\ A!Init
    /\ serial \in BOOLEAN
    /\ alive = TRUE
    /\ operation = [w \in Workers |-> "none"]
    /\ prompts = [w \in Workers |-> 0]
    /\ functions = <<>>
    /\ edits = 0
    /\ loop = "free"
    /\ array = <<>>
    /\ asked = <<>>
    /\ kept = {}
    /\ future = "none"
    /\ credential = [w \in Workers |-> "none"]
    /\ offered = [w \in Workers |-> FALSE]

-----------------------------------------------------------------------------
(* JavaScript, run by the event loop or by a provider that was called. *)

JavaScript == alive /\ loop \in {"free", "javascript"}

Busy(w) == operation[w] \notin {"none", "done"}

\* no::client's constructor; when uv_async_init fails there is no Client.
Construct ==
    /\ JavaScript
    /\ A!Create \/ A!CreateFails
    /\ UNCHANGED <<programVars, setVars, promptVars, kept>>

\* A method: uv::queue_work; a pool thread takes it up.
CallMethod(w) ==
    /\ JavaScript
    /\ owned
    /\ operation[w] = "none"
    /\ serial => \A v \in Workers : ~Busy(v)
    /\ operation' = [operation EXCEPT ![w] = "svn"]
    /\ UNCHANGED <<asyncVars, serial, alive, prompts, setVars, promptVars, kept>>

\* add(): Set.prototype.add keeps the place of a function that is there.
Add(f) ==
    /\ JavaScript
    /\ owned
    /\ edits < MaxEdits
    /\ functions' = IF Contains(functions, f) THEN functions ELSE Append(functions, f)
    /\ edits' = edits + 1
    /\ UNCHANGED <<asyncVars, programVars, promptVars, kept>>

\* remove(): Set.prototype.delete; a function that is absent is an exception
\* in JavaScript and changes nothing.
Remove_(f) ==
    /\ JavaScript
    /\ owned
    /\ edits < MaxEdits
    /\ functions' = IF Contains(functions, f)
                      THEN RemoveAt(functions, CHOOSE i \in 1..Len(functions) : functions[i] = f)
                      ELSE functions
    /\ kept' = kept \ {f}
    /\ edits' = edits + 1
    /\ UNCHANGED <<asyncVars, programVars, promptVars>>

\* Fault: dispose() would drop the async under a prompt.
CollectEarly ==
    /\ alive /\ loop = "free"
    /\ owned
    /\ owned' = FALSE
    /\ handle' = "closing"
    /\ UNCHANGED <<pc, running, data, pending, executing, promise, inner, outcome,
                   programVars, setVars, promptVars, kept>>

\* Nobody refers to the Client any more: its async goes with it.  dispose()
\* does not do this: it only drops the svn::client.
Collect ==
    /\ alive /\ loop = "free"
    /\ \A w \in Workers : ~Busy(w)
    /\ A!Release
    /\ UNCHANGED <<programVars, setVars, promptVars, kept>>

-----------------------------------------------------------------------------
(* The pool thread of an operation. *)

\* Subversion needs a credential: invoke_get_simple_prompt_provider.
Prompt(w) ==
    /\ alive
    /\ operation[w] = "svn"
    /\ prompts[w] < MaxPrompts
    /\ A!Enter(w) \/ A!EnterBusy(w)
    /\ operation' = [operation EXCEPT ![w] = "prompting"]
    /\ prompts' = [prompts EXCEPT ![w] = @ + 1]
    /\ offered' = [offered EXCEPT ![w] = FALSE]
    /\ UNCHANGED <<serial, alive, setVars, loop, array, asked, future, credential, kept>>

\* Subversion knows no user name and passes null, of which a std::string is made
\* before the async is entered: it throws through Subversion's C frames, or the
\* process ends.
PromptWithoutName(w) ==
    /\ alive
    /\ operation[w] = "svn"
    /\ prompts[w] < MaxPrompts
    /\ \/ operation' = [operation EXCEPT ![w] = "thrown"] /\ UNCHANGED alive
       \/ alive' = FALSE /\ UNCHANGED operation
    /\ prompts' = [prompts EXCEPT ![w] = @ + 1]
    /\ UNCHANGED <<asyncVars, serial, setVars, promptVars, kept>>

\* async::operator().
InOperatorCall(w) ==
    /\ alive
    /\ A!OperatorCall(w)
    /\ UNCHANGED <<programVars, setVars, promptVars, kept>>

\* The prompt returns to Subversion, which goes on with or without a
\* credential; what the async threw leaves through Subversion's C frames, for
\* there is no try around it.  Those frames may have no unwind information.
Prompted(w) ==
    /\ alive
    /\ operation[w] = "prompting"
    /\ pc[w] = "idle"
    /\ IF outcome[w] = "value"
         THEN operation' = [operation EXCEPT ![w] = "svn"] /\ UNCHANGED alive
         ELSE \/ operation' = [operation EXCEPT ![w] = "thrown"] /\ UNCHANGED alive
              \/ alive' = FALSE /\ UNCHANGED operation
    /\ UNCHANGED <<asyncVars, serial, prompts, setVars, promptVars, kept>>

SvnReturns(w) ==
    /\ alive
    /\ operation[w] = "svn"
    /\ operation' = [operation EXCEPT ![w] = "returned"]
    /\ UNCHANGED <<asyncVars, serial, alive, prompts, setVars, promptVars, kept>>

-----------------------------------------------------------------------------
(* The loop thread. *)

\* resolver::set_result runs the microtasks, and the reactions of the promise
\* a provider returned are among them once it is settled.
Reactions ==
    future' \in IF future = "unset" THEN {"unset", "credential", "declined"}
                                    ELSE {future}

\* Fault: the wait inside _invoke_implement keeps the event loop turning.
AfterWorkWhileWaiting(w) ==
    /\ alive /\ loop \in {"free", "waiting"}
    /\ operation[w] = "returned"
    /\ operation' = [operation EXCEPT ![w] = "done"]
    /\ Reactions
    /\ UNCHANGED <<asyncVars, serial, alive, prompts, setVars, loop, array, asked,
                   credential, offered, kept>>

\* invoke_after_work: the promise of the method is settled.
AfterWork(w) ==
    /\ alive /\ loop = "free"
    /\ operation[w] = "returned"
    /\ operation' = [operation EXCEPT ![w] = "done"]
    /\ Reactions
    /\ UNCHANGED <<asyncVars, serial, alive, prompts, setVars, loop, array, asked,
                   credential, offered, kept>>

\* REPORT_ERROR only knows svn_error: what the async threw goes on into libuv
\* and ends the process.
AfterWorkEscapes(w) ==
    /\ alive /\ loop = "free"
    /\ operation[w] = "thrown"
    /\ alive' = FALSE
    /\ UNCHANGED <<asyncVars, serial, operation, prompts, setVars, promptVars, kept>>

\* libuv calls invoke_async, that calls _invoke_implement.
InvokeImplement ==
    /\ alive /\ loop = "free"
    /\ A!InvokeAsync
    /\ loop' = "converting"
    /\ asked' = <<>>
    /\ kept' = ToSet(functions)
    /\ UNCHANGED <<programVars, setVars, array, future, credential, offered>>

\* no::data(isolate, username): the overload for an optional calls itself with
\* every value that is there, and client.cpp:142 always gives one.  Unbounded
\* recursion is undefined: the stack overflows, or the build goes on with some
\* argument.
ConvertArguments ==
    /\ alive /\ loop = "converting"
    /\ \/ alive' = FALSE /\ UNCHANGED <<loop, array>>
       \/ loop' = "asking" /\ array' = functions /\ UNCHANGED alive
    /\ UNCHANGED <<asyncVars, serial, operation, prompts, setVars, asked, future,
                   credential, offered, kept>>

\* Fault: the loop reads the live Set instead of a copy.
AskLive ==
    /\ alive /\ loop = "asking" /\ array # <<>>
    /\ LET rest == SubSeq(functions, Len(asked) + 1, Len(functions))
       IN  IF rest = <<>> THEN array' = <<>> /\ UNCHANGED <<loop, asked>>
           ELSE /\ array' = Tail(rest)
                /\ asked' = Append(asked, Head(rest))
                /\ loop' = "javascript"
    /\ UNCHANGED <<asyncVars, programVars, setVars, future, credential, offered, kept>>

\* function->Call for the next function of the array.
Ask ==
    /\ alive /\ loop = "asking" /\ array # <<>>
    /\ array' = Tail(array)
    /\ asked' = Append(asked, Head(array))
    /\ loop' = "javascript"
    /\ UNCHANGED <<asyncVars, programVars, setVars, future, credential, offered, kept>>

\* The function throws: ToLocalChecked aborts the process.
FunctionThrows ==
    /\ alive /\ loop = "javascript"
    /\ alive' = FALSE
    /\ UNCHANGED <<asyncVars, serial, operation, prompts, setVars, promptVars, kept>>

\* The function returns.  A promise gets its reactions and a future; any other
\* value is not looked at, a SimpleAuth included.
Answer ==
    /\ alive /\ loop = "javascript"
    /\ loop' = "waiting"
    /\ \E answer \in {"undefined", "SimpleAuth", "promise"} :
          /\ future' = IF answer = "promise" THEN "unset" ELSE "none"
          /\ offered' = [offered EXCEPT ![executing] = @ \/ answer = "SimpleAuth"]
    /\ UNCHANGED <<asyncVars, programVars, setVars, array, asked, credential, kept>>

\* Fault: an answer that is no promise is looked at again and again.
AnswerAgain ==
    /\ alive /\ loop = "waiting"
    /\ future # "unset"
    /\ loop' = "waiting"
    /\ UNCHANGED <<asyncVars, programVars, setVars, array, asked, future,
                   credential, offered, kept>>

\* future.get() blocks until the reactions have run; a credential ends the
\* loop over the functions.
GetAnswer ==
    /\ alive /\ loop = "waiting"
    /\ future # "unset"
    /\ loop' = "asking"
    /\ array' = IF future = "credential" THEN <<>> ELSE array
    /\ UNCHANGED <<asyncVars, programVars, setVars, asked, future, credential, offered, kept>>

\* _invoke_implement returns; the prompt copies a credential for Subversion.
ReturnAnswer ==
    /\ alive /\ loop = "asking" /\ array = <<>>
    /\ A!CallbackReturns("none")
    /\ credential' = [credential EXCEPT ![executing] =
                        IF future = "credential" THEN "credential" ELSE "none"]
    /\ future' = "none"
    /\ loop' = "free"
    /\ UNCHANGED <<programVars, setVars, array, asked, offered, kept>>

\* libuv's close callback.
DeleteHandle ==
    /\ alive /\ loop = "free"
    /\ A!DeleteHandle
    /\ UNCHANGED <<programVars, setVars, promptVars, kept>>

\* The loop thread waits for a reaction that only the loop thread can run.
Blocked == alive /\ loop = "waiting" /\ future = "unset"

\* The process is gone, or blocked, or has nothing left to do.
Stopped ==
    /\ ~alive \/ Blocked \/ handle = "freed"
    /\ UNCHANGED vars

-----------------------------------------------------------------------------
PoolThread(w) == InOperatorCall(w) \/ Prompted(w)

LoopThread ==
    \/ InvokeImplement \/ ConvertArguments \/ Ask \/ Answer \/ GetAnswer
    \/ ReturnAnswer \/ DeleteHandle

Next ==
    \/ Construct \/ Collect
    \/ \E f \in Providers : Add(f) \/ Remove_(f)
    \/ \E w \in Workers :
          \/ CallMethod(w) \/ Prompt(w) \/ PromptWithoutName(w) \/ PoolThread(w) \/ SvnReturns(w)
          \/ AfterWork(w) \/ AfterWorkEscapes(w)
    \/ FunctionThrows
    \/ LoopThread
    \/ Stopped

Spec == Init /\ [][Next]_vars

\* Threads run, Subversion returns, libuv serves its queue, and a function
\* that is called returns.  Nobody has to call, register or collect.
Fairness ==
    /\ \A w \in Workers : /\ WF_vars(PoolThread(w)) /\ WF_vars(SvnReturns(w))
                          /\ SF_vars(AfterWork(w) \/ AfterWorkEscapes(w))
    /\ WF_vars(LoopThread)

FairSpec == Spec /\ Fairness

-----------------------------------------------------------------------------
(* Properties. *)

\* Types, and that the loop thread is in _invoke_implement exactly while it
\* executes somebody's call.
TypeOK ==
    /\ serial \in BOOLEAN /\ alive \in BOOLEAN
    /\ operation \in [Workers -> {"none", "svn", "prompting", "thrown", "returned", "done"}]
    /\ prompts \in [Workers -> 0..MaxPrompts]
    /\ functions \in Seq(Providers) /\ array \in Seq(Providers)
    /\ asked \in Seq(Providers) /\ kept \subseteq Providers
    /\ edits \in 0..MaxEdits
    /\ loop \in {"free", "converting", "asking", "javascript", "waiting"}
    /\ future \in {"none", "unset", "credential", "declined"}
    /\ credential \in [Workers -> {"none", "credential"}]
    /\ offered \in [Workers -> BOOLEAN]
    /\ loop = "free" <=> executing = Nobody

\* A prompt asks no function twice, and when it has asked them all, whatever
\* the functions themselves registered or removed, it has asked each that was
\* registered all the time (simple.cpp:169-173: the array is a copy).
EveryFunctionAsked ==
    /\ \A i, j \in DOMAIN asked : asked[i] = asked[j] => i = j
    /\ loop = "asking" /\ array = <<>> /\ future # "credential" => kept \subseteq ToSet(asked)

\* A provider may answer with a SimpleAuth (index.d.ts:150-151): when it did and
\* the prompt has returned, Subversion has a credential.  Fails: an answer that
\* is no promise is not looked at (simple.cpp:175-180).
CredentialReachesSvn ==
    \A w \in Workers :
        operation[w] = "prompting" /\ pc[w] = "idle" /\ outcome[w] = "value" /\ offered[w]
            => credential[w] = "credential"

\* In a program that keeps to the rule of README.md:83-89, no prompt finds
\* the async of its Client taken (async.hpp:82-87), however often one operation
\* prompts: the previous call has given the line back.
NeverRefused == serial => \A w \in Workers : outcome[w] # "busy"

\* Once the loop thread waits for a provider's promise only the end of the process
\* ends it, whatever the other threads do, and no method call is ever settled
\* again (simple.cpp:177).
BlockedForGood ==
    [][Blocked => /\ Blocked' \/ ~alive'
                  /\ \A w \in Workers : operation'[w] = "done" => operation[w] = "done"]_vars

\* Every method call is settled, and every prompt it makes on the way returns,
\* unless the loop thread blocks or the process ends (simple.cpp:169-185).
CallSettles ==
    \A w \in Workers : operation[w] = "svn" ~> operation[w] = "done" \/ Blocked \/ ~alive

\* The composition uses uv::async only as UvAsync allows: every step of the
\* threads, of JavaScript and of the garbage collector is one of its own.
ImplementsAsync == A!Spec
=============================================================================
