# node-svn: a verification development

node-svn makes the Subversion client library available to Node.js as a native
addon. This directory holds TLA+ models of its own code (`src/src/**`; the vendored apr,
openssl, serf, expat and subversion under `src/deps` are external), the TLC configurations that check
them, and TLAPS proofs. Paths below are relative to `src/src/` unless they start with `src/`.

## 1. Inventory

### What runs where

JavaScript and libuv's loop share one thread, the *loop thread*. Every Subversion operation runs on one of
libuv's *pool threads* (4 by default). A method of `Client` converts its arguments on the loop thread, queues
a `uv::work`, and returns a promise or an async iterable. The work runs `svn::client` on a pool thread;
whenever Subversion reports something JavaScript must see, the pool thread makes a *synchronous call to the loop thread*
through a `uv::async` and waits for its answer; for iterables the answer comes only when the consumer asks for the next item.
After the operation, `after_work` settles the promise or ends the iterable on the loop thread.

```
 loop thread                                            pool thread
 Client.method()  --uv::queue_work-------------------->  svn::client::method()
                                                           svn_client_*()
 invoke_async: callback <--uv::async::operator()--------     callback_data::invoke / notify_scope
   iterable.yield(item) ---uv::future of the consumption-->   ... waits
 for await: next()  -----satisfies that future---------->      ... goes on
 after_work: end()/reject()/resolve  <-----------------  returns or throws
```

### Components

| component | source | state | operations | what is hard |
|---|---|---|---|---|
| cross-thread call | `uv/async.hpp`, `uv/future.hpp` | the `uv_async_t` with its raw `data` pointer, `running`, the caller's frame and promise, the shared handle | `operator()`, `invoke_async`, construction, destruction | threads against the loop, wake-ups that coalesce, a pointer that is never reset, libuv calls that fail, who closes the handle |
| job on the pool | `uv/work.hpp` | the work object, its result, its promise | `queue_work`, `invoke_work`, `invoke_after_work` | exceptions across C frames, a finite pool |
| async iterable | `node/iterable.hpp` | `_resolver`, `_resolver_fulfilled`, `_consume_promise`, `_iterator_created` | `yield`, `end`, `reject`, `next`, `[Symbol.asyncIterator]` | one slot in two roles; re-entrance of `next` inside `resolve`; loops left early |
| methods of `Client` | `node/node_client.cpp` | the captures of the work lambdas | 17 methods | which of them hold `keep_alive`, and who holds the async; two-way handshake of worker and consumer |
| life of a `Client` | `node/node_client.*`, `objects/class_builder.hpp` | `_client`, the weak handle of the wrapper | construction, `check_disposed`, `dispose`, the weak callback | garbage collection and `dispose` against calls in flight |
| `svn::client` | `cpp/client.cpp` | one `svn_client_ctx_t`: `notify_baton2`, `log_msg_baton3`; `_exception` of each callback | 17 operations, `notify_scope`, `callback_data`, `invoke_log_message` | one context for all operations, pointers into frames that end, exceptions through Subversion |
| simple authentication | `node/auth/simple.cpp`, `cpp/client.cpp:134-154` | the set of JavaScript providers, the async of the Client, the answer waited for | `add`, `remove`, the prompt | waits on the loop thread for a promise only the loop thread can settle; providers that change the set; exceptions through Subversion |
| wrapping, resolver | `objects/*.hpp` | the wrapper and its `shared_ptr` | construction, property access, settling | the weak callback |
| conversions | `node/v8.hpp`, `*/type_conversion.hpp` | where the strings of a call live | between V8, C++ and Subversion | what is refused, where and how; pointers and the memory they lead to; integer widths |
| error chains | `cpp/svn_error.*`, `cpp/type_conversion.hpp:14-43` | a code and a chain of children on the heap | copy, move, conversion from `svn_error_t` and to `Error` | ownership across two threads and `exception_ptr` |
| memory accounting | `cpp/malloc.*` | a global counter | `malloc`, `free`, `reset` | requested against usable size |
| repositories, exports, enumerations | `node/repos.hpp`, `node/export.cpp`, `node/enum/*` | none | start-up | |

How they interact: *method -> work* (call), *work -> svn::client* (call on a pool thread), *svn::client -> uv::async* (callback), *async -> iterable*
(call on the loop thread), *iterable -> async* (a future), *work -> iterable or resolver* (call after the work), *JavaScript -> all of them*
(calls, garbage collection).

What makes each correct: a cross-thread call returns exactly what its own run of the callback produced, never follows a dead frame
and never loses a wake-up; an iterable delivers every item once and in order, then the end or the error, and always lets its producer go on when it is consumed; no call uses a
destroyed `svn::client` and no `svn::client` is leaked; pool threads that wait for JavaScript cannot all be waiting for calls that need a pool thread;
the context's batons name live frames of the running operation; arguments reach Subversion as they were given, or are refused; a prompt asks every provider; every failure reaches the caller it belongs to, whole, and leaves nothing behind.

`PROJECT.json` lists the hazards line by line, with the properties that cover them or the reason none does.

## 2. The modules

| module | models | composes |
|---|---|---|
| `CrossThreadCall` | abstract: a synchronous, mutually exclusive call | |
| `UvAsync` | `uv/async.hpp` | refines `CrossThreadCall` |
| `ItemStream` | abstract: a bounded first-in first-out stream with an end | |
| `Iterable` | `node/iterable.hpp` and its JavaScript users | refines `ItemStream` |
| `IterableMethod` | one call of an iterable method, end to end | `UvAsync` and `Iterable`; refines `ItemStream` |
| `ClientCalls` | many calls on many `Client`s: the pool, lifetimes, garbage collection, `dispose` | abstracts `IterableMethod` to one step per item |
| `SvnContext` | the operations of one `svn::client` and the context they share | |
| `SimpleAuth` | `node/auth/simple.cpp` and the prompt in `cpp/client.cpp` | `UvAsync`; refines it |
| `Arguments` | the conversions of arguments and numbers, as operators | |
| `ErrorChain` | `svn_error`, `throw_error`, the exception in `uv::work`, `copy_error` | |
| `CallData` | what travels through one call of each of the 17 methods | `Arguments` and `ErrorChain` |
| `UvAsyncProofs`, `ClientCallsProofs`, `SvnContextProofs`, `IterableProofs` | theorems about the module of that name | |
| `IterableMethodProofs` | theorems about the composition | `UvAsyncProofs` and `IterableProofs`, instantiated |
| `SimpleAuthProofs` | theorems about authentication | `UvAsyncProofs`, instantiated |
| `CallDataProofs`, `CallArgumentsProofs` | theorems about `CallData`: its errors; its arguments and answers | the second extends the first |
| `MCClientCalls`, `MCSvnContext`, `MCCallData` | constants and symmetry for TLC | |

Definitions have the names of the source where it has one (`invoke_log_message`, `notify_baton2`, `running`). An operator whose comment
begins with *Fault:* is a plausible mistake in the operation after it; it is never used by the specification, only put in the place of that
operation to see that the properties notice.

### UvAsync

State and code: `pc[c]` is where the thread `c` is in `async::operator()` (lines 18-37): *entered* (`running_scope` built), *armed* (pointer and
callback stored), *waiting* (`future.get()`), *nested* (the second `get()`, when the callback returned a future), *unwinding*, *dropping* (the reference of
`running_scope`). `running` is the atomic flag, `data` the raw pointer in the handle, `promise[c]` and `inner[c]` live in the
frame of the caller, `handle` is the `uv_async_t`. `pending` is libuv's wake-up flag: a send sets it, however often; the loop clears it and calls the
callback. `uv_async_init` and `uv_async_send` may fail. The object may be destroyed while a call waits, as the code foresees with its shared handle, but not
while a call still reads `_handle` out of it (`Release`), which is the rule of every C++ object and is kept by the callers (the async is a temporary of the work lambda, or captured by it).

### Iterable

`resolver` is the one slot: a promise `next()` left there, or (`fulfilled`) one that `resolve()` left there already settled. `Resolve` is `resolve()` up to `RunMicrotasks`,
`ResolveReturns` its return; between them (`microtasks`) the reactions of JavaScript run and may call `next()` again. Users of the iterable are `for await` loops:
they ask again only after an answer (`Depth = 1`), may leave (`Break`), and a second one is refused by `_iterator_created`.
The producer waits for the future of an item before it yields the next, which `IterableMethod` justifies: its property `ImplementsIterable` says the composed worker is such a producer.

### IterableMethod

One call of `get_changelists`, `blame`, `info`, `log`, `status` or `remove`, with every part instantiated. `CallMethod` queues the work. The siblings make their async in the work lambda on the pool thread (`StartWork`) and destroy it with the
temporaries of that statement (`SvnReturns`). `remove` (`early`) makes it on the loop thread before it queues the work (`node/node_client.cpp:816`, `627`; when `uv_async_init` fails there the method throws, *refused*), the work lambda captures it (line 819), and it closes only at
`delete _this` (`uv/work.hpp:40`, `DeleteWork`), after `after_work` and the program's microtasks.
Then `SvnCallsBack` (`callback_data::invoke`), `CallbackYields`/`CallbackReturns` (`invoke_async` runs `yield`; its future becomes the inner future of the call), `JavaScript` (a `next()` that takes an item
settles it), `SvnReturns` (`check_result`: the callback's exception goes first), `AfterWork`/`AfterWorkReturns` (`end` or `reject`), and `AfterWorkEscapes`: an exception that is not an
`svn_error` leaves `after_work` into libuv and ends the process. `CommitInfoThrows`: the callback of `remove` goes through `invoke_commit`, which makes a `std::string` of an author or a date that may be null outside its `try` (`cpp/client.cpp:539-542`).
`reported` is history: how many items Subversion called back with. `commit` is not among the calls (section 5).

### ClientCalls

A call is *queued*, *working* (on a thread), *blocked* (its thread waits for the consumer), *worked* (its `after_work` is due), *settled*. A method is a record: does its lambda hold
`keep_alive`, does it return an iterable? All 17 methods are defined so; methods made with `METHOD_BEGIN`...`METHOD_RETURN` capture `this` only. `svn[k]` is what
`_client` points to, `wrapper[k]` the JavaScript object: `Forget` and `Collect` are the program and the collector. `nested[p] = c` says that the loop body over `p` awaits `c`. Using
a destroyed `svn::client` is undefined: the operation crashes (`UseAfterFree`) or goes on by any other step. Whether `dispose()` may come at a bad time, whether loops are left and whether Clients are forgotten are constants.

### SvnContext

Operations are records as well: do they build a `notify_scope`, set the log message, pass a callback to JavaScript? `Begin` ... `Return` follow one operation through conversion of arguments,
`notify_scope`'s constructor (which may refuse), Subversion's callbacks, `check_result` and the destructors. The program obeys `src/README.md:85`: one operation at a time on a
Client. But JavaScript may leave a loop, and the operation then stays inside Subversion for good (`"left"`), since the iterator has no `return()`, while the program goes on with the next. What Subversion does between callbacks is free: report, ask for the message of a commit
once and first, call back, succeed or fail. An exception that `notify_scope::_invoke` lets out is taken to unwind through Subversion's C frames, the outcome with the most consequences (with no unwind tables the process would end).

### SimpleAuth

The workers are method calls with their pool threads. `Prompt` is `invoke_get_simple_prompt_provider` (or `PromptWithoutName`: Subversion passes a null user name, of which line 142 makes a `std::string` before the async is entered; it throws, or the process ends): it enters `uv::async` (all its steps are those of `UvAsync`, taken with `INSTANCE`), and the loop thread runs
`_invoke_implement`: `ConvertArguments`, then for each function of the copied array `Ask`, the function itself (`loop = "javascript"`, while which JavaScript may add, remove and call methods), `Answer`, `GetAnswer`.
`future` is the one `no::promise::then` returned; it is *none* when the answer was no promise, which the code does not look at. `offered` is history: whether a function answered the prompt with a `SimpleAuth`. Reactions of promises run with the microtasks of `resolver::set_result` (`AfterWork`), never inside `_invoke_implement`,
so a function that returned a promise leaves `Blocked`. What the async throws leaves the prompt through Subversion's frames: the process ends or the work fails with it (`AfterWorkEscapes` ends the process, for `after_work` knows `svn_error` only).
`ConvertArguments` contains undefined behaviour (see *Observations*): the process ends or the build goes on. `serial` says whether the program keeps to one operation at a time; both kinds of program are checked.

### Arguments, ErrorChain, CallData

A method is the list of its parameters in the order the code looks at them (`ParametersOf`); a parameter has a kind, the kind a conversion on the loop thread (`FromJavaScript`) and one on the pool thread (`ForSvn`).
Strings are one of the kinds the code tells apart (empty, a path, a URL, with a null character, no string). A `char*` is a text and the place it leads to: the captured arguments, the child pool, or the variable of a loop that is over; what is
read through it is the text only while that place is in `memory`, and anything otherwise. `int32_t` is `-Half..Half-1` (in the code `Half` is 2^31) and `int64_t` `-Half64..Half64-1` with `Half64 = 2 * Half * Half` (2^63), so that the limits are in reach of TLC and the proofs hold for every width. The bytes of a revision are a *set* of what they may be: a number initialises the lower half of the union
only. `long64` chooses the width of `svn_revnum_t`.

`ErrorChain` follows one error from Subversion through `copy_error`, the throw (a move), `current_exception` and `rethrow` (copies with MSVC's `exception_ptr`, one shared object elsewhere: `copying` is either), to the `Error` JavaScript gets, with the heap nodes of its children.
`CallData` runs a call: `ConvertArgument` or `ArgumentRefused` for each parameter, `QueueWork`, `ConvertForSvn` or `ConversionFails`, `CallSvn`, success or failure, `AfterWork` or the way of the error. Whatever refuses an argument decides how the program is told: a TypeError (`no::type_error`), a rejected promise (a `svn_error` inside `METHOD_BEGIN`), an
`Error` without a code (elsewhere, `objects/class_builder.hpp:159-163`). Once Subversion is left the arguments are forgotten in the model, nothing looks at them any more.

## 3. What the runs check

All passing runs together fire every action. Bounds are constants in the `.cfg`.

| run | question | bounds | result |
|---|---|---|---|
| `uv_async` | one async, with a callback that returns a value or a future: soundness of the pointer, no lost wake-up, exclusion, handle lifetime, progress, refinement of `CrossThreadCall` | 3 threads; 17,900 states | holds |
| `iterable` | nothing lost, duplicated, reordered or forgotten with two users and early exits; refinement of `ItemStream` | 2 loops, 4 items | holds |
| `iterable_method` | the whole call, `remove`'s too: the handshake of each item, no exception of the handshake ends the process, nobody uses the async once the work has returned, a loop that ends saw every item, both sides finish; the composition refines `Iterable` (and so `ItemStream`) | 2 loops, 3 items | holds |
| `client_lifetime` | calls of all kinds on collected and idly disposed Clients, with loops that are left: lifetimes, leaks, mutual waiting; every queued call is answered when fewer loops are open than there are threads | 2 Clients, 3 calls of which 2 share a Client, 2 threads, 1 open loop, 1 item; 364,488 states | holds |
| `client_pool_full` | the same with as many open loops as threads | 4 calls on 4 Clients, 2 threads, 2 open loops | **violated** |
| `client_dispose` | `dispose()` while a call is at work | 2 calls, 1 Client | **violated** |
| `client_forget` | a program that keeps a promise and not the Client | 2 calls, 1 Client | **violated** |
| `svn_context` | batons, refusals, reports and exceptions of operations on one context | 3 operations, one of each kind | holds |
| `svn_context_add` | `add()` after a loop was left | 3 operations | **violated** |
| `simple_auth` | prompts: every provider asked once, no prompt refused, a blocked loop thread stays blocked, every other prompt and call ends; the composition uses `UvAsync` as that says | 2 calls, 2 providers, 2 prompts each, 3 registrations or removals; 254,234 states | holds |
| `simple_auth_answer` | a `SimpleAuth` a provider answers with | 1 call, 1 provider, 1 prompt | **violated** |
| `call_data` | arguments arrive or are refused exactly when improper; dates and those numbers both ways that are exact; one answer; the whole error; nothing left | 17 methods, lists of 2, chains of 3 links of 2 codes, an `int32_t` of `-2..1`; 727,474 states | holds |

Why the bounds are enough. Three threads on one async are one inside, one refused, and one that finds the line free in between; a fourth only repeats a role, and the proofs cover any number. Two users of an
iterable are one that gets the iterator and one that does not; the slot holds one item, so with three or four every order of `resolve` and `next` recurs. Three calls are a loop, the call its body awaits, and one that
competes for the thread; two of them share a Client, so that the end of one is not the end of the other's. One item is enough, for every further one repeats the wait of a blocked thread; `iterable_method` counts items. 2 threads and 1 open loop is the tight case of "fewer loops than threads". Three operations are one that was left, one that runs into it, and one after it.
`KindsAssumption` and `KindsCovered` in the `MC` modules make TLC check that every method and operation is of a kind that the run contains.
Two prompts of one operation are the first and one that follows it; with two calls there is also one that finds the async taken. Three edits let a running provider remove itself and add another. Lists of two tell the first item from a later one; every further item repeats the second.
A chain of three links has a head, a child and a child's child. `Half = 2` puts values below, at and above `INT32_MAX` within reach of few numbers (`MCNumbers`, `MCDates`). Arguments of one call vary independently; a call that is refused stops at the first bad one, as the code does.
`call_data` follows one call, which simply ends, so deadlock is not checked there; the others that set `CHECK_DEADLOCK FALSE` end when all calls are over.

Each run lists the properties that say most; the type invariants of `UvAsync` and `Iterable` are conjuncts of `IterableMethod!TypeOK`. All are proved.
Symmetry is used in runs without liveness only.

### Fairness

Weak fairness of: the steps of a pool thread that is inside `operator()` or has work (the operating system schedules threads), the loop thread (libuv's loop turns as long as there is work; a loop thread that blocks
itself is the business of `SimpleAuth`), and a consumer that goes on asking (`for await` does; `Break` ends that duty). Subversion operations are assumed to end. Nobody has to call, dispose, forget or collect.
In `uv_async` fairness of `Consume` says that an inner future is settled some day; `IterableMethod` replaces that assumption by the consumer itself.
`SimpleAuth` assumes that threads run, that Subversion returns and that a provider which is called returns; strong fairness of `AfterWork`, because libuv comes back to a finished work each time the loop thread is free again. It does not assume that promises are settled: that is what the code cannot do there.

### Findings

* `client_dispose`. `dispose()` resets `_client` at once (`node/node_client.cpp:973`), also while work lambdas are queued or inside it: the check at the time of the call (`node/node_client.hpp:52-61`) does not protect them. In the run a call has started on a live Client, which is then destroyed under it.
* `client_forget`. The methods made with the macros (`checkout`, `cat`, `add`, `cleanup`, `revert`, ...) do not hold `keep_alive` (`node/node_client.cpp:60`). If only the promise is kept, the Client may be collected under the call.
* `client_pool_full`. The README's one rule, a Client per concurrent operation, is not enough: each open loop occupies a pool thread while its body runs. With 4 loops whose bodies await a call, nothing ever happens again.
* `svn_context_add`. After a `break` out of a loop over `update()` or `commit()`, `add()` on that Client reports into the stuck operation's callback and gets its exception, which `after_work` does not catch. A later `update()` or `commit()` is refused (`RefusedAfterLeaving` shows that leaving is the only way to be refused).

* `simple_auth_answer`. `src/scripts/index.d.ts:150-151` lets a provider answer with a `SimpleAuth` or a promise of one. A value is not looked at (`node/auth/simple.cpp:175`): the prompt returns and Subversion has no credential. The run takes the branch on which the build goes on after the conversion of the user name (below).

### Observations

Read off the code while modelling it, and visible in the models, without a document that says otherwise, or beyond what a run can show:

* **A provider's promise is no better than a value** (`BlockedForGood`): the loop thread waits on a `std::future` which only the loop thread's microtasks can satisfy (`node/auth/simple.cpp:177`), and nothing runs any more. `NoCredential`, a part of the invariant of `SimpleAuthProofs`, says that no prompt ever has a credential.
* **The conversion of the user name** calls itself (`node/v8.hpp:132-139`: the overload for an optional calls `no::data` with a type, which converts the value to an optional again). And `cpp/client.cpp:142` makes a `std::string` of a user name that Subversion passes as null when it knows none (`PromptWithoutName`).
* **Lists of changelists** (`cpp/type_conversion.hpp:128-131` with `path = false`): the loop variable is a copy, and what is stored is a pointer into it. `ArgumentsArrive` excludes exactly these lists; what Subversion reads for them is any string.
* **Revision numbers with a 64-bit `long`**: `convert_from_revision` copies eight bytes of a union of which `revision(int32_t)` initialised four. `src/scripts/index.d.ts:38` calls them numbers; `ValuesArrive` claims nothing about them (`cpp/types.hpp:509-525`), only about 32-bit `long`. `blame` without a `start_revision` uses such a number.
* **Numbers above `INT32_MAX`** do not reach the program as they are: a line number becomes a string (`node/v8.hpp:200-205`, where `src/scripts/index.d.ts:123` says `line_number: number`), a revision loses its upper half (`cpp/client.cpp:516`). `ValuesArrive` claims nothing about these either.
* `revision_ranges` that is neither an array nor an object is ignored (`node/node_client.cpp:260-269`).
* When a callback threw, `callback_data::check_result` rethrows without clearing Subversion's error (`cpp/client.cpp:63-70`).
* `dispose()` does not close the async of the provider; its open handle keeps the event loop alive until the Client is collected (`node/auth/simple.cpp:125`).
* The author and the date of a commit, which may be null, become `std::string`s outside any `try` (`cpp/type_conversion.hpp:280`; `IterableMethod!CommitInfoThrows`); the error of `svn_repos_create` is ignored (`node/repos.hpp:25`).

## 4. What is proved

TLAPS checks the proofs for every value of the constants, from the named assumptions next to the `CONSTANTS` only (null values differ from real ones, flags are Booleans, `Threads`, `Depth` and `Half` are positive, the set of calls is finite, bounds are naturals, Subversion's codes are positive, the numbers and dates a program passes fit an `int64_t`).

| theorem | says |
|---|---|
| `UvAsyncProofs!Invariance`, `TypeCorrect`, `CallbackIsSound`, `WakeupNotLost`, `CallsExclude`, `HandleSafe` | the safety properties of `uv_async`, for any callers, plain or nested |
| `UvAsyncProofs!Refinement` | every behaviour of `UvAsync` is one of `CrossThreadCall` |
| `IterableProofs!Invariance`, `TypeCorrect`, `SlotIsSound`, `NothingIsLost` | for any users, any number of items and of `next()` calls in flight: flag, promise and future of the slot agree, and what was sent is what was received, handed over and waits in the slot, in order |
| `IterableProofs!NoPromiseIsOrphaned` | users that await each `next()` (`Depth = 1`) never wait for a promise `resolve()` cannot reach |
| `IterableProofs!Refinement` | every behaviour of `Iterable` is one of `ItemStream` |
| `IterableMethodProofs!Invariance`, `TypeCorrect`, `HandshakeHolds`, `NothingOwnEscapes`, `AsyncUnusedAfterWork`, `EndIsComplete` | the safety properties of `iterable_method`, for any number of loops and items |
| `IterableMethodProofs!IterableRefinement`, `CallRefinement`, `StreamRefinement` | every behaviour of the composed call is one of `Iterable`, of `CrossThreadCall` and of `ItemStream` |
| `ClientCallsProofs!Invariance`, `TypeCorrect` | types and the agreement of the pool's queue with the waiting calls |
| `ClientCallsProofs!KeptAlive` | unless Clients in use are disposed, a call that holds `keep_alive`, or whose Client is not collected, has its `svn::client` |
| `ClientCallsProofs!NothingLeaks` | a collected Client that no call uses is destroyed |
| `ClientCallsProofs!NobodyWaitsForEachOther` | worker and consumer never wait for each other |
| `ClientCallsProofs!PoolNeverFull` | fewer open loops than threads leave a thread, for every size of pool |
| `SvnContextProofs!ScopeIsSound` | `notify_baton2` names an operation exactly while it is inside Subversion |
| `SvnContextProofs!MessageIsSound` | the dangling `log_msg_baton3` of a finished commit is never read |
| `SvnContextProofs!BatonsAreSound`, `LeavingIsTheCause` | the two above and the two below together, as the run states them |
| `SvnContextProofs!RefusalExplained`, `ReportsFindTheirReader`, `ExceptionsHaveACause` | refusals, foreign reports and exceptions come from an operation that was left, or from the operation itself |
| `SimpleAuthProofs!EachAskedOnce`, `Unrefused`, `TypeCorrect` | for any providers, any number of calls and any edits: every provider is asked once, no prompt of a serial program is refused |
| `SimpleAuthProofs!BlockedUntilTheEnd` | once the loop thread waits for a promise only the end of the process ends the wait, and no method call is settled any more |
| `SimpleAuthProofs!Implements` | every behaviour of `SimpleAuth` is one of `UvAsync` with a plain callback |
| `CallDataProofs!OneOwner` | every node of a copied error has one owner, for chains of any length, copied or shared exceptions |
| `CallDataProofs!WholeErrorTold` | JavaScript is told the whole chain without its tracing links |
| `CallDataProofs!NothingIsLeft` | when a call is over no error, no node and no argument is in memory |
| `CallArgumentsProofs!WhatArrives` | every required string reads in Subversion as the program gave it, for lists of any length |
| `CallArgumentsProofs!WhatCounts` | dates reach Subversion, and revisions that fit where `long` has 32 bits; lines and revisions of 0 to `INT32_MAX` reach the program; for integers of any width |
| `CallArgumentsProofs!RefusedForACause`, `ToldOnce`, `TypeCorrect` | a call is refused exactly if an argument is improper; it is answered once, with success exactly if there was no error |

The arguments:

* **UvAsync.** `CallbackSound` is not inductive: a send makes a wake-up pending, so one must know that `data` still points to the sender. `IInv` adds `ArmedOK` (between storing and sending nobody else stores), which rests on `OneCallAtATime`, which rests
  on `running` being true exactly while one caller is between `exchange` and `running = false`; `NestedOK` ties the inner future to the frame. `HandleOutlivesCalls` follows from the reference each `running_scope` holds. The
  refinement maps `phase` to *calling*, *executing*, *executed*, *leaving* by what the holder's frame has got; each step is then a step of `CrossThreadCall` or a stutter.
* **Iterable.** `SlotSound` and `Conservation` are not inductive alone. `IInv` adds `OneUser` (the iterator, and everything that came from it, belongs to one user), `WaitedOnce` (a user waits for a promise in one place only) and `SlotAsked` (a promise in the slot that is not settled is the newest the user waits for,
  and the user was not handed more outcomes than it waits for). `Conservation` is stated element by element, with the position `at` of each outcome that was handed over among the promises the user waits for, so that no concatenation has to be reasoned about; the lemmas `Flow...` move those positions along with `resolve()`, `next()` and an answer. `NoOrphanedPromise` holds for `Depth = 1` only
  (with two `next()` in flight the second replaces the first in the slot, `node/iterable.hpp:169-170`) and is a separate induction on top of `IInv`. The refinement maps *sent* and *received*; what is received is a prefix of what is sent by `Conservation`.
* **IterableMethod.** The invariants of the two components are not proved again: each step of the composition is a step of `UvAsync` or a stutter, and one of `Iterable` or a stutter (`AsyncStep`, `IterStep`), and the inductive invariants of the instantiated proof modules do the rest. What remains is where they meet: `SlotLinked` (the worker waits in the inner
  future exactly while its item is in the slot), `NoException` (the callback never throws, so what fails failed in libuv, or in the commit info of a `remove`), `PhaseSound` (what is known in each phase of the work), `AsyncHeld` (who holds the async when: the work statement, or for `remove` the work object), and, for `EndMeansComplete`, `Counted` and `EndsLast` (what was reported has been sent before the next report, and the end is sent after every item). `Handshake` then says that `yield()` finds the slot free because the worker has left its inner future. The refinement of `Iterable` discharges the assumption that module makes of its producer.
* **ClientCalls.** `IInv` = `TypeOK` (with `QueueOK`) and `UnheldIsDestroyed`, `NoMutualWait`, `OpenIsBounded`. `NoClientLeak` is not inductive, because a call without `keep_alive` that ends destroys nothing: `UnheldIsDestroyed` ignores such calls and is. `ClientOutlivesCalls` is inductive on top of it when
  dispose policy is not *any*. `PoolNeverFull` is cardinality: blocked calls are open iterables, of which there are at most `MaxOpen`.
* **SvnContext.** `IInv` adds `OneAtATime` (only one operation is neither over nor left, by the rule of the README), `MessageIsKept` (between the assignment and the question nobody else assigns) and `QuietBefore` (nothing is thrown or reported before Subversion works, a foreign report is the last thing an operation does). Then a
  registered scope that is not one's own belongs to an operation inside Subversion (`ScopeMatches`) that is not running (`OneAtATime`): it was left, and stays left.

* **SimpleAuth.** `EveryFunctionAsked` speaks of the array that is left; the invariant says that what was asked and what is left are together the snapshot, without duplicates, and that `kept` is part of it. `Set` keeps functions distinct (`RemoveAtDistinct`). `NoCredential` needs that a future is *unset* or *none* while `_invoke_implement` runs, because its reactions need a free loop thread.
  `NeverRefused` needs that `running` is true only while a worker prompts, and that a serial program has one busy operation. `BlockedForGood` follows from `OnlyPoolThreads`: while the loop thread waits, every step is one of a pool thread, and none of those settles the future or a call.
* **CallData.** The invariant has the heap (`HeapInv`: nodes and owners agree) and, for each step of the error, who holds it (`Holders`) and that each holder's children spell the chain (`Holds`). Lemmas about making, moving, copying and destroying an object carry the heap; each step of the error then only names its holders. `NothingLeft`: when the error is over nobody holds it, and nodes without an owner are deleted.
* **CallArguments.** `CallInv` says, for each argument by its place, that what is captured is what `FromJavaScript` made of what was given (`Taken`) and what is passed is what `ForSvn` made of that (`Handed`), that the places strings lead to are in memory as long as Subversion runs, and that an error has its cause in the argument at hand. On it rest lemmas about the conversions alone: `ProperIsAccepted` (an argument
  is proper if and only if both conversions accept it, over all kinds of parameters), `StringArrives` and `ArrayArrives`, and the arithmetic of two's complement for a width that is not fixed (`TwosComplement`, `Int32Kept`, `DateSeen`, `NumberSeen`, `RevisionSeen`).

The strengthenings were model-checked before they were proved. Every invariant, action property and refinement that a passing run checks is stated by a theorem. Only model-checked are the liveness properties, `UvAsync!CallReturns`, `IterableMethod!BothSidesFinish`, `ClientCalls!EveryCallAnswered` and `SimpleAuth!CallSettles`: the prover does not reason about
fairness and `ENABLED`. The refinements are of safety: that the composed call also makes progress is `BothSidesFinish`. The five violated properties are refuted by TLC's behaviours; nothing about them is proved, and the theorems next to them say which condition is enough (`KeptAlive`, `PoolNeverFull`, `LeavingIsTheCause`).

## 5. What is not modelled

* `iterable::get`, the constructor and `destructor()` (object creation; the destructor never runs, since `_value` is a strong handle).
* What Subversion does with its working copy and its pools; the root pool some operations allocate in (`cpp/client.cpp:463,564,680`).
* Memory models: operations on `std::atomic`, `std::promise` and libuv's queues are single steps. `uv_close` and `uv_async_init` on pool threads (`uv/async.hpp:49,61`) would race inside libuv, which these models cannot see.
* JavaScript that calls `next()` twice without waiting.
* Results field by field (status, info, log items, notifications): straight-line copies; of them only numbers are modelled. Error messages, files and lines.
* The `notify_path` local of `commit` that later callbacks use (`node/node_client.cpp:640`), memory accounting, repositories, exports, enumerations, build scripts.

## 6. Plan

Built, in this order: UvAsync and its proofs, Iterable, IterableMethod, ClientCalls and its proofs, SvnContext and its proofs, SimpleAuth and its proofs, Arguments, ErrorChain, CallData and its proofs, then the proofs of Iterable, of IterableMethod and of what CallData passes and answers. Next:

1. Refinement of `ClientCalls`' item step by `IterableMethod`.
2. `MemoryDelta` (`cpp/malloc.cpp`: many threads, `reset`, the drift of requested against usable sizes).
3. The finalize path of `commit` (`node/node_client.cpp:640-668`).
