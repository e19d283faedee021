------------------------------ MODULE CallData ------------------------------
(***************************************************************************)
(* What travels through one method call of a Client: the arguments, from   *)
(* JavaScript to C++ on the loop thread, from C++ to Subversion on the     *)
(* pool thread, with the memory they live in; and what comes back, numbers *)
(* or an error.  Composes the conversions (Arguments) and the way of an    *)
(* error (ErrorChain) along the methods of src/node/node_client.cpp and    *)
(* their operations in src/cpp/client.cpp.  Threads, iterables and the     *)
(* lifetime of the Client are the business of the other modules.           *)
(***************************************************************************)
EXTENDS Arguments, ErrorChain

CONSTANT
    Results     \* the numbers Subversion reports

VARIABLES
    long64,     \* long has 64 bits (Linux, macOS) or 32 (Windows)
    method,     \* the method that was called
    stage,      \* how far the call has come
    given,      \* its arguments, as far as they have been looked at
    captured,   \* those arguments in C++, captured by the work lambda
    memory,     \* the memory their strings may be in
    passed,     \* the arguments in the form Subversion gets
    numbers,    \* what Subversion reported, and what the program is told
    reports     \* how the program is told that the call is over

vars == <<copying, step, raised, svn, object, node, heap, js, long64, method, stage, given,
          captured, memory, passed, numbers, reports>>

-----------------------------------------------------------------------------
(* The methods: their parameters, in the order the code looks at them. *)

Arg(kind) == [kind |-> kind]
Rev(default) == [kind |-> "revision", default |-> KindRevision(default)]

add_to_changelist == <<Arg("paths"), Arg("plain"), Arg("option"), Arg("plains")>>
get_changelists == <<Arg("path"), Arg("option"), Arg("plains")>>
remove_from_changelists == <<Arg("paths"), Arg("option"), Arg("plains")>>
add == <<Arg("path"), Arg("option")>>
blame ==
    <<Arg("path"), [kind |-> "revision", default |-> NumberRevision(0)], Rev("head"),
      Rev("unspecified")>>
cat == <<Arg("path"), Rev("unspecified"), Rev("unspecified")>>
checkout == <<Arg("url"), Arg("path"), Rev("head"), Rev("head"), Arg("option")>>
cleanup == <<Arg("path")>>
\* JavaScript gives the paths first, but how an argument of commit is refused
\* there does not depend on the order.
commit == <<Arg("plain"), Arg("paths")>>
info == <<Arg("path"), Rev("unspecified"), Rev("unspecified"), Arg("option")>>
log == <<Arg("paths"), Rev("unspecified"), Arg("ranges"), Arg("option")>>
remove == <<Arg("paths"), Arg("option"), Arg("option")>>
resolve == <<Arg("path")>>
revert == <<Arg("paths")>>
status == <<Arg("path"), Rev("working"), Arg("option"), Arg("option")>>
update == <<Arg("paths"), Rev("head")>>
get_working_copy_root == <<Arg("path")>>

ParametersOf ==
    [add_to_changelist |-> add_to_changelist, get_changelists |-> get_changelists,
     remove_from_changelists |-> remove_from_changelists, add |-> add, blame |-> blame,
     cat |-> cat, checkout |-> checkout, cleanup |-> cleanup, commit |-> commit,
     info |-> info, log |-> log, remove |-> remove, resolve |-> resolve,
     revert |-> revert, status |-> status, update |-> update,
     get_working_copy_root |-> get_working_copy_root]

Parameters == ParametersOf[method]

\* Written with METHOD_BEGIN, whose try block covers the conversions as well.
Macros == {"remove_from_changelists", "add", "cat", "checkout", "cleanup", "resolve",
           "revert", "get_working_copy_root"}

\* What a program may pass for a parameter.
Inputs(kind) ==
    CASE kind \in {"path", "url", "plain"} -> JsStrings
      [] kind \in {"paths", "plains"} -> JsArrays
      [] kind = "option" -> JsOptions
      [] kind = "revision" -> JsRevisions
      [] kind = "ranges" -> JsRanges

FromJavaScript(p, v) ==
    CASE p.kind \in {"path", "url", "plain"} -> convert_string(v)
      [] p.kind \in {"paths", "plains"} -> convert_array(v, p.kind = "plains")
      [] p.kind = "option" -> convert_option(v)
      [] p.kind = "revision" -> convert_revision(v, p.default)
      [] p.kind = "ranges" -> convert_revision_ranges(v)

\* "plain" is a changelist to add to or a commit message.
ForSvn(p, v) ==
    CASE p.kind = "path" -> convert_from_path(v)
      [] p.kind = "url" -> convert_from_url(v)
      [] p.kind = "plain" -> convert_from_string(v)
      [] p.kind = "paths" -> convert_from_paths(v)
      [] p.kind = "plains" -> convert_from_vector(v)
      [] p.kind = "option" -> Ok(v)
      [] p.kind = "revision" -> Ok(convert_from_revision(v))
      [] p.kind = "ranges" -> Ok(convert_from_revision_ranges(v))

Init ==
    /\ ErrorInit
    /\ long64 \in BOOLEAN
    /\ method = "none"
    /\ stage = "none"
    /\ given = <<>>
    /\ captured = <<>>
    /\ memory = {}
    /\ passed = <<>>
    /\ numbers = <<>>
    /\ reports = <<>>

-----------------------------------------------------------------------------
(* On the loop thread. *)

Call(m) ==
    /\ stage = "none"
    /\ method' = m
    /\ stage' = "converting"
    /\ UNCHANGED <<errorVars, long64, given, captured, memory, passed, numbers, reports>>

Looked == Len(given)
Wanted == Parameters[Looked + 1]

\* The next argument is looked at and converted.
ConvertArgument(v) ==
    /\ stage = "converting"
    /\ Looked < Len(Parameters)
    /\ v \in Inputs(Wanted.kind)
    /\ FromJavaScript(Wanted, v).is = "ok"
    /\ given' = Append(given, v)
    /\ captured' = Append(captured, FromJavaScript(Wanted, v).value)
    /\ UNCHANGED <<errorVars, long64, method, stage, memory, passed, numbers, reports>>

\* How a conversion that fails is told: no::type_error leaves every method as a
\* TypeError; a svn_type_error is caught in a macro, elsewhere it leaves the
\* method and invoke_method makes an Error without a code.
Refusal(failure) ==
    IF failure = TypeError THEN "TypeError"
    ELSE IF method \in Macros THEN "rejected" ELSE "Error"

\* Fault: the method goes on after it rejected its promise.
ArgumentRefusedGoesOn(v) ==
    /\ stage = "converting"
    /\ Looked < Len(Parameters)
    /\ v \in Inputs(Wanted.kind)
    /\ FromJavaScript(Wanted, v).is # "ok"
    /\ given' = Append(given, v)
    /\ reports' = Append(reports, Refusal(FromJavaScript(Wanted, v)))
    /\ stage' = IF Refusal(FromJavaScript(Wanted, v)) = "rejected" THEN "returned" ELSE "over"
    /\ UNCHANGED <<errorVars, long64, method, captured, memory, passed, numbers>>

\* The next argument is refused, and the method is over.
ArgumentRefused(v) ==
    /\ stage = "converting"
    /\ Looked < Len(Parameters)
    /\ v \in Inputs(Wanted.kind)
    /\ FromJavaScript(Wanted, v).is # "ok"
    /\ given' = Append(given, v)
    /\ reports' = Append(reports, Refusal(FromJavaScript(Wanted, v)))
    /\ stage' = "over"
    /\ UNCHANGED <<errorVars, long64, method, captured, memory, passed, numbers>>

\* The work is queued, and starts on a pool thread, with a child pool.
QueueWork ==
    /\ stage = "converting"
    /\ Looked = Len(Parameters)
    /\ stage' = "working"
    /\ memory' = {"captured", "pool"}
    /\ UNCHANGED <<errorVars, long64, method, given, captured, passed, numbers, reports>>

-----------------------------------------------------------------------------
(* On the pool thread. *)

Converted == ForSvn(Parameters[Len(passed) + 1], captured[Len(passed) + 1])

Converting == stage = "working" /\ Len(passed) < Len(Parameters)

ConvertForSvn ==
    /\ Converting
    /\ Converted.is = "ok"
    /\ passed' = Append(passed, Converted.value)
    /\ UNCHANGED <<errorVars, long64, method, stage, given, captured, memory, numbers, reports>>

ConversionFails ==
    /\ Converting
    /\ Converted.is # "ok"
    /\ ThrowTypeError
    /\ stage' = "failed"
    /\ memory' = memory \ {"pool"}
    /\ UNCHANGED <<long64, method, given, captured, passed, numbers, reports>>

\* Fault: the pool is destroyed only when the operation succeeds.
LeaveKeepsPool(how) ==
    /\ stage' = how
    /\ memory' = IF how = "failed" THEN memory ELSE memory \ {"pool"}
    /\ given' = <<>> /\ captured' = <<>> /\ passed' = <<>>
    /\ UNCHANGED <<long64, method, reports>>

\* The operation is left for another reason: its child pool is destroyed.  What
\* the arguments were is of no interest any more.
Leave(how) ==
    /\ stage' = how
    /\ memory' = memory \ {"pool"}
    /\ given' = <<>> /\ captured' = <<>> /\ passed' = <<>>
    /\ UNCHANGED <<long64, method, reports>>

\* svn_dirent_get_absolute fails for a path, the first that is looked at or a
\* later one.
NoAbsolutePath(chain) ==
    /\ Converting
    /\ LET kind == Parameters[Len(passed) + 1].kind
           v == captured[Len(passed) + 1]
       IN  \/ kind = "path" /\ convert_from_path(v).is = "ok"
           \/ kind = "paths" /\ v # <<>> /\ convert_from_path(v[1]).is = "ok"
    /\ RaiseError(chain)
    /\ Leave("failed")
    /\ UNCHANGED numbers

CallSvn ==
    /\ stage = "working"
    /\ Len(passed) = Len(Parameters)
    /\ stage' = "in_svn"
    /\ UNCHANGED <<errorVars, long64, method, given, captured, memory, passed, numbers, reports>>

Told(n, as, js_) == [n |-> n, as |-> as, js |-> js_]

\* The callback of blame gets a line: its number and its revision.
ReportLine(line, revision) ==
    /\ stage = "in_svn"
    /\ method = "blame"
    /\ numbers = <<>>
    /\ numbers' = <<Told(line, "line", data_int64(line)),
                    Told(revision, "optional", data_optional_revision(revision))>>
    /\ UNCHANGED <<errorVars, long64, method, stage, given, captured, memory, passed, reports>>

SvnSucceeds(n) ==
    /\ stage = "in_svn"
    /\ Leave("returned")
    /\ numbers' = IF method = "checkout" THEN <<Told(n, "revision", data_revision(n))>>
                                         ELSE numbers
    /\ UNCHANGED errorVars

SvnFails(chain) ==
    /\ stage = "in_svn"
    /\ RaiseError(chain)
    /\ Leave("failed")
    /\ UNCHANGED numbers

\* The error travels: through throw_error, into the promise of the work, out
\* of its future.
ErrorTravels ==
    /\ stage = "failed"
    /\ CopyError \/ Throw \/ DestroyLocal \/ Store \/ DestroyThrown \/ Rethrow
                 \/ DestroyCaught
    /\ UNCHANGED <<long64, method, stage, given, captured, memory, passed, numbers, reports>>

-----------------------------------------------------------------------------
(* On the loop thread again. *)

\* after_work: the promise is resolved, or the iterable ended; the work is
\* deleted, and the arguments with it.
AfterWork ==
    /\ stage = "returned"
    /\ reports' = Append(reports, "resolved")
    /\ stage' = "over"
    /\ memory' = {}
    /\ UNCHANGED <<errorVars, long64, method, given, captured, passed, numbers>>

\* after_work: the error is rethrown, caught and told.
AfterWorkRejects ==
    /\ stage = "failed"
    /\ CopyToJavaScript
    /\ reports' = Append(reports, "rejected")
    /\ UNCHANGED <<long64, method, stage, given, captured, memory, passed, numbers>>

\* The future, with the exception, and the work are destroyed.
WorkDeleted ==
    /\ stage = "failed"
    /\ DestroyStored
    /\ stage' = "over"
    /\ memory' = {}
    /\ UNCHANGED <<long64, method, given, captured, passed, numbers, reports>>

LoopThread ==
    \/ \E m \in DOMAIN ParametersOf : Call(m)
    \/ stage = "converting" /\ Looked < Len(Parameters) /\ \E v \in Inputs(Wanted.kind) :
           ConvertArgument(v) \/ ArgumentRefused(v)
    \/ QueueWork \/ AfterWork \/ AfterWorkRejects \/ WorkDeleted

PoolThread ==
    \/ ConvertForSvn \/ ConversionFails \/ CallSvn
    \/ \E chain \in Chains : NoAbsolutePath(chain) \/ SvnFails(chain)
    \/ \E line, revision \in Results : ReportLine(line, revision)
    \/ \E n \in Results : SvnSucceeds(n)
    \/ ErrorTravels

Next == LoopThread \/ PoolThread

Spec == Init /\ [][Next]_vars

-----------------------------------------------------------------------------
(* Properties. *)

TypeOK ==
    /\ stage \in {"none", "converting", "working", "in_svn", "returned", "failed", "over"}
    /\ memory \subseteq {"captured", "pool"}
    /\ "captured" \in memory <=> stage \in {"working", "in_svn", "returned", "failed"}
    /\ "pool" \in memory <=> stage \in {"working", "in_svn"}
    /\ step = "none" <=> raised = <<>>
    /\ Len(passed) <= Len(captured) /\ Len(captured) <= Len(given)

\* What a char pointer leads to: its string, or anything once that is gone.
Reads(pointer) == IF pointer.at \in memory THEN {pointer.text} ELSE Strings

\* In Subversion every path, URL, changelist to add to and commit message reads
\* as the program gave it, also those of lists: the pool, or the captured
\* arguments, hold them until the operation returns
\* (cpp/type_conversion.hpp:63-117).  This is not claimed of the optional lists,
\* whose pointers lead into the variable of a loop that is over (lines 128-130).
ArgumentsArrive ==
    stage = "in_svn" =>
        \A i \in DOMAIN Parameters :
            /\ Parameters[i].kind \in {"path", "url", "plain"} =>
                  Reads(passed[i]) = {given[i]}
            /\ Parameters[i].kind = "paths" =>
                  /\ DOMAIN passed[i] = DOMAIN given[i].items
                  /\ \A k \in DOMAIN passed[i] : Reads(passed[i][k]) = {given[i].items[k]}

\* The number Subversion sees for a revision the program gave with a value.
RevisionArrives(v, r) ==
    /\ v.kind = "date" => Seen(r, long64) = {v.n}
    /\ v.kind = "number" /\ v.n \in INT32_MIN..INT32_MAX /\ ~long64 =>
          Seen(r, long64) = {v.n}
    /\ v.kind = "kind" => r.kind = v.name

RevisionsArrive ==
    stage = "in_svn" =>
        \A i \in DOMAIN Parameters :
            /\ Parameters[i].kind = "revision" => RevisionArrives(given[i], passed[i])
            /\ Parameters[i].kind = "ranges" /\ passed[i] # <<>> =>
                  /\ RevisionArrives(given[i].start, passed[i][1])
                  /\ RevisionArrives(given[i].end, passed[i][2])

\* The number a program is told for one that Subversion reports.
NumbersArrive ==
    \A i \in DOMAIN numbers :
        LET told == numbers[i]
        IN  /\ told.as = "optional" /\ told.n = -1 => told.js.kind = "undefined"
            /\ told.n \in 0..INT32_MAX => told.js = Number(told.n)

\* What arrives unchanged, both ways.  Dates reach Subversion with their 64 bits,
\* and where long has 32 bits a revision that fits an int32_t does (cpp/types.hpp:
\* 509-525, cpp/type_conversion.hpp:160-165).  Line and revision numbers of 0 to
\* INT32_MAX reach the program, and an optional revision of -1 as undefined
\* (v8.hpp:184-205, cpp/type_conversion.hpp:167-172).  Nothing is claimed of the
\* others: with a 64-bit long the upper half of a revision is never written, a
\* revision above INT32_MAX is truncated and such a line number becomes a string,
\* where index.d.ts:38 and 123 promise numbers.
ValuesArrive == RevisionsArrive /\ NumbersArrive

ProperRevision(v) ==
    v.kind \in {"undefined", "number", "date"} \/ (v.kind = "kind" /\ v.name # "number")

\* The arguments a program should pass.
Proper(kind, v) ==
    CASE kind = "path" -> v = "path"
      [] kind = "url" -> v = "url"
      [] kind = "plain" -> v \in {"path", "url"}
      [] kind = "paths" -> v.items # <<>> /\ ToSet(v.items) \subseteq {"path"}
      [] kind = "plains" -> v.kind # "other" /\ ToSet(v.items) \subseteq {"path", "url"}
      [] kind = "option" -> v \in {"undefined", "fits"}
      [] kind = "revision" -> ProperRevision(v)
      [] kind = "ranges" ->
            v.kind = "object" =>
                \A w \in {v.start, v.end} :
                    /\ ProperRevision(w)
                    /\ w.kind # "undefined"
                    /\ w.kind = "kind" => w.name # "unspecified"

AllProper == \A i \in DOMAIN given : Proper(Parameters[i].kind, given[i])

\* A call is refused exactly if an argument is improper.  Subversion never sees
\* an empty string, a URL for a path, a required list without an item or a
\* revision without a meaning, which its C code answers with an assertion; and
\* neither conversion refuses what is allowed, an optional list that is empty
\* for one (cpp/type_conversion.hpp:55-134, node_client.cpp:103-128).
RefusedExactly ==
    /\ stage = "in_svn" => AllProper
    /\ stage = "over" /\ raised = <<>> /\ reports # <<"resolved">> => ~AllProper
    /\ raised # <<>> /\ raised[1].code = TypeErrorCode => ~AllProper

\* However a call ends, and wherever a conversion fails, the program is told
\* once; it is told of success exactly if no error was raised on the way
\* (node_client.cpp:22-35, 74-83, class_builder.hpp:153-163).
AnsweredOnce ==
    /\ Len(reports) <= 1
    /\ stage = "over" => reports # <<>>
    /\ reports = <<"resolved">> => raised = <<>>
    /\ reports = <<"rejected">> /\ raised = <<>> => method \in Macros

\* Nothing of a call is left when it is over: not Subversion's error, no node
\* of a copied error, none of the memory of the arguments (svn_error.cpp:33,
\* type_conversion.hpp:41, work.hpp:40).
NothingLeft == stage = "over" => svn = <<>> /\ heap = {} /\ memory = {}
=============================================================================
