----------------------------- MODULE SvnContext -----------------------------
(***************************************************************************)
(* The operations of one svn::client (src/cpp/client.cpp), which share one *)
(* svn_client_ctx_t: the log message and the notification callback an      *)
(* operation registers there, the callbacks Subversion makes, and how the  *)
(* operation ends.                                                         *)
(*                                                                         *)
(* The program obeys the rule of the README, one operation at a time on a  *)
(* Client.  But a loop over an operation may be left early, and then its   *)
(* thread stays inside Subversion for good while the program goes on to    *)
(* the next operation.                                                     *)
(***************************************************************************)
CONSTANTS
    Ops,        \* the operations called
    NoOp,       \* a null baton
    Kinds       \* which operations, some of the records below

ASSUME NoOpAssumption == NoOp \notin Ops
ASSUME KindsAssumption ==
    \A k \in Kinds : /\ k.notify \in BOOLEAN
                      /\ k.message \in BOOLEAN
                      /\ k.callback \in BOOLEAN

VARIABLES
    log_msg_baton3,  \* whose message_ref the context points to
    notify_baton2,   \* whose notify_scope the context points to
    pc,              \* where each operation is
    op,              \* what it is
    exception,       \* its own callback threw
    result,          \* how it ended
    heard,           \* <<a, b>>: b was notified of what a did
    asked            \* <<a, b>>: a was committed with the message of b

vars == <<log_msg_baton3, notify_baton2, pc, op, exception, result, heard, asked>>

-----------------------------------------------------------------------------
(* The operations: do they register a notification callback, set the log  *)
(* message, pass a callback that goes to JavaScript?                       *)

Plain(n) == [name |-> n, notify |-> FALSE, message |-> FALSE, callback |-> FALSE]
Listing(n) == [name |-> n, notify |-> FALSE, message |-> FALSE, callback |-> TRUE]

add_to_changelist == Plain("add_to_changelist")
get_changelists == Listing("get_changelists")
remove_from_changelists == Plain("remove_from_changelists")
add == Plain("add")
blame == Listing("blame")
cat == Plain("cat")  \* its callback fills a vector and cannot fail
checkout == Plain("checkout")
cleanup == Plain("cleanup")
commit == [name |-> "commit", notify |-> TRUE, message |-> TRUE, callback |-> TRUE]
info == Listing("info")
log == Listing("log")
remove == Listing("remove")
resolve == Plain("resolve")
revert == Plain("revert")
status == Listing("status")
update == [name |-> "update", notify |-> TRUE, message |-> FALSE, callback |-> FALSE]
get_working_copy_root == Plain("get_working_copy_root")

NoKind == Plain("none")

Init ==
    /\ log_msg_baton3 = NoOp
    /\ notify_baton2 = NoOp
    /\ pc = [c \in Ops |-> "idle"]
    /\ op = [c \in Ops |-> NoKind]
    /\ exception = [c \in Ops |-> FALSE]
    /\ result = [c \in Ops |-> "none"]
    /\ heard = {}
    /\ asked = {}

\* Inside svn_client_*: asked for the log message, working, or waiting in a
\* callback for a consumer that is slow ("parked") or has left ("left").
InSvn(c) == pc[c] \in {"message", "svn", "parked", "left"}

\* The program has the outcome of the operation, or has left its loop.
Over(c) == pc[c] \in {"idle", "done", "left"}

\* Fault: ~notify_scope is missing.
NeverCleared(c) == notify_baton2

\* ~notify_scope, on every way out of the operation.
ScopeClosed(c) == IF op[c].notify THEN NoOp ELSE notify_baton2

-----------------------------------------------------------------------------
(* Into Subversion. *)

\* The operation starts; commit first points the context to its message,
\* which nothing ever resets.
Begin(c, k) ==
    /\ pc[c] = "idle"
    /\ \A d \in Ops : Over(d)
    /\ op' = [op EXCEPT ![c] = k]
    /\ pc' = [pc EXCEPT ![c] = "entered"]
    /\ log_msg_baton3' = IF k.message THEN c ELSE log_msg_baton3
    /\ UNCHANGED <<notify_baton2, exception, result, heard, asked>>

\* check_string: commit refuses an empty message before it touches anything.
BadMessage(c) ==
    /\ pc[c] = "idle"
    /\ \A d \in Ops : Over(d)
    /\ commit \in Kinds
    /\ op' = [op EXCEPT ![c] = commit]
    /\ pc' = [pc EXCEPT ![c] = "done"]
    /\ result' = [result EXCEPT ![c] = "svn_error"]
    /\ UNCHANGED <<log_msg_baton3, notify_baton2, exception, heard, asked>>

\* A conversion of the arguments throws svn_type_error.
ConvertFails(c) ==
    /\ pc[c] = "entered"
    /\ pc' = [pc EXCEPT ![c] = "done"]
    /\ result' = [result EXCEPT ![c] = "svn_error"]
    /\ UNCHANGED <<log_msg_baton3, notify_baton2, op, exception, heard, asked>>

\* Fault: the refused scope is destroyed like a complete one.
RefusedClears(c) ==
    /\ pc[c] = "entered"
    /\ op[c].notify
    /\ notify_baton2 # NoOp
    /\ notify_baton2' = NoOp
    /\ pc' = [pc EXCEPT ![c] = "done"]
    /\ result' = [result EXCEPT ![c] = "refused"]
    /\ UNCHANGED <<log_msg_baton3, op, exception, heard, asked>>

\* notify_scope's constructor throws: another one is registered.
Refused(c) ==
    /\ pc[c] = "entered"
    /\ op[c].notify
    /\ notify_baton2 # NoOp
    /\ pc' = [pc EXCEPT ![c] = "done"]
    /\ result' = [result EXCEPT ![c] = "refused"]
    /\ UNCHANGED <<log_msg_baton3, notify_baton2, op, exception, heard, asked>>

\* notify_scope and callback_data are built, svn_client_* is called.
CallSvn(c) ==
    /\ pc[c] = "entered"
    /\ op[c].notify => notify_baton2 = NoOp
    /\ notify_baton2' = IF op[c].notify THEN c ELSE notify_baton2
    /\ pc' = [pc EXCEPT ![c] = IF op[c].message THEN "message" ELSE "svn"]
    /\ UNCHANGED <<log_msg_baton3, op, exception, result, heard, asked>>

-----------------------------------------------------------------------------
(* Subversion, inside an operation. *)

\* It asks for the log message, before it reports anything.
invoke_log_message(c) ==
    /\ pc[c] = "message"
    /\ asked' = asked \cup {<<c, log_msg_baton3>>}
    /\ pc' = [pc EXCEPT ![c] = "svn"]
    /\ UNCHANGED <<log_msg_baton3, notify_baton2, op, exception, result, heard>>

\* It reports progress to whatever notify_scope is registered.  The consumer
\* of the operation itself takes the report at once or keeps it waiting.
Notify(c) ==
    /\ pc[c] = "svn"
    /\ notify_baton2 = c
    /\ heard' = heard \cup {<<c, c>>}
    /\ \/ UNCHANGED pc
       \/ pc' = [pc EXCEPT ![c] = "parked"]
    /\ UNCHANGED <<log_msg_baton3, notify_baton2, op, exception, result, asked>>

\* The scope is that of an operation that is stuck in its own callback: its
\* uv::async is busy, or its iterable full.  _invoke lets the exception out
\* into Subversion's C code, and through it into the operation (where the
\* compiler gives C code no unwind tables, the process ends right here).
NotifyOther(c) ==
    /\ pc[c] = "svn"
    /\ notify_baton2 \notin {c, NoOp}
    /\ heard' = heard \cup {<<c, notify_baton2>>}
    /\ notify_baton2' = ScopeClosed(c)
    /\ pc' = [pc EXCEPT ![c] = "done"]
    /\ result' = [result EXCEPT ![c] = "exception"]
    /\ UNCHANGED <<log_msg_baton3, op, exception, asked>>

\* _invoke lets out what the operation's own notification callback throws.
NotifyThrows(c) ==
    /\ pc[c] = "svn"
    /\ notify_baton2 = c
    /\ heard' = heard \cup {<<c, c>>}
    /\ notify_baton2' = ScopeClosed(c)
    /\ exception' = [exception EXCEPT ![c] = TRUE]
    /\ pc' = [pc EXCEPT ![c] = "done"]
    /\ result' = [result EXCEPT ![c] = "exception"]
    /\ UNCHANGED <<log_msg_baton3, op, asked>>

\* It passes an item to the operation's callback, whose consumer takes it at
\* once or keeps it waiting.
CallBack(c) ==
    /\ pc[c] = "svn"
    /\ op[c].callback
    /\ pc' = [pc EXCEPT ![c] = "parked"]
    /\ UNCHANGED <<log_msg_baton3, notify_baton2, op, exception, result, heard, asked>>

\* callback_data::invoke keeps what the callback throws and cancels.
CallBackThrows(c) ==
    /\ pc[c] = "svn"
    /\ op[c].callback
    /\ exception' = [exception EXCEPT ![c] = TRUE]
    /\ UNCHANGED <<log_msg_baton3, notify_baton2, pc, op, result, heard, asked>>

\* Fault: check_result looks at Subversion's result first.
ResultFirst(c, r) ==
    IF r = "svn_error" THEN r ELSE IF exception[c] THEN "exception" ELSE r

\* callback_data::check_result: the callback's exception, else svn's result.
Verdict(c, r) == IF exception[c] THEN "exception" ELSE r

\* svn_client_* returns, possibly success in spite of a cancelled callback.
Return(c) ==
    /\ pc[c] = "svn"
    /\ \E r \in {"value", "svn_error"} : result' = [result EXCEPT ![c] = Verdict(c, r)]
    /\ notify_baton2' = ScopeClosed(c)
    /\ pc' = [pc EXCEPT ![c] = "done"]
    /\ UNCHANGED <<log_msg_baton3, op, exception, heard, asked>>

-----------------------------------------------------------------------------
(* The consumer of an operation's iterable. *)

\* It asks for the next item.
Resume(c) ==
    /\ pc[c] = "parked"
    /\ pc' = [pc EXCEPT ![c] = "svn"]
    /\ UNCHANGED <<log_msg_baton3, notify_baton2, op, exception, result, heard, asked>>

\* It leaves the loop, which the operation is not told.
Leave(c) ==
    /\ pc[c] = "parked"
    /\ pc' = [pc EXCEPT ![c] = "left"]
    /\ UNCHANGED <<log_msg_baton3, notify_baton2, op, exception, result, heard, asked>>

-----------------------------------------------------------------------------
Step(c) ==
    \/ \E k \in Kinds : Begin(c, k)
    \/ BadMessage(c) \/ ConvertFails(c) \/ Refused(c) \/ CallSvn(c)
    \/ invoke_log_message(c)
    \/ Notify(c) \/ NotifyOther(c) \/ NotifyThrows(c)
    \/ CallBack(c) \/ CallBackThrows(c)
    \/ Return(c)
    \/ Resume(c) \/ Leave(c)

Next == \E c \in Ops : Step(c)

Spec == Init /\ [][Next]_vars

-----------------------------------------------------------------------------
(* Properties. *)

TypeOK ==
    /\ log_msg_baton3 \in Ops \cup {NoOp}
    /\ notify_baton2 \in Ops \cup {NoOp}
    /\ pc \in [Ops -> {"idle", "entered", "message", "svn", "parked", "left", "done"}]
    /\ op \in [Ops -> Kinds \cup {NoKind, commit}]
    /\ exception \in [Ops -> BOOLEAN]
    /\ result \in [Ops -> {"none", "value", "svn_error", "refused", "exception"}]
    /\ heard \subseteq Ops \X Ops
    /\ asked \subseteq Ops \X (Ops \cup {NoOp})
    /\ \A c \in Ops : result[c] # "none" <=> pc[c] = "done"

\* The context points to the notify_scope of an operation exactly while that
\* operation is inside Subversion: no dead scope stays registered, on no way
\* out, and no operation loses its scope to another.
ScopeMatches ==
    \A c \in Ops : notify_baton2 = c <=> op[c].notify /\ InSvn(c)

\* A commit is made with its own message, never with the dangling message_ref
\* of an earlier one.
MessageIsOwn == \A p \in asked : p[1] = p[2]

\* Who makes one operation at a time is refused only after leaving a loop
\* (the check in notify_scope's constructor, client.cpp:103).
RefusedAfterLeaving ==
    \A c \in Ops : result[c] = "refused" => \E d \in Ops : pc[d] = "left"

\* What an operation does is notified to itself, or to one whose loop was left.
HeardBySelfOrLeft == \A p \in heard : p[1] = p[2] \/ pc[p[2]] = "left"

\* The raw pointers in the context that all operations share lead to what is
\* alive and belongs to the operation inside Subversion (client.cpp:99-114, 556-558).
BatonsSound == ScopeMatches /\ MessageIsOwn

\* A program that makes one operation at a time gets another's refusal or
\* reports only through a loop it left (client.cpp:103, 117-128).
LeavingExplains == RefusedAfterLeaving /\ HeardBySelfOrLeft

\* An operation ends with an exception exactly if its own callback threw,
\* which Subversion's result never hides, or if it notified another one.
ExceptionExplained ==
    \A c \in Ops :
        pc[c] = "done" =>
            (result[c] = "exception" <=>
                exception[c] \/ \E d \in Ops \ {c} : <<c, d>> \in heard)

\* add() schedules a path for addition and its promise is settled: it has no
\* callback that could throw (scripts/index.d.ts:219).  Fails.
AddIsAnswered == \A c \in Ops : op[c] = add => result[c] # "exception"

-----------------------------------------------------------------------------
(* What SvnContextProofs adds to make the properties inductive. *)

\* Only one operation is neither over nor stuck for good.
OneAtATime == \A c, d \in Ops : ~Over(c) /\ ~Over(d) => c = d

\* From the assignment to the question the context keeps the message.
MessageIsKept ==
    \A c \in Ops :
        /\ pc[c] = "message" => op[c].message
        /\ op[c].message /\ pc[c] \in {"entered", "message"} => log_msg_baton3 = c

\* Nothing has thrown, and nothing was reported, before Subversion is at
\* work; a report to another operation is the last thing it does.
QuietBefore ==
    \A c \in Ops :
        /\ pc[c] \in {"idle", "entered", "message"} => ~exception[c]
        /\ pc[c] # "done" => \A d \in Ops \ {c} : <<c, d>> \notin heard

IInv ==
    /\ TypeOK
    /\ OneAtATime
    /\ ScopeMatches
    /\ MessageIsKept /\ MessageIsOwn
    /\ RefusedAfterLeaving
    /\ HeardBySelfOrLeft
    /\ QuietBefore /\ ExceptionExplained
=============================================================================
