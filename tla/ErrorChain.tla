----------------------------- MODULE ErrorChain -----------------------------
(***************************************************************************)
(* How an error of Subversion becomes an Error of JavaScript: throw_error  *)
(* and copy_error (src/cpp/type_conversion.hpp), svn::svn_error with its   *)
(* copies and moves (src/cpp/svn_error.cpp), the exception that uv::work   *)
(* carries from the pool thread to the loop thread (src/uv/work.hpp), and  *)
(* copy_error of src/node/node_client.cpp.                                 *)
(*                                                                         *)
(* An svn_error owns the chain of its children by a raw pointer.  Here the *)
(* children of an object are the sequence of heap nodes that pointer leads *)
(* through; copying makes new nodes, moving passes them on, destroying     *)
(* deletes them.                                                           *)
(***************************************************************************)
EXTENDS Integers, Sequences, SequencesExt

CONSTANTS
    Codes,      \* error codes of Subversion
    MaxChain    \* bound on the length of Subversion's chains

ASSUME CodesAssumption == Codes \subseteq Nat \ {0}

ASSUME MaxChainAssumption == MaxChain \in Nat \ {0}

VARIABLES
    copying,   \* std::exception_ptr copies the exception (MSVC) or shares it
    step,      \* how far the error has come
    raised,    \* the links of the error Subversion raised (history)
    svn,       \* what of Subversion's own chain is allocated
    object,    \* each svn_error object: its code and its children
    node,      \* the code in each heap node that was ever allocated
    heap,      \* the nodes that are allocated now
    js         \* the codes of the chain of Errors made for JavaScript

errorVars == <<copying, step, raised, svn, object, node, heap, js>>

\* The local of throw_error, the exception in flight, the one in the promise
\* of uv::work, the one rethrown on the loop thread.
Objects == {"local", "thrown", "stored", "caught"}

Gone == [code |-> 0, children |-> <<>>]

\* The code of a svn_type_error.
TypeErrorCode == -1

\* One error of a chain, with or without tracing links that wrap it.
Links == [code : Codes, traced : BOOLEAN]

Chains == UNION {[1..n -> Links] : n \in 1..MaxChain}

\* The chain without its tracing links: svn_error_purge_tracing.
Purged(chain) == [i \in 1..Len(chain) |-> chain[i].code]

ErrorInit ==
    /\ copying \in BOOLEAN
    /\ step = "none"
    /\ raised = <<>>
    /\ svn = <<>>
    /\ object = [o \in Objects |-> Gone]
    /\ node = <<>>
    /\ heap = {}
    /\ js = <<>>

-----------------------------------------------------------------------------
(* The life of svn::svn_error. *)

\* New nodes with these codes, for the children of a new object.
NewNodes(codes) == [i \in 1..Len(codes) |-> Len(node) + i]

Allocate(codes) ==
    /\ node' = node \o codes
    /\ heap' = heap \cup ToSet(NewNodes(codes))

Delete(o) == heap' = heap \ ToSet(object[o].children)

ChildCodes(o) == [i \in 1..Len(object[o].children) |-> node[object[o].children[i]]]

\* The copy constructor: the children are copied, recursively.
Copy(from, to) ==
    /\ Allocate(ChildCodes(from))
    /\ object' = [object EXCEPT ![to] = [object[from] EXCEPT !.children = NewNodes(ChildCodes(from))]]

\* Fault: other.child is not reset.
MoveKeepsChild(from, to) == object' = [object EXCEPT ![to] = object[from]]

\* The move constructor: the children change hands.
Move(from, to) ==
    object' = [object EXCEPT ![to] = object[from], ![from].children = <<>>]

\* The destructor deletes the child, and that its own.
Destroy(o) ==
    /\ Delete(o)
    /\ object' = [object EXCEPT ![o] = Gone]

-----------------------------------------------------------------------------
(* The way of an error. *)

\* Subversion returns an error; check_result calls throw_error.
RaiseError(chain) ==
    /\ step = "none"
    /\ raised' = chain
    /\ svn' = chain
    /\ step' = "failed"
    /\ UNCHANGED <<copying, object, node, heap, js>>

\* Fault: the tracing links are copied as well.
CopyErrorUnpurged ==
    /\ step = "failed"
    /\ LET codes == IF svn[1].traced THEN <<svn[1].code>> \o Purged(svn) ELSE Purged(svn)
       IN  /\ Allocate(Tail(codes))
           /\ object' = [object EXCEPT !["local"] =
                  [code |-> Head(codes), children |-> NewNodes(Tail(codes))]]
    /\ step' = "copied"
    /\ UNCHANGED <<copying, raised, svn, js>>

\* throw_error: purge and copy_error.
CopyError ==
    /\ step = "failed"
    /\ LET codes == Purged(svn)
       IN  /\ Allocate(Tail(codes))
           /\ object' = [object EXCEPT !["local"] =
                  [code |-> Head(codes), children |-> NewNodes(Tail(codes))]]
    /\ step' = "copied"
    /\ UNCHANGED <<copying, raised, svn, js>>

\* Fault: throw_error does not clear Subversion's error.
ThrowUncleared ==
    /\ step = "copied"
    /\ Move("local", "thrown")
    /\ step' = "moved"
    /\ UNCHANGED <<copying, raised, svn, node, heap, js>>

\* svn_error_clear, and the throw moves the local into the exception.
Throw ==
    /\ step = "copied"
    /\ svn' = <<>>
    /\ Move("local", "thrown")
    /\ step' = "moved"
    /\ UNCHANGED <<copying, raised, node, heap, js>>

\* throw_error is left.
DestroyLocal ==
    /\ step = "moved"
    /\ Destroy("local")
    /\ step' = "thrown"
    /\ UNCHANGED <<copying, raised, svn, node, js>>

\* A svn_type_error of the conversions: thrown as it is made, with no child.
ThrowTypeError ==
    /\ step = "none"
    /\ raised' = <<[code |-> TypeErrorCode, traced |-> FALSE]>>
    /\ object' = [object EXCEPT !["thrown"] = [code |-> TypeErrorCode, children |-> <<>>]]
    /\ step' = "thrown"
    /\ UNCHANGED <<copying, svn, node, heap, js>>

\* invoke_work: current_exception in catch (...), a copy or the same object.
Store ==
    /\ step = "thrown"
    /\ IF copying
         THEN Copy("thrown", "stored") /\ step' = "copied_in"
         ELSE /\ object' = [object EXCEPT !["stored"] = object["thrown"], !["thrown"] = Gone]
              /\ step' = "stored"
              /\ UNCHANGED <<node, heap>>
    /\ UNCHANGED <<copying, raised, svn, js>>

\* The catch block is left, the thrown exception is destroyed.
DestroyThrown ==
    /\ step = "copied_in"
    /\ Destroy("thrown")
    /\ step' = "stored"
    /\ UNCHANGED <<copying, raised, svn, node, js>>

\* invoke_after_work: future.get() rethrows, a copy or the same object.
Rethrow ==
    /\ step = "stored"
    /\ IF copying THEN Copy("stored", "caught") ELSE UNCHANGED <<object, node, heap>>
    /\ step' = "caught"
    /\ UNCHANGED <<copying, raised, svn, js>>

\* What the handler of after_work refers to.
Caught == IF copying THEN "caught" ELSE "stored"

\* REPORT_ERROR: copy_error makes an Error with its chain of children.
CopyToJavaScript ==
    /\ step = "caught"
    /\ js' = <<object[Caught].code>> \o ChildCodes(Caught)
    /\ step' = "told"
    /\ UNCHANGED <<copying, raised, svn, object, node, heap>>

\* The handler is left.
DestroyCaught ==
    /\ step = "told"
    /\ Destroy("caught")
    /\ step' = "handled"
    /\ UNCHANGED <<copying, raised, svn, node, js>>

\* The future, and the exception in it, are destroyed with after_work's argument.
DestroyStored ==
    /\ step = "handled"
    /\ Destroy("stored")
    /\ step' = "over"
    /\ UNCHANGED <<copying, raised, svn, node, js>>

ErrorStep ==
    \/ \E chain \in Chains : RaiseError(chain)
    \/ ThrowTypeError
    \/ CopyError \/ Throw \/ DestroyLocal \/ Store \/ DestroyThrown
    \/ Rethrow \/ CopyToJavaScript \/ DestroyCaught \/ DestroyStored

-----------------------------------------------------------------------------
(* Properties. *)

\* Every child is deleted by exactly one object, and is there as long as that
\* object is: nothing is deleted twice and no chain is walked through freed
\* nodes, whether exceptions are copied or shared (svn_error.cpp:17-35).
OwnedOnce ==
    \A o \in Objects :
        /\ ToSet(object[o].children) \subseteq heap
        /\ \A i, j \in DOMAIN object[o].children :
              object[o].children[i] = object[o].children[j] => i = j
        /\ \A p \in Objects \ {o} :
              ToSet(object[o].children) \cap ToSet(object[p].children) = {}

\* JavaScript is told the whole chain, in order, without the tracing links
\* (type_conversion.hpp:38-43, node_client.cpp:87-101).
ErrorTold == js # <<>> => js = Purged(raised)
=============================================================================
