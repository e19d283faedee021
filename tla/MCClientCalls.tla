--------------------------- MODULE MCClientCalls ---------------------------
(***************************************************************************)
(* ClientCalls for TLC: a method of each kind stands for the others of its *)
(* kind, which the model does not tell apart.                              *)
(***************************************************************************)
EXTENDS ClientCalls

\* The program makes its calls on any Client.
AnyClient == [Calls -> Clients]

\* One call has a Client of its own, the others share the other Client.
OneShared ==
    LET k == CHOOSE k \in Clients : TRUE
        c == CHOOSE c \in Calls : TRUE
    IN  {f \in AnyClient : f[c] # k /\ \A d \in Calls \ {c} : f[d] = k}

\* "You need to create new Client for each concurrency operatons": every call
\* has its own.
OwnClient == {CHOOSE f \in AnyClient : \A c, d \in Calls : c # d => f[c] # f[d]}

\* One method of every kind: kept promise, macro promise, kept iterable.
OneOfEachKind == {add_to_changelist, checkout, blame}

\* A loop over status() whose body awaits checkout(), as a program would.
LoopAndPromise == {status, checkout}

OnlyCheckout == {checkout}

OnlyKept == {add_to_changelist, blame}

\* Every method belongs to one of the three kinds above.
ASSUME KindsAssumption ==
    \A m \in AllMethods :
        \E n \in OneOfEachKind : m.keepAlive = n.keepAlive /\ m.iterable = n.iterable
=============================================================================
