-------------------------- MODULE SvnContextProofs --------------------------
(***************************************************************************)
(* Proofs about SvnContext, for any operations of any kinds.               *)
(***************************************************************************)
EXTENDS SvnContext, TLAPS

USE NoOpAssumption, KindsAssumption

\* Nothing is registered in a new context (client.cpp:212-216).
LEMMA InitIInv == Init => IInv
BY DEF Init, IInv, TypeOK, ScopeMatches, MessageIsKept, MessageIsOwn, OneAtATime,
       RefusedAfterLeaving, HeardBySelfOrLeft, QuietBefore, ExceptionExplained,
       NoKind, Plain, InSvn, Over

\* The flags of an operation are Booleans.
LEMMA KindFlags ==
    ASSUME TypeOK, NEW c \in Ops
    PROVE  op[c].notify \in BOOLEAN /\ op[c].message \in BOOLEAN /\ op[c].callback \in BOOLEAN
<1>1. CASE op[c] \in Kinds
  BY <1>1
<1>2. CASE op[c] = NoKind
  BY <1>2 DEF NoKind, Plain
<1>3. CASE op[c] = commit
  BY <1>3 DEF commit
<1> QED BY <1>1, <1>2, <1>3 DEF TypeOK

\* Every step of an operation keeps the types.
LEMMA NextTypeOK == TypeOK /\ [Next]_vars => TypeOK'
<1> SUFFICES ASSUME TypeOK, [Next]_vars PROVE TypeOK'
  OBVIOUS
<1> USE DEF TypeOK
<1>1. ASSUME NEW c \in Ops, NEW k \in Kinds, Begin(c, k) PROVE TypeOK'
  BY <1>1 DEF Begin
<1>2. ASSUME NEW c \in Ops, BadMessage(c) PROVE TypeOK'
  BY <1>2 DEF BadMessage
<1>3. ASSUME NEW c \in Ops, ConvertFails(c) \/ Refused(c) PROVE TypeOK'
  BY <1>3 DEF ConvertFails, Refused
<1>4. ASSUME NEW c \in Ops, CallSvn(c) PROVE TypeOK'
  BY <1>4 DEF CallSvn
<1>5. ASSUME NEW c \in Ops, invoke_log_message(c) PROVE TypeOK'
  BY <1>5 DEF invoke_log_message
<1>6. ASSUME NEW c \in Ops, Notify(c) PROVE TypeOK'
  BY <1>6 DEF Notify
<1>7. ASSUME NEW c \in Ops, NotifyOther(c) \/ NotifyThrows(c) PROVE TypeOK'
  <2>1. notify_baton2' \in Ops \cup {NoOp} /\ heard' \subseteq Ops \X Ops
    BY <1>7 DEF NotifyOther, NotifyThrows, ScopeClosed
  <2>2. CASE NotifyOther(c)
    BY <2>1, <2>2 DEF NotifyOther
  <2>3. CASE NotifyThrows(c)
    BY <2>1, <2>3 DEF NotifyThrows
  <2> QED BY <1>7, <2>2, <2>3
<1>8. ASSUME NEW c \in Ops, CallBack(c) \/ CallBackThrows(c) PROVE TypeOK'
  BY <1>8 DEF CallBack, CallBackThrows
<1>9. ASSUME NEW c \in Ops, Return(c) PROVE TypeOK'
  <2>1. PICK r \in {"value", "svn_error"} : result' = [result EXCEPT ![c] = Verdict(c, r)]
    BY <1>9 DEF Return
  <2>2. Verdict(c, r) \in {"value", "svn_error", "exception"}
    BY DEF Verdict
  <2> QED BY <1>9, <2>1, <2>2 DEF Return, ScopeClosed
<1>10. ASSUME NEW c \in Ops, Resume(c) \/ Leave(c) PROVE TypeOK'
  BY <1>10 DEF Resume, Leave
<1>11. CASE UNCHANGED vars
  BY <1>11 DEF vars
<1> QED
  BY <1>1, <1>2, <1>3, <1>4, <1>5, <1>6, <1>7, <1>8, <1>9, <1>10, <1>11 DEF Next, Step

\* notify_scope: built only when none is registered, destroyed on every way
\* out of Subversion, not destroyed when its constructor threw.
LEMMA NextScopeMatches == TypeOK /\ ScopeMatches /\ [Next]_vars => ScopeMatches'
<1> SUFFICES ASSUME TypeOK, ScopeMatches, [Next]_vars PROVE ScopeMatches'
  OBVIOUS
<1> USE DEF TypeOK, ScopeMatches, InSvn
<1>1. ASSUME NEW c \in Ops, NEW k \in Kinds, Begin(c, k) PROVE ScopeMatches'
  BY <1>1 DEF Begin
<1>2. ASSUME NEW c \in Ops, BadMessage(c) PROVE ScopeMatches'
  BY <1>2 DEF BadMessage
<1>3. ASSUME NEW c \in Ops, ConvertFails(c) \/ Refused(c) PROVE ScopeMatches'
  BY <1>3 DEF ConvertFails, Refused
<1>4. ASSUME NEW c \in Ops, CallSvn(c) PROVE ScopeMatches'
  BY <1>4, KindFlags DEF CallSvn
<1>5. ASSUME NEW c \in Ops, invoke_log_message(c) PROVE ScopeMatches'
  BY <1>5 DEF invoke_log_message
<1>6. ASSUME NEW c \in Ops, Notify(c) PROVE ScopeMatches'
  BY <1>6 DEF Notify
<1>7. ASSUME NEW c \in Ops, NotifyOther(c) \/ NotifyThrows(c) \/ Return(c) PROVE ScopeMatches'
  <2>1. /\ pc[c] = "svn" /\ pc' = [pc EXCEPT ![c] = "done"]
        /\ op' = op /\ notify_baton2' = IF op[c].notify THEN NoOp ELSE notify_baton2
    BY <1>7 DEF NotifyOther, NotifyThrows, Return, ScopeClosed
  <2> QED BY <2>1
<1>8. ASSUME NEW c \in Ops, CallBack(c) \/ CallBackThrows(c) PROVE ScopeMatches'
  BY <1>8 DEF CallBack, CallBackThrows
<1>9. ASSUME NEW c \in Ops, Resume(c) \/ Leave(c) PROVE ScopeMatches'
  BY <1>9 DEF Resume, Leave
<1>10. CASE UNCHANGED vars
  BY <1>10 DEF vars
<1> QED
  BY <1>1, <1>2, <1>3, <1>4, <1>5, <1>6, <1>7, <1>8, <1>9, <1>10 DEF Next, Step

\* Only a commit writes the baton, and no operation begins until it has been
\* asked for its message (client.cpp:556-558, 87-95).
LEMMA NextMessage ==
    ASSUME TypeOK, MessageIsKept, MessageIsOwn, [Next]_vars
    PROVE  MessageIsKept' /\ MessageIsOwn'
<1> USE DEF TypeOK, MessageIsKept, MessageIsOwn
<1>1. ASSUME NEW c \in Ops, NEW k \in Kinds, Begin(c, k)
      PROVE  MessageIsKept' /\ MessageIsOwn'
  <2>1. ASSUME NEW d \in Ops, d # c PROVE pc'[d] \notin {"entered", "message"}
    BY <1>1, <2>1 DEF Begin, Over
  <2>2. pc'[c] = "entered" /\ (op'[c].message => log_msg_baton3' = c)
    BY <1>1 DEF Begin
  <2>3. asked' = asked
    BY <1>1 DEF Begin
  <2> QED BY <2>1, <2>2, <2>3
<1>2. ASSUME NEW c \in Ops, BadMessage(c) PROVE MessageIsKept' /\ MessageIsOwn'
  BY <1>2 DEF BadMessage
<1>3. ASSUME NEW c \in Ops, ConvertFails(c) \/ Refused(c) \/ CallSvn(c)
      PROVE  MessageIsKept' /\ MessageIsOwn'
  BY <1>3 DEF ConvertFails, Refused, CallSvn
<1>4. ASSUME NEW c \in Ops, invoke_log_message(c) PROVE MessageIsKept' /\ MessageIsOwn'
  <2>1. log_msg_baton3 = c
    BY <1>4 DEF invoke_log_message
  <2> QED BY <1>4, <2>1 DEF invoke_log_message
<1>5. ASSUME NEW c \in Ops,
             \/ Notify(c) \/ NotifyOther(c) \/ NotifyThrows(c)
             \/ CallBack(c) \/ CallBackThrows(c) \/ Return(c) \/ Resume(c) \/ Leave(c)
      PROVE  MessageIsKept' /\ MessageIsOwn'
  <2>1. /\ UNCHANGED <<log_msg_baton3, op, asked>>
        /\ \A d \in Ops : pc'[d] \in {"entered", "message"} => pc'[d] = pc[d]
    BY <1>5 DEF Notify, NotifyOther, NotifyThrows, CallBack, CallBackThrows, Return,
                Resume, Leave
  <2> QED BY <2>1
<1>6. CASE UNCHANGED vars
  BY <1>6 DEF vars
<1> QED BY <1>1, <1>2, <1>3, <1>4, <1>5, <1>6 DEF Next, Step

\* An operation begins only when every other is over or stuck for good.
LEMMA NextOneAtATime == TypeOK /\ OneAtATime /\ [Next]_vars => OneAtATime'
<1> SUFFICES ASSUME TypeOK, OneAtATime, [Next]_vars PROVE OneAtATime'
  OBVIOUS
<1> USE DEF TypeOK, OneAtATime, Over
<1>1. ASSUME NEW c \in Ops, NEW k \in Kinds, Begin(c, k) PROVE OneAtATime'
  BY <1>1 DEF Begin
<1>2. ASSUME NEW c \in Ops, Step(c), ~\E k \in Kinds : Begin(c, k) PROVE OneAtATime'
  <2>1. \A d \in Ops : pc'[d] \notin {"idle", "done", "left"}
                          => pc[d] \notin {"idle", "done", "left"}
    BY <1>2 DEF Step, BadMessage, ConvertFails, Refused, CallSvn, invoke_log_message,
                Notify, NotifyOther, NotifyThrows, CallBack, CallBackThrows, Return,
                Resume, Leave
  <2> QED BY <2>1
<1>3. CASE UNCHANGED vars
  BY <1>3 DEF vars
<1> QED BY <1>1, <1>2, <1>3 DEF Next, Step

\* A scope that is not the operation's own is that of an operation whose loop
\* was left: it is inside Subversion, and it is not the one that is running.
LEMMA OtherScopeIsLeft ==
    ASSUME TypeOK, OneAtATime, ScopeMatches,
           NEW c \in Ops, NEW d \in Ops, ~Over(c), notify_baton2 = d, d # c
    PROVE  pc[d] = "left"
<1>1. InSvn(d)
  BY DEF ScopeMatches
<1>2. Over(d)
  BY DEF OneAtATime
<1> QED BY <1>1, <1>2 DEF InSvn, Over

\* An operation that was left never moves again.
LEMMA LeftStays ==
    ASSUME TypeOK, [Next]_vars, NEW d \in Ops, pc[d] = "left"
    PROVE  pc'[d] = "left"
BY DEF TypeOK, Next, Step, Begin, BadMessage, ConvertFails, Refused, CallSvn,
       invoke_log_message, Notify, NotifyOther, NotifyThrows, CallBack,
       CallBackThrows, Return, Resume, Leave, vars

\* The only step that refuses finds the scope of an operation that was left,
\* as its own cannot be registered before it calls Subversion.
LEMMA NextRefused ==
    ASSUME TypeOK, OneAtATime, ScopeMatches, RefusedAfterLeaving, [Next]_vars
    PROVE  RefusedAfterLeaving'
<1>1. ASSUME NEW c \in Ops, Refused(c) PROVE RefusedAfterLeaving'
  <2>1. notify_baton2 \in Ops \ {c}
    BY <1>1 DEF Refused, TypeOK, ScopeMatches, InSvn
  <2>2. ~Over(c)
    BY <1>1 DEF Refused, Over
  <2>3. pc[notify_baton2] = "left"
    BY <2>1, <2>2, OtherScopeIsLeft
  <2>4. pc'[notify_baton2] = "left"
    BY <2>1, <2>3, LeftStays
  <2> QED BY <2>1, <2>4 DEF RefusedAfterLeaving
<1>2. ASSUME NEW c \in Ops, Step(c), ~Refused(c) PROVE RefusedAfterLeaving'
  <2>1. \A d \in Ops : result'[d] = "refused" => result[d] = "refused"
    BY <1>2 DEF TypeOK, Step, Begin, BadMessage, ConvertFails, CallSvn,
                invoke_log_message, Notify, NotifyOther, NotifyThrows, CallBack,
                CallBackThrows, Return, Verdict, Resume, Leave
  <2> QED BY <2>1, LeftStays DEF RefusedAfterLeaving
<1>3. CASE UNCHANGED vars
  BY <1>3 DEF vars, RefusedAfterLeaving
<1> QED BY <1>1, <1>2, <1>3 DEF Next

\* So does the only step that reports to another operation.
LEMMA NextHeard ==
    ASSUME TypeOK, OneAtATime, ScopeMatches, HeardBySelfOrLeft, [Next]_vars
    PROVE  HeardBySelfOrLeft'
<1>1. \A p \in heard : p[1] = p[2] \/ pc'[p[2]] = "left"
  <2>1. ASSUME NEW p \in heard, p[1] # p[2] PROVE pc'[p[2]] = "left"
    <3>1. pc[p[2]] = "left" /\ p[2] \in Ops
      BY <2>1 DEF HeardBySelfOrLeft, TypeOK
    <3> QED BY <3>1, LeftStays
  <2> QED BY <2>1
<1>2. ASSUME NEW c \in Ops, NotifyOther(c) PROVE HeardBySelfOrLeft'
  <2>1. notify_baton2 \in Ops \ {c} /\ heard' = heard \cup {<<c, notify_baton2>>}
    BY <1>2 DEF NotifyOther, TypeOK
  <2>2. ~Over(c)
    BY <1>2 DEF NotifyOther, Over
  <2>3. pc'[notify_baton2] = "left"
    BY <2>1, <2>2, OtherScopeIsLeft, LeftStays
  <2> QED BY <1>1, <2>1, <2>3 DEF HeardBySelfOrLeft
<1>3. ASSUME NEW c \in Ops, Step(c), ~NotifyOther(c) PROVE HeardBySelfOrLeft'
  <2>1. heard' = heard \/ heard' = heard \cup {<<c, c>>}
    BY <1>3 DEF Step, Begin, BadMessage, ConvertFails, Refused, CallSvn,
                invoke_log_message, Notify, NotifyThrows, CallBack,
                CallBackThrows, Return, Resume, Leave
  <2> QED BY <1>1, <2>1 DEF HeardBySelfOrLeft
<1>4. CASE UNCHANGED vars
  BY <1>1, <1>4 DEF vars, HeardBySelfOrLeft
<1> QED BY <1>2, <1>3, <1>4 DEF Next

\* Exceptions are thrown inside Subversion, and a report to another operation
\* is followed by the end of its own.
LEMMA NextException ==
    ASSUME TypeOK, QuietBefore, ExceptionExplained, [Next]_vars
    PROVE  QuietBefore' /\ ExceptionExplained'
<1> USE DEF TypeOK, QuietBefore, ExceptionExplained
<1>1. ASSUME NEW c \in Ops, NEW k \in Kinds, Begin(c, k)
      PROVE  QuietBefore' /\ ExceptionExplained'
  BY <1>1 DEF Begin
<1>2. ASSUME NEW c \in Ops, BadMessage(c) \/ ConvertFails(c) \/ Refused(c)
      PROVE  QuietBefore' /\ ExceptionExplained'
  <2>1. /\ pc[c] \in {"idle", "entered"}
        /\ \/ pc' = [pc EXCEPT ![c] = "done"] /\ result' = [result EXCEPT ![c] = "svn_error"]
           \/ pc' = [pc EXCEPT ![c] = "done"] /\ result' = [result EXCEPT ![c] = "refused"]
        /\ UNCHANGED <<exception, heard>>
    BY <1>2 DEF BadMessage, ConvertFails, Refused
  <2>2. pc'[c] = "done" /\ result'[c] # "exception" /\ ~exception[c]
    BY <2>1
  <2>3. \A d \in Ops \ {c} : pc'[d] = pc[d] /\ result'[d] = result[d]
    BY <2>1
  <2>4. \A d \in Ops \ {c} : <<c, d>> \notin heard
    BY <2>1
  <2> QED BY <2>1, <2>2, <2>3, <2>4, ZenonT(60)
<1>3. ASSUME NEW c \in Ops,
             \/ CallSvn(c) \/ invoke_log_message(c) \/ CallBack(c)
             \/ Resume(c) \/ Leave(c)
      PROVE  QuietBefore' /\ ExceptionExplained'
  <2>1. /\ pc[c] # "done" /\ pc'[c] # "done"
        /\ pc'[c] \in {"idle", "entered", "message"} => pc[c] \in {"idle", "entered", "message"}
        /\ \A d \in Ops \ {c} : pc'[d] = pc[d]
        /\ UNCHANGED <<exception, result, heard>>
    BY <1>3 DEF CallSvn, invoke_log_message, CallBack, Resume, Leave
  <2> QED BY <2>1
<1>4. ASSUME NEW c \in Ops, Notify(c) PROVE QuietBefore' /\ ExceptionExplained'
  BY <1>4, ZenonT(60) DEF Notify
<1>5. ASSUME NEW c \in Ops, NotifyThrows(c) \/ CallBackThrows(c)
      PROVE  QuietBefore' /\ ExceptionExplained'
  <2>1. CASE NotifyThrows(c)
    BY <2>1 DEF NotifyThrows
  <2>2. CASE CallBackThrows(c)
    BY <2>2 DEF CallBackThrows
  <2> QED BY <1>5, <2>1, <2>2
<1>6. ASSUME NEW c \in Ops, NotifyOther(c) PROVE QuietBefore' /\ ExceptionExplained'
  <2>1. /\ notify_baton2 \in Ops \ {c}
        /\ heard' = heard \cup {<<c, notify_baton2>>}
        /\ pc' = [pc EXCEPT ![c] = "done"]
        /\ result' = [result EXCEPT ![c] = "exception"]
        /\ exception' = exception
    BY <1>6 DEF NotifyOther
  <2> QED BY <2>1
<1>7. ASSUME NEW c \in Ops, Return(c) PROVE QuietBefore' /\ ExceptionExplained'
  <2>1. PICK r \in {"value", "svn_error"} :
             result' = [result EXCEPT ![c] = IF exception[c] THEN "exception" ELSE r]
    BY <1>7 DEF Return, Verdict
  <2>2. /\ pc[c] = "svn"
        /\ pc' = [pc EXCEPT ![c] = "done"]
        /\ UNCHANGED <<exception, heard>>
    BY <1>7 DEF Return
  <2> QED BY <2>1, <2>2
<1>8. CASE UNCHANGED vars
  <2>1. UNCHANGED <<pc, exception, result, heard>>
    BY <1>8 DEF vars
  <2> QED BY <2>1
<1> QED
  BY <1>1, <1>2, <1>3, <1>4, <1>5, <1>6, <1>7, <1>8 DEF Next, Step

-----------------------------------------------------------------------------
(* The theorems. *)

\* IInv is an invariant, for any operations of any kinds.
THEOREM Invariance == Spec => []IInv
<1>1. ASSUME IInv, [Next]_vars PROVE IInv'
  <2> USE DEF IInv
  <2>1. TypeOK' /\ OneAtATime'
    BY <1>1, NextTypeOK, NextOneAtATime
  <2>2. ScopeMatches'
    BY <1>1, NextScopeMatches
  <2>3. MessageIsKept' /\ MessageIsOwn'
    BY <1>1, NextMessage
  <2>4. RefusedAfterLeaving'
    BY <1>1, NextRefused
  <2>5. HeardBySelfOrLeft'
    BY <1>1, NextHeard
  <2>6. QuietBefore' /\ ExceptionExplained'
    BY <1>1, NextException
  <2> QED BY <2>1, <2>2, <2>3, <2>4, <2>5, <2>6
<1> QED BY InitIInv, <1>1, PTL DEF Spec

\* Types, and that an operation has a result exactly when it is done.
THEOREM TypeCorrect == Spec => []TypeOK
<1>1. IInv => TypeOK
  BY DEF IInv
<1> QED BY Invariance, <1>1, PTL

\* The context's notification baton is never a dangling pointer (ScopeMatches).
THEOREM ScopeIsSound == Spec => []ScopeMatches
<1>1. IInv => ScopeMatches
  BY DEF IInv
<1> QED BY Invariance, <1>1, PTL

\* The context's message baton dangles after every commit, but Subversion is
\* never led to it (client.cpp:556-558, 87-95).
THEOREM MessageIsSound == Spec => []MessageIsOwn
<1>1. IInv => MessageIsOwn
  BY DEF IInv
<1> QED BY Invariance, <1>1, PTL

\* Without a loop left early no operation is refused (client.cpp:103).
THEOREM RefusalExplained == Spec => []RefusedAfterLeaving
<1>1. IInv => RefusedAfterLeaving
  BY DEF IInv
<1> QED BY Invariance, <1>1, PTL

\* Without a loop left early an operation is notified of its own doings only
\* (client.cpp:117-128).
THEOREM ReportsFindTheirReader == Spec => []HeardBySelfOrLeft
<1>1. IInv => HeardBySelfOrLeft
  BY DEF IInv
<1> QED BY Invariance, <1>1, PTL

\* Both batons of the shared context are sound (client.cpp:99-114, 556-558).
THEOREM BatonsAreSound == Spec => []BatonsSound
<1>1. ScopeMatches /\ MessageIsOwn => BatonsSound
  BY DEF BatonsSound
<1> QED BY ScopeIsSound, MessageIsSound, <1>1, PTL

\* Operations disturb each other only through a loop that was left
\* (client.cpp:103, 117-128).
THEOREM LeavingIsTheCause == Spec => []LeavingExplains
<1>1. RefusedAfterLeaving /\ HeardBySelfOrLeft => LeavingExplains
  BY DEF LeavingExplains
<1> QED BY RefusalExplained, ReportsFindTheirReader, <1>1, PTL

\* An operation ends with an exception exactly if its callback threw, or if
\* it reported to an operation that was left (client.cpp:51-70, 127).
THEOREM ExceptionsHaveACause == Spec => []ExceptionExplained
<1>1. IInv => ExceptionExplained
  BY DEF IInv
<1> QED BY Invariance, <1>1, PTL
=============================================================================
