-------------------------- MODULE SimpleAuthProofs --------------------------
(***************************************************************************)
(* Proofs about SimpleAuth for any numbers of operations, providers and    *)
(* prompts: the composition implements UvAsync, and an inductive invariant *)
(* about who is inside the async and whom a prompt has still to ask gives  *)
(* the safety properties.                                                  *)
(***************************************************************************)
EXTENDS SimpleAuth, SequenceTheorems, TLAPS

-----------------------------------------------------------------------------
(* The composition and uv::async. *)

\* A step of the program, of Subversion or of the loop thread that is not one
\* of uv::async leaves uv::async alone.
LEMMA AsyncStep == [Next]_vars => [A!Next]_(A!vars)
<1> SUFFICES ASSUME [Next]_vars PROVE [A!Next]_(A!vars)
  OBVIOUS
<1> USE DEF A!Next, A!Step, A!vars, A!state
<1>1. CASE Construct
  BY <1>1 DEF Construct
<1>2. CASE Collect
  BY <1>2 DEF Collect
<1>3. ASSUME NEW f \in Providers, Add(f) \/ Remove_(f) PROVE UNCHANGED A!vars
  BY <1>3 DEF Add, Remove_, asyncVars
<1>4. ASSUME NEW w \in Workers, CallMethod(w) \/ PromptWithoutName(w) \/ Prompted(w)
                                 \/ SvnReturns(w) \/ AfterWork(w) \/ AfterWorkEscapes(w)
      PROVE  UNCHANGED A!vars
  BY <1>4 DEF CallMethod, PromptWithoutName, Prompted, SvnReturns, AfterWork,
              AfterWorkEscapes, asyncVars
<1>5. ASSUME NEW w \in Workers, Prompt(w) PROVE A!Next
  BY <1>5 DEF Prompt
<1>6. ASSUME NEW w \in Workers, InOperatorCall(w) PROVE A!Next
  BY <1>6 DEF InOperatorCall
<1>7. CASE FunctionThrows \/ ConvertArguments \/ Ask \/ Answer \/ GetAnswer \/ Stopped
           \/ UNCHANGED vars
  BY <1>7 DEF FunctionThrows, ConvertArguments, Ask, Answer, GetAnswer, Stopped, vars, asyncVars
<1>8. CASE InvokeImplement
  BY <1>8 DEF InvokeImplement, A!Loop
<1>9. CASE ReturnAnswer
  BY <1>9 DEF ReturnAnswer, A!Loop, A!InnerStates
<1>10. CASE DeleteHandle
  BY <1>10 DEF DeleteHandle, A!Loop
<1> QED
  BY <1>1, <1>2, <1>3, <1>4, <1>5, <1>6, <1>7, <1>8, <1>9, <1>10 DEF Next, PoolThread, LoopThread

\* SimpleAuth drives uv::async only in the ways UvAsync allows.
THEOREM Implements == Spec => ImplementsAsync
<1>1. Init => A!Init
  BY DEF Init
<1> QED BY <1>1, AsyncStep, PTL DEF Spec, ImplementsAsync, A!Spec

-----------------------------------------------------------------------------
(* The inductive invariant. *)

Distinct(s) == \A i, j \in DOMAIN s : s[i] = s[j] => i = j

\* A worker is in operator() only for a prompt of Subversion.
PcOK ==
    /\ pc \in [Workers -> A!Control]
    /\ outcome \in [Workers -> {"none", "busy", "abort", "value", "exception"}]
    /\ promise \in [Workers -> {"none", "unset", "value", "exception"}]
    /\ \A w \in Workers : /\ pc[w] # "idle" => operation[w] = "prompting"
                           /\ pc[w] # "nested"

\* running is set by somebody who is inside.
LineOK == running => \E w \in Workers : A!Inside(w)

\* A wake-up is sent only after the pointer was stored.
DataOK ==
    /\ data \in Workers \cup {Nobody}
    /\ (pending \/ \E w \in Workers : pc[w] = "armed") => data # Nobody

SerialOK == serial => \A v, w \in Workers : Busy(v) /\ Busy(w) => v = w

\* What a prompt has asked and has still to ask is all it must ask, once each.
AskOK ==
    /\ future = "unset" => loop = "waiting"
    /\ Distinct(functions) /\ Distinct(asked)
    /\ loop = "converting" => asked = <<>> /\ kept \subseteq ToSet(functions)
    /\ loop \in {"asking", "javascript", "waiting"} =>
          /\ Distinct(array)
          /\ ToSet(asked) \cap ToSet(array) = {}
          /\ kept \subseteq ToSet(asked) \cup ToSet(array)

\* No prompt ever gets a credential, which is more than the violated
\* CredentialReachesSvn shows: the reactions of a promise need a free loop thread.
NoCredential ==
    /\ future # "credential"
    /\ \A w \in Workers : credential[w] = "none"

IInv ==
    /\ TypeOK /\ PcOK /\ LineOK /\ DataOK /\ SerialOK
    /\ AskOK /\ NoCredential /\ NeverRefused

\* Removing from a sequence without duplicates leaves one.
LEMMA RemoveAtDistinct ==
  ASSUME NEW S, NEW s \in Seq(S), Distinct(s), NEW i \in 1..Len(s)
  PROVE  RemoveAt(s, i) \in Seq(S) /\ Distinct(RemoveAt(s, i))
<1> DEFINE a == SubSeq(s, 1, i - 1)
           b == SubSeq(s, i + 1, Len(s))
<1>1. /\ a \in Seq(S) /\ Len(a) = i - 1
      /\ \A k \in 1..(i - 1) : a[k] = s[k]
  BY SubSeqProperties
<1>2. /\ b \in Seq(S) /\ Len(b) = Len(s) - i
      /\ \A k \in 1..(Len(s) - i) : b[k] = s[i + k]
  BY SubSeqProperties
<1> HIDE DEF a, b
<1>3. /\ a \o b \in Seq(S) /\ Len(a \o b) = Len(s) - 1
      /\ \A k \in 1..(Len(s) - 1) : (a \o b)[k] = IF k < i THEN s[k] ELSE s[k + 1]
  <2>1. /\ a \o b \in Seq(S) /\ Len(a \o b) = Len(a) + Len(b)
        /\ \A k \in 1..(Len(a) + Len(b)) :
              (a \o b)[k] = IF k <= Len(a) THEN a[k] ELSE b[k - Len(a)]
    BY <1>1, <1>2, ConcatProperties
  <2>2. Len(a) + Len(b) = Len(s) - 1
    BY <1>1, <1>2
  <2>3. ASSUME NEW k \in 1..(Len(s) - 1)
        PROVE  (a \o b)[k] = IF k < i THEN s[k] ELSE s[k + 1]
    <3>1. CASE k < i
      BY <1>1, <2>1, <2>2, <3>1
    <3>2. CASE ~(k < i)
      <4>1. k - (i - 1) \in 1..(Len(s) - i) /\ i + (k - (i - 1)) = k + 1
        BY <3>2
      <4>2. b[k - (i - 1)] = s[k + 1]
        BY <1>2, <4>1
      <4>3. k \in 1..(Len(a) + Len(b)) /\ ~(k <= Len(a)) /\ Len(a) = i - 1
        BY <1>1, <2>2, <3>2
      <4>4. (a \o b)[k] = b[k - (i - 1)]
        BY <2>1, <4>3
      <4> QED BY <3>2, <4>2, <4>4
    <3> QED BY <3>1, <3>2
  <2> QED BY <2>1, <2>2, <2>3
<1>4. Distinct(a \o b)
  <2> DEFINE c == a \o b
             old(k) == IF k < i THEN k ELSE k + 1
  <2>1. DOMAIN c = 1..(Len(s) - 1) /\ DOMAIN s = 1..Len(s) /\ Len(s) \in Nat
    BY <1>3
  <2>2. \A k \in 1..(Len(s) - 1) : c[k] = s[old(k)]
    BY <1>3
  <2> HIDE DEF c
  <2>3. ASSUME NEW k \in 1..(Len(s) - 1) PROVE old(k) \in 1..Len(s)
    BY <2>1
  <2>4. ASSUME NEW j \in 1..(Len(s) - 1), NEW k \in 1..(Len(s) - 1), old(j) = old(k)
        PROVE  j = k
    <3>1. j \in Int /\ k \in Int /\ i \in Int
      BY <2>1
    <3>2. CASE j < i /\ k < i
      BY <2>4, <3>2
    <3>3. CASE ~(j < i) /\ ~(k < i)
      BY <2>4, <3>1, <3>3
    <3>4. CASE j < i /\ ~(k < i)
      BY <2>4, <3>1, <3>4
    <3>5. CASE ~(j < i) /\ k < i
      BY <2>4, <3>1, <3>5
    <3> QED BY <3>2, <3>3, <3>4, <3>5
  <2> HIDE DEF old
  <2>5. Distinct(c)
    BY <2>1, <2>2, <2>3, <2>4 DEF Distinct
  <2> QED BY <2>5 DEF c
<1> QED BY <1>3, <1>4 DEF RemoveAt, a, b

\* The elements of a sequence, its head and its tail.
LEMMA ToSetTail ==
  ASSUME NEW S, NEW s \in Seq(S), s # <<>>
  PROVE  ToSet(s) = {Head(s)} \cup ToSet(Tail(s))
<1> DEFINE t == Tail(s)
<1>1. /\ DOMAIN s = 1..Len(s) /\ DOMAIN t = 1..Len(t) /\ Len(s) \in Nat
      /\ Len(t) = Len(s) - 1 /\ Len(s) >= 1 /\ Head(s) = s[1]
      /\ \A i \in 1..Len(t) : t[i] = s[i + 1]
  BY HeadTailProperties
<1> HIDE DEF t
<1>2. ASSUME NEW i \in DOMAIN s PROVE s[i] \in {Head(s)} \cup ToSet(t)
  <2>1. CASE i = 1
    BY <1>1, <2>1
  <2>2. CASE i # 1
    <3>1. i - 1 \in DOMAIN t /\ t[i - 1] = s[i]
      BY <1>1, <2>2
    <3> QED BY <3>1 DEF ToSet
  <2> QED BY <2>1, <2>2
<1>3. ASSUME NEW i \in DOMAIN t PROVE t[i] \in ToSet(s)
  <2>1. i + 1 \in DOMAIN s /\ t[i] = s[i + 1]
    BY <1>1
  <2> QED BY <2>1 DEF ToSet
<1>4. Head(s) \in ToSet(s)
  BY <1>1 DEF ToSet
<1>5. ToSet(s) \subseteq {Head(s)} \cup ToSet(t)
  BY <1>2 DEF ToSet
<1>6. ToSet(t) \subseteq ToSet(s)
  BY <1>3 DEF ToSet
<1> QED BY <1>4, <1>5, <1>6 DEF t

LEMMA ToSetAppend ==
  ASSUME NEW S, NEW s \in Seq(S), NEW e \in S
  PROVE  ToSet(Append(s, e)) = ToSet(s) \cup {e}
<1> DEFINE t == Append(s, e)
<1>1. /\ DOMAIN s = 1..Len(s) /\ DOMAIN t = 1..(Len(s) + 1) /\ Len(s) \in Nat
      /\ t[Len(s) + 1] = e /\ \A i \in 1..Len(s) : t[i] = s[i]
  OBVIOUS
<1> HIDE DEF t
<1>2. ToSet(t) \subseteq ToSet(s) \cup {e}
  <2>1. ASSUME NEW i \in DOMAIN t PROVE t[i] \in ToSet(s) \cup {e}
    <3>1. CASE i = Len(s) + 1
      BY <1>1, <3>1
    <3>2. CASE i # Len(s) + 1
      <4>1. i \in DOMAIN s /\ t[i] = s[i]
        BY <1>1, <3>2
      <4> QED BY <4>1 DEF ToSet
    <3> QED BY <3>1, <3>2
  <2> QED BY <2>1 DEF ToSet
<1>3. ToSet(s) \subseteq ToSet(t)
  <2>1. ASSUME NEW i \in DOMAIN s PROVE s[i] \in ToSet(t)
    <3>1. i \in DOMAIN t /\ t[i] = s[i]
      BY <1>1
    <3> QED BY <3>1 DEF ToSet
  <2> QED BY <2>1 DEF ToSet
<1>4. e \in ToSet(t)
  BY <1>1 DEF ToSet
<1> QED BY <1>2, <1>3, <1>4 DEF t

LEMMA InitInvariant == Init => IInv
<1> SUFFICES ASSUME Init PROVE IInv
  OBVIOUS
<1> USE DEF Init, A!Init
<1>1. TypeOK
  BY BoundsAssumption DEF TypeOK
<1>2. PcOK /\ LineOK /\ DataOK
  BY DEF PcOK, LineOK, DataOK, A!Control
<1>3. SerialOK /\ NoCredential /\ NeverRefused
  BY DEF SerialOK, Busy, NoCredential, NeverRefused
<1>4. AskOK
  BY DEF AskOK, Distinct
<1> QED BY <1>1, <1>2, <1>3, <1>4 DEF IInv

-----------------------------------------------------------------------------
(* Its preservation, by the parts a step can disturb. *)

\* Types; executing follows handle->data only when that was stored.
LEMMA NextType == IInv /\ [Next]_vars => TypeOK'
<1> SUFFICES ASSUME IInv, [Next]_vars PROVE TypeOK'
  OBVIOUS
<1> USE DEF IInv, TypeOK
<1>1. CASE Construct \/ Collect \/ Stopped \/ UNCHANGED vars
  BY <1>1 DEF Construct, Collect, Stopped, vars, asyncVars, programVars, setVars,
              promptVars, A!Create, A!CreateFails, A!Release
<1>2. ASSUME NEW f \in Providers, Add(f) PROVE TypeOK'
  BY <1>2, BoundsAssumption DEF Add, asyncVars, programVars, promptVars
<1>3. ASSUME NEW f \in Providers, Remove_(f) PROVE TypeOK'
  <2>1. functions' \in Seq(Providers)
    <3>1. CASE Contains(functions, f)
      BY <1>3, <3>1, RemoveAtDistinct DEF Remove_, Contains, AskOK
    <3> QED BY <1>3, <3>1 DEF Remove_
  <2> QED BY <1>3, <2>1, BoundsAssumption DEF Remove_, asyncVars, programVars, promptVars
<1>4. ASSUME NEW w \in Workers, CallMethod(w) PROVE TypeOK'
  BY <1>4 DEF CallMethod, asyncVars, setVars, promptVars
<1>5. ASSUME NEW w \in Workers, Prompt(w) PROVE TypeOK'
  BY <1>5, BoundsAssumption DEF Prompt, setVars, A!Enter, A!EnterBusy
<1>6. ASSUME NEW w \in Workers, InOperatorCall(w) PROVE TypeOK'
  BY <1>6 DEF InOperatorCall, programVars, setVars, promptVars, A!OperatorCall, A!Arm,
              A!Send, A!SendFails, A!Return, A!ReturnNested, A!Unwind, A!DropRef
<1>7. ASSUME NEW w \in Workers,
             PromptWithoutName(w) \/ Prompted(w) \/ SvnReturns(w) \/ AfterWorkEscapes(w)
      PROVE  TypeOK'
  <2>1. UNCHANGED <<serial, functions, array, asked, kept, edits, loop, future, credential,
                    offered, executing>>
    BY <1>7 DEF PromptWithoutName, Prompted, SvnReturns, AfterWorkEscapes, asyncVars, setVars,
                promptVars
  <2>2. alive' \in BOOLEAN
    BY <1>7 DEF PromptWithoutName, Prompted, SvnReturns, AfterWorkEscapes
  <2>3. operation' \in [Workers -> {"none", "svn", "prompting", "thrown", "returned", "done"}]
    BY <1>7 DEF PromptWithoutName, Prompted, SvnReturns, AfterWorkEscapes
  <2>4. prompts' \in [Workers -> 0..MaxPrompts]
    <3>1. CASE PromptWithoutName(w)
      BY <3>1, BoundsAssumption DEF PromptWithoutName
    <3> QED BY <1>7, <3>1 DEF Prompted, SvnReturns, AfterWorkEscapes
  <2> QED BY <2>1, <2>2, <2>3, <2>4
<1>8. ASSUME NEW w \in Workers, AfterWork(w) PROVE TypeOK'
  BY <1>8 DEF AfterWork, Reactions, asyncVars, setVars
<1>9. CASE FunctionThrows
  BY <1>9 DEF FunctionThrows, asyncVars, setVars, promptVars
<1>10. CASE InvokeImplement
  <2>1. executing' # Nobody
    BY <1>10, NobodyAssumption DEF InvokeImplement, A!InvokeAsync, DataOK
  <2>2. ToSet(functions) \subseteq Providers
    BY DEF ToSet
  <2>3. <<>> \in Seq(Providers)
    OBVIOUS
  <2> QED BY <1>10, <2>1, <2>2, <2>3 DEF InvokeImplement, programVars, setVars
<1>11. CASE ConvertArguments
  BY <1>11 DEF ConvertArguments, asyncVars, setVars
<1>12. CASE Ask
  <2>1. Head(array) \in Providers /\ Tail(array) \in Seq(Providers)
    BY <1>12 DEF Ask
  <2> QED BY <1>12, <2>1 DEF Ask, asyncVars, programVars, setVars
<1>13. CASE Answer
  BY <1>13 DEF Answer, asyncVars, programVars, setVars
<1>14. CASE GetAnswer
  BY <1>14 DEF GetAnswer, asyncVars, programVars, setVars
<1>15. CASE ReturnAnswer
  BY <1>15 DEF ReturnAnswer, A!CallbackReturns, programVars, setVars
<1>16. CASE DeleteHandle
  BY <1>16 DEF DeleteHandle, A!DeleteHandle, programVars, setVars, promptVars
<1> QED
  BY <1>1, <1>2, <1>3, <1>4, <1>5, <1>6, <1>7, <1>8, <1>9, <1>10, <1>11, <1>12, <1>13,
     <1>14, <1>15, <1>16 DEF Next, PoolThread, LoopThread

\* Who is inside the async: only a worker whose operation prompts, and in a
\* serial program there is one such worker, so no prompt finds the line taken.
LEMMA NextCall ==
  IInv /\ [Next]_vars => PcOK' /\ LineOK' /\ DataOK' /\ SerialOK' /\ NeverRefused'
<1> SUFFICES ASSUME IInv, [Next]_vars
             PROVE  PcOK' /\ LineOK' /\ DataOK' /\ SerialOK' /\ NeverRefused'
  OBVIOUS
<1> USE DEF IInv, TypeOK, PcOK, LineOK, DataOK, SerialOK, NeverRefused, Busy,
            A!Inside, A!Control
<1>1. CASE Construct \/ Collect \/ Stopped \/ UNCHANGED vars
  <2>1. UNCHANGED <<pc, outcome, promise, running, data, pending, serial, operation>>
    BY <1>1 DEF Construct, Collect, Stopped, vars, asyncVars, programVars,
                A!Create, A!CreateFails, A!Release
  <2>2. PcOK' /\ LineOK'
    BY <2>1
  <2>3. DataOK' /\ SerialOK' /\ NeverRefused'
    BY <2>1
  <2> QED BY <2>2, <2>3
<1>2. ASSUME NEW f \in Providers, Add(f) \/ Remove_(f)
      PROVE  PcOK' /\ LineOK' /\ DataOK' /\ SerialOK' /\ NeverRefused'
  BY <1>2 DEF Add, Remove_, asyncVars, programVars, promptVars
<1>3. ASSUME NEW w \in Workers, CallMethod(w)
      PROVE  PcOK' /\ LineOK' /\ DataOK' /\ SerialOK' /\ NeverRefused'
  <2>1. PcOK' /\ LineOK' /\ DataOK' /\ NeverRefused'
    BY <1>3 DEF CallMethod, asyncVars
  <2>2. SerialOK'
    BY <1>3 DEF CallMethod
  <2> QED BY <2>1, <2>2
<1>4. ASSUME NEW w \in Workers, Prompt(w)
      PROVE  PcOK' /\ LineOK' /\ DataOK' /\ SerialOK' /\ NeverRefused'
  <2>1. SerialOK'
    BY <1>4 DEF Prompt
  <2>2. CASE A!Enter(w)
    <3>1. PcOK' /\ LineOK' /\ DataOK'
      BY <1>4, <2>2 DEF Prompt, A!Enter
    <3>2. NeverRefused'
      BY <1>4, <2>2 DEF Prompt, A!Enter
    <3> QED BY <2>1, <3>1, <3>2
  <2>3. CASE A!EnterBusy(w)
    <3>1. PICK v \in Workers : A!Inside(v)
      BY <2>3 DEF A!EnterBusy
    <3>2. v # w /\ operation[v] = "prompting"
      BY <2>3, <3>1 DEF A!EnterBusy
    <3>3. ~serial
      BY <1>4, <3>2 DEF Prompt
    <3>4. PcOK' /\ DataOK'
      BY <1>4, <2>3 DEF Prompt, A!EnterBusy
    <3>5. LineOK'
      BY <2>3, <3>1, <3>2 DEF A!EnterBusy
    <3>6. NeverRefused'
      BY <1>4, <3>3 DEF Prompt
    <3> QED BY <2>1, <3>4, <3>5, <3>6
  <2> QED BY <1>4, <2>2, <2>3 DEF Prompt
<1>5. ASSUME NEW w \in Workers, InOperatorCall(w)
      PROVE  PcOK' /\ LineOK' /\ DataOK' /\ SerialOK' /\ NeverRefused'
  <2>1. SerialOK'
    BY <1>5 DEF InOperatorCall, programVars
  <2>2. CASE A!Arm(w) \/ A!Send(w) \/ A!SendFails(w)
    <3>1. PcOK' /\ NeverRefused'
      <4>1. UNCHANGED <<serial, operation>>
        BY <1>5 DEF InOperatorCall, programVars
      <4>2. PcOK'
        <5>1. pc' \in [Workers -> A!Control]
          BY <2>2, ZenonT(60) DEF A!Arm, A!Send, A!SendFails
        <5>2. outcome' \in [Workers -> {"none", "busy", "abort", "value", "exception"}]
          BY <2>2, ZenonT(60) DEF A!Arm, A!Send, A!SendFails
        <5>3. promise' \in [Workers -> {"none", "unset", "value", "exception"}]
          BY <2>2 DEF A!Arm, A!Send, A!SendFails
        <5>4. operation[w] = "prompting" /\ pc'[w] # "nested"
              /\ \A v \in Workers : v # w => pc'[v] = pc[v]
          BY <2>2 DEF A!Arm, A!Send, A!SendFails
        <5> QED BY <4>1, <5>1, <5>2, <5>3, <5>4
      <4>3. NeverRefused'
        BY <1>5, <2>2, <4>1 DEF A!Arm, A!Send, A!SendFails
      <4> QED BY <4>2, <4>3
    <3>2. LineOK'
      <4>1. A!Inside(w)'
        BY <2>2 DEF A!Arm, A!Send, A!SendFails
      <4> QED BY <4>1
    <3>3. DataOK'
      BY <2>2, NobodyAssumption DEF A!Arm, A!Send, A!SendFails
    <3> QED BY <2>1, <3>1, <3>2, <3>3
  <2>3. CASE A!Return(w) \/ A!ReturnNested(w)
    <3>0. A!Return(w) /\ pc'[w] = "unwinding" /\ promise[w] \in {"value", "exception"}
      <4>1. ~A!ReturnNested(w)
        BY DEF A!ReturnNested
      <4> QED BY <2>3, <4>1 DEF A!Return, A!Results
    <3>1. PcOK' /\ NeverRefused'
      <4>1. UNCHANGED <<serial, operation>>
        BY <1>5 DEF InOperatorCall, programVars
      <4>2. PcOK'
        <5>1. pc' \in [Workers -> A!Control]
          BY <3>0, ZenonT(60) DEF A!Return
        <5>2. outcome' \in [Workers -> {"none", "busy", "abort", "value", "exception"}]
          BY <3>0, ZenonT(60) DEF A!Return
        <5>3. promise' \in [Workers -> {"none", "unset", "value", "exception"}]
          BY <3>0 DEF A!Return
        <5>4. operation[w] = "prompting" /\ pc'[w] # "nested"
              /\ \A v \in Workers : v # w => pc'[v] = pc[v]
          BY <3>0 DEF A!Return
        <5> QED BY <4>1, <5>1, <5>2, <5>3, <5>4
      <4>3. NeverRefused'
        BY <1>5, <3>0, <4>1 DEF A!Return
      <4> QED BY <4>2, <4>3
    <3>2. LineOK'
      BY <3>0 DEF A!Return
    <3>3. DataOK'
      BY <3>0 DEF A!Return
    <3> QED BY <2>1, <3>1, <3>2, <3>3
  <2>4. CASE A!Unwind(w) \/ A!DropRef(w)
    <3>1. PcOK' /\ NeverRefused'
      <4>1. UNCHANGED <<serial, operation>>
        BY <1>5 DEF InOperatorCall, programVars
      <4>2. PcOK'
        <5>1. pc' \in [Workers -> A!Control]
          BY <2>4, ZenonT(60) DEF A!Unwind, A!DropRef
        <5>2. outcome' \in [Workers -> {"none", "busy", "abort", "value", "exception"}]
          BY <2>4 DEF A!Unwind, A!DropRef
        <5>3. promise' \in [Workers -> {"none", "unset", "value", "exception"}]
          BY <2>4 DEF A!Unwind, A!DropRef
        <5>4. operation[w] = "prompting" /\ pc'[w] # "nested"
              /\ \A v \in Workers : v # w => pc'[v] = pc[v]
          BY <2>4 DEF A!Unwind, A!DropRef
        <5> QED BY <4>1, <5>1, <5>2, <5>3, <5>4
      <4>3. NeverRefused'
        BY <1>5, <2>4, <4>1 DEF A!Unwind, A!DropRef
      <4> QED BY <4>2, <4>3
    <3>2. LineOK'
      <4>1. CASE A!Unwind(w)
        BY <4>1 DEF A!Unwind
      <4>2. CASE A!DropRef(w)
        <5>1. \A v \in Workers : A!Inside(v) => A!Inside(v)'
          BY <4>2 DEF A!DropRef
        <5> QED BY <4>2, <5>1 DEF A!DropRef
      <4> QED BY <2>4, <4>1, <4>2
    <3>3. DataOK'
      BY <2>4 DEF A!Unwind, A!DropRef
    <3> QED BY <2>1, <3>1, <3>2, <3>3
  <2> QED BY <1>5, <2>2, <2>3, <2>4 DEF InOperatorCall, A!OperatorCall
<1>6. ASSUME NEW w \in Workers,
             PromptWithoutName(w) \/ Prompted(w) \/ SvnReturns(w) \/ AfterWork(w)
             \/ AfterWorkEscapes(w)
      PROVE  PcOK' /\ LineOK' /\ DataOK' /\ SerialOK' /\ NeverRefused'
  <2>1. /\ UNCHANGED <<pc, outcome, promise, running, data, pending, serial>>
        /\ \A v \in Workers : v # w => operation'[v] = operation[v]
        /\ pc[w] = "idle" /\ operation[w] # "none" /\ operation[w] # "done"
    BY <1>6 DEF PromptWithoutName, Prompted, SvnReturns, AfterWork, AfterWorkEscapes, asyncVars
  <2>2. PcOK' /\ LineOK'
    BY <2>1
  <2>3. DataOK' /\ NeverRefused'
    BY <2>1
  <2>4. SerialOK'
    BY <2>1
  <2> QED BY <2>2, <2>3, <2>4
<1>7. CASE FunctionThrows \/ ConvertArguments \/ Ask \/ Answer \/ GetAnswer
  BY <1>7 DEF FunctionThrows, ConvertArguments, Ask, Answer, GetAnswer, asyncVars, programVars
<1>8. CASE InvokeImplement
  BY <1>8 DEF InvokeImplement, A!InvokeAsync, programVars
<1>9. CASE ReturnAnswer \/ DeleteHandle
  <2>1. /\ UNCHANGED <<pc, outcome, running, data, pending, serial, operation>>
        /\ promise' \in [Workers -> {"none", "unset", "value", "exception"}]
    BY <1>9 DEF ReturnAnswer, DeleteHandle, A!CallbackReturns, A!DeleteHandle, programVars
  <2>2. PcOK' /\ LineOK'
    BY <2>1
  <2>3. DataOK' /\ SerialOK' /\ NeverRefused'
    BY <2>1
  <2> QED BY <2>2, <2>3
<1> QED
  BY <1>1, <1>2, <1>3, <1>4, <1>5, <1>6, <1>7, <1>8, <1>9 DEF Next, PoolThread, LoopThread

\* Whom a prompt asks, and what it hears.
LEMMA NextAsk == IInv /\ [Next]_vars => AskOK' /\ NoCredential'
<1> SUFFICES ASSUME IInv, [Next]_vars PROVE AskOK' /\ NoCredential'
  OBVIOUS
<1> USE DEF IInv, TypeOK, AskOK, NoCredential
<1>1. CASE UNCHANGED <<functions, loop, array, asked, kept, future, credential>>
  BY <1>1
<1>2. ASSUME NEW f \in Providers, Add(f) PROVE AskOK' /\ NoCredential'
  <2>1. Distinct(functions')
    BY <1>2 DEF Add, Distinct, Contains
  <2> QED BY <1>2, <2>1 DEF Add, JavaScript, promptVars
<1>3. ASSUME NEW f \in Providers, Remove_(f) PROVE AskOK' /\ NoCredential'
  <2>1. Distinct(functions')
    <3>1. CASE Contains(functions, f)
      BY <1>3, <3>1, RemoveAtDistinct DEF Remove_, Contains
    <3> QED BY <1>3, <3>1 DEF Remove_
  <2> QED BY <1>3, <2>1 DEF Remove_, JavaScript, promptVars
<1>4. ASSUME NEW w \in Workers, AfterWork(w) PROVE AskOK' /\ NoCredential'
  <2>1. future' = future
    BY <1>4 DEF AfterWork, Reactions
  <2> QED BY <1>1, <1>4, <2>1 DEF AfterWork, setVars
<1>5. CASE InvokeImplement
  <2>1. Distinct(<<>>)
    BY DEF Distinct
  <2> QED BY <1>5, <2>1 DEF InvokeImplement, setVars
<1>6. CASE ConvertArguments
  <2>1. asked' = <<>> /\ ToSet(<<>>) = {}
    BY <1>6 DEF ConvertArguments, ToSet
  <2> QED BY <1>6, <2>1 DEF ConvertArguments, setVars
<1>7. CASE Ask
  <2> DEFINE h == Head(array)
  <2>1. /\ array # <<>> /\ h \in Providers /\ Tail(array) \in Seq(Providers)
        /\ array' = Tail(array) /\ asked' = Append(asked, h)
    BY <1>7 DEF Ask
  <2>2. ToSet(array) = {h} \cup ToSet(array')
    BY <2>1, ToSetTail
  <2>3. ToSet(asked') = ToSet(asked) \cup {h}
    BY <2>1, ToSetAppend
  <2>4. Distinct(array') /\ h \notin ToSet(array')
    BY <1>7, <2>1 DEF Ask, Distinct, ToSet
  <2>5. Distinct(asked')
    <3>1. h \notin ToSet(asked)
      BY <1>7, <2>2 DEF Ask
    <3>2. /\ DOMAIN asked = 1..Len(asked) /\ DOMAIN asked' = 1..(Len(asked) + 1)
          /\ \A i \in DOMAIN asked' :
                asked'[i] = IF i \in DOMAIN asked THEN asked[i] ELSE h
      BY <2>1
    <3> QED BY <3>1, <3>2 DEF Distinct, ToSet
  <2> QED BY <1>7, <2>2, <2>3, <2>4, <2>5 DEF Ask, setVars
<1>8. CASE Answer
  BY <1>8 DEF Answer, setVars
<1>9. CASE GetAnswer
  BY <1>9 DEF GetAnswer, setVars
<1>10. CASE ReturnAnswer
  BY <1>10 DEF ReturnAnswer, setVars
<1>11. CASE \/ Construct \/ Collect \/ FunctionThrows \/ DeleteHandle \/ Stopped \/ UNCHANGED vars
            \/ \E w \in Workers : CallMethod(w) \/ Prompt(w) \/ PromptWithoutName(w) \/ PoolThread(w)
                                  \/ SvnReturns(w) \/ AfterWorkEscapes(w)
  BY <1>1, <1>11 DEF Construct, Collect, FunctionThrows, DeleteHandle, Stopped, vars, CallMethod,
      Prompt, PromptWithoutName, PoolThread, InOperatorCall, Prompted, SvnReturns, AfterWorkEscapes, setVars, promptVars
<1> QED
  BY <1>2, <1>3, <1>4, <1>5, <1>6, <1>7, <1>8, <1>9, <1>10, <1>11 DEF Next, LoopThread

-----------------------------------------------------------------------------
(* The theorems. *)

LEMMA Invariant == Spec => []IInv
<1>1. IInv /\ [Next]_vars => IInv'
  BY NextType, NextCall, NextAsk DEF IInv
<1> QED BY <1>1, InitInvariant, PTL DEF Spec

\* Types, and the loop thread is in _invoke_implement exactly while it executes
\* somebody's prompt.
THEOREM TypeCorrect == Spec => []TypeOK
BY Invariant, PTL DEF IInv

\* Every function registered during the whole prompt is asked, and none twice,
\* whatever the functions register and remove meanwhile.
THEOREM EachAskedOnce == Spec => []EveryFunctionAsked
<1>1. IInv => EveryFunctionAsked
  BY SMTT(30) DEF IInv, TypeOK, AskOK, EveryFunctionAsked, Distinct, ToSet
<1> QED BY <1>1, Invariant, PTL

\* In a program that keeps to the rule, no prompt is ever refused.
THEOREM Unrefused == Spec => []NeverRefused
BY Invariant, PTL DEF IInv

\* While the loop thread waits for a promise only pool threads take steps.
LEMMA OnlyPoolThreads ==
    ASSUME TypeOK, Blocked, Next
    PROVE  \/ UNCHANGED vars
           \/ \E w \in Workers : Prompt(w) \/ PromptWithoutName(w) \/ PoolThread(w) \/ SvnReturns(w)
<1>1. alive /\ loop = "waiting" /\ future = "unset"
  BY DEF Blocked
<1>2. ~JavaScript
  BY <1>1 DEF JavaScript
<1>3. ~Construct /\ ~Collect /\ (\A f \in Providers : ~Add(f) /\ ~Remove_(f)) /\ ~FunctionThrows
  BY <1>1, <1>2 DEF Construct, Collect, Add, Remove_, FunctionThrows
<1>4. \A w \in Workers : ~CallMethod(w) /\ ~AfterWork(w) /\ ~AfterWorkEscapes(w)
  BY <1>1, <1>2 DEF CallMethod, AfterWork, AfterWorkEscapes
<1>5. ~LoopThread
  BY <1>1 DEF LoopThread, InvokeImplement, ConvertArguments, Ask, Answer, GetAnswer,
              ReturnAnswer, DeleteHandle
<1> QED  BY <1>3, <1>4, <1>5 DEF Next, Stopped

\* A loop thread that waits for a promise waits for it until the process ends,
\* and settles no method call any more, whatever the pool threads do.
THEOREM BlockedUntilTheEnd == Spec => BlockedForGood
<1>1. ASSUME TypeOK, [Next]_vars, Blocked
      PROVE  /\ Blocked' \/ ~alive'
             /\ \A w \in Workers : operation'[w] = "done" => operation[w] = "done"
  <2>1. CASE UNCHANGED vars
    BY <1>1, <2>1 DEF vars, programVars, promptVars, Blocked
  <2>2. ASSUME NEW w \in Workers, Prompt(w) \/ SvnReturns(w)
        PROVE  /\ UNCHANGED <<alive, loop, future>>
               /\ \A v \in Workers : operation'[v] = "done" => operation[v] = "done"
    BY <1>1, <2>2 DEF Prompt, SvnReturns, promptVars, TypeOK
  <2>3. ASSUME NEW w \in Workers, PromptWithoutName(w) \/ PoolThread(w)
        PROVE  /\ UNCHANGED <<loop, future>>
               /\ \A v \in Workers : operation'[v] = "done" => operation[v] = "done"
    BY <1>1, <2>3 DEF PromptWithoutName, PoolThread, InOperatorCall, Prompted, promptVars, programVars, TypeOK
  <2>4. \A w \in Workers : PromptWithoutName(w) \/ PoolThread(w) => alive' \in BOOLEAN
    BY <1>1 DEF PromptWithoutName, PoolThread, InOperatorCall, Prompted, programVars, TypeOK
  <2> QED  BY <1>1, <2>1, <2>2, <2>3, <2>4, OnlyPoolThreads DEF Blocked
<1>2. TypeOK /\ [Next]_vars =>
         [Blocked => /\ Blocked' \/ ~alive'
                     /\ \A w \in Workers : operation'[w] = "done" => operation[w] = "done"]_vars
  BY <1>1
<1> QED  BY <1>2, TypeCorrect, PTL DEF Spec, BlockedForGood
=============================================================================
