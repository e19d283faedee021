--------------------------- MODULE IterableProofs ---------------------------
(***************************************************************************)
(* Proofs about Iterable for any set of users, any number of items and, if *)
(* not stated otherwise, any number of next() calls in flight: the slot is *)
(* sound, nothing is lost between yield() and next(), and the iterable is  *)
(* the bounded stream of ItemStream.                                       *)
(***************************************************************************)
EXTENDS Iterable, SequenceTheorems, TLAPS

\* A promise that is not settled holds no outcome.
LEMMA NotPending == Pending \notin Outcomes
BY DEF Pending, Outcomes, Done, Error, Item

LEMMA InitIInv == Init => IInv
<1> SUFFICES ASSUME Init PROVE IInv
  OBVIOUS
<1>1. TypeOK
  <2>1. promises = <<>> /\ sent = <<>> /\ Len(promises) = 0
    BY DEF Init
  <2>2. waiting \in [Loops -> Seq(Promise \ {0})] /\ got \in [Loops -> Seq(Outcomes)]
    BY EmptySeq DEF Init
  <2>4. loop \in [Loops -> {"out", "in", "refused", "finished", "left"}]
    BY DEF Init
  <2>5. resolver \in Promise
    BY <2>1 DEF Init, Promise
  <2>3. promises \in Seq(Outcomes \cup {Pending}) /\ sent \in Seq(Outcomes)
    BY <2>1, EmptySeq
  <2> QED
    BY <2>2, <2>3, <2>4, <2>5 DEF Init, TypeOK
<1>2. SlotSound
  BY DEF Init, SlotSound
<1>3. OneUser /\ \A l \in Loops : ~Uses(l)
  BY DEF Init, OneUser, Uses
<1>4. WaitedOnce /\ SlotAsked /\ Conservation
  <2>1. WaitedOnce
    BY DEF Init, WaitedOnce
  <2>2. SlotAsked
    BY <1>3 DEF Init, SlotAsked
  <2>3. Conservation
    BY <1>3 DEF Init, Conservation, InSlot
  <2> QED
    BY <2>1, <2>2, <2>3
<1> QED
  BY <1>1, <1>2, <1>3, <1>4 DEF IInv

\* The types, with the numbers of the promises spelled out.
LEMMA Types ==
  ASSUME TypeOK
  PROVE  /\ created \in BOOLEAN /\ fulfilled \in BOOLEAN /\ microtasks \in BOOLEAN
         /\ consume \in {"none", "unset", "set"}
         /\ promises \in Seq(Outcomes \cup {Pending}) /\ Len(promises) \in Nat
         /\ resolver \in 0..Len(promises)
         /\ sent \in Seq(Outcomes) /\ Len(sent) \in Nat
         /\ loop \in [Loops -> {"out", "in", "refused", "finished", "left"}]
         /\ waiting \in [Loops -> Seq(1..Len(promises))]
         /\ got \in [Loops -> Seq(Outcomes)]
         /\ \A l \in Loops : /\ Len(waiting[l]) \in Nat /\ DOMAIN waiting[l] = 1..Len(waiting[l])
                             /\ \A i \in 1..Len(waiting[l]) : waiting[l][i] \in 1..Len(promises)
                             /\ Len(got[l]) \in Nat /\ DOMAIN got[l] = 1..Len(got[l])
<1>1. promises \in Seq(Outcomes \cup {Pending}) /\ Len(promises) \in Nat
  BY LenProperties DEF TypeOK
<1>2. Promise \ {0} = 1..Len(promises)
  BY <1>1 DEF Promise
<1>3. /\ waiting \in [Loops -> Seq(1..Len(promises))]
      /\ got \in [Loops -> Seq(Outcomes)]
      /\ sent \in Seq(Outcomes) /\ Len(sent) \in Nat
  BY <1>2, LenProperties DEF TypeOK
<1>4. ASSUME NEW l \in Loops
      PROVE  /\ Len(waiting[l]) \in Nat /\ DOMAIN waiting[l] = 1..Len(waiting[l])
             /\ \A i \in 1..Len(waiting[l]) : waiting[l][i] \in 1..Len(promises)
             /\ Len(got[l]) \in Nat /\ DOMAIN got[l] = 1..Len(got[l])
  BY <1>3, LenProperties, ElementOfSeq
<1> QED
  BY <1>1, <1>3, <1>4 DEF TypeOK, Promise

\* And back, for the state after a step.
LEMMA TypesOKNext ==
  ASSUME created' \in BOOLEAN, fulfilled' \in BOOLEAN, microtasks' \in BOOLEAN,
         consume' \in {"none", "unset", "set"},
         promises' \in Seq(Outcomes \cup {Pending}), resolver' \in 0..Len(promises'),
         sent' \in Seq(Outcomes),
         loop' \in [Loops -> {"out", "in", "refused", "finished", "left"}],
         waiting' \in [Loops -> Seq(1..Len(promises'))],
         got' \in [Loops -> Seq(Outcomes)]
  PROVE  TypeOK'
<1>1. Len(promises') \in Nat
  BY LenProperties
<1>2. (Promise \ {0})' = 1..Len(promises')
  BY <1>1 DEF Promise
<1> QED
  BY <1>2 DEF TypeOK, Promise

-----------------------------------------------------------------------------
(* What the steps that change sequences do, element by element. *)

\* yield, end and reject resolve with an outcome, when the future is not open.
LEMMA Producing ==
  ASSUME TypeOK, Producer
  PROVE  \E o \in Outcomes : Resolve(o) /\ consume # "unset" /\ ~Ended(sent)
<1>1. CASE Yield
  <2>1. Len(sent) + 1 \in 1..MaxItems
    BY <1>1, MaxItemsAssumption, LenProperties DEF Yield, TypeOK
  <2>2. Item(Len(sent) + 1) \in Outcomes
    BY <2>1 DEF Outcomes
  <2> QED
    BY <1>1, <2>2 DEF Yield, Producer
<1>2. CASE End \/ Reject
  BY <1>2 DEF End, Reject, Producer, Outcomes
<1> QED
  BY <1>1, <1>2 DEF Producer

\* resolve() makes a settled promise, or settles the one in the slot.
LEMMA Resolving ==
  ASSUME TypeOK, NEW o \in Outcomes, Resolve(o)
  PROVE  /\ ~fulfilled /\ microtasks' = TRUE
         /\ UNCHANGED <<created, loop, waiting, got>>
         /\ sent' \in Seq(Outcomes) /\ Len(sent') = Len(sent) + 1
         /\ sent'[Len(sent) + 1] = o
         /\ \A i \in 1..Len(sent) : sent'[i] = sent[i]
         /\ promises' \in Seq(Outcomes \cup {Pending})
         /\ resolver = 0 =>
              /\ Len(promises') = Len(promises) + 1 /\ promises'[Len(promises) + 1] = o
              /\ \A p \in 1..Len(promises) : promises'[p] = promises[p]
              /\ resolver' = Len(promises) + 1 /\ fulfilled' = TRUE /\ consume' = "unset"
         /\ resolver # 0 =>
              /\ Len(promises') = Len(promises) /\ promises'[resolver] = o
              /\ \A p \in 1..Len(promises) : p # resolver => promises'[p] = promises[p]
              /\ resolver' = 0 /\ fulfilled' = FALSE /\ consume' = "set"
<1>1. /\ ~fulfilled /\ microtasks' = TRUE
      /\ UNCHANGED <<created, loop, waiting, got>>
      /\ sent' = Append(sent, o)
  BY DEF Resolve, ResolveThrows, jsVars
<1>2. /\ sent \in Seq(Outcomes) /\ promises \in Seq(Outcomes \cup {Pending})
      /\ resolver \in 0..Len(promises)
  BY DEF TypeOK, Promise
<1>3. /\ sent' \in Seq(Outcomes) /\ Len(sent') = Len(sent) + 1
      /\ sent'[Len(sent) + 1] = o
      /\ \A i \in 1..Len(sent) : sent'[i] = sent[i]
  BY <1>1, <1>2, AppendProperties
<1>4. CASE resolver = 0
  <2>1. /\ promises' = Append(promises, o)
        /\ resolver' = Len(promises) + 1 /\ fulfilled' = TRUE /\ consume' = "unset"
    BY <1>4 DEF Resolve
  <2>2. /\ promises' \in Seq(Outcomes \cup {Pending})
        /\ Len(promises') = Len(promises) + 1 /\ promises'[Len(promises) + 1] = o
        /\ \A p \in 1..Len(promises) : promises'[p] = promises[p]
    BY <2>1, <1>2, AppendProperties
  <2> QED
    BY <1>1, <1>3, <1>4, <2>1, <2>2
<1>5. CASE resolver # 0
  <2>1. /\ promises' = [promises EXCEPT ![resolver] = o]
        /\ resolver' = 0 /\ fulfilled' = fulfilled /\ consume' = "set"
    BY <1>5 DEF Resolve
  <2>2. resolver \in 1..Len(promises)
    BY <1>2, <1>5, LenProperties
  <2>3. /\ promises' \in Seq(Outcomes \cup {Pending})
        /\ Len(promises') = Len(promises)
        /\ \A p \in 1..Len(promises) :
              promises'[p] = IF p = resolver THEN o ELSE promises[p]
    BY <2>1, <2>2, <1>2, ExceptSeq
  <2> QED
    BY <1>1, <1>3, <1>5, <2>1, <2>2, <2>3
<1> QED
  BY <1>4, <1>5

\* next() hands out the settled promise in the slot, or makes one.
LEMMA Asking ==
  ASSUME TypeOK, SlotSound, NEW l \in Loops, Next_(l)
  PROVE  /\ loop[l] = "in" /\ Len(waiting[l]) < Depth
         /\ UNCHANGED <<created, microtasks, sent, loop, got>>
         /\ \A k \in Loops : k # l => waiting'[k] = waiting[k]
         /\ Len(waiting'[l]) = Len(waiting[l]) + 1
         /\ \A i \in 1..Len(waiting[l]) : waiting'[l][i] = waiting[l][i]
         /\ waiting' \in [Loops -> Seq(1..Len(promises'))]
         /\ promises' \in Seq(Outcomes \cup {Pending})
         /\ fulfilled =>
              /\ waiting'[l][Len(waiting[l]) + 1] = resolver
              /\ resolver' = 0 /\ fulfilled' = FALSE /\ consume' = "set"
              /\ promises' = promises
         /\ ~fulfilled =>
              /\ waiting'[l][Len(waiting[l]) + 1] = Len(promises) + 1
              /\ resolver' = Len(promises) + 1 /\ fulfilled' = FALSE /\ consume' = consume
              /\ Len(promises') = Len(promises) + 1
              /\ promises'[Len(promises) + 1] = Pending
              /\ \A p \in 1..Len(promises) : promises'[p] = promises[p]
<1>1. /\ loop[l] = "in" /\ Len(waiting[l]) < Depth
      /\ UNCHANGED <<created, microtasks, sent, loop, got>>
  BY DEF Next_, WantsNext
<1>2. /\ promises \in Seq(Outcomes \cup {Pending}) /\ Len(promises) \in Nat
      /\ resolver \in 0..Len(promises) /\ fulfilled \in BOOLEAN
      /\ waiting \in [Loops -> Seq(1..Len(promises))]
  BY Types
<1>3. ASSUME NEW n \in Nat, Len(promises) <= n, NEW p \in 1..n,
             waiting' = [waiting EXCEPT ![l] = Append(@, p)]
      PROVE  /\ waiting' \in [Loops -> Seq(1..n)]
             /\ \A k \in Loops : k # l => waiting'[k] = waiting[k]
             /\ Len(waiting'[l]) = Len(waiting[l]) + 1
             /\ \A i \in 1..Len(waiting[l]) : waiting'[l][i] = waiting[l][i]
             /\ waiting'[l][Len(waiting[l]) + 1] = p
  <2>1. 1..Len(promises) \subseteq 1..n
    BY <1>2, <1>3
  <2>2. waiting \in [Loops -> Seq(1..n)]
    BY <1>2, <2>1, SeqMonotonic
  <2>3. /\ waiting'[l] = Append(waiting[l], p)
        /\ \A k \in Loops : k # l => waiting'[k] = waiting[k]
    BY <1>2, <1>3
  <2>4. /\ Append(waiting[l], p) \in Seq(1..n)
        /\ Len(Append(waiting[l], p)) = Len(waiting[l]) + 1
        /\ \A i \in 1..Len(waiting[l]) : Append(waiting[l], p)[i] = waiting[l][i]
        /\ Append(waiting[l], p)[Len(waiting[l]) + 1] = p
    BY <2>2, AppendProperties
  <2> QED
    BY <1>3, <2>2, <2>3, <2>4
<1>4. CASE fulfilled
  <2>1. /\ waiting' = [waiting EXCEPT ![l] = Append(@, resolver)]
        /\ resolver' = 0 /\ fulfilled' = FALSE /\ consume' = "set" /\ promises' = promises
    BY <1>4 DEF Next_
  <2>2. resolver \in 1..Len(promises)
    BY <1>2, <1>4 DEF SlotSound
  <2> QED
    BY <1>1, <1>2, <1>3, <1>4, <2>1, <2>2
<1>5. CASE ~fulfilled
  <2>1. /\ waiting' = [waiting EXCEPT ![l] = Append(@, Len(promises) + 1)]
        /\ resolver' = Len(promises) + 1 /\ fulfilled' = FALSE /\ consume' = consume
        /\ promises' = Append(promises, Pending)
    BY <1>5, <1>2 DEF Next_
  <2>2. /\ promises' \in Seq(Outcomes \cup {Pending})
        /\ Len(promises') = Len(promises) + 1
        /\ promises'[Len(promises) + 1] = Pending
        /\ \A p \in 1..Len(promises) : promises'[p] = promises[p]
    BY <1>2, <2>1, AppendProperties
  <2>3. Len(promises) + 1 \in Nat /\ Len(promises) + 1 \in 1..(Len(promises) + 1)
    BY <1>2
  <2> QED
    BY <1>1, <1>2, <1>3, <1>5, <2>1, <2>2, <2>3
<1> QED
  BY <1>4, <1>5, <1>2

\* The reaction of a promise takes the oldest one a user waits on.
LEMMA Receiving ==
  ASSUME TypeOK, NEW l \in Loops, Receive(l)
  PROVE  /\ UNCHANGED iterVars /\ loop[l] = "in"
         /\ loop' \in [Loops -> {"out", "in", "refused", "finished", "left"}]
         /\ loop'[l] \in {"in", "finished"}
         /\ \A k \in Loops : k # l => /\ loop'[k] = loop[k] /\ waiting'[k] = waiting[k]
                                      /\ got'[k] = got[k]
         /\ waiting[l] # <<>> /\ promises[waiting[l][1]] # Pending
         /\ waiting' \in [Loops -> Seq(1..Len(promises))]
         /\ Len(waiting[l]) \in Nat /\ Len(waiting'[l]) = Len(waiting[l]) - 1
         /\ \A i \in 1..Len(waiting'[l]) : waiting'[l][i] = waiting[l][i + 1]
         /\ got' \in [Loops -> Seq(Outcomes)] /\ Len(got'[l]) = Len(got[l]) + 1
         /\ got'[l] = Append(got[l], promises[waiting[l][1]])
         /\ got'[l][Len(got[l]) + 1] = promises[waiting[l][1]]
         /\ \A i \in 1..Len(got[l]) : got'[l][i] = got[l][i]
<1>1. /\ promises \in Seq(Outcomes \cup {Pending})
      /\ waiting \in [Loops -> Seq(1..Len(promises))]
      /\ got \in [Loops -> Seq(Outcomes)]
      /\ loop \in [Loops -> {"out", "in", "refused", "finished", "left"}]
  BY Types
<1> DEFINE o == promises[Head(waiting[l])]
<1>2. /\ UNCHANGED iterVars /\ loop[l] = "in" /\ waiting[l] # <<>> /\ o # Pending
      /\ got' = [got EXCEPT ![l] = Append(@, o)]
      /\ waiting' = [waiting EXCEPT ![l] = Tail(@)]
      /\ loop' = [loop EXCEPT ![l] = IF Terminal(o) THEN "finished" ELSE "in"]
  BY DEF Receive
<1>3. /\ Head(waiting[l]) = waiting[l][1] /\ waiting[l][1] \in 1..Len(promises)
      /\ Tail(waiting[l]) \in Seq(1..Len(promises))
      /\ Len(waiting[l]) \in Nat /\ Len(Tail(waiting[l])) = Len(waiting[l]) - 1
      /\ \A i \in 1..Len(Tail(waiting[l])) : Tail(waiting[l])[i] = waiting[l][i + 1]
  <2>1. waiting[l] \in Seq(1..Len(promises)) /\ waiting[l] # <<>>
    BY <1>1, <1>2
  <2>2. /\ Head(waiting[l]) \in 1..Len(promises)
        /\ Tail(waiting[l]) \in Seq(1..Len(promises))
    BY <2>1, HeadTailProperties
  <2> QED
    BY <2>1, <2>2, LenProperties
<1>4. o \in Outcomes
  BY <1>1, <1>2, <1>3, ElementOfSeq
<1> HIDE DEF o
<1>5. /\ Append(got[l], o) \in Seq(Outcomes)
      /\ Len(Append(got[l], o)) = Len(got[l]) + 1
      /\ Append(got[l], o)[Len(got[l]) + 1] = o
      /\ \A i \in 1..Len(got[l]) : Append(got[l], o)[i] = got[l][i]
  BY <1>1, <1>4, AppendProperties
<1>6. o = promises[waiting[l][1]]
  BY <1>3 DEF o
<1>7. /\ waiting'[l] = Tail(waiting[l]) /\ got'[l] = Append(got[l], o)
      /\ \A k \in Loops : k # l => /\ loop'[k] = loop[k] /\ waiting'[k] = waiting[k]
                                   /\ got'[k] = got[k]
      /\ loop'[l] \in {"in", "finished"}
      /\ loop' \in [Loops -> {"out", "in", "refused", "finished", "left"}]
  BY <1>1, <1>2
<1>8. /\ waiting' \in [Loops -> Seq(1..Len(promises))]
      /\ got' \in [Loops -> Seq(Outcomes)]
  BY <1>1, <1>2, <1>3, <1>5
<1> QED
  BY <1>2, <1>3, <1>5, <1>6, <1>7, <1>8

-----------------------------------------------------------------------------
(* The invariant is inductive. *)

LEMMA NextTypeOK == TypeOK /\ SlotSound /\ [Next]_vars => TypeOK'
<1> SUFFICES ASSUME TypeOK, SlotSound, [Next]_vars PROVE TypeOK'
  OBVIOUS
<1> USE Types
<1>1. ASSUME NEW n \in Nat, Len(promises) <= n
      PROVE  waiting \in [Loops -> Seq(1..n)]
  <2>1. 1..Len(promises) \subseteq 1..n
    BY <1>1
  <2> QED
    BY <2>1, SeqMonotonic
<1>2. ASSUME NEW o \in Outcomes, Resolve(o) PROVE TypeOK'
  <2>1. /\ Len(promises) \in Nat /\ resolver \in 0..Len(promises)
        /\ promises' \in Seq(Outcomes \cup {Pending}) /\ sent' \in Seq(Outcomes)
        /\ microtasks' = TRUE /\ UNCHANGED <<created, loop, waiting, got>>
    BY <1>2, Resolving
  <2>2. /\ resolver' \in 0..Len(promises') /\ Len(promises') \in Nat
        /\ Len(promises) <= Len(promises')
        /\ fulfilled' \in BOOLEAN /\ consume' \in {"none", "unset", "set"}
    <3>1. CASE resolver = 0
      <4>1. /\ Len(promises') = Len(promises) + 1 /\ resolver' = Len(promises) + 1
            /\ fulfilled' = TRUE /\ consume' = "unset"
        BY <1>2, <3>1, Resolving
      <4>2. fulfilled' \in BOOLEAN /\ consume' \in {"none", "unset", "set"}
        BY <4>1
      <4> HIDE Types
      <4>3. /\ resolver' \in 0..Len(promises') /\ Len(promises') \in Nat
            /\ Len(promises) <= Len(promises')
        BY <4>1, <2>1
      <4> QED
        BY <4>2, <4>3
    <3>2. CASE resolver # 0
      <4>1. /\ Len(promises') = Len(promises) /\ resolver' = 0
            /\ fulfilled' = FALSE /\ consume' = "set"
        BY <1>2, <3>2, Resolving
      <4>2. fulfilled' \in BOOLEAN /\ consume' \in {"none", "unset", "set"}
        BY <4>1
      <4> HIDE Types
      <4>3. /\ resolver' \in 0..Len(promises') /\ Len(promises') \in Nat
            /\ Len(promises) <= Len(promises')
        BY <4>1, <2>1
      <4> QED
        BY <4>2, <4>3
    <3> QED
      BY <3>1, <3>2
  <2>3. waiting' \in [Loops -> Seq(1..Len(promises'))]
    BY <1>1, <2>1, <2>2
  <2>4. /\ created \in BOOLEAN /\ got \in [Loops -> Seq(Outcomes)]
        /\ loop \in [Loops -> {"out", "in", "refused", "finished", "left"}]
    OBVIOUS
  <2> HIDE Types
  <2> QED
    BY <2>1, <2>2, <2>3, <2>4, TypesOKNext
<1>3. CASE ResolveReturns
  BY <1>3 DEF ResolveReturns, jsVars, TypeOK, Promise
<1>4. ASSUME NEW l \in Loops, GetAsyncIterator(l) PROVE TypeOK'
  BY <1>4 DEF GetAsyncIterator, TypeOK, Promise
<1>5. ASSUME NEW l \in Loops, Next_(l) PROVE TypeOK'
  <2>1. /\ UNCHANGED <<created, microtasks, sent, loop, got>>
        /\ waiting' \in [Loops -> Seq(1..Len(promises'))]
        /\ promises' \in Seq(Outcomes \cup {Pending})
    BY <1>5, Asking
  <2>2. /\ resolver' \in 0..Len(promises') /\ fulfilled' \in BOOLEAN
        /\ consume' \in {"none", "unset", "set"}
    <3>1. CASE fulfilled
      <4>1. /\ promises' = promises /\ resolver' = 0 /\ fulfilled' = FALSE
            /\ consume' = "set" /\ Len(promises) \in Nat
        BY <1>5, <3>1, Asking
      <4>2. fulfilled' \in BOOLEAN /\ consume' \in {"none", "unset", "set"}
        BY <4>1
      <4> HIDE Types
      <4>3. resolver' \in 0..Len(promises')
        BY <4>1
      <4> QED
        BY <4>2, <4>3
    <3>2. CASE ~fulfilled
      <4>1. /\ Len(promises') = Len(promises) + 1 /\ resolver' = Len(promises) + 1
            /\ fulfilled' = FALSE /\ consume' = consume /\ Len(promises) \in Nat
            /\ consume \in {"none", "unset", "set"}
        BY <1>5, <3>2, Asking
      <4>2. fulfilled' \in BOOLEAN /\ consume' \in {"none", "unset", "set"}
        BY <4>1
      <4> HIDE Types
      <4>3. resolver' \in 0..Len(promises')
        BY <4>1
      <4> QED
        BY <4>2, <4>3
    <3> QED
      BY <3>1, <3>2
  <2>3. /\ created \in BOOLEAN /\ got \in [Loops -> Seq(Outcomes)] /\ sent \in Seq(Outcomes)
        /\ loop \in [Loops -> {"out", "in", "refused", "finished", "left"}]
        /\ microtasks \in BOOLEAN
    OBVIOUS
  <2> HIDE Types
  <2> QED
    BY <2>1, <2>2, <2>3, TypesOKNext
<1>6. ASSUME NEW l \in Loops, Receive(l) PROVE TypeOK'
  BY <1>6, Receiving, TypesOKNext DEF iterVars
<1>7. ASSUME NEW l \in Loops, Break(l) PROVE TypeOK'
  BY <1>7 DEF Break, iterVars, TypeOK, Promise
<1>8. CASE UNCHANGED vars
  BY <1>8 DEF vars, TypeOK, Promise
<1> QED
  BY <1>2, <1>3, <1>4, <1>5, <1>6, <1>7, <1>8, Producing DEF Next, JavaScript

LEMMA NextSlotSound == TypeOK /\ SlotSound /\ [Next]_vars => SlotSound'
<1> SUFFICES ASSUME TypeOK, SlotSound, [Next]_vars PROVE SlotSound'
  OBVIOUS
<1>1. ASSUME NEW o \in Outcomes, Resolve(o) PROVE SlotSound'
  <2>1. CASE resolver = 0
    <3>1. Len(promises) \in Nat
      BY Types
    <3>2. /\ resolver' = Len(promises) + 1 /\ promises'[Len(promises) + 1] = o
          /\ fulfilled' = TRUE /\ consume' = "unset"
      BY <1>1, <2>1, Resolving
    <3>3. resolver' # 0 /\ promises'[resolver'] # Pending
      BY <1>1, <3>1, <3>2, NotPending
    <3> QED
      BY <3>2, <3>3 DEF SlotSound
  <2>2. CASE resolver # 0
    <3>1. resolver' = 0 /\ fulfilled' = FALSE /\ consume' = "set"
      BY <1>1, <2>2, Resolving
    <3> QED
      BY <3>1 DEF SlotSound
  <2> QED
    BY <2>1, <2>2
<1>2. ASSUME NEW l \in Loops, Next_(l) PROVE SlotSound'
  <2>1. CASE fulfilled
    <3>1. resolver' = 0 /\ fulfilled' = FALSE /\ consume' = "set"
      BY <1>2, <2>1, Asking
    <3> QED
      BY <3>1 DEF SlotSound
  <2>2. CASE ~fulfilled
    <3>1. /\ resolver' = Len(promises) + 1 /\ promises'[Len(promises) + 1] = Pending
          /\ fulfilled' = FALSE /\ consume' = consume
      BY <1>2, <2>2, Asking
    <3> QED
      BY <2>2, <3>1 DEF SlotSound
  <2> QED
    BY <2>1, <2>2
<1>3. CASE UNCHANGED <<resolver, fulfilled, consume, promises>>
  BY <1>3 DEF SlotSound
<1> QED
  BY <1>1, <1>2, <1>3, Producing
  DEF Next, JavaScript, ResolveReturns, GetAsyncIterator, Receive, Break, iterVars, vars

LEMMA NextOneUser ==
  TypeOK /\ SlotSound /\ OneUser /\ [Next]_vars => OneUser'
<1> SUFFICES ASSUME TypeOK, SlotSound, OneUser, [Next]_vars PROVE OneUser'
  OBVIOUS
<1>1. ASSUME NEW o \in Outcomes, Resolve(o) PROVE OneUser'
  <2>1. UNCHANGED <<created, loop, waiting, got>>
    BY <1>1, Resolving
  <2> QED
    BY <2>1 DEF OneUser, Uses
<1>2. ASSUME NEW l \in Loops, GetAsyncIterator(l) PROVE OneUser'
  <2>1. /\ created' = TRUE /\ loop[l] = "out" /\ UNCHANGED <<waiting, got>>
        /\ loop' = [loop EXCEPT ![l] = IF created THEN "refused" ELSE "in"]
    BY <1>2 DEF GetAsyncIterator
  <2>2. loop \in [Loops -> {"out", "in", "refused", "finished", "left"}]
    BY Types
  <2>3. CASE created
    <3>1. \A k \in Loops : (Uses(k)' <=> Uses(k))
      BY <2>1, <2>2, <2>3 DEF Uses
    <3> QED
      BY <2>1, <3>1 DEF OneUser
  <2>4. CASE ~created
    <3>1. \A k \in Loops : loop[k] = "out" /\ ~Uses(k)
      BY <2>4 DEF OneUser, Uses
    <3>2. \A k \in Loops : Uses(k)' => k = l
      BY <2>1, <2>2, <3>1 DEF Uses
    <3>3. \A k \in Loops : waiting[k] = <<>> /\ got[k] = <<>>
      BY <3>1 DEF OneUser
    <3> QED
      BY <2>1, <3>2, <3>3 DEF OneUser
  <2> QED
    BY <2>3, <2>4
<1>3. ASSUME NEW l \in Loops, Next_(l) PROVE OneUser'
  <2>1. /\ loop[l] = "in" /\ UNCHANGED <<created, loop, got>>
        /\ \A k \in Loops : k # l => waiting'[k] = waiting[k]
    BY <1>3, Asking
  <2> QED
    BY <2>1 DEF OneUser, Uses
<1>4. ASSUME NEW l \in Loops, Receive(l) PROVE OneUser'
  <2>1. /\ loop[l] = "in" /\ loop'[l] \in {"in", "finished"} /\ UNCHANGED created
        /\ \A k \in Loops : k # l => /\ loop'[k] = loop[k] /\ waiting'[k] = waiting[k]
                                     /\ got'[k] = got[k]
    BY <1>4, Receiving DEF iterVars
  <2>2. \A k \in Loops : (Uses(k)' <=> Uses(k))
    BY <2>1 DEF Uses
  <2> QED
    BY <2>1, <2>2 DEF OneUser, Uses
<1>5. ASSUME NEW l \in Loops, Break(l) PROVE OneUser'
  <2>1. /\ loop[l] = "in" /\ loop' = [loop EXCEPT ![l] = "left"]
        /\ UNCHANGED <<created, waiting, got>>
    BY <1>5 DEF Break, iterVars
  <2>2. \A k \in Loops : (Uses(k)' <=> Uses(k))
    BY <2>1, Types DEF Uses
  <2> QED
    BY <2>1, <2>2 DEF OneUser, Uses
<1>6. CASE UNCHANGED <<created, loop, waiting, got>>
  BY <1>6 DEF OneUser, Uses
<1> QED
  BY <1>1, <1>2, <1>3, <1>4, <1>5, <1>6, Producing
  DEF Next, JavaScript, ResolveReturns, jsVars, vars

LEMMA NextWaitedOnce ==
  TypeOK /\ SlotSound /\ WaitedOnce /\ [Next]_vars => WaitedOnce'
<1> SUFFICES ASSUME TypeOK, SlotSound, WaitedOnce, [Next]_vars,
                    NEW k \in Loops, NEW i \in (DOMAIN waiting[k])'
             PROVE  /\ \A j \in (DOMAIN waiting[k])' :
                          waiting'[k][i] = waiting'[k][j] => i = j
                    /\ fulfilled' => waiting'[k][i] # resolver'
  BY DEF WaitedOnce
<1>1. /\ DOMAIN waiting[k] = 1..Len(waiting[k]) /\ Len(waiting[k]) \in Nat
      /\ \A j \in 1..Len(waiting[k]) : waiting[k][j] \in 1..Len(promises)
      /\ Len(promises) \in Nat
  BY Types
<1>2. \A j, h \in 1..Len(waiting[k]) : /\ waiting[k][j] = waiting[k][h] => j = h
                                       /\ fulfilled => waiting[k][j] # resolver
  BY <1>1 DEF WaitedOnce
<1>3. ASSUME NEW o \in Outcomes, Resolve(o)
      PROVE  /\ \A j \in (DOMAIN waiting[k])' :
                   waiting'[k][i] = waiting'[k][j] => i = j
             /\ fulfilled' => waiting'[k][i] # resolver'
  <2>1. /\ waiting' = waiting
        /\ fulfilled' => resolver' = Len(promises) + 1
    BY <1>3, Resolving
  <2> QED
    BY <1>1, <1>2, <2>1
<1>4. ASSUME NEW l \in Loops, Next_(l)
      PROVE  /\ \A j \in (DOMAIN waiting[k])' :
                   waiting'[k][i] = waiting'[k][j] => i = j
             /\ fulfilled' => waiting'[k][i] # resolver'
  <2>1. fulfilled' = FALSE
    BY <1>4, Asking
  <2>2. CASE k # l
    <3>1. waiting'[k] = waiting[k]
      BY <1>4, <2>2, Asking
    <3> QED
      BY <1>1, <1>2, <2>1, <3>1
  <2>3. CASE k = l
    <3> DEFINE n == Len(waiting[k])
               w == waiting'[k]
    <3>1. /\ w \in Seq(1..Len(promises')) /\ Len(w) = n + 1
          /\ \A j \in 1..n : w[j] = waiting[k][j]
      BY <1>4, <2>3, Asking
    <3>2. \A j \in 1..n : w[n + 1] # waiting[k][j]
      <4>1. CASE fulfilled
        <5>1. w[n + 1] = resolver
          BY <1>4, <2>3, <4>1, Asking
        <5>2. \A j \in 1..n : waiting[k][j] # resolver
          BY <1>2, <4>1
        <5> QED
          BY <5>1, <5>2
      <4>2. CASE ~fulfilled
        <5>1. w[n + 1] = Len(promises) + 1
          BY <1>4, <2>3, <4>2, Asking
        <5> QED
          BY <1>1, <5>1
      <4> QED
        BY <4>1, <4>2
    <3>3. DOMAIN w = 1..(n + 1) /\ i \in 1..(n + 1)
      BY <3>1, LenProperties
    <3>4. n \in Nat /\ \A j, h \in 1..n : waiting[k][j] = waiting[k][h] => j = h
      BY <1>1, <1>2
    <3> HIDE DEF n, w
    <3>5. \A j \in 1..(n + 1) : w[i] = w[j] => i = j
      BY <3>1, <3>2, <3>3, <3>4
    <3> QED
      BY <2>1, <3>3, <3>5 DEF w
  <2> QED
    BY <2>2, <2>3
<1>5. ASSUME NEW l \in Loops, Receive(l)
      PROVE  /\ \A j \in (DOMAIN waiting[k])' :
                   waiting'[k][i] = waiting'[k][j] => i = j
             /\ fulfilled' => waiting'[k][i] # resolver'
  <2>1. fulfilled' = fulfilled /\ resolver' = resolver
    BY <1>5, Receiving DEF iterVars
  <2>2. CASE k # l
    <3>1. waiting'[k] = waiting[k]
      BY <1>5, <2>2, Receiving
    <3> QED
      BY <1>1, <1>2, <2>1, <3>1
  <2>3. CASE k = l
    <3> DEFINE n == Len(waiting[k])
               w == waiting'[k]
    <3>1. /\ w \in Seq(1..Len(promises)) /\ Len(w) = n - 1
          /\ \A j \in 1..Len(w) : w[j] = waiting[k][j + 1]
      BY <1>5, <2>3, Receiving
    <3>2. DOMAIN w = 1..(n - 1) /\ i \in 1..(n - 1) /\ n \in Nat
      BY <1>1, <3>1, LenProperties
    <3>3. \A j, h \in 1..n : /\ waiting[k][j] = waiting[k][h] => j = h
                             /\ fulfilled => waiting[k][j] # resolver
      BY <1>2
    <3> HIDE DEF n, w
    <3>4. \A j \in 1..(n - 1) : w[j] = waiting[k][j + 1]
      BY <3>1
    <3>5. \A j \in 1..(n - 1) : j + 1 \in 1..n
      BY <3>2
    <3>6. ASSUME NEW j \in 1..(n - 1), w[i] = w[j] PROVE i = j
      <4>1. waiting[k][i + 1] = waiting[k][j + 1] /\ i + 1 \in 1..n /\ j + 1 \in 1..n
        BY <3>2, <3>6, <3>4, <3>5
      <4>2. i + 1 = j + 1
        BY <3>3, <4>1
      <4> QED
        BY <3>2, <4>2
    <3>7. fulfilled => w[i] # resolver
      BY <3>2, <3>3, <3>4, <3>5
    <3> QED
      BY <2>1, <3>2, <3>6, <3>7 DEF w
  <2> QED
    BY <2>2, <2>3
<1>6. CASE UNCHANGED <<resolver, fulfilled, waiting>>
  BY <1>1, <1>2, <1>6
<1> QED
  BY <1>3, <1>4, <1>5, <1>6, Producing
  DEF Next, JavaScript, ResolveReturns, GetAsyncIterator, Break, iterVars, jsVars, vars

\* The user an unsettled promise in the slot is for.
LEMMA Asker ==
  ASSUME TypeOK, OneUser, SlotAsked, ~fulfilled, resolver # 0, NEW k \in Loops, Uses(k)
  PROVE  /\ Len(waiting[k]) \in Nat \ {0} /\ waiting[k][Len(waiting[k])] = resolver
         /\ AsksLast(k)
<1>1. PICK l \in Loops : Uses(l) /\ AsksLast(l)
  BY DEF SlotAsked
<1>2. l = k
  BY <1>1 DEF OneUser
<1>3. waiting[k] \in Seq(1..Len(promises)) /\ Len(waiting[k]) \in Nat
  BY Types
<1>4. waiting[k] # <<>> /\ waiting[k][Len(waiting[k])] = resolver
  BY <1>1, <1>2 DEF AsksLast
<1>5. Len(waiting[k]) # 0
  BY <1>3, <1>4, EmptySeq
<1> QED
  BY <1>1, <1>2, <1>3, <1>4, <1>5

LEMMA NextSlotAsked == IInv /\ [Next]_vars => SlotAsked'
<1> SUFFICES ASSUME TypeOK, SlotSound, OneUser, WaitedOnce, SlotAsked, Conservation,
                    [Next]_vars
             PROVE  SlotAsked'
  BY DEF IInv
<1> DEFINE Quota(k) ==
             Uses(k) => /\ Len(waiting[k]) <= Depth
                        /\ Len(sent) - Len(got[k]) - InSlot <= Len(waiting[k]) - Unanswered(k)
           Asked == ~fulfilled /\ resolver # 0 => \E k \in Loops : Uses(k) /\ AsksLast(k)
<1>1. Asked /\ \A k \in Loops : Quota(k)
  BY DEF SlotAsked
<1>2. ASSUME Asked', \A k \in Loops : Quota(k)' PROVE SlotAsked'
  BY <1>2 DEF SlotAsked
<1>3. /\ Len(sent) \in Nat /\ Len(promises) \in Nat /\ resolver \in 0..Len(promises)
      /\ waiting \in [Loops -> Seq(1..Len(promises))] /\ got \in [Loops -> Seq(Outcomes)]
      /\ \A k \in Loops : /\ Len(waiting[k]) \in Nat /\ Len(got[k]) \in Nat
                          /\ waiting[k] \in Seq(1..Len(promises))
                          /\ \A i \in 1..Len(waiting[k]) : waiting[k][i] \in 1..Len(promises)
  BY Types
<1> HIDE DEF Asked
<1>12. DOMAIN waiting = Loops /\ DOMAIN got = Loops
  BY <1>3
<1>13. DOMAIN waiting' = Loops /\ DOMAIN got' = Loops
  BY NextTypeOK DEF TypeOK
<1>10. /\ fulfilled => InSlot = 1
       /\ ~fulfilled => InSlot = 0
       /\ \A k \in Loops : /\ Unanswered(k) \in {0, 1}
                           /\ fulfilled \/ ~AsksLast(k) => Unanswered(k) = 0
                           /\ ~fulfilled /\ AsksLast(k) => Unanswered(k) = 1
  BY DEF InSlot, Unanswered
<1>11. /\ fulfilled' => InSlot' = 1
       /\ ~fulfilled' => InSlot' = 0
       /\ \A k \in Loops : /\ Unanswered(k)' \in {0, 1}
                           /\ fulfilled' \/ ~AsksLast(k)' => Unanswered(k)' = 0
                           /\ ~fulfilled' /\ AsksLast(k)' => Unanswered(k)' = 1
  BY DEF InSlot, Unanswered
<1>4. ASSUME NEW o \in Outcomes, Resolve(o) PROVE SlotAsked'
  <2>1. ~fulfilled /\ Len(sent') = Len(sent) + 1 /\ UNCHANGED <<loop, waiting, got>>
    BY <1>4, Resolving
  <2>2. CASE resolver = 0
    <3>1. fulfilled'
      BY <1>4, <2>2, Resolving
    <3>2. Asked'
      BY <3>1 DEF Asked
    <3>3. ASSUME NEW k \in Loops PROVE Quota(k)'
      <4>1. (Uses(k)' <=> Uses(k))
        BY <2>1 DEF Uses
      <4>2. InSlot = 0 /\ InSlot' = 1 /\ Unanswered(k)' = 0
        BY <1>10, <1>11, <2>1, <3>1
      <4> QED
        BY <1>1, <1>3, <1>10, <2>1, <4>1, <4>2, <1>12, <1>13, DepthAssumption
    <3> QED
      BY <1>2, <3>2, <3>3
  <2>3. CASE resolver # 0
    <3>1. ~fulfilled' /\ resolver' = 0
      BY <1>4, <2>3, Resolving
    <3>2. Asked'
      BY <3>1 DEF Asked
    <3>3. ASSUME NEW k \in Loops, Uses(k) PROVE Quota(k)'
      <4>1. AsksLast(k)
        BY <2>1, <2>3, <3>3, Asker
      <4>2. ~AsksLast(k)'
        <5>1. Len(waiting[k]) \in 1..Len(waiting[k])
          BY <2>1, <2>3, <3>3, Asker
        <5>2. waiting[k][Len(waiting[k])] \in 1..Len(promises)
          BY <1>3, <5>1
        <5> QED
          BY <1>3, <2>1, <3>1, <5>2 DEF AsksLast
      <4>3. /\ Len(waiting[k]) <= Depth
            /\ Len(sent) - Len(got[k]) <= Len(waiting[k]) - 1
        <5>1. InSlot = 0 /\ Unanswered(k) = 1
          BY <1>10, <2>1, <4>1
        <5> QED
          BY <1>1, <1>3, <3>3, <5>1, <1>12, <1>13, DepthAssumption
      <4>4. InSlot' = 0 /\ Unanswered(k)' = 0
        BY <1>11, <3>1, <4>2
      <4> QED
        BY <1>3, <2>1, <4>3, <4>4, <1>12, <1>13, DepthAssumption
    <3>4. \A k \in Loops : Uses(k)' => Uses(k)
      BY <2>1 DEF Uses
    <3>5. \A k \in Loops : Quota(k)'
      BY <3>3, <3>4
    <3> QED
      BY <1>2, <3>2, <3>5
  <2> QED
    BY <2>2, <2>3
<1>5. ASSUME NEW l \in Loops, GetAsyncIterator(l) PROVE SlotAsked'
  <2>1. /\ loop[l] = "out" /\ UNCHANGED <<resolver, fulfilled, sent, waiting, got>>
        /\ loop' = [loop EXCEPT ![l] = IF created THEN "refused" ELSE "in"]
    BY <1>5 DEF GetAsyncIterator
  <2>2. loop \in [Loops -> {"out", "in", "refused", "finished", "left"}]
    BY Types
  <2>3. \A k \in Loops : /\ (AsksLast(k)' <=> AsksLast(k))
                         /\ Uses(k) => Uses(k)'
    BY <2>1, <2>2 DEF AsksLast, Uses
  <2>4. Asked'
    BY <1>1, <2>1, <2>3 DEF Asked
  <2>5. ASSUME NEW k \in Loops, Uses(k)', ~Uses(k) PROVE Quota(k)'
    <3>1. ~created /\ k = l
      BY <2>1, <2>2, <2>5 DEF Uses
    <3>2. \A h \in Loops : ~Uses(h)
      BY <3>1 DEF OneUser, Uses
    <3>3. Len(sent) = InSlot /\ waiting[k] = <<>> /\ got[k] = <<>>
      BY <3>2 DEF Conservation, OneUser
    <3>4. ~AsksLast(k)' /\ Len(waiting'[k]) = 0 /\ Len(got'[k]) = 0
      BY <2>1, <3>3 DEF AsksLast
    <3>5. Len(sent') = InSlot' /\ InSlot' \in Nat
      BY <2>1, <3>3 DEF InSlot
    <3> QED
      BY <1>11, <3>4, <3>5, <1>12, <1>13, DepthAssumption
  <2>6. ASSUME NEW k \in Loops, Uses(k) PROVE Quota(k)'
    <3>1. InSlot' = InSlot /\ Unanswered(k)' = Unanswered(k)
      BY <2>1, <2>3 DEF InSlot, Unanswered
    <3> QED
      BY <1>1, <2>1, <2>6, <3>1
  <2> QED
    BY <1>2, <2>4, <2>5, <2>6
<1>6. ASSUME NEW l \in Loops, Next_(l) PROVE SlotAsked'
  <2>1. /\ loop[l] = "in" /\ Len(waiting[l]) < Depth
        /\ UNCHANGED <<sent, loop, got>>
        /\ Len(waiting'[l]) = Len(waiting[l]) + 1
        /\ fulfilled' = FALSE
    BY <1>6, Asking
  <2>2. Uses(l) /\ \A k \in Loops : /\ (Uses(k)' <=> Uses(k))
                                    /\ Uses(k) => k = l
    BY <2>1 DEF OneUser, Uses
  <2>3. CASE fulfilled
    <3>1. /\ resolver' = 0 /\ waiting'[l][Len(waiting[l]) + 1] = resolver
      BY <1>6, <2>3, Asking
    <3>2. resolver # 0
      BY <2>3 DEF SlotSound
    <3>3. ~AsksLast(l)'
      BY <2>1, <3>1, <3>2 DEF AsksLast
    <3>4. Quota(l)'
      <4>1. InSlot = 1 /\ InSlot' = 0 /\ Unanswered(l) = 0 /\ Unanswered(l)' = 0
        BY <1>10, <1>11, <2>1, <2>3, <3>3
      <4> QED
        BY <1>1, <1>3, <2>1, <2>2, <4>1, <1>12, <1>13, DepthAssumption
    <3> QED
      BY <1>2, <2>2, <3>1, <3>4 DEF Asked
  <2>4. CASE ~fulfilled
    <3>1. resolver' = Len(promises) + 1 /\ waiting'[l][Len(waiting[l]) + 1] = Len(promises) + 1
      BY <1>6, <2>4, Asking
    <3>2. waiting'[l] # <<>>
      <4>1. Len(waiting'[l]) # 0
        BY <1>3, <2>1
      <4> QED
        BY <4>1
    <3>3. AsksLast(l)'
      BY <2>1, <3>1, <3>2 DEF AsksLast
    <3>4. Quota(l)'
      <4>1. InSlot = 0 /\ InSlot' = 0 /\ Unanswered(l)' = 1
        BY <1>10, <1>11, <2>1, <2>4, <3>3
      <4> QED
        <5>1. /\ Len(waiting[l]) <= Depth
              /\ Len(sent) - Len(got[l]) - InSlot <= Len(waiting[l]) - Unanswered(l)
          BY <1>1, <2>2
        <5>2. /\ Len(sent) \in Nat /\ Len(waiting[l]) \in Nat /\ Len(got[l]) \in Nat
              /\ Unanswered(l) \in {0, 1}
          BY <1>3, <1>10
        <5> QED
          BY <2>1, <4>1, <5>1, <5>2, <1>12, <1>13, DepthAssumption
    <3>5. Asked'
      BY <2>2, <3>3 DEF Asked
    <3> QED
      BY <1>2, <2>2, <3>4, <3>5
  <2> QED
    BY <2>3, <2>4
<1>7. ASSUME NEW l \in Loops, Receive(l) PROVE SlotAsked'
  <2>1. /\ UNCHANGED <<sent, resolver, fulfilled, promises>>
        /\ loop[l] = "in" /\ loop'[l] \in {"in", "finished"}
        /\ \A k \in Loops : k # l => loop'[k] = loop[k]
        /\ Len(got'[l]) = Len(got[l]) + 1 /\ Len(waiting'[l]) = Len(waiting[l]) - 1
        /\ \A i \in 1..Len(waiting'[l]) : waiting'[l][i] = waiting[l][i + 1]
        /\ waiting[l] # <<>> /\ promises[waiting[l][1]] # Pending
        /\ waiting'[l] \in Seq(1..Len(promises))
    BY <1>7, Receiving DEF iterVars
  <2>2. Uses(l) /\ \A k \in Loops : /\ (Uses(k)' <=> Uses(k))
                                    /\ Uses(k) => k = l
    BY <2>1 DEF OneUser, Uses
  <2>3. Len(waiting[l]) \in Nat /\ Len(waiting[l]) # 0
    BY <1>3, <2>1, EmptySeq
  <2>4. CASE Len(waiting[l]) = 1
    <3>1. ~AsksLast(l)'
      BY <2>1, <2>4, EmptySeq DEF AsksLast
    <3>2. ~(~fulfilled /\ resolver # 0)
      <4> SUFFICES ASSUME ~fulfilled, resolver # 0 PROVE FALSE
        OBVIOUS
      <4>1. waiting[l][1] = resolver
        BY <2>2, <2>4, Asker
      <4> QED
        BY <2>1, <4>1 DEF SlotSound
    <3>3. Quota(l)'
      <4>1. InSlot' = InSlot /\ InSlot \in {0, 1} /\ Unanswered(l)' = 0
        BY <1>10, <1>11, <2>1, <3>1 DEF InSlot
      <4> QED
        <5>1. /\ Len(waiting[l]) <= Depth
              /\ Len(sent) - Len(got[l]) - InSlot <= Len(waiting[l]) - Unanswered(l)
          BY <1>1, <2>2
        <5>2. /\ Len(sent) \in Nat /\ Len(waiting[l]) \in Nat /\ Len(got[l]) \in Nat
              /\ Unanswered(l) \in {0, 1}
          BY <1>3, <1>10
        <5> QED
          BY <2>1, <4>1, <5>1, <5>2, <1>12, <1>13, DepthAssumption
    <3> QED
      BY <1>2, <2>1, <2>2, <3>2, <3>3 DEF Asked
  <2>5. CASE Len(waiting[l]) > 1
    <3>1. waiting'[l][Len(waiting'[l])] = waiting[l][Len(waiting[l])]
      <4>1. Len(waiting'[l]) \in 1..Len(waiting'[l]) /\ Len(waiting'[l]) + 1 = Len(waiting[l])
        BY <2>1, <2>3, <2>5
      <4> QED
        BY <2>1, <4>1
    <3>2. waiting'[l] # <<>>
      <4>1. Len(waiting'[l]) # 0
        BY <2>1, <2>3, <2>5, SMTT(30)
      <4> QED
        BY <4>1
    <3>3. (AsksLast(l)' <=> AsksLast(l))
      BY <2>1, <3>1, <3>2 DEF AsksLast
    <3>4. Asked'
      BY <1>1, <2>1, <2>2, <3>3 DEF Asked
    <3>5. Quota(l)'
      <4>1. /\ InSlot' = InSlot /\ InSlot \in {0, 1}
            /\ Unanswered(l)' = Unanswered(l) /\ Unanswered(l) \in {0, 1}
        BY <1>10, <2>1, <3>3 DEF InSlot, Unanswered
      <4> QED
        BY <1>1, <1>3, <2>1, <2>2, <4>1, <1>12, <1>13, DepthAssumption, SMTT(30)
    <3> QED
      BY <1>2, <2>2, <3>4, <3>5
  <2>6. \A n \in Nat : n # 0 => n = 1 \/ n > 1
    OBVIOUS
  <2> QED
    BY <2>3, <2>4, <2>5, <2>6
<1>8. ASSUME NEW l \in Loops, Break(l) PROVE SlotAsked'
  <2>1. /\ loop[l] = "in" /\ loop' = [loop EXCEPT ![l] = "left"]
        /\ UNCHANGED <<resolver, fulfilled, sent, waiting, got>>
    BY <1>8 DEF Break, iterVars
  <2>2. \A k \in Loops : (Uses(k)' <=> Uses(k)) /\ (AsksLast(k)' <=> AsksLast(k))
    BY <2>1, Types DEF Uses, AsksLast
  <2>3. InSlot' = InSlot /\ \A k \in Loops : Unanswered(k)' = Unanswered(k)
    BY <2>1, <2>2 DEF InSlot, Unanswered
  <2>4. Asked'
    BY <1>1, <2>1, <2>2 DEF Asked
  <2> QED
    BY <1>1, <1>2, <2>1, <2>2, <2>3, <2>4
<1>9. CASE UNCHANGED <<resolver, fulfilled, sent, loop, waiting, got>>
  BY <1>9 DEF SlotAsked, Uses, AsksLast, InSlot, Unanswered
<1> QED
  BY <1>4, <1>5, <1>6, <1>7, <1>8, <1>9, Producing
  DEF Next, JavaScript, ResolveReturns, jsVars, vars

-----------------------------------------------------------------------------
(* Conservation, for one user and free of the iterable's variables.         *)

\* The outcomes s[a] .. s[b] are what the settled ones of the nw promises w
\* hold by P, in order: at tells which promise holds an outcome.
Carried(s, P, w, nw, a, b) ==
    \E at \in [a..b -> 1..nw] :
        /\ \A i, j \in a..b : i < j => at[i] < at[j]
        /\ \A i \in a..b : s[i] = P[w[at[i]]]
        /\ \A k \in 1..nw : P[w[k]] # Pending => \E i \in a..b : at[i] = k

\* Of the outcomes s, the first m were taken out of the slot: ng were received
\* (g), the others are carried by the promises waited on.
Flow(s, P, w, nw, g, ng, m) ==
    /\ ng <= m
    /\ \A i \in 1..ng : s[i] = g[i]
    /\ Carried(s, P, w, nw, ng + 1, m)

\* Before the first next() there is nothing.
LEMMA FlowStart ==
  ASSUME NEW s, NEW P, NEW w, NEW g
  PROVE  Flow(s, P, w, 0, g, 0, 0)
<1> DEFINE at == [i \in 0 + 1..0 |-> 0]
<1>1. \A i \in 0 + 1..0 : FALSE
  OBVIOUS
<1>2. \A i \in 1..0 : FALSE
  OBVIOUS
<1>3. at \in [0 + 1..0 -> 1..0]
  BY <1>1
<1> HIDE DEF at
<1>4. Carried(s, P, w, 0, 0 + 1, 0)
  BY <1>1, <1>2, <1>3 DEF Carried
<1> QED
  BY <1>2, <1>4 DEF Flow

\* Nothing moves as long as the promises waited on keep what they hold.
LEMMA FlowKept ==
  ASSUME NEW s, NEW P, NEW w, NEW g, NEW nw \in Nat, NEW ng \in Nat, NEW m \in Nat,
         Flow(s, P, w, nw, g, ng, m), NEW s2, NEW P2,
         \A i \in 1..m : s2[i] = s[i],
         \A k \in 1..nw : P2[w[k]] = P[w[k]]
  PROVE  Flow(s2, P2, w, nw, g, ng, m)
<1>1. PICK at \in [ng + 1..m -> 1..nw] :
          /\ \A i, j \in ng + 1..m : i < j => at[i] < at[j]
          /\ \A i \in ng + 1..m : s[i] = P[w[at[i]]]
          /\ \A k \in 1..nw : P[w[k]] # Pending => \E i \in ng + 1..m : at[i] = k
  BY DEF Flow, Carried
<1>2. ng <= m /\ \A i \in 1..ng : s[i] = g[i]
  BY DEF Flow, Carried
<1>3. \A i \in ng + 1..m : at[i] \in 1..nw /\ i \in 1..m
  BY <1>1
<1>4. \A i \in ng + 1..m : s2[i] = P2[w[at[i]]]
  BY <1>1, <1>3
<1>5. \A i \in 1..ng : s2[i] = g[i]
  BY <1>2
<1>6. \A k \in 1..nw : P2[w[k]] # Pending => \E i \in ng + 1..m : at[i] = k
  BY <1>1
<1> QED
  BY <1>1, <1>2, <1>4, <1>5, <1>6 DEF Flow, Carried

\* An outcome settles the newest promise waited on.
LEMMA FlowSettles ==
  ASSUME NEW s, NEW P, NEW w, NEW g, NEW nw \in Nat, NEW ng \in Nat, NEW m \in Nat,
         Flow(s, P, w, nw, g, ng, m), nw # 0, P[w[nw]] = Pending,
         \A i \in 1..m : s[i] # Pending, NEW s2, NEW P2,
         \A i \in 1..m : s2[i] = s[i],
         \A k \in 1..nw : k # nw => P2[w[k]] = P[w[k]],
         P2[w[nw]] = s2[m + 1]
  PROVE  Flow(s2, P2, w, nw, g, ng, m + 1)
<1>1. PICK at \in [ng + 1..m -> 1..nw] :
          /\ \A i, j \in ng + 1..m : i < j => at[i] < at[j]
          /\ \A i \in ng + 1..m : s[i] = P[w[at[i]]]
          /\ \A k \in 1..nw : P[w[k]] # Pending => \E i \in ng + 1..m : at[i] = k
  BY DEF Flow, Carried
<1>2. ng <= m /\ \A i \in 1..ng : s[i] = g[i]
  BY DEF Flow, Carried
<1>3. \A i \in ng + 1..m : at[i] \in 1..nw /\ at[i] # nw /\ i \in 1..m
  BY <1>1
<1> DEFINE at2 == [i \in ng + 1..m + 1 |-> IF i = m + 1 THEN nw ELSE at[i]]
<1>4. /\ at2[m + 1] = nw /\ m + 1 \in ng + 1..m + 1
      /\ \A i \in ng + 1..m : at2[i] = at[i] /\ i \in ng + 1..m + 1
      /\ \A i \in ng + 1..m + 1 : i = m + 1 \/ i \in ng + 1..m
  BY <1>2
<1>5. at2 \in [ng + 1..m + 1 -> 1..nw]
  <2>1. nw \in 1..nw
    OBVIOUS
  <2> QED
    BY <1>3, <1>4, <2>1
<1> HIDE DEF at2
<1>6. \A i, j \in ng + 1..m + 1 : i < j => at2[i] < at2[j]
  <2> SUFFICES ASSUME NEW i \in ng + 1..m + 1, NEW j \in ng + 1..m + 1, i < j
               PROVE  at2[i] < at2[j]
    OBVIOUS
  <2>1. i \in ng + 1..m
    BY <1>4
  <2>2. CASE j = m + 1
    BY <1>3, <1>4, <2>1, <2>2
  <2>3. CASE j # m + 1
    BY <1>1, <1>4, <2>1, <2>3
  <2> QED
    BY <2>2, <2>3
<1>7. \A i \in ng + 1..m + 1 : s2[i] = P2[w[at2[i]]]
  BY <1>1, <1>3, <1>4
<1>8. \A k \in 1..nw : P2[w[k]] # Pending => \E i \in ng + 1..m + 1 : at2[i] = k
  <2> SUFFICES ASSUME NEW k \in 1..nw, P2[w[k]] # Pending
               PROVE  \E i \in ng + 1..m + 1 : at2[i] = k
    OBVIOUS
  <2>1. CASE k = nw
    <3>1. at2[m + 1] = k /\ m + 1 \in ng + 1..m + 1
      BY <1>4, <2>1
    <3> QED
      BY <3>1
  <2>2. CASE k # nw
    <3>1. P[w[k]] # Pending
      BY <2>2
    <3>2. PICK i \in ng + 1..m : at[i] = k
      BY <1>1, <3>1
    <3>3. i \in ng + 1..m + 1 /\ at2[i] = k
      BY <1>4, <3>2
    <3> QED
      BY <3>3
  <2> QED
    BY <2>1, <2>2
<1>9. ng <= m + 1 /\ \A i \in 1..ng : s2[i] = g[i]
  BY <1>2
<1> QED
  BY <1>5, <1>6, <1>7, <1>8, <1>9 DEF Flow, Carried

\* One more unsettled promise is waited on.
LEMMA FlowAsks ==
  ASSUME NEW s, NEW P, NEW w, NEW g, NEW nw \in Nat, NEW ng \in Nat, NEW m \in Nat,
         Flow(s, P, w, nw, g, ng, m), NEW P2, NEW w2, NEW nw2, nw2 = nw + 1,
         \A k \in 1..nw : w2[k] = w[k] /\ P2[w[k]] = P[w[k]],
         P2[w2[nw2]] = Pending
  PROVE  Flow(s, P2, w2, nw2, g, ng, m)
<1>1. PICK at \in [ng + 1..m -> 1..nw] :
          /\ \A i, j \in ng + 1..m : i < j => at[i] < at[j]
          /\ \A i \in ng + 1..m : s[i] = P[w[at[i]]]
          /\ \A k \in 1..nw : P[w[k]] # Pending => \E i \in ng + 1..m : at[i] = k
  BY DEF Flow, Carried
<1>2. ng <= m /\ \A i \in 1..ng : s[i] = g[i]
  BY DEF Flow, Carried
<1>3. \A i \in ng + 1..m : at[i] \in 1..nw
  BY <1>1
<1>4. at \in [ng + 1..m -> 1..nw + 1]
  BY <1>1, <1>3
<1>5. \A i \in ng + 1..m : s[i] = P2[w2[at[i]]]
  BY <1>1, <1>3
<1>6. \A k \in 1..nw + 1 : P2[w2[k]] # Pending => \E i \in ng + 1..m : at[i] = k
  <2>1. \A k \in 1..nw + 1 : k = nw + 1 \/ k \in 1..nw
    OBVIOUS
  <2> QED
    BY <1>1, <2>1
<1> QED
  BY <1>1, <1>2, <1>4, <1>5, <1>6 DEF Flow, Carried

\* The settled promise is taken out of the slot and waited on.
LEMMA FlowTakes ==
  ASSUME NEW s, NEW P, NEW w, NEW g, NEW nw \in Nat, NEW ng \in Nat, NEW m \in Nat,
         Flow(s, P, w, nw, g, ng, m), NEW w2,
         \A k \in 1..nw : w2[k] = w[k],
         P[w2[nw + 1]] = s[m + 1]
  PROVE  Flow(s, P, w2, nw + 1, g, ng, m + 1)
<1>1. PICK at \in [ng + 1..m -> 1..nw] :
          /\ \A i, j \in ng + 1..m : i < j => at[i] < at[j]
          /\ \A i \in ng + 1..m : s[i] = P[w[at[i]]]
          /\ \A k \in 1..nw : P[w[k]] # Pending => \E i \in ng + 1..m : at[i] = k
  BY DEF Flow, Carried
<1>2. ng <= m /\ \A i \in 1..ng : s[i] = g[i]
  BY DEF Flow, Carried
<1>3. \A i \in ng + 1..m : at[i] \in 1..nw
  BY <1>1
<1> DEFINE at2 == [i \in ng + 1..m + 1 |-> IF i = m + 1 THEN nw + 1 ELSE at[i]]
<1>4. /\ at2[m + 1] = nw + 1 /\ m + 1 \in ng + 1..m + 1
      /\ \A i \in ng + 1..m : at2[i] = at[i] /\ i \in ng + 1..m + 1
      /\ \A i \in ng + 1..m + 1 : i = m + 1 \/ i \in ng + 1..m
  BY <1>2
<1>5. at2 \in [ng + 1..m + 1 -> 1..nw + 1]
  <2>1. nw + 1 \in 1..nw + 1 /\ \A k \in 1..nw : k \in 1..nw + 1
    OBVIOUS
  <2> QED
    BY <1>3, <1>4, <2>1
<1> HIDE DEF at2
<1>6. \A i, j \in ng + 1..m + 1 : i < j => at2[i] < at2[j]
  <2> SUFFICES ASSUME NEW i \in ng + 1..m + 1, NEW j \in ng + 1..m + 1, i < j
               PROVE  at2[i] < at2[j]
    OBVIOUS
  <2>1. i \in ng + 1..m
    BY <1>4
  <2>2. CASE j = m + 1
    BY <1>3, <1>4, <2>1, <2>2
  <2>3. CASE j # m + 1
    BY <1>1, <1>4, <2>1, <2>3
  <2> QED
    BY <2>2, <2>3
<1>7. \A i \in ng + 1..m + 1 : s[i] = P[w2[at2[i]]]
  BY <1>1, <1>3, <1>4
<1>8. \A k \in 1..nw + 1 : P[w2[k]] # Pending => \E i \in ng + 1..m + 1 : at2[i] = k
  <2> SUFFICES ASSUME NEW k \in 1..nw + 1, P[w2[k]] # Pending
               PROVE  \E i \in ng + 1..m + 1 : at2[i] = k
    OBVIOUS
  <2>1. CASE k = nw + 1
    BY <1>4, <2>1
  <2>2. CASE k # nw + 1
    <3>1. k \in 1..nw
      BY <2>2
    <3> QED
      BY <1>1, <1>4, <3>1
  <2> QED
    BY <2>1, <2>2
<1>9. ng <= m + 1 /\ \A i \in 1..ng : s[i] = g[i]
  BY <1>2
<1> QED
  BY <1>5, <1>6, <1>7, <1>8, <1>9 DEF Flow, Carried

\* The oldest promise waited on is settled: it holds the oldest outcome that
\* was handed out, which is received.
LEMMA FlowReceives ==
  ASSUME NEW s, NEW P, NEW w, NEW g, NEW nw \in Nat, NEW ng \in Nat, NEW m \in Nat,
         Flow(s, P, w, nw, g, ng, m), nw # 0, P[w[1]] # Pending,
         NEW w2, NEW nw2, nw2 = nw - 1, NEW g2, NEW ng2, ng2 = ng + 1,
         \A k \in 1..nw2 : w2[k] = w[k + 1],
         \A i \in 1..ng : g2[i] = g[i],
         g2[ng2] = P[w[1]]
  PROVE  Flow(s, P, w2, nw2, g2, ng2, m)
<1>1. PICK at \in [ng + 1..m -> 1..nw] :
          /\ \A i, j \in ng + 1..m : i < j => at[i] < at[j]
          /\ \A i \in ng + 1..m : s[i] = P[w[at[i]]]
          /\ \A k \in 1..nw : P[w[k]] # Pending => \E i \in ng + 1..m : at[i] = k
  BY DEF Flow, Carried
<1>2. ng <= m /\ \A i \in 1..ng : s[i] = g[i]
  BY DEF Flow, Carried
<1>3. \A i \in ng + 1..m : at[i] \in 1..nw
  BY <1>1
<1>4. PICK f \in ng + 1..m : at[f] = 1
  <2>1. 1 \in 1..nw
    OBVIOUS
  <2> QED
    BY <1>1, <2>1
<1>5. f = ng + 1
  <2>1. ng + 1 \in ng + 1..m
    BY <1>4
  <2>2. ~(ng + 1 < f)
    BY <1>1, <1>3, <1>4, <2>1
  <2> QED
    BY <1>4, <2>2
<1>6. ng + 1 <= m /\ s[ng + 1] = P[w[1]]
  BY <1>1, <1>4, <1>5
<1>7. \A i \in ng + 2..m : i \in ng + 1..m /\ at[i] # 1 /\ at[i] - 1 \in 1..(nw - 1)
  <2> SUFFICES ASSUME NEW i \in ng + 2..m
               PROVE  i \in ng + 1..m /\ at[i] # 1 /\ at[i] - 1 \in 1..(nw - 1)
    OBVIOUS
  <2>1. i \in ng + 1..m /\ f < i
    BY <1>5
  <2>2. at[f] < at[i] /\ at[i] \in 1..nw
    BY <1>1, <1>3, <2>1
  <2> QED
    BY <1>4, <2>1, <2>2
<1> DEFINE at2 == [i \in ng + 2..m |-> at[i] - 1]
<1>8. at2 \in [ng + 2..m -> 1..(nw - 1)] /\ \A i \in ng + 2..m : at2[i] = at[i] - 1
  BY <1>7
<1> HIDE DEF at2
<1>9. \A i, j \in ng + 2..m : i < j => at2[i] < at2[j]
  <2> SUFFICES ASSUME NEW i \in ng + 2..m, NEW j \in ng + 2..m, i < j
               PROVE  at2[i] < at2[j]
    OBVIOUS
  <2>1. at[i] < at[j] /\ at[i] \in 1..nw /\ at[j] \in 1..nw
    BY <1>1, <1>3, <1>7
  <2> QED
    BY <1>8, <2>1, SMTT(30)
<1>10. \A i \in ng + 2..m : s[i] = P[w2[at2[i]]]
  <2> SUFFICES ASSUME NEW i \in ng + 2..m PROVE s[i] = P[w2[at2[i]]]
    OBVIOUS
  <2>1. at2[i] \in 1..(nw - 1) /\ at2[i] + 1 = at[i]
    <3>1. at[i] \in 1..nw /\ at2[i] = at[i] - 1
      BY <1>3, <1>7, <1>8
    <3> QED
      BY <1>7, <3>1
  <2>2. w2[at2[i]] = w[at[i]]
    BY <2>1
  <2> QED
    BY <1>1, <1>7, <2>2
<1>11. \A k \in 1..(nw - 1) : P[w2[k]] # Pending => \E i \in ng + 2..m : at2[i] = k
  <2> SUFFICES ASSUME NEW k \in 1..(nw - 1), P[w2[k]] # Pending
               PROVE  \E i \in ng + 2..m : at2[i] = k
    OBVIOUS
  <2>1. k + 1 \in 1..nw /\ P[w[k + 1]] # Pending
    <3>1. w2[k] = w[k + 1]
      OBVIOUS
    <3> QED
      BY <3>1
  <2>2. PICK i \in ng + 1..m : at[i] = k + 1
    BY <1>1, <2>1
  <2>3. i \in ng + 2..m
    <3>1. i # f
      BY <1>4, <2>2
    <3> QED
      BY <1>5, <2>2, <3>1
  <2>4. at2[i] = k
    BY <1>8, <2>2, <2>3
  <2> QED
    BY <2>3, <2>4
<1>12. \A i \in 1..ng + 1 : s[i] = g2[i]
  <2>1. \A i \in 1..ng + 1 : i = ng + 1 \/ i \in 1..ng
    OBVIOUS
  <2> QED
    BY <1>2, <1>6, <2>1
<1>13. Carried(s, P, w2, nw - 1, ng + 2, m)
  BY <1>8, <1>9, <1>10, <1>11 DEF Carried
<1>14. ng + 1 + 1 = ng + 2
  OBVIOUS
<1>15. Carried(s, P, w2, nw - 1, ng + 1 + 1, m)
  BY <1>13, <1>14
<1> QED
  BY <1>6, <1>12, <1>15 DEF Flow

-----------------------------------------------------------------------------
(* Conservation. *)

\* How many outcomes were taken out of the slot.
Taken == Len(sent) - InSlot

\* What Conservation says of a user.
Flows(l) ==
    Flow(sent, promises, waiting[l], Len(waiting[l]), got[l], Len(got[l]), Taken)

LEMMA FlowsNow ==
  ASSUME TypeOK, Conservation
  PROVE  /\ Taken \in Nat /\ Len(sent) \in Nat
         /\ fulfilled => Taken = Len(sent) - 1 /\ Len(sent) # 0
         /\ ~fulfilled => Taken = Len(sent)
         /\ \A l \in Loops : Uses(l) => Flows(l)
<1>1. Len(sent) \in Nat /\ sent \in Seq(Outcomes)
  BY Types
<1>2. /\ fulfilled => Taken = Len(sent) - 1 /\ Len(sent) # 0
      /\ ~fulfilled => Taken = Len(sent)
  <2>1. fulfilled => Len(sent) # 0
    BY <1>1, EmptySeq DEF Conservation
  <2>2. /\ fulfilled => InSlot = 1
        /\ ~fulfilled => InSlot = 0
    BY DEF InSlot
  <2> QED
    BY <1>1, <2>1, <2>2 DEF Taken
<1>3. Taken \in Nat
  <2>1. CASE fulfilled
    BY <1>1, <1>2, <2>1
  <2>2. CASE ~fulfilled
    BY <1>1, <1>2, <2>2
  <2> QED
    BY <2>1, <2>2
<1>4. ASSUME NEW l \in Loops, Uses(l) PROVE Flows(l)
  <2>1. /\ Len(got[l]) <= Taken
        /\ \A i \in DOMAIN got[l] : sent[i] = got[l][i]
        /\ \E at \in [Handed(l) -> DOMAIN waiting[l]] : HeldBy(l, at)
    BY <1>4 DEF Conservation, Taken
  <2>2. /\ DOMAIN got[l] = 1..Len(got[l]) /\ DOMAIN waiting[l] = 1..Len(waiting[l])
        /\ Handed(l) = Len(got[l]) + 1..Taken
    BY Types DEF Handed, Taken
  <2>3. Carried(sent, promises, waiting[l], Len(waiting[l]), Len(got[l]) + 1, Taken)
    <3>1. PICK at \in [Handed(l) -> DOMAIN waiting[l]] : HeldBy(l, at)
      BY <2>1
    <3>2. at \in [Len(got[l]) + 1..Taken -> 1..Len(waiting[l])]
      BY <2>2, <3>1
    <3>3. /\ \A i, j \in Len(got[l]) + 1..Taken : i < j => at[i] < at[j]
          /\ \A i \in Len(got[l]) + 1..Taken : sent[i] = promises[waiting[l][at[i]]]
          /\ \A k \in 1..Len(waiting[l]) : promises[waiting[l][k]] # Pending =>
                \E i \in Len(got[l]) + 1..Taken : at[i] = k
      BY <2>2, <3>1 DEF HeldBy
    <3> QED
      BY <3>2, <3>3 DEF Carried
  <2> QED
    BY <2>1, <2>2, <2>3 DEF Flows, Flow
<1> QED
  BY <1>1, <1>2, <1>3, <1>4

LEMMA FlowsNext ==
  ASSUME TypeOK',
         (fulfilled => sent # <<>> /\ sent[Len(sent)] = promises[resolver])',
         \A l \in Loops : Uses(l)' => Flows(l)',
         (\A l \in Loops : ~Uses(l)') => Taken' = 0
  PROVE  Conservation'
<1>1. ASSUME NEW l \in Loops, Uses(l)'
      PROVE  /\ (Len(got[l]) <= Len(sent) - InSlot)'
             /\ (\A i \in DOMAIN got[l] : sent[i] = got[l][i])'
             /\ (\E at \in [Handed(l) -> DOMAIN waiting[l]] : HeldBy(l, at))'
  <2>1. got'[l] \in Seq(Outcomes) /\ waiting'[l] \in Seq((Promise \ {0})')
    BY DEF TypeOK
  <2>2. /\ DOMAIN got'[l] = 1..Len(got'[l]) /\ DOMAIN waiting'[l] = 1..Len(waiting'[l])
        /\ Handed(l)' = Len(got'[l]) + 1..Taken'
    BY <2>1, LenProperties DEF Handed, Taken
  <2>3. /\ Len(got'[l]) <= Taken'
        /\ \A i \in 1..Len(got'[l]) : sent'[i] = got'[l][i]
        /\ Carried(sent', promises', waiting'[l], Len(waiting'[l]), Len(got'[l]) + 1, Taken')
    BY <1>1 DEF Flows, Flow
  <2>4. (\E at \in [Handed(l) -> DOMAIN waiting[l]] : HeldBy(l, at))'
    <3>1. PICK at \in [Len(got'[l]) + 1..Taken' -> 1..Len(waiting'[l])] :
             /\ \A i, j \in Len(got'[l]) + 1..Taken' : i < j => at[i] < at[j]
             /\ \A i \in Len(got'[l]) + 1..Taken' : sent'[i] = promises'[waiting'[l][at[i]]]
             /\ \A k \in 1..Len(waiting'[l]) : promises'[waiting'[l][k]] # Pending =>
                   \E i \in Len(got'[l]) + 1..Taken' : at[i] = k
      BY <2>3 DEF Carried
    <3>2. at \in [Handed(l)' -> DOMAIN waiting'[l]]
      BY <2>2, <3>1
    <3>3. HeldBy(l, at)'
      BY <2>2, <3>1 DEF HeldBy
    <3> QED
      BY <3>2, <3>3
  <2> QED
    BY <2>2, <2>3, <2>4 DEF Taken
<1>2. (\A l \in Loops : ~Uses(l)') => Len(sent') = InSlot'
  <2>1. sent' \in Seq(Outcomes)
    BY DEF TypeOK
  <2>2. Len(sent') \in Nat /\ InSlot' \in {0, 1}
    BY <2>1, LenProperties DEF InSlot
  <2>3. Taken' = Len(sent') - InSlot'
    BY DEF Taken
  <2> QED
    BY <2>2, <2>3
<1> QED
  BY <1>1, <1>2 DEF Conservation

LEMMA NextConservation == IInv /\ [Next]_vars => Conservation'
<1> SUFFICES ASSUME TypeOK, SlotSound, OneUser, WaitedOnce, SlotAsked, Conservation,
                    [Next]_vars
             PROVE  Conservation'
  BY DEF IInv
<1> DEFINE SlotLast == fulfilled => sent # <<>> /\ sent[Len(sent)] = promises[resolver]
<1>1. TypeOK' /\ SlotSound'
  BY NextTypeOK, NextSlotSound
<1>2. /\ Len(sent) \in Nat /\ sent \in Seq(Outcomes)
      /\ Len(promises) \in Nat /\ resolver \in 0..Len(promises)
      /\ \A k \in Loops : /\ Len(waiting[k]) \in Nat /\ Len(got[k]) \in Nat
                          /\ \A i \in 1..Len(waiting[k]) : waiting[k][i] \in 1..Len(promises)
                          /\ DOMAIN waiting[k] = 1..Len(waiting[k])
  BY Types
<1>3. /\ Taken \in Nat
      /\ fulfilled => Taken = Len(sent) - 1 /\ Len(sent) # 0
      /\ ~fulfilled => Taken = Len(sent)
      /\ \A k \in Loops : Uses(k) => Flows(k)
  BY FlowsNow
<1>4. /\ fulfilled' => Taken' = Len(sent') - 1
      /\ ~fulfilled' => Taken' = Len(sent') - 0
  BY DEF Taken, InSlot
<1>5. (\A k \in Loops : ~Uses(k)) => Taken = 0
  <2>1. (\A k \in Loops : ~Uses(k)) => Len(sent) = InSlot
    BY DEF Conservation
  <2> QED
    BY <1>2, <2>1 DEF Taken
<1>6. ASSUME SlotLast', \A k \in Loops : Uses(k)' => Flows(k)',
             (\A k \in Loops : ~Uses(k)') => Taken' = 0
      PROVE  Conservation'
  BY <1>1, <1>6, FlowsNext
<1> HIDE DEF SlotLast
<1>7. ASSUME NEW o \in Outcomes, Resolve(o) PROVE Conservation'
  <2>1. /\ ~fulfilled /\ Len(sent') = Len(sent) + 1 /\ UNCHANGED <<loop, waiting, got>>
        /\ sent'[Len(sent) + 1] = o /\ \A i \in 1..Len(sent) : sent'[i] = sent[i]
    BY <1>7, Resolving
  <2>2. Taken = Len(sent) /\ \A k \in Loops : (Uses(k)' <=> Uses(k))
    BY <1>3, <2>1 DEF Uses
  <2>3. CASE resolver = 0
    <3>1. /\ Len(promises') = Len(promises) + 1 /\ promises'[Len(promises) + 1] = o
          /\ \A p \in 1..Len(promises) : promises'[p] = promises[p]
          /\ resolver' = Len(promises) + 1 /\ fulfilled'
      BY <1>7, <2>3, Resolving
    <3>2. Taken' = Taken
      BY <1>2, <1>4, <2>1, <2>2, <3>1
    <3>3. SlotLast'
      <4>1. sent' # <<>>
        BY <1>2, <2>1
      <4> QED
        BY <2>1, <3>1, <4>1 DEF SlotLast
    <3>4. ASSUME NEW k \in Loops, Uses(k) PROVE Flows(k)'
      <4>0. Len(waiting[k]) \in Nat /\ Len(got[k]) \in Nat /\ Taken \in Nat
        BY <1>2, <1>3
      <4>1. \A i \in 1..Len(waiting[k]) : promises'[waiting[k][i]] = promises[waiting[k][i]]
        BY <1>2, <3>1
      <4>2. \A i \in 1..Taken : sent'[i] = sent[i]
        BY <2>1, <2>2
      <4>3. Flow(sent, promises, waiting[k], Len(waiting[k]), got[k], Len(got[k]), Taken)
        BY <1>3, <3>4 DEF Flows
      <4>4. Flow(sent', promises', waiting[k], Len(waiting[k]), got[k], Len(got[k]), Taken)
        BY <4>0, <4>1, <4>2, <4>3, FlowKept
      <4> QED
        BY <2>1, <3>2, <4>4 DEF Flows
    <3> QED
      BY <1>5, <1>6, <2>2, <3>2, <3>3, <3>4
  <2>4. CASE resolver # 0
    <3>1. /\ Len(promises') = Len(promises) /\ promises'[resolver] = o
          /\ \A p \in 1..Len(promises) : p # resolver => promises'[p] = promises[p]
          /\ ~fulfilled'
      BY <1>7, <2>4, Resolving
    <3>2. Taken' = Taken + 1
      BY <1>2, <1>4, <2>1, <2>2, <3>1
    <3>3. PICK h \in Loops : Uses(h)
      BY <2>1, <2>4 DEF SlotAsked
    <3>4. ASSUME NEW k \in Loops, Uses(k) PROVE Flows(k)'
      <4> DEFINE n == Len(waiting[k])
      <4>1. n \in Nat /\ n # 0 /\ waiting[k][n] = resolver
        BY <2>1, <2>4, <3>4, Asker
      <4>2. promises[waiting[k][n]] = Pending /\ promises'[waiting[k][n]] = sent'[Taken + 1]
        BY <2>1, <2>2, <2>4, <3>1, <4>1 DEF SlotSound
      <4>3. \A i \in 1..n : i # n => promises'[waiting[k][i]] = promises[waiting[k][i]]
        <5> SUFFICES ASSUME NEW i \in 1..n, i # n
                     PROVE  promises'[waiting[k][i]] = promises[waiting[k][i]]
          OBVIOUS
        <5>1. i \in DOMAIN waiting[k] /\ n \in DOMAIN waiting[k]
          BY <1>2, <4>1
        <5>2. waiting[k][i] # resolver
          BY <4>1, <5>1 DEF WaitedOnce
        <5> QED
          BY <1>2, <3>1, <5>2
      <4>4. \A i \in 1..Taken : sent'[i] = sent[i] /\ sent[i] # Pending
        BY <1>2, <2>1, <2>2, ElementOfSeq, NotPending
      <4>5. Flow(sent, promises, waiting[k], n, got[k], Len(got[k]), Taken)
        BY <1>3, <3>4 DEF Flows
      <4> HIDE DEF n
      <4>6. Flow(sent', promises', waiting[k], n, got[k], Len(got[k]), Taken + 1)
        <5>1. Len(got[k]) \in Nat /\ Taken \in Nat
          BY <1>2, <1>3
        <5> QED
          BY ONLY <4>1, <4>2, <4>3, <4>4, <4>5, <5>1, FlowSettles
      <4> QED
        BY <2>1, <3>2, <4>6 DEF Flows, n
    <3> QED
      BY <1>6, <2>2, <3>1, <3>3, <3>4 DEF SlotLast
  <2> QED
    BY <2>3, <2>4
<1>8. ASSUME NEW l \in Loops, GetAsyncIterator(l) PROVE Conservation'
  <2>1. /\ loop[l] = "out" /\ UNCHANGED <<resolver, fulfilled, sent, promises, waiting, got>>
        /\ loop' = [loop EXCEPT ![l] = IF created THEN "refused" ELSE "in"]
    BY <1>8 DEF GetAsyncIterator
  <2>2. loop \in [Loops -> {"out", "in", "refused", "finished", "left"}]
    BY Types
  <2>3. SlotLast' /\ Taken' = Taken /\ \A k \in Loops : (Flows(k)' <=> Flows(k))
    BY <2>1 DEF SlotLast, Conservation, Taken, InSlot, Flows
  <2>4. \A k \in Loops : Uses(k) => Uses(k)'
    BY <2>1, <2>2 DEF Uses
  <2>5. ASSUME NEW k \in Loops, Uses(k)', ~Uses(k) PROVE Flows(k)'
    <3>1. ~created /\ k = l
      BY <2>1, <2>2, <2>5 DEF Uses
    <3>2. \A h \in Loops : ~Uses(h)
      BY <3>1 DEF OneUser, Uses
    <3>3. Taken = 0 /\ waiting[k] = <<>> /\ got[k] = <<>>
      BY <1>5, <3>2 DEF OneUser
    <3>4. Len(waiting[k]) = 0 /\ Len(got[k]) = 0
      BY <3>3
    <3>5. Flow(sent, promises, waiting[k], 0, got[k], 0, 0)
      BY FlowStart
    <3> QED
      BY <2>3, <3>3, <3>4, <3>5 DEF Flows
  <2>6. \A k \in Loops : Uses(k)' => Flows(k)'
    BY <1>3, <2>3, <2>5
  <2> QED
    BY <1>5, <1>6, <2>3, <2>4, <2>6
<1>9. ASSUME NEW l \in Loops, Next_(l) PROVE Conservation'
  <2>1. /\ loop[l] = "in" /\ UNCHANGED <<sent, loop, got>> /\ fulfilled' = FALSE
        /\ Len(waiting'[l]) = Len(waiting[l]) + 1
        /\ \A i \in 1..Len(waiting[l]) : waiting'[l][i] = waiting[l][i]
    BY <1>9, Asking
  <2>2. Uses(l) /\ \A k \in Loops : (Uses(k)' <=> Uses(k)) /\ (Uses(k) => k = l)
    BY <2>1 DEF OneUser, Uses
  <2>3. Flow(sent, promises, waiting[l], Len(waiting[l]), got[l], Len(got[l]), Taken)
    BY <1>3, <2>2 DEF Flows
  <2>4. Taken' = Len(sent)
    BY <1>2, <1>4, <2>1
  <2>5. CASE fulfilled
    <3>1. promises' = promises /\ waiting'[l][Len(waiting[l]) + 1] = resolver
      BY <1>9, <2>5, Asking
    <3>2. Taken + 1 = Len(sent)
      BY <1>2, <1>3, <2>5
    <3>3. promises[waiting'[l][Len(waiting[l]) + 1]] = sent[Taken + 1]
      BY <2>5, <3>1, <3>2 DEF Conservation
    <3>4. Flow(sent, promises, waiting'[l], Len(waiting[l]) + 1, got[l], Len(got[l]), Taken + 1)
      BY <1>2, <1>3, <2>1, <2>3, <3>3, FlowTakes
    <3>5. Flows(l)'
      BY <2>1, <2>4, <3>1, <3>2, <3>4 DEF Flows
    <3> QED
      BY <1>6, <2>1, <2>2, <3>5 DEF SlotLast
  <2>6. CASE ~fulfilled
    <3>1. /\ waiting'[l][Len(waiting[l]) + 1] = Len(promises) + 1
          /\ promises'[Len(promises) + 1] = Pending
          /\ \A p \in 1..Len(promises) : promises'[p] = promises[p]
      BY <1>9, <2>6, Asking
    <3>2. /\ promises'[waiting'[l][Len(waiting[l]) + 1]] = Pending
          /\ \A i \in 1..Len(waiting[l]) :
                /\ waiting'[l][i] = waiting[l][i]
                /\ promises'[waiting[l][i]] = promises[waiting[l][i]]
      BY <1>2, <2>1, <3>1
    <3>3. Flow(sent, promises', waiting'[l], Len(waiting'[l]), got[l], Len(got[l]), Taken)
      <4> DEFINE w == waiting[l]
                 w2 == waiting'[l]
                 nw == Len(waiting[l])
                 nw2 == Len(waiting'[l])
                 g == got[l]
                 ng == Len(got[l])
                 P2 == promises'
      <4>1. /\ nw \in Nat /\ ng \in Nat /\ Taken \in Nat
            /\ nw2 = nw + 1 /\ P2[w2[nw2]] = Pending
            /\ \A i \in 1..nw : w2[i] = w[i] /\ P2[w[i]] = promises[w[i]]
        BY <1>2, <1>3, <2>1, <3>2
      <4>2. Flow(sent, promises, w, nw, g, ng, Taken)
        BY <2>3
      <4> HIDE DEF w, w2, nw, nw2, g, ng, P2
      <4>3. Flow(sent, P2, w2, nw2, g, ng, Taken)
        BY <4>1, <4>2, FlowAsks
      <4> QED
        BY <4>3 DEF w2, nw2, g, ng, P2
    <3>4. Taken = Len(sent)
      BY <1>3, <2>6
    <3>5. Flows(l)'
      BY <2>1, <2>4, <3>3, <3>4 DEF Flows
    <3> QED
      BY <1>6, <2>1, <2>2, <3>5 DEF SlotLast
  <2> QED
    BY <2>5, <2>6
<1>10. ASSUME NEW l \in Loops, Receive(l) PROVE Conservation'
  <2>1. /\ UNCHANGED <<sent, resolver, fulfilled, promises>>
        /\ loop[l] = "in" /\ loop'[l] \in {"in", "finished"}
        /\ \A k \in Loops : k # l => loop'[k] = loop[k]
        /\ Len(got'[l]) = Len(got[l]) + 1 /\ Len(waiting'[l]) = Len(waiting[l]) - 1
        /\ \A i \in 1..Len(waiting'[l]) : waiting'[l][i] = waiting[l][i + 1]
        /\ waiting[l] # <<>> /\ promises[waiting[l][1]] # Pending
        /\ got'[l][Len(got[l]) + 1] = promises[waiting[l][1]]
        /\ \A i \in 1..Len(got[l]) : got'[l][i] = got[l][i]
    BY <1>10, Receiving DEF iterVars
  <2>2. Uses(l) /\ \A k \in Loops : (Uses(k)' <=> Uses(k)) /\ (Uses(k) => k = l)
    BY <2>1 DEF OneUser, Uses
  <2>3. Flow(sent, promises, waiting[l], Len(waiting[l]), got[l], Len(got[l]), Taken)
    BY <1>3, <2>2 DEF Flows
  <2>4. Len(waiting[l]) # 0
    BY Types, <2>1, EmptySeq
  <2>5. Flow(sent, promises, waiting'[l], Len(waiting'[l]), got'[l], Len(got'[l]), Taken)
    <3> DEFINE w == waiting[l]
               w2 == waiting'[l]
               nw == Len(waiting[l])
               nw2 == Len(waiting'[l])
               g == got[l]
               g2 == got'[l]
               ng == Len(got[l])
               ng2 == Len(got'[l])
    <3>1. /\ nw \in Nat /\ ng \in Nat /\ Taken \in Nat
          /\ nw # 0 /\ promises[w[1]] # Pending /\ nw2 = nw - 1 /\ ng2 = ng + 1
          /\ \A i \in 1..nw2 : w2[i] = w[i + 1]
          /\ \A i \in 1..ng : g2[i] = g[i]
          /\ g2[ng2] = promises[w[1]]
      BY <1>2, <1>3, <2>1, <2>4
    <3>2. Flow(sent, promises, w, nw, g, ng, Taken)
      BY <2>3
    <3> HIDE DEF w, w2, nw, nw2, g, g2, ng, ng2
    <3>3. Flow(sent, promises, w2, nw2, g2, ng2, Taken)
      BY <3>1, <3>2, FlowReceives
    <3> QED
      BY <3>3 DEF w2, nw2, g2, ng2
  <2>6. SlotLast' /\ Taken' = Taken
    BY <2>1 DEF SlotLast, Conservation, Taken, InSlot
  <2>7. Flows(l)'
    BY <2>1, <2>5, <2>6 DEF Flows
  <2> QED
    BY <1>6, <2>2, <2>6, <2>7
<1>11. ASSUME NEW l \in Loops, Break(l) PROVE Conservation'
  <2>1. /\ loop[l] = "in" /\ loop' = [loop EXCEPT ![l] = "left"]
        /\ UNCHANGED <<resolver, fulfilled, sent, promises, waiting, got>>
    BY <1>11 DEF Break, iterVars
  <2>2. \A k \in Loops : (Uses(k)' <=> Uses(k))
    BY <2>1, Types DEF Uses
  <2>3. SlotLast' /\ Taken' = Taken /\ \A k \in Loops : (Flows(k)' <=> Flows(k))
    BY <2>1 DEF SlotLast, Conservation, Taken, InSlot, Flows
  <2> QED
    BY <1>3, <1>5, <1>6, <2>2, <2>3
<1>12. CASE UNCHANGED <<resolver, fulfilled, sent, promises, loop, waiting, got>>
  <2>1. \A k \in Loops : (Uses(k)' <=> Uses(k))
    BY <1>12 DEF Uses
  <2>2. SlotLast' /\ Taken' = Taken /\ \A k \in Loops : (Flows(k)' <=> Flows(k))
    BY <1>12 DEF SlotLast, Conservation, Taken, InSlot, Flows
  <2> QED
    BY <1>3, <1>5, <1>6, <2>1, <2>2
<1> QED
  BY <1>7, <1>8, <1>9, <1>10, <1>11, <1>12, Producing
  DEF Next, JavaScript, ResolveReturns, jsVars, vars

-----------------------------------------------------------------------------
(* The results. *)

LEMMA NextIInv == IInv /\ [Next]_vars => IInv'
BY NextTypeOK, NextSlotSound, NextOneUser, NextWaitedOnce, NextSlotAsked, NextConservation
DEF IInv

\* Everything below is a consequence of the inductive invariant.
THEOREM Invariance == Spec => []IInv
BY InitIInv, NextIInv, PTL DEF Spec

\* The state of the iterable and of its users always has its type; in
\* particular every promise a user waits on exists.
THEOREM TypeCorrect == Spec => []TypeOK
<1>1. IInv => TypeOK
  BY DEF IInv
<1> QED
  BY <1>1, Invariance, PTL

\* _resolver_fulfilled, the promise in the slot and the producer's future
\* always agree: next() satisfies the future once, resolve() never overwrites
\* a settled promise.
THEOREM SlotIsSound == Spec => []SlotSound
<1>1. IInv => SlotSound
  BY DEF IInv
<1> QED
  BY <1>1, Invariance, PTL

\* Between yield() and the body of the loop nothing is lost, duplicated or
\* reordered, however many next() calls are in flight.
THEOREM NothingIsLost == Spec => []Conservation
<1>1. IInv => Conservation
  BY DEF IInv
<1> QED
  BY <1>1, Invariance, PTL

\* A step of a `for await` loop or of its producer orphans no promise.
LEMMA NextNoOrphanedPromise ==
  ASSUME Depth = 1, IInv, NoOrphanedPromise, [Next]_vars
  PROVE  NoOrphanedPromise'
<1>1. /\ TypeOK /\ SlotSound /\ OneUser /\ WaitedOnce
      /\ Len(promises) \in Nat /\ resolver \in 0..Len(promises)
      /\ \A k \in Loops : /\ Len(waiting[k]) \in Nat
                          /\ DOMAIN waiting[k] = 1..Len(waiting[k])
                          /\ \A i \in 1..Len(waiting[k]) : waiting[k][i] \in 1..Len(promises)
  BY Types DEF IInv
<1>2. \A k \in Loops : \A i \in 1..Len(waiting[k]) :
         promises[waiting[k][i]] = Pending => waiting[k][i] = resolver
  BY <1>1 DEF NoOrphanedPromise
<1>3. TypeOK'
  BY <1>1, NextTypeOK
<1>4. \A k \in Loops : DOMAIN waiting'[k] = 1..Len(waiting'[k])
  <2>1. \A k \in Loops : waiting'[k] \in Seq((Promise \ {0})')
    BY <1>3 DEF TypeOK
  <2> QED
    BY <2>1, LenProperties
<1> SUFFICES ASSUME NEW k \in Loops, NEW i \in 1..Len(waiting'[k]),
                    promises'[waiting'[k][i]] = Pending
             PROVE  waiting'[k][i] = resolver'
  BY <1>4 DEF NoOrphanedPromise
<1>5. ASSUME NEW o \in Outcomes, Resolve(o) PROVE FALSE
  <2>1. waiting'[k] = waiting[k] /\ i \in 1..Len(waiting[k])
    BY <1>1, <1>5, Resolving
  <2>2. waiting[k][i] \in 1..Len(promises) /\ o # Pending
    BY <1>1, <2>1, NotPending
  <2>3. CASE resolver = 0
    <3>1. promises'[waiting[k][i]] = promises[waiting[k][i]]
      BY <1>1, <1>5, <2>2, <2>3, Resolving
    <3>2. waiting[k][i] = resolver
      BY <1>2, <2>1, <3>1
    <3> QED
      BY <1>1, <2>2, <2>3, <3>2
  <2>4. CASE resolver # 0
    <3>1. /\ promises'[resolver] = o
          /\ waiting[k][i] # resolver => promises'[waiting[k][i]] = promises[waiting[k][i]]
      BY <1>1, <1>5, <2>2, <2>4, Resolving
    <3> QED
      BY <1>2, <2>1, <2>2, <3>1
  <2> QED
    BY <2>3, <2>4
<1>6. ASSUME NEW l \in Loops, Next_(l) PROVE waiting'[k][i] = resolver'
  <2>1. /\ loop[l] = "in" /\ Len(waiting[l]) = 0 /\ Len(waiting'[l]) = 1
        /\ \A h \in Loops : h # l => waiting'[h] = waiting[h]
    <3>1. /\ loop[l] = "in" /\ Len(waiting[l]) < Depth
          /\ Len(waiting'[l]) = Len(waiting[l]) + 1
          /\ \A h \in Loops : h # l => waiting'[h] = waiting[h]
      BY <1>1, <1>6, Asking
    <3> QED
      BY <1>1, <3>1
  <2>2. k = l
    <3>1. k # l => ~Uses(k)
      BY <1>1, <2>1 DEF OneUser, Uses
    <3>2. k # l => waiting'[k] = <<>>
      BY <1>1, <2>1, <3>1 DEF OneUser
    <3>3. Len(waiting'[k]) # 0
      OBVIOUS
    <3> QED
      BY <3>2, <3>3
  <2>3. i = Len(waiting[l]) + 1
    BY <2>1, <2>2
  <2>4. CASE fulfilled
    <3>1. waiting'[k][i] = resolver /\ promises' = promises
      BY <1>1, <1>6, <2>2, <2>3, <2>4, Asking
    <3> QED
      BY <1>1, <2>4, <3>1 DEF SlotSound
  <2>5. CASE ~fulfilled
    BY <1>1, <1>6, <2>2, <2>3, <2>5, Asking
  <2> QED
    BY <2>4, <2>5
<1>7. ASSUME NEW l \in Loops, Receive(l) PROVE waiting'[k][i] = resolver'
  <2>1. /\ resolver' = resolver /\ promises' = promises
        /\ k # l => waiting'[k] = waiting[k]
        /\ Len(waiting'[l]) = Len(waiting[l]) - 1
        /\ \A j \in 1..Len(waiting'[l]) : waiting'[l][j] = waiting[l][j + 1]
    BY <1>1, <1>7, Receiving DEF iterVars
  <2>2. CASE k # l
    BY <1>2, <2>1, <2>2
  <2>3. CASE k = l
    <3>1. i + 1 \in 1..Len(waiting[k]) /\ waiting'[k][i] = waiting[k][i + 1]
      BY <1>1, <2>1, <2>3
    <3> QED
      BY <1>2, <2>1, <3>1
  <2> QED
    BY <2>2, <2>3
<1>8. CASE UNCHANGED <<promises, resolver, waiting>>
  BY <1>2, <1>8
<1> QED
  BY <1>1, <1>5, <1>6, <1>7, <1>8, Producing
  DEF Next, JavaScript, ResolveReturns, GetAsyncIterator, Break, iterVars, jsVars, vars

\* A `for await` loop, which leaves no next() unanswered before the next one,
\* never waits for a promise that resolve() cannot reach any more.
THEOREM NoPromiseIsOrphaned ==
  ASSUME Depth = 1
  PROVE  Spec => []NoOrphanedPromise
<1>1. Init => NoOrphanedPromise
  BY DEF Init, NoOrphanedPromise
<1>2. IInv /\ NoOrphanedPromise /\ [Next]_vars => NoOrphanedPromise'
  BY NextNoOrphanedPromise
<1> QED
  BY <1>1, <1>2, Invariance, PTL DEF Spec

-----------------------------------------------------------------------------
(* The iterable is the bounded stream of ItemStream. *)

\* The consumer of the stream is the user who was given the iterator.
LEMMA Received ==
  ASSUME TypeOK, OneUser, NEW l \in Loops, Uses(l)
  PROVE  received = got[l]
<1>1. \A k \in Loops : got[k] # <<>> => k = l
  BY DEF OneUser
<1>2. CASE got[l] # <<>>
  <2>1. \E k \in Loops : got[k] # <<>>
    BY <1>2
  <2>2. (CHOOSE k \in Loops : got[k] # <<>>) = l
    BY <1>1, <1>2
  <2> QED
    BY <2>1, <2>2 DEF received
<1>3. CASE got[l] = <<>>
  <2>1. ~\E k \in Loops : got[k] # <<>>
    BY <1>1, <1>3
  <2> QED
    BY <1>3, <2>1 DEF received
<1> QED
  BY <1>2, <1>3

LEMMA ReceivedNext ==
  ASSUME TypeOK', OneUser', NEW l \in Loops, Uses(l)'
  PROVE  received' = got'[l]
<1>1. \A k \in Loops : got'[k] # <<>> => k = l
  BY DEF OneUser
<1>2. CASE got'[l] # <<>>
  <2>1. \E k \in Loops : got'[k] # <<>>
    BY <1>2
  <2>2. (CHOOSE k \in Loops : got'[k] # <<>>) = l
    BY <1>1, <1>2
  <2> QED
    BY <2>1, <2>2 DEF received
<1>3. CASE got'[l] = <<>>
  <2>1. ~\E k \in Loops : got'[k] # <<>>
    BY <1>1, <1>3
  <2> QED
    BY <1>3, <2>1 DEF received
<1> QED
  BY <1>2, <1>3

\* The producer is at most one outcome ahead of the answers its user waits for.
LEMMA Ahead ==
  ASSUME IInv, ~fulfilled
  PROVE  Len(sent) - Len(received) < Depth + 1
<1>1. /\ Len(sent) \in Nat /\ DOMAIN waiting = Loops /\ DOMAIN got = Loops
      /\ \A k \in Loops : Len(waiting[k]) \in Nat /\ Len(got[k]) \in Nat
  BY Types DEF IInv
<1>2. InSlot = 0 /\ \A k \in Loops : Unanswered(k) \in {0, 1}
  BY DEF InSlot, Unanswered
<1>3. CASE \E k \in Loops : Uses(k)
  <2>1. PICK k \in Loops : Uses(k)
    BY <1>3
  <2>2. received = got[k]
    BY <2>1, Received DEF IInv
  <2>3. /\ Len(waiting[k]) <= Depth
        /\ Len(sent) - Len(got[k]) - InSlot <= Len(waiting[k]) - Unanswered(k)
    BY <2>1 DEF IInv, SlotAsked
  <2>4. Len(sent) - Len(got[k]) < Depth + 1
    BY <1>1, <1>2, <2>3, DepthAssumption
  <2> QED
    BY <2>2, <2>4
<1>4. CASE ~\E k \in Loops : Uses(k)
  <2>1. Len(sent) = 0
    BY <1>2, <1>4 DEF IInv, Conservation
  <2>2. received = <<>>
    BY <1>4 DEF IInv, OneUser, received
  <2>3. Len(received) = 0
    BY <2>2
  <2> QED
    BY <2>1, <2>3, DepthAssumption
<1> QED
  BY <1>3, <1>4

LEMMA RefineStep ==
  IInv /\ IInv' /\ [Next]_vars => [Stream!Next]_<<sent, received>>
<1> SUFFICES ASSUME IInv, IInv', [Next]_vars PROVE [Stream!Next]_<<sent, received>>
  OBVIOUS
<1>1. CASE Producer
  <2>1. PICK o \in Outcomes : Resolve(o) /\ ~Ended(sent)
    BY <1>1, Producing DEF IInv
  <2>2. /\ ~fulfilled /\ got' = got /\ sent' = Append(sent, o)
    BY <2>1 DEF Resolve, ResolveThrows, jsVars
  <2>3. received' = received
    BY <2>2 DEF received
  <2>4. ~Stream!Ended(sent)
    <3>1. CASE sent = <<>>
      BY <3>1 DEF Stream!Ended
    <3>2. CASE sent # <<>>
      <4>1. sent[Len(sent)] \in Outcomes
        <5>1. sent \in Seq(Outcomes) /\ Len(sent) \in Nat
          BY Types DEF IInv
        <5>2. Len(sent) # 0
          BY <3>2, <5>1, EmptySeq
        <5>3. Len(sent) \in 1..Len(sent)
          BY <5>1, <5>2
        <5> QED
          BY <5>1, <5>3, ElementOfSeq
      <4>2. ~Terminal(sent[Len(sent)])
        BY <2>1, <3>2 DEF Ended
      <4>3. PICK n \in 1..MaxItems : sent[Len(sent)] = <<"item", n>>
        BY <4>1, <4>2 DEF Terminal, Outcomes, Item
      <4>4. ~Stream!Terminal(sent[Len(sent)])
        BY <4>3 DEF Stream!Terminal
      <4> QED
        BY <4>4 DEF Stream!Ended
    <3> QED
      BY <3>1, <3>2
  <2>5. Len(sent) - Len(received) < Depth + 1
    BY <2>2, Ahead
  <2>6. \/ sent' = Append(sent, <<"item", Len(sent) + 1>>)
        \/ sent' = Append(sent, <<"done", 0>>)
        \/ sent' = Append(sent, <<"error", 0>>)
    BY <1>1 DEF Producer, Yield, End, Reject, Resolve, Item, Done, Error
  <2> QED
    BY <2>3, <2>4, <2>5, <2>6 DEF Stream!Next, Stream!Send
<1>2. ASSUME NEW l \in Loops, Receive(l) PROVE [Stream!Next]_<<sent, received>>
  <2>1. /\ sent' = sent /\ loop[l] = "in" /\ loop'[l] \in {"in", "finished"}
        /\ got'[l] = Append(got[l], promises[waiting[l][1]])
        /\ got'[l][Len(got[l]) + 1] = promises[waiting[l][1]]
        /\ Len(got'[l]) = Len(got[l]) + 1
    BY <1>2, Receiving DEF IInv, iterVars
  <2>2. Uses(l) /\ Uses(l)'
    BY <2>1 DEF Uses
  <2>3. received = got[l] /\ received' = got'[l]
    BY <2>2, Received, ReceivedNext DEF IInv
  <2>4. Len(got[l]) \in Nat /\ Len(sent) \in Nat
    BY Types DEF IInv
  <2>5. /\ Len(got'[l]) <= Taken' /\ Taken' <= Len(sent)
        /\ \A i \in 1..Len(got'[l]) : sent'[i] = got'[l][i]
    <3>1. /\ Len(got'[l]) <= Len(sent') - InSlot'
          /\ \A i \in DOMAIN got'[l] : sent'[i] = got'[l][i]
      BY <2>2 DEF IInv, Conservation
    <3>2. got'[l] \in Seq(Outcomes)
      BY DEF IInv, TypeOK
    <3>3. DOMAIN got'[l] = 1..Len(got'[l])
      BY <3>2, LenProperties
    <3>4. InSlot' \in {0, 1}
      BY DEF InSlot
    <3>5. Taken' <= Len(sent)
      BY <2>1, <2>4, <3>4 DEF Taken
    <3> QED
      BY <3>1, <3>3, <3>5 DEF Taken
  <2>6. Len(got[l]) < Len(sent) /\ sent[Len(got[l]) + 1] = promises[waiting[l][1]]
    <3> DEFINE n == Len(got[l])
               g2 == got'[l]
    <3>1. n \in Nat /\ Taken' \in Int /\ Len(sent) \in Nat
      BY <2>1, <2>4 DEF Taken, InSlot
    <3>2. /\ n + 1 <= Taken' /\ Taken' <= Len(sent)
          /\ \A i \in 1..n + 1 : sent[i] = g2[i]
          /\ g2[n + 1] = promises[waiting[l][1]]
      BY <2>1, <2>5
    <3> HIDE DEF n, g2
    <3>3. n < Len(sent) /\ sent[n + 1] = promises[waiting[l][1]]
      BY <3>1, <3>2
    <3> QED
      BY <3>3 DEF n
  <2> QED
    BY <2>1, <2>3, <2>6 DEF Stream!Next, Stream!Receive
<1>3. CASE UNCHANGED <<sent, got>>
  BY <1>3 DEF received
<1> QED
  BY <1>1, <1>2, <1>3
  DEF Next, JavaScript, ResolveReturns, GetAsyncIterator, Next_, Break, iterVars, jsVars, vars

\* The iterable implements the first-in first-out stream: the outcomes of the
\* operation are received in order, each once, and it never runs more than
\* Depth + 1 of them ahead of its consumer.
THEOREM Refinement == Spec => ImplementsStream
<1>1. Init => Stream!Init
  <2>1. ASSUME Init PROVE received = <<>>
    BY <2>1 DEF Init, received
  <2> QED
    BY <2>1 DEF Init, Stream!Init
<1>2. IInv /\ IInv' /\ [Next]_vars => [Stream!Next]_<<sent, received>>
  BY RefineStep
<1> QED
  BY <1>1, <1>2, Invariance, PTL DEF Spec, ImplementsStream, Stream!Spec
=============================================================================
