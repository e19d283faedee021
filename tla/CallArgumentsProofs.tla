------------------------ MODULE CallArgumentsProofs ------------------------
(***************************************************************************)
(* What TLAPS proves of the arguments and the answers of CallData, for any *)
(* arguments of any of the methods, any widths of the integers and any     *)
(* errors: what Subversion sees is what was given, what is refused has a   *)
(* cause, and the program is answered once.                                *)
(***************************************************************************)
EXTENDS CallDataProofs

Kinds == {"path", "url", "plain", "paths", "plains", "option", "revision", "ranges"}

\* A sequence, of whatever.
Tuple(s) == Len(s) \in Nat /\ s = [i \in 1..Len(s) |-> s[i]]

\* An argument that was captured is what its conversion made of what was given,
Taken(i) ==
    /\ given[i] \in Inputs(Parameters[i].kind)
    /\ FromJavaScript(Parameters[i], given[i]) = Ok(captured[i])

\* and one that was passed what the second conversion made of that.
Handed(i) == ForSvn(Parameters[i], captured[i]) = Ok(passed[i])

\* How far the conversions are, by the stage of the call.
ArgumentsInv ==
    /\ stage = "none" \/ method \in DOMAIN ParametersOf
    /\ Tuple(given) /\ Tuple(captured) /\ Tuple(passed)
    /\ Len(passed) <= Len(captured) /\ Len(captured) <= Len(given)
    /\ stage = "none" => given = <<>>
    /\ stage = "converting" =>
          Len(captured) = Len(given) /\ Len(given) <= Len(Parameters) /\ passed = <<>>
    /\ stage \in {"working", "in_svn"} =>
          Len(captured) = Len(given) /\ Len(given) = Len(Parameters)
    /\ stage = "in_svn" => Len(passed) = Len(Parameters)
    /\ \A i \in 1..Len(captured) : Taken(i)
    /\ \A i \in 1..Len(passed) : Handed(i)

\* The memory there is at each stage.
MemoryInv ==
    memory = CASE stage \in {"working", "in_svn"} -> {"captured", "pool"}
               [] stage \in {"returned", "failed"} -> {"captured"}
               [] OTHER -> {}

\* An error has a cause.
ErrorCaused == raised # <<>> /\ raised[1].code = TypeErrorCode => ~AllProper

\* A refusal, as it is told.
Refused ==
    /\ ~AllProper
    /\ \/ reports \in {<<"TypeError">>, <<"Error">>}
       \/ reports = <<"rejected">> /\ method \in Macros

\* What has been told, by the stage of the call and of its error.
AnswersInv ==
    /\ step = "none" <=> raised = <<>>
    /\ raised # <<>> => stage \in {"failed", "over"}
    /\ stage = "over" =>
          IF raised # <<>> THEN reports = <<"rejected">>
                           ELSE reports = <<"resolved">> \/ Refused
    /\ stage = "failed" =>
          reports = IF step \in {"told", "handled", "over"} THEN <<"rejected">> ELSE <<>>
    /\ stage \notin {"failed", "over"} => reports = <<>>

\* The strengthening.
CallInv ==
    /\ stage \in {"none", "converting", "working", "in_svn", "returned", "failed", "over"}
    /\ ArgumentsInv /\ MemoryInv /\ ErrorCaused /\ AnswersInv /\ NumbersArrive

\* long is as wide as it is.
LongInv == long64 \in BOOLEAN

-----------------------------------------------------------------------------
(* Integers of a width. *)

\* Half of the numbers of int64_t, and the limits, are numbers.
LEMMA Widths ==
    /\ Half \in Nat \ {0} /\ 2 * Half \in Nat \ {0}
    /\ Half64 \in Nat \ {0} /\ 2 * Half64 \in Nat \ {0}
    /\ 2 * Half64 = (2 * Half) * (2 * Half)
    /\ Half64 >= 2 * Half
<1>1. Half \in Nat \ {0} /\ 2 * Half \in Nat \ {0}
  BY HalfAssumption
<1>2. Half64 = Half * (2 * Half)
  BY DEF Half64
<1> QED  BY <1>1, <1>2

\* The remainders of what is a multiple away.
LEMMA Remainder ==
    ASSUME NEW m \in Nat \ {0}, NEW r \in 0..(m - 1), NEW q \in Int
    PROVE  (r + q * m) % m = r
OBVIOUS

\* A number that fits is what its bits are read as.
LEMMA TwosComplement ==
    ASSUME NEW half \in Nat \ {0}, NEW n \in (-half)..(half - 1)
    PROVE  /\ n % (2 * half) \in 0..(2 * half - 1)
           /\ n % (2 * half) = IF n >= 0 THEN n ELSE n + 2 * half
           /\ Signed(n % (2 * half), half) = n
<1> DEFINE m == 2 * half
<1>1. m \in Nat \ {0} /\ m = 2 * half
  OBVIOUS
<1> HIDE DEF m
<1>2. CASE n >= 0
  <2>1. n \in 0..(m - 1)
    BY <1>1, <1>2
  <2>2. n % m = n
    BY <1>1, <2>1
  <2> QED  BY <1>1, <1>2, <2>1, <2>2 DEF Signed
<1>3. CASE n < 0
  <2>1. n + m \in 0..(m - 1) /\ n = (n + m) + (-1) * m
    BY <1>1, <1>3
  <2>2. n % m = n + m
    BY <1>1, <2>1, Remainder
  <2>3. n + m >= half
    BY <1>1
  <2> QED  BY <1>1, <1>3, <2>1, <2>2, <2>3 DEF Signed
<1> QED  BY <1>2, <1>3

\* A cast to int32_t keeps what fits.
LEMMA Int32Kept ==
    ASSUME NEW n \in INT32_MIN..INT32_MAX
    PROVE  Int32(n) = n
BY Widths, TwosComplement DEF INT32_MIN, INT32_MAX, Int32

\* A date goes into eight bytes and comes out of them.
LEMMA DateSeen ==
    ASSUME NEW d \in (-Half64)..(Half64 - 1), NEW long
    PROVE  Seen(DateRevision(d), long) = {d}
<1> DEFINE m == 2 * Half64
           b == d % m
<1>1. b \in 0..(m - 1) /\ Signed(b, Half64) = d /\ m \in Nat \ {0}
  BY Widths, TwosComplement
<1>2. Seen(DateRevision(d), long) = {Signed(b % m, Half64)}
  BY DEF Seen, DateRevision
<1> HIDE DEF m, b
<1>3. b % m = b
  BY <1>1
<1> QED  BY <1>1, <1>2, <1>3

\* Where long has 32 bits, a revision number is all that Subversion sees of the
\* eight bytes.
LEMMA NumberSeen ==
    ASSUME NEW n \in INT32_MIN..INT32_MAX
    PROVE  Seen(NumberRevision(n), FALSE) = {n}
<1> DEFINE m == 2 * Half
           low == n % m
<1>1. m \in Nat \ {0} /\ low \in 0..(m - 1) /\ Signed(low, Half) = n
  BY Widths, TwosComplement DEF INT32_MIN, INT32_MAX
<1>2. NumberRevision(n).bytes = {low + high * m : high \in 0..(m - 1)}
  BY DEF NumberRevision
<1>3. Seen(NumberRevision(n), FALSE) = {Signed(b % m, Half) : b \in NumberRevision(n).bytes}
  BY DEF Seen, NumberRevision
<1> HIDE DEF m, low
<1>4. ASSUME NEW b \in NumberRevision(n).bytes
      PROVE  Signed(b % m, Half) = n
  <2>1. PICK high \in 0..(m - 1) : b = low + high * m
    BY <1>2
  <2>2. high \in Int
    OBVIOUS
  <2>3. (low + high * m) % m = low
    BY <1>1, <2>2, Remainder
  <2> QED  BY <1>1, <2>1, <2>3
<1>5. 0 \in 0..(m - 1) /\ low + 0 * m \in NumberRevision(n).bytes
  BY <1>1, <1>2
<1> QED  BY <1>3, <1>4, <1>5

-----------------------------------------------------------------------------
(* The conversions. *)

\* What the two kinds of results are.
LEMMA Outcomes ==
    /\ \A v : Ok(v).is = "ok" /\ Ok(v).value = v
    /\ TypeError.is # "ok" /\ SvnTypeError.is # "ok" /\ TypeError # SvnTypeError
    /\ \A v, w : Ok(v) = Ok(w) => v = w
BY DEF Ok, TypeError, SvnTypeError

\* A string is refused on the loop thread exactly if it is none.
LEMMA StringsTaken ==
    ASSUME NEW v \in JsStrings
    PROVE  /\ v \in Strings <=> convert_string(v).is = "ok"
           /\ v \in Strings => convert_string(v) = Ok(v)
           /\ v \notin Strings => v \in {"nul", "other"}
BY DEF JsStrings, Strings, convert_string, Ok, TypeError

\* What a list may be.
LEMMA Arrays ==
    ASSUME NEW v \in JsArrays
    PROVE  /\ v.kind \in {"undefined", "other", "string", "array"}
           /\ v.kind \in {"undefined", "other"} => v.items = <<>>
           /\ \A i \in DOMAIN v.items : v.items[i] \in JsStrings
           /\ \A S : ToSet(v.items) \subseteq S <=> \A i \in DOMAIN v.items : v.items[i] \in S
<1>1. CASE v \in [kind : {"undefined", "other"}, items : {<<>>}]
  BY <1>1 DEF ToSet
<1>2. CASE v \in [kind : {"string"}, items : {<<s>> : s \in JsStrings \ {"other"}}]
  BY <1>2 DEF ToSet
<1>3. CASE v \in [kind : {"array"}, items : UNION {[1..n -> JsStrings] : n \in 0..MaxItems}]
  <2>1. PICK n \in 0..MaxItems : v.items \in [1..n -> JsStrings]
    BY <1>3
  <2>2. v.kind = "array"
    BY <1>3
  <2> QED  BY <2>1, <2>2 DEF ToSet
<1> QED  BY <1>1, <1>2, <1>3 DEF JsArrays

\* What a revision may be.
LEMMA Revisions ==
    ASSUME NEW v \in JsRevisions
    PROVE  /\ v.kind \in {"undefined", "other", "object", "kind", "number", "date"}
           /\ v.kind = "kind" => v.name \in {"working", "unspecified", "number"}
           /\ v.kind = "number" => v.n \in Numbers
           /\ v.kind = "date" => v.n \in Dates
BY DEF JsRevisions

\* A revision is refused exactly if it has no meaning.
LEMMA RevisionMeant ==
    ASSUME NEW v \in JsRevisions, NEW default
    PROVE  /\ convert_revision(v, default).is = "ok" <=> ProperRevision(v)
           /\ convert_revision(v, default).is = "ok" =>
                convert_revision(v, default) = Ok(convert_revision(v, default).value)
<1>1. CASE v.kind = "undefined"
  BY <1>1, Outcomes DEF convert_revision, ProperRevision
<1>2. CASE v.kind = "kind"
  <2>1. v.name \in {"working", "unspecified", "number"}
    BY <1>2, Revisions
  <2>2. v.name \in KindsByName <=> v.name # "number"
    BY <2>1 DEF KindsByName
  <2>3. convert_revision(v, default) =
            IF v.name \in KindsByName THEN Ok(KindRevision(v.name)) ELSE SvnTypeError
    BY <1>2 DEF convert_revision
  <2> QED  BY <1>2, <2>2, <2>3, Outcomes DEF ProperRevision
<1>3. CASE v.kind = "number"
  BY <1>3, Outcomes DEF convert_revision, ProperRevision
<1>4. CASE v.kind = "date"
  BY <1>4, Outcomes DEF convert_revision, ProperRevision
<1>5. CASE v.kind \in {"other", "object"}
  BY <1>5, Outcomes DEF convert_revision, ProperRevision
<1> QED  BY <1>1, <1>2, <1>3, <1>4, <1>5, Revisions

\* It is unspecified exactly if the program left it so.
LEMMA RevisionSpecified ==
    ASSUME NEW v \in JsRevisions, convert_revision(v, KindRevision("unspecified")).is = "ok"
    PROVE  convert_revision(v, KindRevision("unspecified")).value = KindRevision("unspecified")
              <=> v.kind = "undefined" \/ (v.kind = "kind" /\ v.name = "unspecified")
<1> DEFINE unspecified == KindRevision("unspecified")
           r == convert_revision(v, unspecified)
<1>0. unspecified.kind = "unspecified"
  BY DEF KindRevision
<1>1. CASE v.kind = "undefined"
  BY <1>1, Outcomes DEF convert_revision
<1>2. CASE v.kind = "kind"
  <2>1. v.name \in KindsByName /\ r = Ok(KindRevision(v.name))
    BY <1>2, Outcomes DEF convert_revision
  <2>2. KindRevision(v.name) = unspecified <=> v.name = "unspecified"
    BY DEF KindRevision
  <2> QED  BY <1>2, <2>1, <2>2, Outcomes
<1>3. CASE v.kind = "number"
  <2>1. r.value = NumberRevision(Int32(v.n))
    BY <1>3, Outcomes DEF convert_revision
  <2>2. r.value.kind = "number"
    BY <2>1 DEF NumberRevision
  <2> QED  BY <1>0, <1>3, <2>2
<1>4. CASE v.kind = "date"
  <2>1. r.value = DateRevision(v.n)
    BY <1>4, Outcomes DEF convert_revision
  <2>2. r.value.kind = "date"
    BY <2>1 DEF DateRevision
  <2> QED  BY <1>0, <1>4, <2>2
<1>5. v.kind \notin {"other", "object"}
  BY Outcomes DEF convert_revision
<1> QED  BY <1>1, <1>2, <1>3, <1>4, <1>5, Revisions

\* Whether an argument is what its conversions should accept.
Accepted(p, v) ==
    /\ FromJavaScript(p, v).is = "ok"
    /\ ForSvn(p, FromJavaScript(p, v).value).is = "ok"

\* A string is accepted exactly if it is proper,
LEMMA StringAccepted ==
    ASSUME NEW p, p.kind \in {"path", "url", "plain"}, NEW v \in JsStrings
    PROVE  /\ Proper(p.kind, v) <=> Accepted(p, v)
           /\ FromJavaScript(p, v).is = "ok" => FromJavaScript(p, v) = Ok(v)
<1>1. FromJavaScript(p, v) = convert_string(v)
  BY DEF FromJavaScript
<1>2. CASE v \in Strings
  <2>1. FromJavaScript(p, v) = Ok(v) /\ Ok(v).is = "ok" /\ Ok(v).value = v
    BY <1>1, <1>2, StringsTaken, Outcomes
  <2>2. v \in {"empty", "path", "url"}
    BY <1>2 DEF Strings
  <2>3. CASE p.kind = "path"
    <3>1. ForSvn(p, v) = convert_from_path(v) /\ (Proper(p.kind, v) <=> v = "path")
      BY <2>3 DEF ForSvn, Proper
    <3>2. convert_from_path(v).is = "ok" <=> v = "path"
      BY <2>2, Outcomes DEF convert_from_path, check_string
    <3> QED  BY <2>1, <3>1, <3>2 DEF Accepted
  <2>4. CASE p.kind = "url"
    <3>1. ForSvn(p, v) = convert_from_url(v) /\ (Proper(p.kind, v) <=> v = "url")
      BY <2>4 DEF ForSvn, Proper
    <3>2. convert_from_url(v).is = "ok" <=> v = "url"
      BY <2>2, Outcomes DEF convert_from_url, check_string
    <3> QED  BY <2>1, <3>1, <3>2 DEF Accepted
  <2>5. CASE p.kind = "plain"
    <3>1. ForSvn(p, v) = convert_from_string(v) /\ (Proper(p.kind, v) <=> v \in {"path", "url"})
      BY <2>5 DEF ForSvn, Proper
    <3>2. convert_from_string(v).is = "ok" <=> v \in {"path", "url"}
      BY <2>2, Outcomes DEF convert_from_string, check_string
    <3> QED  BY <2>1, <3>1, <3>2 DEF Accepted
  <2> QED  BY <2>1, <2>3, <2>4, <2>5
<1>3. CASE v \notin Strings
  <2>1. convert_string(v).is # "ok" /\ v \in {"nul", "other"}
    BY <1>3, StringsTaken
  <2>2. ~Proper(p.kind, v)
    BY <2>1 DEF Proper
  <2> QED  BY <1>1, <2>1, <2>2 DEF Accepted
<1> QED  BY <1>2, <1>3

\* a list likewise,
LEMMA ArrayAccepted ==
    ASSUME NEW p, p.kind \in {"paths", "plains"}, NEW v \in JsArrays
    PROVE  /\ Proper(p.kind, v) <=> Accepted(p, v)
           /\ FromJavaScript(p, v).is = "ok" => FromJavaScript(p, v) = Ok(v.items)
<1> DEFINE allowEmpty == p.kind = "plains"
           items == v.items
<1>1. FromJavaScript(p, v) = convert_array(v, allowEmpty)
  BY DEF FromJavaScript
<1>2. /\ v.kind \in {"undefined", "other", "string", "array"}
      /\ v.kind \in {"undefined", "other"} => items = <<>>
      /\ \A i \in DOMAIN items : items[i] \in JsStrings
      /\ \A S : ToSet(items) \subseteq S <=> \A i \in DOMAIN items : items[i] \in S
  BY Arrays
<1>3. \A i \in DOMAIN items : convert_string(items[i]).is = "ok" <=> items[i] \in Strings
  BY <1>2, StringsTaken
<1>4. DOMAIN <<>> = {}
  OBVIOUS
<1>5. ASSUME v.kind # "other", v.kind = "undefined" => allowEmpty,
             \A i \in DOMAIN items : items[i] \in Strings
      PROVE  FromJavaScript(p, v) = Ok(items)
  BY <1>1, <1>2, <1>3, <1>5 DEF convert_array
<1>6. ASSUME \/ v.kind = "other"
             \/ v.kind = "undefined" /\ ~allowEmpty
             \/ \E i \in DOMAIN items : items[i] \notin Strings
      PROVE  FromJavaScript(p, v) = TypeError
  <2>1. CASE v.kind = "other"
    BY <1>1, <2>1 DEF convert_array
  <2>2. CASE v.kind = "undefined" /\ ~allowEmpty
    BY <1>1, <2>2 DEF convert_array
  <2>3. CASE \E i \in DOMAIN items : items[i] \notin Strings
    <3>1. v.kind \notin {"undefined", "other"}
      BY <1>2, <1>4, <2>3
    <3>2. ~\A i \in DOMAIN items : convert_string(items[i]).is = "ok"
      BY <1>3, <2>3
    <3> QED  BY <1>1, <3>1, <3>2 DEF convert_array
  <2> QED  BY <1>6, <2>1, <2>2, <2>3
<1>7. CASE p.kind = "paths"
  <2>1. /\ ForSvn(p, items) = convert_from_paths(items) /\ ~allowEmpty
        /\ Proper(p.kind, v) <=> items # <<>> /\ ToSet(items) \subseteq {"path"}
    BY <1>7 DEF ForSvn, Proper
  <2>2. Proper(p.kind, v) <=> items # <<>> /\ \A i \in DOMAIN items : items[i] = "path"
    BY <1>2, <2>1
  <2>3. ASSUME \A i \in DOMAIN items : items[i] \in Strings
        PROVE  convert_from_paths(items).is = "ok"
                  <=> items # <<>> /\ \A i \in DOMAIN items : items[i] = "path"
    <3>1. \A i \in DOMAIN items : convert_from_path(items[i]).is = "ok" <=> items[i] = "path"
      BY <2>3, Outcomes DEF convert_from_path, check_string, Strings
    <3> QED  BY <3>1, Outcomes DEF convert_from_paths
  <2>4. "path" \in Strings
    BY DEF Strings
  <2>5. CASE /\ v.kind \notin {"other", "undefined"}
             /\ \A i \in DOMAIN items : items[i] \in Strings
    <3>1. FromJavaScript(p, v) = Ok(items) /\ Ok(items).is = "ok" /\ Ok(items).value = items
      BY <1>5, <2>5, Outcomes
    <3> QED  BY <2>1, <2>2, <2>3, <2>5, <3>1 DEF Accepted
  <2>6. CASE \/ v.kind \in {"other", "undefined"}
             \/ \E i \in DOMAIN items : items[i] \notin Strings
    <3>1. FromJavaScript(p, v) = TypeError
      BY <1>6, <2>1, <2>6
    <3>2. ~Proper(p.kind, v)
      BY <1>2, <2>2, <2>4, <2>6
    <3> QED  BY <3>1, <3>2, Outcomes DEF Accepted
  <2> QED  BY <2>5, <2>6
<1>8. CASE p.kind = "plains"
  <2>1. /\ ForSvn(p, items) = convert_from_vector(items) /\ allowEmpty
        /\ Proper(p.kind, v) <=> v.kind # "other" /\ ToSet(items) \subseteq {"path", "url"}
    BY <1>8 DEF ForSvn, Proper
  <2>2. Proper(p.kind, v) <=>
           v.kind # "other" /\ \A i \in DOMAIN items : items[i] \in {"path", "url"}
    BY <1>2, <2>1
  <2>3. ASSUME \A i \in DOMAIN items : items[i] \in Strings
        PROVE  convert_from_vector(items).is = "ok"
                  <=> \A i \in DOMAIN items : items[i] \in {"path", "url"}
    <3>1. \A i \in DOMAIN items : check_string(items[i]) <=> items[i] \in {"path", "url"}
      BY <2>3 DEF check_string, Strings
    <3> QED  BY <3>1, Outcomes DEF convert_from_vector
  <2>4. {"path", "url"} \subseteq Strings
    BY DEF Strings
  <2>5. CASE v.kind # "other" /\ \A i \in DOMAIN items : items[i] \in Strings
    <3>1. FromJavaScript(p, v) = Ok(items) /\ Ok(items).is = "ok" /\ Ok(items).value = items
      BY <1>5, <2>1, <2>5, Outcomes
    <3> QED  BY <2>1, <2>2, <2>3, <2>5, <3>1 DEF Accepted
  <2>6. CASE v.kind = "other" \/ \E i \in DOMAIN items : items[i] \notin Strings
    <3>1. FromJavaScript(p, v) = TypeError
      BY <1>6, <2>6
    <3>2. ~Proper(p.kind, v)
      BY <2>2, <2>4, <2>6
    <3> QED  BY <3>1, <3>2, Outcomes DEF Accepted
  <2> QED  BY <2>5, <2>6
<1> QED  BY <1>7, <1>8

\* a range, its two revisions in turn,
LEMMA RangeAccepted ==
    ASSUME NEW v \in JsRanges, v.kind = "object"
    PROVE  LET start == convert_revision(v.start, KindRevision("unspecified"))
               end == convert_revision(v.end, KindRevision("unspecified"))
           IN  /\ v.start \in JsRevisions /\ v.end \in JsRevisions
               /\ Proper("ranges", v) <=> convert_revision_ranges(v).is = "ok"
               /\ convert_revision_ranges(v).is = "ok" =>
                     /\ start.is = "ok" /\ end.is = "ok"
                     /\ convert_revision_ranges(v) = Ok(<<start.value, end.value>>)
<1> DEFINE unspecified == KindRevision("unspecified")
           start == convert_revision(v.start, unspecified)
           end == convert_revision(v.end, unspecified)
           Meant(w) == /\ ProperRevision(w)
                       /\ w.kind # "undefined"
                       /\ w.kind = "kind" => w.name # "unspecified"
<1>1. v.start \in JsRevisions /\ v.end \in JsRevisions
  BY DEF JsRanges
<1>2. /\ start.is = "ok" <=> ProperRevision(v.start)
      /\ end.is = "ok" <=> ProperRevision(v.end)
  BY <1>1, RevisionMeant
<1>3. Meant(v.start) <=> start.is = "ok" /\ start.value # unspecified
  BY <1>1, <1>2, RevisionSpecified
<1>4. Meant(v.end) <=> end.is = "ok" /\ end.value # unspecified
  BY <1>1, <1>2, RevisionSpecified
<1>5. Proper("ranges", v) <=> Meant(v.start) /\ Meant(v.end)
  BY DEF Proper
<1>6. convert_revision_ranges(v) =
         IF start.is # "ok" THEN start
         ELSE IF start.value = unspecified THEN TypeError
         ELSE IF end.is # "ok" THEN end
         ELSE IF end.value = unspecified THEN TypeError
         ELSE Ok(<<start.value, end.value>>)
  BY DEF convert_revision_ranges
<1> HIDE DEF unspecified, start, end, Meant
<1>7. /\ Proper("ranges", v) <=> convert_revision_ranges(v).is = "ok"
      /\ convert_revision_ranges(v).is = "ok" =>
            /\ start.is = "ok" /\ end.is = "ok"
            /\ convert_revision_ranges(v) = Ok(<<start.value, end.value>>)
  BY <1>3, <1>4, <1>5, <1>6, Outcomes
<1> QED  BY <1>1, <1>7 DEF start, end, unspecified

\* and so all of them: an argument is refused exactly if it is improper.
LEMMA ProperIsAccepted ==
    ASSUME NEW p, p.kind \in Kinds, NEW v \in Inputs(p.kind)
    PROVE  /\ Proper(p.kind, v) <=> Accepted(p, v)
           /\ FromJavaScript(p, v).is = "ok" =>
                 FromJavaScript(p, v) = Ok(FromJavaScript(p, v).value)
<1>1. CASE p.kind \in {"path", "url", "plain"}
  <2>1. v \in JsStrings
    BY <1>1 DEF Inputs
  <2> QED  BY <1>1, <2>1, StringAccepted, Outcomes
<1>2. CASE p.kind \in {"paths", "plains"}
  <2>1. v \in JsArrays
    BY <1>2 DEF Inputs
  <2> QED  BY <1>2, <2>1, ArrayAccepted, Outcomes
<1>3. CASE p.kind = "option"
  <2>1. v \in {"undefined", "fits", "other"}
    BY <1>3 DEF Inputs, JsOptions
  <2>2. /\ FromJavaScript(p, v) = convert_option(v)
        /\ ForSvn(p, convert_option(v).value) = Ok(convert_option(v).value)
        /\ Proper(p.kind, v) <=> v \in {"undefined", "fits"}
    BY <1>3 DEF FromJavaScript, ForSvn, Proper
  <2> QED  BY <2>1, <2>2, Outcomes DEF Accepted, convert_option
<1>4. CASE p.kind = "revision"
  <2>1. v \in JsRevisions
    BY <1>4 DEF Inputs
  <2>2. /\ FromJavaScript(p, v) = convert_revision(v, p.default)
        /\ ForSvn(p, convert_revision(v, p.default).value).is = "ok"
        /\ Proper(p.kind, v) <=> ProperRevision(v)
    BY <1>4, Outcomes DEF FromJavaScript, ForSvn, Proper
  <2> QED  BY <2>1, <2>2, RevisionMeant DEF Accepted
<1>5. CASE p.kind = "ranges"
  <2>1. v \in JsRanges
    BY <1>5 DEF Inputs
  <2>2. /\ FromJavaScript(p, v) = convert_revision_ranges(v)
        /\ ForSvn(p, convert_revision_ranges(v).value).is = "ok"
    BY <1>5, Outcomes DEF FromJavaScript, ForSvn
  <2>3. CASE v.kind = "object"
    <3>1. Proper(p.kind, v) <=> convert_revision_ranges(v).is = "ok"
      BY <1>5, <2>1, <2>3, RangeAccepted
    <3>2. convert_revision_ranges(v).is = "ok" =>
             convert_revision_ranges(v) = Ok(convert_revision_ranges(v).value)
      <4>1. convert_revision_ranges(v).is = "ok" =>
               \E w : convert_revision_ranges(v) = Ok(w)
        BY <2>1, <2>3, RangeAccepted
      <4> QED  BY <4>1, Outcomes
    <3> QED  BY <2>2, <3>1, <3>2 DEF Accepted
  <2>4. CASE v.kind # "object"
    <3>1. Proper(p.kind, v)
      BY <1>5, <2>4 DEF Proper
    <3>2. convert_revision_ranges(v) = Ok(<<>>)
      BY <2>4 DEF convert_revision_ranges
    <3> QED  BY <2>2, <3>1, <3>2, Outcomes DEF Accepted
  <2> QED  BY <2>3, <2>4
<1> QED  BY <1>1, <1>2, <1>3, <1>4, <1>5 DEF Kinds

\* What the second conversion accepts is its value.
LEMMA PassedIsValue ==
    ASSUME NEW p, p.kind \in Kinds, NEW v, ForSvn(p, v).is = "ok"
    PROVE  ForSvn(p, v) = Ok(ForSvn(p, v).value)
<1>1. CASE p.kind = "path"
  BY <1>1, Outcomes DEF ForSvn, convert_from_path
<1>2. CASE p.kind = "url"
  BY <1>2, Outcomes DEF ForSvn, convert_from_url
<1>3. CASE p.kind = "plain"
  BY <1>3, Outcomes DEF ForSvn, convert_from_string
<1>4. CASE p.kind = "paths"
  BY <1>4, Outcomes DEF ForSvn, convert_from_paths
<1>5. CASE p.kind = "plains"
  BY <1>5, Outcomes DEF ForSvn, convert_from_vector
<1>6. CASE p.kind \in {"option", "revision", "ranges"}
  BY <1>6, Outcomes DEF ForSvn
<1> QED  BY <1>1, <1>2, <1>3, <1>4, <1>5, <1>6 DEF Kinds

-----------------------------------------------------------------------------
(* What arrives. *)

\* A string that Subversion gets is the one that was given.
LEMMA StringArrives ==
    ASSUME NEW p, p.kind \in {"path", "url", "plain"}, NEW v \in JsStrings, NEW c, NEW s,
           FromJavaScript(p, v) = Ok(c), ForSvn(p, c) = Ok(s), memory = {"captured", "pool"}
    PROVE  Reads(s) = {v}
<1>1. c = v
  <2>1. FromJavaScript(p, v) = Ok(v)
    BY StringAccepted, Outcomes
  <2> QED  BY <2>1, Outcomes
<1>2. s \in {InPool(v), Captured(v)}
  <2>1. CASE p.kind = "path"
    BY <1>1, <2>1, Outcomes DEF ForSvn, convert_from_path
  <2>2. CASE p.kind = "url"
    BY <1>1, <2>2, Outcomes DEF ForSvn, convert_from_url
  <2>3. CASE p.kind = "plain"
    BY <1>1, <2>3, Outcomes DEF ForSvn, convert_from_string
  <2> QED  BY <2>1, <2>2, <2>3
<1> QED  BY <1>2 DEF Reads, InPool, Captured

\* So is every one of a list.
LEMMA ArrayArrives ==
    ASSUME NEW p, p.kind = "paths", NEW v \in JsArrays, NEW c, NEW s,
           FromJavaScript(p, v) = Ok(c), ForSvn(p, c) = Ok(s), memory = {"captured", "pool"}
    PROVE  /\ DOMAIN s = DOMAIN v.items
           /\ \A k \in DOMAIN s : Reads(s[k]) = {v.items[k]}
<1>1. c = v.items
  <2>1. FromJavaScript(p, v) = Ok(v.items)
    BY ArrayAccepted, Outcomes
  <2> QED  BY <2>1, Outcomes
<1>2. s = [i \in DOMAIN v.items |-> InPool(v.items[i])]
  <2>1. convert_from_paths(c).is = "ok" /\ convert_from_paths(c) = Ok(s)
    BY Outcomes DEF ForSvn
  <2>2. convert_from_paths(c) = Ok([i \in DOMAIN c |-> InPool(c[i])])
    BY <2>1, Outcomes DEF convert_from_paths
  <2> DEFINE t == [i \in DOMAIN v.items |-> InPool(v.items[i])]
  <2>3. Ok(s) = Ok(t)
    BY <1>1, <2>1, <2>2
  <2> HIDE DEF t
  <2>4. s = t
    BY <2>3, Outcomes
  <2> QED  BY <2>4 DEF t
<1>3. DOMAIN s = DOMAIN v.items
  BY <1>2
<1>4. ASSUME NEW k \in DOMAIN s
      PROVE  Reads(s[k]) = {v.items[k]}
  <2>1. s[k] = InPool(v.items[k])
    BY <1>2, <1>3
  <2> QED  BY <2>1 DEF Reads, InPool
<1> QED  BY <1>3, <1>4

\* A revision is seen as what it was given as.
LEMMA RevisionSeen ==
    ASSUME NEW v \in JsRevisions, NEW default, NEW c, long64 \in BOOLEAN,
           convert_revision(v, default) = Ok(c)
    PROVE  RevisionArrives(v, convert_from_revision(c))
<1> DEFINE r == convert_from_revision(c)
<1>1. CASE v.kind = "date"
  <2>1. c = DateRevision(v.n) /\ v.n \in (-Half64)..(Half64 - 1)
    BY <1>1, Outcomes, Revisions, RangeAssumption DEF convert_revision
  <2>2. Seen(r, long64) = Seen(DateRevision(v.n), long64)
    BY <2>1 DEF Seen, convert_from_revision
  <2>3. Seen(r, long64) = {v.n}
    BY <2>1, <2>2, DateSeen
  <2> QED  BY <1>1, <2>3 DEF RevisionArrives
<1>2. CASE v.kind = "number"
  <2>1. c = NumberRevision(Int32(v.n))
    BY <1>2, Outcomes DEF convert_revision
  <2>2. Seen(r, long64) = Seen(c, long64)
    BY DEF Seen, convert_from_revision
  <2>3. ASSUME v.n \in INT32_MIN..INT32_MAX, ~long64
        PROVE  Seen(r, long64) = {v.n}
    BY <2>1, <2>2, <2>3, Int32Kept, NumberSeen
  <2> QED  BY <1>2, <2>3 DEF RevisionArrives
<1>3. CASE v.kind = "kind"
  <2>1. c = KindRevision(v.name)
    BY <1>3, Outcomes DEF convert_revision
  <2> QED  BY <1>3, <2>1 DEF RevisionArrives, convert_from_revision, KindRevision
<1>4. CASE v.kind \in {"undefined", "other", "object"}
  BY <1>4 DEF RevisionArrives
<1> QED  BY <1>1, <1>2, <1>3, <1>4, Revisions

-----------------------------------------------------------------------------
(* Sequences, of whatever. *)

LEMMA NoTuple == Tuple(<<>>) /\ Len(<<>>) = 0
BY DEF Tuple

LEMMA SequenceIsTuple ==
    ASSUME NEW S, NEW t \in Seq(S)
    PROVE  Tuple(t) /\ DOMAIN t = 1..Len(t)
<1>1. Len(t) \in Nat /\ DOMAIN t = 1..Len(t)
  OBVIOUS
<1>2. t = [i \in DOMAIN t |-> t[i]]
  OBVIOUS
<1> QED  BY <1>1, <1>2 DEF Tuple

\* One is the other and a last element.
Appended(t, s, v) == t = Append(s, v)

LEMMA Longer ==
    ASSUME NEW s, Tuple(s), NEW v, NEW t, Appended(t, s, v)
    PROVE  /\ Tuple(t) /\ Len(t) = Len(s) + 1
           /\ \A i \in 1..Len(s) : t[i] = s[i]
           /\ t[Len(s) + 1] = v
           /\ DOMAIN t = 1..(Len(s) + 1) /\ DOMAIN s = 1..Len(s)
<1> DEFINE S == {s[i] : i \in 1..Len(s)} \cup {v}
<1>1. Len(s) \in Nat /\ s \in [1..Len(s) -> S]
  BY DEF Tuple
<1> HIDE DEF S
<1>2. s \in Seq(S)
  BY <1>1
<1>3. v \in S
  BY DEF S
<1>4. /\ t \in Seq(S) /\ Len(t) = Len(s) + 1
      /\ \A i \in 1..Len(s) : t[i] = s[i]
      /\ t[Len(s) + 1] = v
  BY <1>1, <1>2, <1>3 DEF Appended
<1>5. Tuple(t) /\ DOMAIN t = 1..Len(t)
  BY <1>4, SequenceIsTuple
<1> QED  BY <1>1, <1>4, <1>5

LEMMA TupleDomain ==
    ASSUME NEW s, Tuple(s)
    PROVE  DOMAIN s = 1..Len(s) /\ Len(s) \in Nat /\ (Len(s) = 0 <=> s = <<>>)
BY DEF Tuple

\* Every method has its parameters.
LEMMA Declared ==
    ASSUME NEW m \in DOMAIN ParametersOf
    PROVE  /\ Len(ParametersOf[m]) \in Nat
           /\ DOMAIN ParametersOf[m] = 1..Len(ParametersOf[m])
           /\ \A i \in 1..Len(ParametersOf[m]) : ParametersOf[m][i].kind \in Kinds
<1> DEFINE Good(s) == /\ Len(s) \in Nat
                      /\ DOMAIN s = 1..Len(s)
                      /\ \A i \in 1..Len(s) : s[i].kind \in Kinds
           P == {Arg(k) : k \in Kinds \ {"revision"}} \cup {Rev(k) : k \in {"head", "working", "unspecified"}}
                \cup {[kind |-> "revision", default |-> NumberRevision(0)]}
<1>1. \A p \in P : p.kind \in Kinds
  BY DEF Arg, Rev, Kinds
<1>2. ASSUME NEW s \in Seq(P)
      PROVE  Good(s)
  BY <1>1
<1>3. /\ Arg("paths") \in P /\ Arg("plain") \in P /\ Arg("option") \in P /\ Arg("plains") \in P
      /\ Arg("path") \in P /\ Arg("url") \in P /\ Arg("ranges") \in P
      /\ Rev("head") \in P /\ Rev("unspecified") \in P /\ Rev("working") \in P
      /\ [kind |-> "revision", default |-> NumberRevision(0)] \in P
  BY DEF Kinds
<1> HIDE DEF Good, P
<1>4. /\ add_to_changelist \in Seq(P) /\ get_changelists \in Seq(P)
      /\ remove_from_changelists \in Seq(P) /\ add \in Seq(P)
  BY <1>3 DEF add_to_changelist, get_changelists, remove_from_changelists, add
<1>5. blame \in Seq(P) /\ cat \in Seq(P) /\ checkout \in Seq(P) /\ cleanup \in Seq(P)
  BY <1>3 DEF blame, cat, checkout, cleanup
<1>6. commit \in Seq(P) /\ info \in Seq(P) /\ log \in Seq(P) /\ remove \in Seq(P)
  BY <1>3 DEF commit, info, log, remove
<1>7. /\ resolve \in Seq(P) /\ revert \in Seq(P) /\ status \in Seq(P) /\ update \in Seq(P)
      /\ get_working_copy_root \in Seq(P)
  BY <1>3 DEF resolve, revert, status, update, get_working_copy_root
<1>8. ParametersOf[m] \in Seq(P)
  BY <1>4, <1>5, <1>6, <1>7, SMTT(30) DEF ParametersOf
<1>9. Good(ParametersOf[m])
  BY <1>2, <1>8
<1> QED  BY <1>9 DEF Good

-----------------------------------------------------------------------------
(* The strengthening is inductive. *)

\* What the conversions made is as good as the arguments are the same.
LEMMA SameArguments ==
    ASSUME UNCHANGED <<method, given, captured, passed>>
    PROVE  /\ Parameters' = Parameters
           /\ AllProper' <=> AllProper
           /\ \A i : (Taken(i)' <=> Taken(i)) /\ (Handed(i)' <=> Handed(i))
<1>1. Parameters' = Parameters
  BY DEF Parameters
<1>2. \A i : (Taken(i)' <=> Taken(i)) /\ (Handed(i)' <=> Handed(i))
  BY <1>1 DEF Taken, Handed
<1>3. AllProper' <=> AllProper
  BY <1>1 DEF AllProper
<1> QED  BY <1>1, <1>2, <1>3

\* An operation that is left leaves no arguments.
LEMMA LeftArguments ==
    ASSUME method' = method, stage # "none", ArgumentsInv,
           given' = <<>>, captured' = <<>>, passed' = <<>>,
           stage' \in {"returned", "failed"}
    PROVE  ArgumentsInv'
<1>1. stage' \notin {"none", "converting", "working", "in_svn"}
  OBVIOUS
<1>2. method' \in DOMAIN ParametersOf
  BY DEF ArgumentsInv
<1>3. /\ Tuple(given') /\ Tuple(captured') /\ Tuple(passed')
      /\ Len(given') = 0 /\ Len(captured') = 0 /\ Len(passed') = 0
  BY NoTuple
<1>4. 1..0 = {}
  OBVIOUS
<1> QED  BY <1>1, <1>2, <1>3, <1>4 DEF ArgumentsInv

\* The numbers that were told stay what they are.
LEMMA SameNumbers == NumbersArrive /\ UNCHANGED numbers => NumbersArrive'
BY DEF NumbersArrive

LEMMA CallStarts == Init => CallInv
<1> SUFFICES ASSUME Init
             PROVE  CallInv
  OBVIOUS
<1>1. /\ stage = "none" /\ given = <<>> /\ captured = <<>> /\ passed = <<>>
      /\ memory = {} /\ numbers = <<>> /\ reports = <<>>
      /\ step = "none" /\ raised = <<>>
  BY DEF Init, ErrorInit
<1>2. ArgumentsInv
  <2>1. 1..0 = {}
    OBVIOUS
  <2> QED  BY <1>1, <2>1, NoTuple DEF ArgumentsInv
<1>3. MemoryInv
  BY <1>1 DEF MemoryInv
<1>4. ErrorCaused /\ AnswersInv
  BY <1>1 DEF ErrorCaused, AnswersInv
<1>5. NumbersArrive
  BY <1>1 DEF NumbersArrive
<1> QED  BY <1>1, <1>2, <1>3, <1>4, <1>5 DEF CallInv

\* The next argument is converted.
LEMMA ArgumentConverted ==
    ASSUME CallInv, IInv, NEW v \in Inputs(Wanted.kind), ConvertArgument(v)
    PROVE  CallInv'
<1>1. /\ stage = "converting" /\ stage' = "converting"
      /\ method \in DOMAIN ParametersOf
      /\ Tuple(given) /\ Tuple(captured) /\ Len(captured) = Len(given)
      /\ passed = <<>> /\ passed' = <<>>
      /\ \A i \in 1..Len(captured) : Taken(i)
      /\ Len(given) < Len(Parameters)
      /\ given' = Append(given, v)
      /\ captured' = Append(captured, FromJavaScript(Wanted, v).value)
      /\ FromJavaScript(Wanted, v).is = "ok"
      /\ UNCHANGED <<errorVars, method, memory, numbers, reports>>
  BY DEF ConvertArgument, CallInv, ArgumentsInv, Looked
<1>2. Len(given) \in Nat /\ Len(Parameters) \in Nat
      /\ \A i \in 1..Len(Parameters) : Parameters[i].kind \in Kinds
  BY <1>1, Declared DEF Parameters, Tuple
<1>3. Parameters' = Parameters
  BY <1>1 DEF Parameters
<1>4. /\ Tuple(given') /\ Len(given') = Len(given) + 1
      /\ \A i \in 1..Len(given) : given'[i] = given[i]
      /\ given'[Len(given) + 1] = v
  <2>1. Tuple(given) /\ Appended(given', given, v)
    BY <1>1 DEF Appended
  <2> QED  BY <2>1, Longer
<1>5. /\ Tuple(captured') /\ Len(captured') = Len(given) + 1
      /\ \A i \in 1..Len(given) : captured'[i] = captured[i]
      /\ captured'[Len(given) + 1] = FromJavaScript(Wanted, v).value
  <2>1. /\ Tuple(captured) /\ Len(captured) = Len(given)
        /\ Appended(captured', captured, FromJavaScript(Wanted, v).value)
    BY <1>1 DEF Appended
  <2> QED  BY <2>1, Longer
<1>6. ASSUME NEW i \in 1..Len(captured')
      PROVE  Taken(i)'
  <2>1. CASE i = Len(given) + 1
    <3>1. Wanted = Parameters[i] /\ i \in 1..Len(Parameters)
      BY <1>1, <1>2, <2>1 DEF Wanted, Looked
    <3>2. FromJavaScript(Wanted, v) = Ok(FromJavaScript(Wanted, v).value)
      BY <1>1, <1>2, <3>1, ProperIsAccepted
    <3> QED  BY <1>3, <1>4, <1>5, <2>1, <3>1, <3>2 DEF Taken
  <2>2. CASE i # Len(given) + 1
    <3>1. i \in 1..Len(given) /\ Taken(i)
      BY <1>1, <1>2, <1>5, <2>2
    <3> QED  BY <1>3, <1>4, <1>5, <3>1 DEF Taken
  <2> QED  BY <2>1, <2>2
<1>7. ArgumentsInv'
  <2>1. 1..0 = {} /\ Len(passed') = 0 /\ Tuple(passed')
    BY <1>1, NoTuple
  <2>2. Len(given') <= Len(Parameters')
    BY <1>1, <1>2, <1>3, <1>4
  <2> QED  BY <1>1, <1>2, <1>4, <1>5, <1>6, <2>1, <2>2 DEF ArgumentsInv
<1>8. raised = <<>> /\ UNCHANGED <<raised, step>>
  BY <1>1 DEF IInv, CallInv, AnswersInv, errorVars
<1>9. MemoryInv' /\ ErrorCaused' /\ AnswersInv' /\ NumbersArrive'
  BY <1>1, <1>8, SameNumbers DEF CallInv, MemoryInv, ErrorCaused, AnswersInv
<1> QED  BY <1>1, <1>7, <1>9 DEF CallInv

\* The next argument is refused.
LEMMA ArgumentTurnedDown ==
    ASSUME CallInv, IInv, NEW v \in Inputs(Wanted.kind), ArgumentRefused(v)
    PROVE  CallInv'
<1>1. /\ stage = "converting" /\ stage' = "over"
      /\ method \in DOMAIN ParametersOf
      /\ Tuple(given) /\ Tuple(captured) /\ Len(captured) = Len(given)
      /\ passed = <<>> /\ passed' = <<>>
      /\ \A i \in 1..Len(captured) : Taken(i)
      /\ Len(given) < Len(Parameters)
      /\ given' = Append(given, v)
      /\ reports = <<>>
      /\ reports' = Append(reports, Refusal(FromJavaScript(Wanted, v)))
      /\ FromJavaScript(Wanted, v).is # "ok"
      /\ UNCHANGED <<errorVars, method, captured, memory, numbers>>
  BY DEF ArgumentRefused, CallInv, ArgumentsInv, AnswersInv, Looked
<1>2. Len(given) \in Nat /\ Len(Parameters) \in Nat
      /\ \A i \in 1..Len(Parameters) : Parameters[i].kind \in Kinds
  BY <1>1, Declared DEF Parameters, Tuple
<1>3. Parameters' = Parameters
  BY <1>1 DEF Parameters
<1>4. /\ Tuple(given') /\ Len(given') = Len(given) + 1
      /\ \A i \in 1..Len(given) : given'[i] = given[i]
      /\ given'[Len(given) + 1] = v
      /\ DOMAIN given' = 1..(Len(given) + 1)
  <2>1. Tuple(given) /\ Appended(given', given, v)
    BY <1>1 DEF Appended
  <2> QED  BY <2>1, Longer
<1>5. ArgumentsInv'
  <2>1. 1..0 = {} /\ Len(passed') = 0 /\ Tuple(passed')
    BY <1>1, NoTuple
  <2>2. ASSUME NEW i \in 1..Len(captured')
        PROVE  Taken(i)'
    BY <1>1, <1>3, <1>4 DEF Taken
  <2> QED  BY <1>1, <1>2, <1>4, <2>1, <2>2 DEF ArgumentsInv
<1>6. ~AllProper'
  <2> DEFINE i == Len(given) + 1
  <2>1. i \in DOMAIN given' /\ i \in 1..Len(Parameters)
    BY <1>1, <1>2, <1>4
  <2>2. Wanted = Parameters[i] /\ Wanted.kind \in Kinds
    BY <1>2, <2>1 DEF Wanted, Looked
  <2>3. ~Proper(Wanted.kind, v)
    BY <1>1, <2>2, ProperIsAccepted DEF Accepted
  <2> QED  BY <1>3, <1>4, <2>1, <2>2, <2>3 DEF AllProper
<1>7. raised = <<>> /\ UNCHANGED <<raised, step>>
  BY <1>1 DEF IInv, CallInv, AnswersInv, errorVars
<1>8. Refused'
  <2>1. reports' = <<Refusal(FromJavaScript(Wanted, v))>>
    BY <1>1
  <2> QED  BY <1>1, <1>6, <2>1 DEF Refused, Refusal
<1>9. MemoryInv' /\ ErrorCaused' /\ AnswersInv' /\ NumbersArrive'
  BY <1>1, <1>7, <1>8, SameNumbers DEF CallInv, MemoryInv, ErrorCaused, AnswersInv
<1> QED  BY <1>1, <1>5, <1>9 DEF CallInv

\* Each argument is converted for Subversion.
LEMMA ArgumentPassed ==
    ASSUME CallInv, IInv, ConvertForSvn
    PROVE  CallInv'
<1> DEFINE n == Len(passed) + 1
<1>1. /\ stage = "working" /\ stage' = "working"
      /\ method \in DOMAIN ParametersOf
      /\ Tuple(passed) /\ Tuple(captured) /\ Tuple(given)
      /\ Len(captured) = Len(given) /\ Len(given) = Len(Parameters)
      /\ \A i \in 1..Len(captured) : Taken(i)
      /\ \A i \in 1..Len(passed) : Handed(i)
      /\ Len(passed) < Len(Parameters)
      /\ passed' = Append(passed, Converted.value)
      /\ Converted.is = "ok"
      /\ UNCHANGED <<errorVars, method, given, captured, memory, numbers, reports>>
  BY DEF ConvertForSvn, Converting, CallInv, ArgumentsInv
<1>2. Len(passed) \in Nat /\ Len(Parameters) \in Nat
      /\ \A i \in 1..Len(Parameters) : Parameters[i].kind \in Kinds
  BY <1>1, Declared DEF Parameters, Tuple
<1>3. Parameters' = Parameters
  BY <1>1 DEF Parameters
<1>4. /\ Tuple(passed') /\ Len(passed') = n
      /\ \A i \in 1..Len(passed) : passed'[i] = passed[i]
      /\ passed'[n] = Converted.value
  <2>1. Tuple(passed) /\ Appended(passed', passed, Converted.value)
    BY <1>1 DEF Appended
  <2> QED  BY <2>1, Longer
<1>5. n \in 1..Len(Parameters) /\ Converted = ForSvn(Parameters[n], captured[n])
  BY <1>1, <1>2 DEF Converted
<1>6. Converted = Ok(Converted.value)
  BY <1>1, <1>2, <1>5, PassedIsValue
<1>7. ASSUME NEW i \in 1..Len(passed')
      PROVE  Handed(i)'
  <2>1. CASE i = n
    BY <1>1, <1>3, <1>4, <1>5, <1>6, <2>1 DEF Handed
  <2>2. CASE i # n
    <3>1. i \in 1..Len(passed) /\ Handed(i)
      BY <1>1, <1>2, <1>4, <2>2
    <3> QED  BY <1>1, <1>3, <1>4, <3>1 DEF Handed
  <2> QED  BY <2>1, <2>2
<1>8. ASSUME NEW i \in 1..Len(captured')
      PROVE  Taken(i)'
  BY <1>1, <1>3 DEF Taken
<1>9. ArgumentsInv'
  BY <1>1, <1>2, <1>3, <1>4, <1>7, <1>8 DEF ArgumentsInv
<1>10. raised = <<>> /\ UNCHANGED <<raised, step>>
  BY <1>1 DEF IInv, CallInv, AnswersInv, errorVars
<1>11. MemoryInv' /\ ErrorCaused' /\ AnswersInv' /\ NumbersArrive'
  BY <1>1, <1>10, SameNumbers DEF CallInv, MemoryInv, ErrorCaused, AnswersInv
<1> QED  BY <1>1, <1>9, <1>11 DEF CallInv

\* An argument does not become what Subversion wants.
LEMMA ArgumentUnfit ==
    ASSUME CallInv, IInv, ConversionFails
    PROVE  CallInv'
<1> DEFINE n == Len(passed) + 1
<1>1. /\ stage = "working" /\ stage' = "failed"
      /\ method \in DOMAIN ParametersOf
      /\ Tuple(passed) /\ Tuple(captured) /\ Tuple(given)
      /\ Len(captured) = Len(given) /\ Len(given) = Len(Parameters)
      /\ \A i \in 1..Len(captured) : Taken(i)
      /\ Len(passed) < Len(Parameters)
      /\ Converted.is # "ok"
      /\ memory = {"captured", "pool"} /\ memory' = memory \ {"pool"}
      /\ UNCHANGED <<method, given, captured, passed, numbers, reports>>
      /\ reports = <<>>
  BY DEF ConversionFails, Converting, CallInv, ArgumentsInv, MemoryInv, AnswersInv
<1>2. raised' # <<>> /\ step' = "thrown"
  BY DEF ConversionFails, ThrowTypeError
<1>3. Len(passed) \in Nat /\ Len(Parameters) \in Nat
      /\ \A i \in 1..Len(Parameters) : Parameters[i].kind \in Kinds
  BY <1>1, Declared DEF Parameters, Tuple
<1>4. /\ Parameters' = Parameters
      /\ AllProper' <=> AllProper
      /\ \A i : (Taken(i)' <=> Taken(i)) /\ (Handed(i)' <=> Handed(i))
  BY <1>1, SameArguments
<1>5. ~AllProper
  <2>1. n \in 1..Len(Parameters) /\ Converted = ForSvn(Parameters[n], captured[n])
    BY <1>1, <1>3 DEF Converted
  <2>2. /\ given[n] \in Inputs(Parameters[n].kind)
        /\ FromJavaScript(Parameters[n], given[n]) = Ok(captured[n])
        /\ Parameters[n].kind \in Kinds
    BY <1>1, <1>3, <2>1 DEF Taken
  <2>3. ~Accepted(Parameters[n], given[n])
    BY <1>1, <2>1, <2>2, Outcomes DEF Accepted
  <2>4. ~Proper(Parameters[n].kind, given[n])
    BY <2>2, <2>3, ProperIsAccepted
  <2>5. n \in DOMAIN given
    BY <1>1, <2>1, TupleDomain
  <2> QED  BY <2>4, <2>5 DEF AllProper
<1>6. ArgumentsInv'
  BY <1>1, <1>3, <1>4 DEF CallInv, ArgumentsInv
<1>7. MemoryInv'
  BY <1>1 DEF MemoryInv
<1>8. ErrorCaused' /\ AnswersInv'
  BY <1>1, <1>2, <1>4, <1>5 DEF ErrorCaused, AnswersInv
<1>9. NumbersArrive'
  BY <1>1, SameNumbers DEF CallInv
<1> QED  BY <1>1, <1>6, <1>7, <1>8, <1>9 DEF CallInv

\* A chain of Subversion has links, with codes of Subversion.
LEMMA ChainOfSvn ==
    ASSUME NEW chain \in Chains
    PROVE  chain # <<>> /\ chain[1].code # TypeErrorCode
<1>1. PICK n \in 1..MaxChain : chain \in [1..n -> Links]
  BY DEF Chains
<1>2. 1 \in 1..n
  BY <1>1, MaxChainAssumption
<1>3. chain[1] \in Links /\ chain # <<>>
  BY <1>1, <1>2
<1>4. chain[1].code \in Codes
  BY <1>3 DEF Links
<1> QED  BY <1>3, <1>4, CodesAssumption DEF TypeErrorCode

\* An operation that fails with an error of Subversion.
LEMMA OperationFails ==
    ASSUME CallInv, IInv, NEW chain \in Chains, RaiseError(chain), Leave("failed"),
           UNCHANGED numbers, stage \in {"working", "in_svn"}
    PROVE  CallInv'
<1>1. /\ stage' = "failed" /\ memory' = {"captured"}
      /\ given' = <<>> /\ captured' = <<>> /\ passed' = <<>>
      /\ UNCHANGED <<method, reports, numbers>>
      /\ reports = <<>>
  BY DEF Leave, CallInv, MemoryInv, AnswersInv
<1>2. raised' = chain /\ step' = "failed" /\ chain # <<>> /\ chain[1].code # TypeErrorCode
  BY ChainOfSvn DEF RaiseError
<1>3. ArgumentsInv'
  BY <1>1, LeftArguments DEF CallInv
<1>4. MemoryInv'
  BY <1>1 DEF MemoryInv
<1>5. ErrorCaused' /\ AnswersInv'
  BY <1>1, <1>2 DEF ErrorCaused, AnswersInv
<1>6. NumbersArrive'
  BY <1>1, SameNumbers DEF CallInv
<1> QED  BY <1>1, <1>3, <1>4, <1>5, <1>6 DEF CallInv

\* One that succeeds: what it reports arrives.
LEMMA OperationSucceeds ==
    ASSUME CallInv, IInv, NEW n \in Results, SvnSucceeds(n)
    PROVE  CallInv'
<1>1. /\ stage = "in_svn" /\ stage' = "returned" /\ memory' = {"captured"}
      /\ given' = <<>> /\ captured' = <<>> /\ passed' = <<>>
      /\ UNCHANGED <<method, reports, raised, step>>
      /\ reports = <<>> /\ raised = <<>> /\ step = "none"
      /\ numbers' = IF method = "checkout" THEN <<Told(n, "revision", data_revision(n))>>
                                           ELSE numbers
  BY DEF SvnSucceeds, Leave, IInv, CallInv, MemoryInv, AnswersInv, errorVars
<1>2. ArgumentsInv'
  BY <1>1, LeftArguments DEF CallInv
<1>3. MemoryInv'
  BY <1>1 DEF MemoryInv
<1>4. ErrorCaused' /\ AnswersInv'
  BY <1>1 DEF ErrorCaused, AnswersInv
<1>5. NumbersArrive'
  <2>1. CASE method = "checkout"
    <3>1. numbers' = <<Told(n, "revision", data_revision(n))>>
      BY <1>1, <2>1
    <3>2. n \in 0..INT32_MAX => data_revision(n) = Number(n)
      BY Int32Kept, Widths DEF data_revision, INT32_MIN, INT32_MAX
    <3> QED  BY <3>1, <3>2 DEF NumbersArrive, Told
  <2>2. CASE method # "checkout"
    BY <1>1, <2>2, SameNumbers DEF CallInv
  <2> QED  BY <2>1, <2>2
<1> QED  BY <1>1, <1>2, <1>3, <1>4, <1>5 DEF CallInv

\* Steps that leave the arguments, the numbers and the error alone.
LEMMA ArgumentsStay ==
    ASSUME CallInv, UNCHANGED <<method, given, captured, passed, numbers, raised>>,
           \/ stage' = stage
           \/ stage = "converting" /\ stage' = "working" /\ Len(given) = Len(Parameters)
           \/ stage = "working" /\ stage' = "in_svn" /\ Len(passed) = Len(Parameters)
           \/ stage \in {"returned", "failed"} /\ stage' = "over"
    PROVE  ArgumentsInv' /\ ErrorCaused' /\ NumbersArrive'
<1>1. /\ Parameters' = Parameters
      /\ AllProper' <=> AllProper
      /\ \A i : (Taken(i)' <=> Taken(i)) /\ (Handed(i)' <=> Handed(i))
  BY SameArguments
<1>2. ErrorCaused' /\ NumbersArrive'
  BY <1>1, SameNumbers DEF CallInv, ErrorCaused
<1>3. ArgumentsInv'
  BY <1>1 DEF CallInv, ArgumentsInv
<1> QED  BY <1>2, <1>3

\* Steps that neither take an argument nor tell of it nor have to do with an error.
LEMMA CallOnItsWay ==
    ASSUME CallInv, IInv, UNCHANGED <<errorVars, method, given, captured, passed, reports>>,
           NumbersArrive',
           \/ UNCHANGED <<stage, memory>>
           \/ /\ stage = "converting" /\ stage' = "working" /\ Len(given) = Len(Parameters)
              /\ memory' = {"captured", "pool"}
           \/ /\ stage = "working" /\ stage' = "in_svn" /\ Len(passed) = Len(Parameters)
              /\ UNCHANGED memory
    PROVE  CallInv'
<1>1. UNCHANGED <<step, raised>>
  BY DEF errorVars
<1>2. /\ Parameters' = Parameters
      /\ AllProper' <=> AllProper
      /\ \A i : (Taken(i)' <=> Taken(i)) /\ (Handed(i)' <=> Handed(i))
  BY SameArguments
<1>3. ErrorCaused'
  BY <1>1, <1>2 DEF CallInv, ErrorCaused
<1>4. ArgumentsInv'
  BY <1>2 DEF CallInv, ArgumentsInv
<1>5. stage' \in {"none", "converting", "working", "in_svn", "returned", "failed", "over"}
  BY DEF CallInv
<1>6. MemoryInv'
  BY DEF CallInv, MemoryInv
<1>7. Refused' <=> Refused
  BY <1>2 DEF Refused
<1>8. AnswersInv'
  BY <1>1, <1>7 DEF CallInv, AnswersInv
<1> QED  BY <1>3, <1>4, <1>5, <1>6, <1>8 DEF CallInv

\* A line of blame: its numbers arrive.
LEMMA LineArrives ==
    ASSUME NEW line, NEW revision,
           numbers' = <<Told(line, "line", data_int64(line)),
                        Told(revision, "optional", data_optional_revision(revision))>>
    PROVE  NumbersArrive'
<1>1. ASSUME line \in 0..INT32_MAX
      PROVE  data_int64(line) = Number(line)
  <2>1. ~(line > INT32_MAX) /\ line \in INT32_MIN..INT32_MAX
    BY <1>1, Widths DEF INT32_MIN, INT32_MAX
  <2> QED  BY <2>1, Int32Kept DEF data_int64
<1>2. /\ revision = -1 => data_optional_revision(revision).kind = "undefined"
      /\ revision \in 0..INT32_MAX => data_optional_revision(revision) = Number(revision)
  <2>1. ASSUME revision \in 0..INT32_MAX
        PROVE  data_optional_revision(revision) = Number(revision)
    <3>1. revision # -1 /\ revision \in INT32_MIN..INT32_MAX
      BY <2>1, Widths DEF INT32_MIN, INT32_MAX
    <3> QED  BY <3>1, Int32Kept DEF data_optional_revision, data_revision
  <2> QED  BY <2>1 DEF data_optional_revision
<1>3. ASSUME NEW i \in DOMAIN numbers'
      PROVE  LET told == numbers'[i]
             IN  /\ told.as = "optional" /\ told.n = -1 => told.js.kind = "undefined"
                 /\ told.n \in 0..INT32_MAX => told.js = Number(told.n)
  <2>1. i \in {1, 2}
    OBVIOUS
  <2>2. CASE i = 1
    <3> DEFINE js_ == data_int64(line)
    <3> HIDE DEF js_
    <3>1. numbers'[i] = [n |-> line, as |-> "line", js |-> js_]
      BY <2>2 DEF Told, js_
    <3> QED  BY <1>1, <3>1 DEF js_
  <2>3. CASE i = 2
    <3> DEFINE js_ == data_optional_revision(revision)
    <3> HIDE DEF js_
    <3>1. numbers'[i] = [n |-> revision, as |-> "optional", js |-> js_]
      BY <2>3 DEF Told, js_
    <3> QED  BY <1>2, <3>1 DEF js_
  <2> QED  BY <2>1, <2>2, <2>3
<1> QED  BY <1>3 DEF NumbersArrive

\* A call begins.
LEMMA CallBegins ==
    ASSUME CallInv, IInv, NEW m \in DOMAIN ParametersOf, Call(m)
    PROVE  CallInv'
<1>1. /\ stage = "none" /\ stage' = "converting" /\ method' = m
      /\ given = <<>> /\ reports = <<>> /\ raised = <<>> /\ step = "none"
      /\ UNCHANGED <<given, captured, passed, memory, numbers, reports, raised, step>>
  BY DEF Call, CallInv, ArgumentsInv, AnswersInv, IInv, errorVars
<1>2. captured = <<>> /\ passed = <<>>
  <2>1. /\ Tuple(given) /\ Tuple(captured) /\ Tuple(passed)
        /\ Len(passed) <= Len(captured) /\ Len(captured) <= Len(given)
    BY DEF CallInv, ArgumentsInv
  <2>2. /\ Len(given) = 0 /\ Len(captured) \in Nat /\ Len(passed) \in Nat
    BY <1>1, <2>1, TupleDomain
  <2>3. Len(captured) = 0 /\ Len(passed) = 0
    BY <2>1, <2>2
  <2> QED  BY <2>1, <2>3, TupleDomain
<1>3. Len(Parameters') \in Nat
  BY <1>1, Declared DEF Parameters
<1>4. ArgumentsInv'
  <2>1. 1..0 = {}
    OBVIOUS
  <2> QED  BY <1>1, <1>2, <1>3, <2>1, NoTuple DEF ArgumentsInv
<1>5. MemoryInv' /\ ErrorCaused' /\ AnswersInv' /\ NumbersArrive'
  BY <1>1, SameNumbers DEF CallInv, MemoryInv, ErrorCaused, AnswersInv
<1> QED  BY <1>1, <1>4, <1>5 DEF CallInv

\* What is raised stays what it is as the error travels, and it is told once.
LEMMA ErrorOnItsWay ==
    ASSUME CallInv, IInv, stage = "failed",
           UNCHANGED <<raised, method, given, captured, passed, numbers>>,
           step' # "none",
           \/ /\ UNCHANGED <<stage, memory, reports>>
              /\ step \in {"told", "handled", "over"} <=> step' \in {"told", "handled", "over"}
           \/ /\ UNCHANGED <<stage, memory>> /\ step = "caught" /\ step' = "told"
              /\ reports' = Append(reports, "rejected")
           \/ /\ stage' = "over" /\ memory' = {} /\ step = "handled" /\ UNCHANGED reports
    PROVE  CallInv'
<1>1. ArgumentsInv' /\ ErrorCaused' /\ NumbersArrive'
  BY ArgumentsStay
<1>2. raised # <<>> /\ step # "none"
  BY DEF IInv, CallInv, AnswersInv
<1>3. reports = IF step \in {"told", "handled", "over"} THEN <<"rejected">> ELSE <<>>
  BY DEF CallInv, AnswersInv
<1>4. Append(<<>>, "rejected") = <<"rejected">>
  OBVIOUS
<1>5. AnswersInv'
  BY <1>2, <1>3, <1>4 DEF AnswersInv
<1>6. MemoryInv'
  BY DEF CallInv, MemoryInv
<1> QED  BY <1>1, <1>5, <1>6 DEF CallInv

\* Every step keeps it.
LEMMA CallGoesOn == IInv /\ CallInv /\ [Next]_vars => CallInv'
<1> SUFFICES ASSUME IInv, CallInv, [Next]_vars
             PROVE  CallInv'
  OBVIOUS
<1>0. NumbersArrive
  BY DEF CallInv
<1>1. CASE UNCHANGED vars
  <2>1. UNCHANGED <<errorVars, method, given, captured, passed, reports, stage, memory, numbers>>
    BY <1>1 DEF vars, errorVars
  <2> QED  BY <1>0, <2>1, SameNumbers, CallOnItsWay
<1>2. CASE LoopThread
  <2>1. ASSUME NEW m \in DOMAIN ParametersOf, Call(m)
        PROVE  CallInv'
    BY <2>1, CallBegins
  <2>2. ASSUME NEW v \in Inputs(Wanted.kind), ConvertArgument(v)
        PROVE  CallInv'
    BY <2>2, ArgumentConverted
  <2>3. ASSUME NEW v \in Inputs(Wanted.kind), ArgumentRefused(v)
        PROVE  CallInv'
    BY <2>3, ArgumentTurnedDown
  <2>4. CASE QueueWork
    <3>1. /\ UNCHANGED <<errorVars, method, given, captured, passed, reports, numbers>>
          /\ stage = "converting" /\ stage' = "working" /\ Len(given) = Len(Parameters)
          /\ memory' = {"captured", "pool"}
      BY <2>4 DEF QueueWork, Looked
    <3> QED  BY <1>0, <3>1, SameNumbers, CallOnItsWay
  <2>5. CASE AfterWork
    <3>1. /\ UNCHANGED <<method, given, captured, passed, numbers, raised, step>>
          /\ stage = "returned" /\ stage' = "over" /\ memory' = {}
          /\ reports = <<>> /\ reports' = <<"resolved">> /\ raised = <<>> /\ step = "none"
      BY <2>5 DEF AfterWork, IInv, CallInv, AnswersInv, errorVars
    <3>2. ArgumentsInv' /\ ErrorCaused' /\ NumbersArrive'
      BY <3>1, ArgumentsStay
    <3>3. AnswersInv' /\ MemoryInv'
      BY <3>1 DEF AnswersInv, MemoryInv
    <3> QED  BY <3>1, <3>2, <3>3 DEF CallInv
  <2>6. CASE AfterWorkRejects
    <3>1. /\ stage = "failed" /\ step = "caught" /\ step' = "told"
          /\ UNCHANGED <<raised, method, stage, given, captured, memory, passed, numbers>>
          /\ reports' = Append(reports, "rejected")
      BY <2>6 DEF AfterWorkRejects, CopyToJavaScript
    <3> QED  BY <3>1, ErrorOnItsWay
  <2>7. CASE WorkDeleted
    <3>1. /\ stage = "failed" /\ stage' = "over" /\ step = "handled" /\ step' = "over"
          /\ memory' = {}
          /\ UNCHANGED <<raised, method, given, captured, passed, numbers, reports>>
      BY <2>7 DEF WorkDeleted, DestroyStored
    <3> QED  BY <3>1, ErrorOnItsWay
  <2> QED  BY <1>2, <2>1, <2>2, <2>3, <2>4, <2>5, <2>6, <2>7 DEF LoopThread
<1>3. CASE PoolThread
  <2>1. CASE ConvertForSvn
    BY <2>1, ArgumentPassed
  <2>2. CASE ConversionFails
    BY <2>2, ArgumentUnfit
  <2>3. CASE CallSvn
    <3>1. /\ UNCHANGED <<errorVars, method, given, captured, passed, reports, numbers, memory>>
          /\ stage = "working" /\ stage' = "in_svn" /\ Len(passed) = Len(Parameters)
      BY <2>3 DEF CallSvn
    <3> QED  BY <1>0, <3>1, SameNumbers, CallOnItsWay
  <2>4. ASSUME NEW chain \in Chains, NoAbsolutePath(chain)
        PROVE  CallInv'
    <3>1. RaiseError(chain) /\ Leave("failed") /\ UNCHANGED numbers /\ stage = "working"
      BY <2>4 DEF NoAbsolutePath, Converting
    <3> QED  BY <3>1, OperationFails
  <2>5. ASSUME NEW chain \in Chains, SvnFails(chain)
        PROVE  CallInv'
    <3>1. RaiseError(chain) /\ Leave("failed") /\ UNCHANGED numbers /\ stage = "in_svn"
      BY <2>5 DEF SvnFails
    <3> QED  BY <3>1, OperationFails
  <2>6. ASSUME NEW line \in Results, NEW revision \in Results, ReportLine(line, revision)
        PROVE  CallInv'
    <3>1. UNCHANGED <<errorVars, method, given, captured, passed, reports, stage, memory>>
      BY <2>6 DEF ReportLine
    <3>2. NumbersArrive'
      BY <2>6, LineArrives DEF ReportLine
    <3> QED  BY <3>1, <3>2, CallOnItsWay
  <2>7. ASSUME NEW n \in Results, SvnSucceeds(n)
        PROVE  CallInv'
    BY <2>7, OperationSucceeds
  <2>8. CASE ErrorTravels
    <3>1. /\ stage = "failed"
          /\ UNCHANGED <<method, stage, given, captured, memory, passed, numbers, reports>>
      BY <2>8 DEF ErrorTravels
    <3>2. /\ UNCHANGED raised
          /\ step' # "none"
          /\ step \in {"told", "handled", "over"} <=> step' \in {"told", "handled", "over"}
      BY <2>8 DEF ErrorTravels, CopyError, Throw, DestroyLocal, Store, DestroyThrown, Rethrow,
                  DestroyCaught
    <3> QED  BY <3>1, <3>2, ErrorOnItsWay
  <2> QED  BY <1>3, <2>1, <2>2, <2>3, <2>4, <2>5, <2>6, <2>7, <2>8 DEF PoolThread
<1> QED  BY <1>1, <1>2, <1>3 DEF Next

\* So it always holds, along with what is known of the error and of long.
LEMMA CallAlways == Spec => [](CallInv /\ LongInv)
<1>1. Init => CallInv /\ LongInv
  BY CallStarts DEF Init, LongInv
<1>2. LongInv /\ [Next]_vars => LongInv'
  <2> SUFFICES ASSUME [Next]_vars
               PROVE  long64' = long64
    BY DEF LongInv
  <2>1. CASE UNCHANGED vars
    BY <2>1 DEF vars
  <2>2. CASE LoopThread
    BY <2>2 DEF LoopThread, Call, ConvertArgument, ArgumentRefused, QueueWork, AfterWork,
                AfterWorkRejects, WorkDeleted
  <2>3. CASE PoolThread
    BY <2>3 DEF PoolThread, ConvertForSvn, ConversionFails, CallSvn, NoAbsolutePath, SvnFails,
                ReportLine, SvnSucceeds, Leave, ErrorTravels
  <2> QED  BY <2>1, <2>2, <2>3 DEF Next
<1> QED  BY <1>1, <1>2, CallGoesOn, Always, PTL DEF Spec

-----------------------------------------------------------------------------
(* The theorems. *)

\* Type correctness: the pool is there while the operation runs, the captured
\* arguments until after_work, and no more is passed than was captured.
THEOREM TypeCorrect == Spec => []TypeOK
<1>1. IInv /\ CallInv => TypeOK
  <2> SUFFICES ASSUME IInv, CallInv
               PROVE  TypeOK
    OBVIOUS
  <2>1. /\ stage \in {"none", "converting", "working", "in_svn", "returned", "failed", "over"}
        /\ step = "none" <=> raised = <<>>
        /\ Len(passed) <= Len(captured) /\ Len(captured) <= Len(given)
    BY DEF CallInv, ArgumentsInv, AnswersInv
  <2>2. /\ memory \subseteq {"captured", "pool"}
        /\ "captured" \in memory <=> stage \in {"working", "in_svn", "returned", "failed"}
        /\ "pool" \in memory <=> stage \in {"working", "in_svn"}
    BY <2>1 DEF CallInv, MemoryInv
  <2> QED  BY <2>1, <2>2 DEF TypeOK
<1> QED  BY <1>1, Always, CallAlways, PTL

\* In Subversion, what was taken and handed on, for each parameter.
LEMMA InSvn ==
    ASSUME CallInv, stage = "in_svn"
    PROVE  /\ DOMAIN Parameters = 1..Len(Parameters)
           /\ DOMAIN given = DOMAIN Parameters
           /\ memory = {"captured", "pool"}
           /\ \A i \in DOMAIN Parameters :
                 /\ Parameters[i].kind \in Kinds
                 /\ given[i] \in Inputs(Parameters[i].kind)
                 /\ FromJavaScript(Parameters[i], given[i]) = Ok(captured[i])
                 /\ ForSvn(Parameters[i], captured[i]) = Ok(passed[i])
<1>1. /\ method \in DOMAIN ParametersOf
      /\ Tuple(given)
      /\ Len(captured) = Len(given) /\ Len(given) = Len(Parameters)
      /\ Len(passed) = Len(Parameters)
      /\ \A i \in 1..Len(captured) : Taken(i)
      /\ \A i \in 1..Len(passed) : Handed(i)
      /\ memory = {"captured", "pool"}
  BY DEF CallInv, ArgumentsInv, MemoryInv
<1>2. /\ DOMAIN Parameters = 1..Len(Parameters)
      /\ \A i \in 1..Len(Parameters) : Parameters[i].kind \in Kinds
  BY <1>1, Declared DEF Parameters
<1>3. DOMAIN given = DOMAIN Parameters
  BY <1>1, <1>2, TupleDomain
<1> QED  BY <1>1, <1>2, <1>3 DEF Taken, Handed

\* In Subversion every required string reads as the program gave it, however
\* many there are.
THEOREM WhatArrives == Spec => []ArgumentsArrive
<1>1. CallInv => ArgumentsArrive
  <2> SUFFICES ASSUME CallInv, stage = "in_svn", NEW i \in DOMAIN Parameters
               PROVE  /\ Parameters[i].kind \in {"path", "url", "plain"} =>
                            Reads(passed[i]) = {given[i]}
                      /\ Parameters[i].kind = "paths" =>
                            /\ DOMAIN passed[i] = DOMAIN given[i].items
                            /\ \A k \in DOMAIN passed[i] :
                                  Reads(passed[i][k]) = {given[i].items[k]}
    BY DEF ArgumentsArrive
  <2>1. /\ memory = {"captured", "pool"}
        /\ given[i] \in Inputs(Parameters[i].kind)
        /\ FromJavaScript(Parameters[i], given[i]) = Ok(captured[i])
        /\ ForSvn(Parameters[i], captured[i]) = Ok(passed[i])
    BY InSvn
  <2>2. CASE Parameters[i].kind \in {"path", "url", "plain"}
    <3>1. given[i] \in JsStrings
      BY <2>1, <2>2 DEF Inputs
    <3> QED  BY <2>1, <2>2, <3>1, StringArrives
  <2>3. CASE Parameters[i].kind = "paths"
    <3>1. given[i] \in JsArrays
      BY <2>1, <2>3 DEF Inputs
    <3> QED  BY <2>1, <2>3, <3>1, ArrayArrives
  <2> QED  BY <2>2, <2>3
<1> QED  BY <1>1, CallAlways, PTL

\* For integers of any width: dates, and where long is an int32_t revisions that
\* fit it, are what Subversion sees; lines and revisions of 0 to INT32_MAX are
\* what the program is told, and undefined for -1 of an optional revision.
THEOREM WhatCounts == Spec => []ValuesArrive
<1>1. CallInv /\ LongInv => ValuesArrive
  <2> SUFFICES ASSUME CallInv, long64 \in BOOLEAN
               PROVE  RevisionsArrive /\ NumbersArrive
    BY DEF ValuesArrive, LongInv
  <2>1. ASSUME stage = "in_svn", NEW i \in DOMAIN Parameters, Parameters[i].kind = "revision"
        PROVE  RevisionArrives(given[i], passed[i])
    <3>1. /\ given[i] \in Inputs(Parameters[i].kind)
          /\ FromJavaScript(Parameters[i], given[i]) = Ok(captured[i])
          /\ ForSvn(Parameters[i], captured[i]) = Ok(passed[i])
      BY <2>1, InSvn
    <3>2. given[i] \in JsRevisions
      BY <2>1, <3>1 DEF Inputs
    <3>3. convert_revision(given[i], Parameters[i].default) = Ok(captured[i])
      BY <2>1, <3>1 DEF FromJavaScript
    <3>4. passed[i] = convert_from_revision(captured[i])
      BY <2>1, <3>1, Outcomes DEF ForSvn
    <3> QED  BY <3>2, <3>3, <3>4, RevisionSeen
  <2>2. ASSUME stage = "in_svn", NEW i \in DOMAIN Parameters, Parameters[i].kind = "ranges",
               passed[i] # <<>>
        PROVE  /\ RevisionArrives(given[i].start, passed[i][1])
               /\ RevisionArrives(given[i].end, passed[i][2])
    <3> DEFINE v == given[i]
               start == convert_revision(v.start, KindRevision("unspecified"))
               end == convert_revision(v.end, KindRevision("unspecified"))
    <3>1. /\ v \in JsRanges
          /\ convert_revision_ranges(v) = Ok(captured[i])
          /\ Ok(convert_from_revision_ranges(captured[i])) = Ok(passed[i])
      BY <2>2, InSvn DEF Inputs, FromJavaScript, ForSvn
    <3>2. passed[i] = convert_from_revision_ranges(captured[i])
      BY <3>1, Outcomes
    <3>3. v.kind = "object"
      <4>1. ASSUME v.kind # "object"
            PROVE  captured[i] = <<>>
        BY <3>1, <4>1, Outcomes DEF convert_revision_ranges
      <4> QED  BY <2>2, <3>2, <4>1 DEF convert_from_revision_ranges
    <3>4. /\ v.start \in JsRevisions /\ v.end \in JsRevisions
          /\ start.is = "ok" /\ end.is = "ok"
          /\ captured[i] = <<start.value, end.value>>
      BY <3>1, <3>3, RangeAccepted, Outcomes, ZenonT(60)
    <3>5. start = Ok(start.value) /\ end = Ok(end.value)
      BY <3>4, RevisionMeant
    <3>6. /\ RevisionArrives(v.start, convert_from_revision(start.value))
          /\ RevisionArrives(v.end, convert_from_revision(end.value))
      BY <3>4, <3>5, RevisionSeen
    <3>7. /\ passed[i][1] = convert_from_revision(start.value)
          /\ passed[i][2] = convert_from_revision(end.value)
      BY <3>2, <3>4 DEF convert_from_revision_ranges
    <3> QED  BY <3>6, <3>7
  <2>3. RevisionsArrive
    BY <2>1, <2>2 DEF RevisionsArrive
  <2> QED  BY <2>3 DEF CallInv
<1> QED  BY <1>1, CallAlways, PTL

\* A call is refused exactly if an argument is improper, for every mixture of
\* arguments of every method.
THEOREM RefusedForACause == Spec => []RefusedExactly
<1>1. CallInv => RefusedExactly
  <2> SUFFICES ASSUME CallInv
               PROVE  RefusedExactly
    OBVIOUS
  <2>1. ASSUME stage = "in_svn"
        PROVE  AllProper
    <3>1. ASSUME NEW i \in DOMAIN given
          PROVE  Proper(Parameters[i].kind, given[i])
      <4>1. /\ Parameters[i].kind \in Kinds
            /\ given[i] \in Inputs(Parameters[i].kind)
            /\ FromJavaScript(Parameters[i], given[i]) = Ok(captured[i])
            /\ ForSvn(Parameters[i], captured[i]) = Ok(passed[i])
        BY <2>1, InSvn
      <4>2. Accepted(Parameters[i], given[i])
        BY <4>1, Outcomes DEF Accepted
      <4> QED  BY <4>1, <4>2, ProperIsAccepted
    <3> QED  BY <3>1 DEF AllProper
  <2>2. stage = "over" /\ raised = <<>> /\ reports # <<"resolved">> => ~AllProper
    BY DEF CallInv, AnswersInv, Refused
  <2>3. raised # <<>> /\ raised[1].code = TypeErrorCode => ~AllProper
    BY DEF CallInv, ErrorCaused
  <2> QED  BY <2>1, <2>2, <2>3 DEF RefusedExactly
<1> QED  BY <1>1, CallAlways, PTL

\* However a call ends, the program is told once, and of success exactly if
\* there was no error.
THEOREM ToldOnce == Spec => []AnsweredOnce
<1>1. CallInv => AnsweredOnce
  <2> SUFFICES ASSUME CallInv
               PROVE  AnsweredOnce
    OBVIOUS
  <2>1. /\ stage = "over" =>
              IF raised # <<>> THEN reports = <<"rejected">>
                               ELSE reports = <<"resolved">> \/ Refused
        /\ stage = "failed" =>
              reports = IF step \in {"told", "handled", "over"} THEN <<"rejected">> ELSE <<>>
        /\ stage \notin {"failed", "over"} => reports = <<>>
        /\ raised # <<>> => stage \in {"failed", "over"}
        /\ stage = "failed" => raised # <<>> \/ reports = <<>>
    BY DEF CallInv, AnswersInv
  <2>2. reports \in {<<>>, <<"rejected">>, <<"resolved">>, <<"TypeError">>, <<"Error">>}
    BY <2>1 DEF Refused
  <2>3. Len(reports) <= 1
    BY <2>2
  <2>4. stage = "over" => reports # <<>>
    BY <2>1 DEF Refused
  <2>5. <<"resolved">> # <<>> /\ <<"resolved">> # <<"rejected">>
    OBVIOUS
  <2>6. reports = <<"resolved">> => raised = <<>>
    BY <2>1, <2>5
  <2>7. reports = <<"rejected">> /\ raised = <<>> => method \in Macros
    <3>1. <<"rejected">> # <<"TypeError">> /\ <<"rejected">> # <<"Error">> /\ <<"rejected">> # <<>>
      OBVIOUS
    <3> QED  BY <2>1, <2>5, <3>1 DEF Refused
  <2> QED  BY <2>3, <2>4, <2>6, <2>7 DEF AnsweredOnce
<1> QED  BY <1>1, CallAlways, PTL
=============================================================================
