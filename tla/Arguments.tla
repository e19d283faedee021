----------------------------- MODULE Arguments -----------------------------
(***************************************************************************)
(* The conversions of a method's arguments: from JavaScript to C++ on the  *)
(* loop thread (src/node/type_conversion.hpp, src/node/node_client.cpp),   *)
(* from C++ to Subversion on the pool thread (src/cpp/type_conversion.hpp),*)
(* and of numbers from Subversion to JavaScript (src/node/v8.hpp).         *)
(*                                                                         *)
(* A string is one of the kinds the code tells apart.  Half stands for     *)
(* 2^31: int32_t holds -Half..Half - 1, and int64_t has twice its bits; a  *)
(* small Half brings INT32_MAX and friends within reach.                   *)
(***************************************************************************)
EXTENDS Integers, Sequences, SequencesExt

CONSTANTS
    Half,       \* half as many numbers as int32_t holds
    Numbers,    \* the numbers and
    Dates,      \* the dates a program passes for revisions
    MaxItems    \* bound on the length of an array a program passes

ASSUME HalfAssumption == Half \in Nat \ {0}

\* Half as many numbers as int64_t holds: 2^63.
Half64 == Half * (2 * Half)

\* The number of a type of 2 * half numbers whose bits are those of an unsigned one.
Signed(bits, half) == IF bits >= half THEN bits - 2 * half ELSE bits

INT32_MAX == Half - 1
INT32_MIN == -Half

ASSUME RangeAssumption == Numbers \cup Dates \subseteq (-Half64)..(Half64 - 1)

\* Int32Value of V8, and the casts to int32_t.
Int32(n) == Signed(n % (2 * Half), Half)

\* Conversions return a value or throw.
Ok(v) == [is |-> "ok", value |-> v]
TypeError == [is |-> "type_error"]            \* no::type_error
SvnTypeError == [is |-> "svn_type_error"]     \* svn::svn_type_error

-----------------------------------------------------------------------------
(* From JavaScript to C++. *)

Strings == {"empty", "path", "url"}

\* What a program may pass where one string belongs: a string, one with a null
\* character, or something else.
JsStrings == Strings \cup {"nul", "other"}

convert_string(s) == IF s \in Strings THEN Ok(s) ELSE TypeError

\* And where strings belong.
JsArrays ==
    [kind : {"undefined", "other"}, items : {<<>>}]
    \cup [kind : {"string"}, items : {<<s>> : s \in JsStrings \ {"other"}}]
    \cup [kind : {"array"}, items : UNION {[1..n -> JsStrings] : n \in 0..MaxItems}]

convert_array(v, allowEmpty) ==
    CASE v.kind = "undefined" -> IF allowEmpty THEN Ok(<<>>) ELSE TypeError
      [] v.kind = "other" -> TypeError
      [] OTHER -> IF \A i \in DOMAIN v.items : convert_string(v.items[i]).is = "ok"
                    THEN Ok(v.items) ELSE TypeError

\* depth, force, limit and the other options: the type fits, or not.
JsOptions == {"undefined", "fits", "other"}

convert_option(v) == IF v = "other" THEN TypeError ELSE Ok(v)

KindsByName == {"unspecified", "committed", "previous", "base", "working", "head"}

\* svn::revision: its kind and the bytes its union may hold.
KindRevision(kind) == [kind |-> kind, bytes |-> {0}]

\* Only the int32_t is initialised, the bytes above it are whatever was there.
NumberRevision(n) ==
    [kind |-> "number",
     bytes |-> {(n % (2 * Half)) + high * (2 * Half) : high \in 0..(2 * Half - 1)}]

DateRevision(d) == [kind |-> "date", bytes |-> {d % (2 * Half64)}]

\* What a program may pass for a revision: a kind, a number or date in an
\* object, or something that has no meaning.  "number" and "date" are kinds of
\* the enumeration that need a value.
JsRevisions ==
    [kind : {"undefined", "other", "object"}]
    \cup [kind : {"kind"}, name : {"working", "unspecified", "number"}]
    \cup [kind : {"number"}, n : Numbers]
    \cup [kind : {"date"}, n : Dates]

convert_revision(v, default) ==
    CASE v.kind = "undefined" -> Ok(default)
      [] v.kind = "kind" -> IF v.name \in KindsByName THEN Ok(KindRevision(v.name))
                                                      ELSE SvnTypeError
      [] v.kind = "number" -> Ok(NumberRevision(Int32(v.n)))
      [] v.kind = "date" -> Ok(DateRevision(v.n))
      [] OTHER -> TypeError

\* One range or none; what is neither an array nor an object is not looked at.
JsRanges ==
    [kind : {"undefined", "other"}]
    \cup [kind : {"object"}, start : JsRevisions, end : JsRevisions]

convert_revision_ranges(v) ==
    IF v.kind # "object" THEN Ok(<<>>)
    ELSE LET unspecified == KindRevision("unspecified")
             start == convert_revision(v.start, unspecified)
             end == convert_revision(v.end, unspecified)
         IN  IF start.is # "ok" THEN start
             ELSE IF start.value = unspecified THEN TypeError
             ELSE IF end.is # "ok" THEN end
             ELSE IF end.value = unspecified THEN TypeError
             ELSE Ok(<<start.value, end.value>>)

-----------------------------------------------------------------------------
(* From C++ to Subversion.  A char pointer leads to a string in the pool of   *)
(* the operation, among the captured arguments, or in the variable of a loop. *)

InPool(s) == [text |-> s, at |-> "pool"]
Captured(s) == [text |-> s, at |-> "captured"]
InLoop(s) == [text |-> s, at |-> "loop"]

check_string(s) == s # "empty"

convert_from_string(s) == IF check_string(s) THEN Ok(Captured(s)) ELSE SvnTypeError

\* Made absolute in the pool.
convert_from_path(s) ==
    IF check_string(s) /\ s # "url" THEN Ok(InPool(s)) ELSE SvnTypeError

\* Made canonical in the pool.
convert_from_url(s) ==
    IF check_string(s) /\ s = "url" THEN Ok(InPool(s)) ELSE SvnTypeError

\* Fault: the loop's variable is passed on.
convert_from_paths_loop(v) ==
    IF v = <<>> \/ \E i \in DOMAIN v : convert_from_path(v[i]).is # "ok" THEN SvnTypeError
    ELSE Ok([i \in DOMAIN v |-> InLoop(v[i])])

\* A required list, with path = true.
convert_from_paths(v) ==
    IF v = <<>> \/ \E i \in DOMAIN v : convert_from_path(v[i]).is # "ok" THEN SvnTypeError
    ELSE Ok([i \in DOMAIN v |-> InPool(v[i])])

\* Fault: an optional list is taken for a required one.
convert_from_vector_required(v) ==
    IF v = <<>> \/ \E i \in DOMAIN v : ~check_string(v[i]) THEN SvnTypeError
    ELSE Ok([i \in DOMAIN v |-> InLoop(v[i])])

\* An optional list, with path = false: the loop's item is a copy, and what is
\* pushed is the pointer into that copy.
convert_from_vector(v) ==
    IF \E i \in DOMAIN v : ~check_string(v[i]) THEN SvnTypeError
    ELSE Ok([i \in DOMAIN v |-> InLoop(v[i])])

\* Fault: the date goes through an int32_t.
convert_from_revision_narrow(r) ==
    [kind |-> r.kind, bytes |-> {Int32(b) % (2 * Half64) : b \in r.bytes}]

\* Eight bytes are copied, whatever the kind.
convert_from_revision(r) == [kind |-> r.kind, bytes |-> r.bytes]

convert_from_revision_ranges(v) == [i \in DOMAIN v |-> convert_from_revision(v[i])]

\* The numbers Subversion may see in a svn_opt_revision_t: svn_revnum_t is a
\* long, of 64 bits or of 32, apr_time_t has 64.
Seen(r, long64) ==
    LET half == IF r.kind = "number" /\ ~long64 THEN Half ELSE Half64
    IN  {Signed(b % (2 * half), half) : b \in r.bytes}

-----------------------------------------------------------------------------
(* From Subversion to JavaScript. *)

Number(n) == [kind |-> "number", n |-> n]
Text(n) == [kind |-> "string", n |-> n]

\* An int64_t: a number, or a string when it is too large for an int32_t.
data_int64(n) == IF n > INT32_MAX THEN Text(n) ELSE Number(Int32(n))

\* A svn_revnum_t is cast.
data_revision(n) == Number(Int32(n))

\* A svn_revnum_t that may be SVN_INVALID_REVNUM.
data_optional_revision(n) ==
    IF n = -1 THEN [kind |-> "undefined"] ELSE data_revision(n)
=============================================================================
