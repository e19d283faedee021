----------------------------- MODULE MCCallData -----------------------------
(***************************************************************************)
(* The instance of CallData that TLC checks: int32_t holds -2..1 and       *)
(* int64_t -8..7, so that numbers and dates of both signs, inside and      *)
(* outside of int32_t, are among few values.                               *)
(***************************************************************************)
EXTENDS CallData

MCResults == {-1, 1, 3}
MCNumbers == {-1, 1, 3}
MCDates == {-3, 6}
=============================================================================
