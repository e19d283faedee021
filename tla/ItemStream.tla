----------------------------- MODULE ItemStream -----------------------------
(***************************************************************************)
(* What an iterable method of no::client promises to the `for await` loop  *)
(* that consumes it: the outcomes the operation sent are received in       *)
(* order, each once, and nothing follows the end or the error.  The        *)
(* operation never runs more than Capacity outcomes ahead of its consumer. *)
(***************************************************************************)
EXTENDS Naturals, Sequences

CONSTANT Capacity

VARIABLES
    sent,      \* the outcomes of the operation so far
    received   \* what the consumer has received so far

\* An outcome is an item and its number, the end, or an error.
Terminal(o) == o[1] # "item"

Ended(s) == s # <<>> /\ Terminal(s[Len(s)])

Init == sent = <<>> /\ received = <<>>

Send ==
    /\ ~Ended(sent)
    /\ Len(sent) - Len(received) < Capacity
    /\ \/ sent' = Append(sent, <<"item", Len(sent) + 1>>)
       \/ sent' = Append(sent, <<"done", 0>>)
       \/ sent' = Append(sent, <<"error", 0>>)
    /\ UNCHANGED received

Receive ==
    /\ Len(received) < Len(sent)
    /\ received' = Append(received, sent[Len(received) + 1])
    /\ UNCHANGED sent

Next == Send \/ Receive

Spec == Init /\ [][Next]_<<sent, received>>
=============================================================================
