---------------------------- MODULE MCSvnContext ----------------------------
(***************************************************************************)
(* SvnContext for TLC.                                                     *)
(***************************************************************************)
EXTENDS SvnContext, TLC

Symmetry == Permutations(Ops)

\* One of each kind: message and notifications, notifications, callback, none.
OneOfEachKind == {commit, update, status, add}

AllKinds ==
    {add_to_changelist, get_changelists, remove_from_changelists, add, blame, cat,
     checkout, cleanup, commit, info, log, remove, resolve, revert, status, update,
     get_working_copy_root}

\* Every operation is of one of those kinds.
ASSUME KindsCovered ==
    \A k \in AllKinds : \E l \in OneOfEachKind :
        k.notify = l.notify /\ k.message = l.message /\ k.callback = l.callback
=============================================================================
