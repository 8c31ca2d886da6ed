----------------------------- MODULE PolicyFiles -----------------------------
(***************************************************************************)
(* The files of internal/adapters/policyfile as their loaders read them:   *)
(* the arming grants (armed.json) and the action log (action-log.json).    *)
(* Both keep instants as RFC 3339 text, which drops the fraction of a      *)
(* second.                                                                 *)
(***************************************************************************)
EXTENDS PermissionGate

CONSTANT Second  \* instants per second: the resolution of the files

ASSUME FilesAssumption == Second \in Nat \ {0}

\* An instant as the files keep it.
FileTime(t) == t - (t % Second)

\* SaveActionLog.
Saved(h) == {[r EXCEPT !.at = FileTime(@)] : r \in h}

\* SaveArmState at t, which prunes before it writes.
SavedArm(arm, t) ==
    [c \in DOMAIN PruneArm(arm, t) |-> FileTime(arm[c])]

=============================================================================
