--------------------------- MODULE PermissionGate ---------------------------
(***************************************************************************)
(* The permission model of internal/core: how a capability call, the       *)
(* installer's policy, the temporal arming grants, the session grants and   *)
(* the recent-action history combine into one decision.  Everything here   *)
(* is a pure function of its arguments, as in the code; the modules that   *)
(* keep the state (the daemon, the one-shot CLI) apply these operators.    *)
(*                                                                         *)
(* Instants are natural numbers in one unit.  A capability is its id; its  *)
(* access kind and its risk tier are functions of the id.                  *)
(***************************************************************************)
EXTENDS Integers, FiniteSets

CONSTANTS
    Cap,            \* ids of the registered capabilities
    Access,         \* access kinds
    Risk,           \* risk tiers
    AccessOf,       \* Capability.Access()
    RiskOf,         \* Capability.Risk()
    ByCapID,        \* PolicyRules.ByCapID: some ids to rules
    ByAccess,       \* PolicyRules.ByAccess: some access kinds to rules
    ByRisk,         \* PolicyRules.ByRisk: some risk tiers to rules
    DefaultRule,    \* PolicyRules.Default
    DefaultArmFor,  \* PolicyRules.DefaultArmFor
    Window,         \* DoomLoopWindow
    Threshold       \* DoomLoopThreshold

Decision == {"ask", "allow", "deny"}

Rule == [decision : Decision, requiresArming : BOOLEAN, armFor : Nat]

\* A Go map from K to V: a function on some of the keys.
IsMap(f, K, V) == DOMAIN f \subseteq K /\ f \in [DOMAIN f -> V]

ASSUME GateAssumption ==
    /\ AccessOf \in [Cap -> Access]
    /\ RiskOf \in [Cap -> Risk]
    /\ IsMap(ByCapID, Cap, Rule)
    /\ IsMap(ByAccess, Access, Rule)
    /\ IsMap(ByRisk, Risk, Rule)
    /\ DefaultRule \in Rule
    /\ DefaultArmFor \in Nat
    /\ Window \in Nat
    /\ Threshold \in Nat

-----------------------------------------------------------------------------
(* Policy: the most specific rule that exists wins as a whole.             *)

Resolve(c) ==
    CASE c \in DOMAIN ByCapID            -> ByCapID[c]
      [] /\ c \notin DOMAIN ByCapID
         /\ AccessOf[c] \in DOMAIN ByAccess -> ByAccess[AccessOf[c]]
      [] /\ c \notin DOMAIN ByCapID
         /\ AccessOf[c] \notin DOMAIN ByAccess
         /\ RiskOf[c] \in DOMAIN ByRisk  -> ByRisk[RiskOf[c]]
      [] OTHER                           -> DefaultRule

ArmFor(c) ==
    IF c \in DOMAIN ByCapID /\ ByCapID[c].armFor > 0
    THEN ByCapID[c].armFor
    ELSE DefaultArmFor

-----------------------------------------------------------------------------
(* Arming grants: a map from capability id to the instant it expires.      *)

IsArmState(arm) == IsMap(arm, Cap, Nat)

IsArmed(arm, c, t) == c \in DOMAIN arm /\ t < arm[c]

Arm(arm, c, t, dur) ==
    [x \in DOMAIN arm \cup {c} |-> IF x = c THEN t + dur ELSE arm[x]]

Disarm(arm, c) == [x \in DOMAIN arm \ {c} |-> arm[x]]

\* Mutant of PruneArm: drops a grant one instant before it expires.
HastyPruneArm(arm, t) == [x \in {y \in DOMAIN arm : t + 1 < arm[y]} |-> arm[x]]

PruneArm(arm, t) == [x \in {y \in DOMAIN arm : t < arm[y]} |-> arm[x]]

-----------------------------------------------------------------------------
(* Decisions.                                                              *)

Evaluate(arm, c, t) ==
    IF Resolve(c).requiresArming /\ ~IsArmed(arm, c, t)
    THEN "deny"
    ELSE Resolve(c).decision

\* A session grant upgrades an ask to an allow and never touches a deny.
Decide(arm, session, c, t) ==
    IF Evaluate(arm, c, t) = "ask" /\ c \in session
    THEN "allow"
    ELSE Evaluate(arm, c, t)

-----------------------------------------------------------------------------
(* The doom-loop breaker.  The history is the code's slice of records,     *)
(* taken as a set: a record carries a serial number, so equal calls at one *)
(* instant stay distinct, and neither counting nor pruning looks at the    *)
(* order of the slice.                                                     *)

Recent(history, sig, t) ==
    {r \in history : r.sig = sig /\ r.at > t - Window}

\* Mutant of IsDoomLoop: forgets to count the call under decision.
LateDoomLoop(history, sig, t) ==
    /\ Threshold >= 2
    /\ Cardinality(Recent(history, sig, t)) >= Threshold

IsDoomLoop(history, sig, t) ==
    /\ Threshold >= 2
    /\ 1 + Cardinality(Recent(history, sig, t)) >= Threshold

\* Mutant of PruneActions: prunes records the window still reaches.
HastyPruneActions(history, t) == {r \in history : r.at > t - Window + 1}

PruneActions(history, t) == {r \in history : r.at > t - Window}

=============================================================================
