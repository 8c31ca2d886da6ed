---------------------------- MODULE MCSharedState ----------------------------
(***************************************************************************)
(* Small instances of SharedState: "show" is allowed, "exec" is allowed    *)
(* once armed, "lock" asks, "vault" asks once armed.                       *)
(***************************************************************************)
EXTENDS SharedState, TLC

MCExec == {"exec"}
MCVault == {"vault"}
MCAccess == {"window"}
MCRisk == {"safe"}
MCAccessOf == [c \in Cap |-> "window"]
MCRiskOf == [c \in Cap |-> "safe"]

MCRule(d, gated, dur) == [decision |-> d, requiresArming |-> gated, armFor |-> dur]
MCByCapID == [c \in Cap \ {"show"} |->
    CASE c = "exec" -> MCRule("allow", TRUE, 2)
      [] c = "vault" -> MCRule("ask", TRUE, 2)
      [] c = "lock" -> MCRule("ask", FALSE, 0)]
MCNoRule == [x \in {} |-> MCRule("deny", FALSE, 0)]
MCDefaultRule == MCRule("allow", FALSE, 0)

MCSymmetry == Permutations(Proc)

=============================================================================
