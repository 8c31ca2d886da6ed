-------------------------- MODULE MCRealtimeSession --------------------------
(***************************************************************************)
(* Small instances of RealtimeSession: "show" is allowed, "exec" is        *)
(* allowed while armed, "lock" asks.                                       *)
(***************************************************************************)
EXTENDS RealtimeSession, TLC

MCOneCap == {"show"}
MCGateCap == {"exec", "lock"}
MCUnknown == {"ghost"}
MCAccess == {"window"}
MCRisk == {"safe"}
MCAccessOf == [c \in Cap |-> "window"]
MCRiskOf == [c \in Cap |-> "safe"]

MCRule(d, gated, dur) == [decision |-> d, requiresArming |-> gated, armFor |-> dur]
MCByCapID == [c \in Cap \ {"show"} |->
    IF c = "exec" THEN MCRule("allow", TRUE, 2) ELSE MCRule("ask", FALSE, 0)]
MCNoRule == [x \in {} |-> MCRule("deny", FALSE, 0)]
MCDefaultRule == MCRule("allow", FALSE, 0)
MCGrants == [c \in Cap \cap {"exec"} |-> 1]

=============================================================================
