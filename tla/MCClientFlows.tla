---------------------------- MODULE MCClientFlows ----------------------------
(***************************************************************************)
(* Small instances of ClientFlows: "show" is allowed, "lock" asks, "exec"  *)
(* is allowed while armed.                                                 *)
(***************************************************************************)
EXTENDS ClientFlows, TLC

MCCap == {"show", "lock", "exec"}
MCAccess == {"window", "command"}
MCRisk == {"safe"}
MCAccessOf == [c \in Cap |-> IF c = "show" THEN "window" ELSE "command"]
MCRiskOf == [c \in Cap |-> "safe"]

MCRule(d, gated, dur) == [decision |-> d, requiresArming |-> gated, armFor |-> dur]
MCByCapID == [c \in Cap \cap {"exec"} |-> MCRule("allow", TRUE, 1)]
MCByAccess == "window" :> MCRule("allow", FALSE, 0)
MCByRisk == [r \in {} |-> 0]
MCDefaultRule == MCRule("ask", FALSE, 0)

MCArg == {"a"}
MCUnknown == {"ghost"}
MCNone == {}
MCInitArm == [c \in Cap \cap {"exec"} |-> 1]
MCInitLog == {[sig |-> <<"show", "a">>, at |-> 0, id |-> -1, approved |-> FALSE]}

MCOps == {"run", "ask", "plan"}
MCAllKinds == {"ask", "plan", "do", "run"}

=============================================================================
