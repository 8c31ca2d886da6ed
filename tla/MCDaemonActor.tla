---------------------------- MODULE MCDaemonActor ----------------------------
(***************************************************************************)
(* Small instances of DaemonActor.  The policy uses every level of the     *)
(* precedence: "show" is allowed by its risk tier, "lock" asks through its  *)
(* access kind, "exec" is allowed by id once armed, "wipe" falls through   *)
(* to a default that denies.                                               *)
(***************************************************************************)
EXTENDS DaemonActor, TLC

MCGateCap == {"show", "lock", "exec"}
MCAllCap == {"show", "lock", "exec", "wipe"}
MCFewCap == {"show", "lock"}
MCAccess == {"window", "command"}
MCRisk == {"safe", "confirm"}
MCAccessOf == [c \in Cap |-> IF c \in {"lock", "exec"} THEN "command" ELSE "window"]
MCRiskOf == [c \in Cap |-> IF c = "show" THEN "safe" ELSE "confirm"]

MCRule(d, gated, dur) == [decision |-> d, requiresArming |-> gated, armFor |-> dur]
MCByCapID == [c \in Cap \cap {"exec"} |-> MCRule("allow", TRUE, 2)]
MCByAccess == "command" :> MCRule("ask", FALSE, 0)
MCByRisk == "safe" :> MCRule("allow", FALSE, 0)
MCDefaultRule == MCRule("deny", FALSE, 0)

MCSymmetry == Permutations(Conn)

MCArg == {"a"}
MCUnknown == {"ghost"}
MCNone == {}
MCInitArm == [c \in Cap \cap {"exec"} |-> 2]

\* One action of the window is already on file.
MCInitLog == {[sig |-> <<"show", "a">>, at |-> 0, id |-> -1, approved |-> FALSE]}

MCRunOnly == {"run"}
MCAllOps == {"run", "ping", "list", "evaluate", "ask", "plan", "bogus"}

=============================================================================
