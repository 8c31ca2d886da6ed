----------------------------- MODULE ClientFlows -----------------------------
(***************************************************************************)
(* The commands that talk to the daemon: "ctl ask" with its corrective     *)
(* retries, "ctl plan", "ctl do" and "ctl run", each over the two-phase     *)
(* confirmation of internal/daemon/client.go, composed with the daemon.    *)
(*                                                                         *)
(* A connection of the daemon serves one command.  The command opens one   *)
(* connection per request (Send), so a lost daemon is a refused dial before *)
(* the request or a failed read after it, and never a retry.               *)
(***************************************************************************)
EXTENDS DaemonActor, SequencesExt

CONSTANTS
    Kinds,        \* the commands given: subset of {"ask", "plan", "do", "run"}
    MaxAttempts   \* maxInterpretAttempts: 3

ASSUME ClientAssumption ==
    /\ Kinds \subseteq {"ask", "plan", "do", "run"}
    /\ MaxAttempts \in Nat \ {0}

VARIABLES
    flow,   \* the command served by each connection
    said,   \* what the human said yes to, by command
    did     \* the calls that succeeded for each command, in order

clientVars == <<vars, flow, said, did>>

-----------------------------------------------------------------------------
(* A command: what it was given, and the local variables of its function.  *)

AnyCall == [cap : Cap \cup Unknown, arg : Arg]

Started(kind, cautious, steps) ==
    [kind |-> kind, cautious |-> cautious, steps |-> steps,
     pc |-> IF kind = "run" THEN "run" ELSE "reason",
     attempt |-> 1, next |-> 1, approved |-> FALSE, outcome |-> "none"]

Commands ==
    {Started("ask", cautious, <<>>) : cautious \in BOOLEAN}
    \cup {Started(kind, FALSE, <<>>) : kind \in {"plan", "do"}}
    \cup {Started("run", FALSE, <<call>>) : call \in
              [call : AnyCall, decision : {"ask"}]}

ClientInit ==
    /\ Init
    /\ flow \in [Conn -> {f \in Commands : f.kind \in Kinds}]
    /\ said = [c \in Conn |-> {}]
    /\ did = [c \in Conn |-> <<>>]

Goes(c, pc) == flow' = [flow EXCEPT ![c].pc = pc]

Ends(c, outcome) ==
    flow' = [flow EXCEPT ![c].pc = "ended", ![c].outcome = outcome]

Current(c) == flow[c].steps[flow[c].next].call

\* A yes to the question asked about these calls.
Approves(c, question, calls) ==
    said' = [said EXCEPT ![c] = @ \cup
        {[to |-> question, attempt |-> flow[c].attempt, call |-> call] :
             call \in calls}]

-----------------------------------------------------------------------------
(* Requests (Send).                                                        *)

\* AskViaDaemon, PlanViaDaemon.
Reason(c) ==
    /\ flow[c].pc = "reason"
    /\ ReceiveReasoned(c)
    /\ conn'[c].req.op = (IF flow[c].kind = "ask" THEN "ask" ELSE "plan")
    /\ Goes(c, "reasoning")
    /\ UNCHANGED <<said, did>>

\* The first or the approved request of RunViaDaemon, or RunStep.
Run(c) ==
    /\ flow[c].pc = "run"
    /\ ReceiveCommand(c)
    /\ conn'[c].req = [op |-> "run", cap |-> Current(c).cap,
                       arg |-> Current(c).arg, approved |-> flow[c].approved]
    /\ Goes(c, "running")
    /\ UNCHANGED <<said, did>>

\* Mutant of Unreachable: a request whose reply was lost is sent again.
SendsAgain(c) ==
    /\ flow[c].pc = "running" /\ conn[c].st = "idle"
    /\ Goes(c, "run")
    /\ UNCHANGED <<vars, said, did>>

\* Mutant of Unreachable: a lost reply is waited for.
WaitsForReply(c) ==
    /\ flow[c].pc \in {"reason", "run"} /\ actor.phase = "down"
    /\ Ends(c, "stopped")
    /\ UNCHANGED <<vars, said, did>>

\* The dial is refused, or the reply never comes: the command gives up.
Unreachable(c) ==
    /\ \/ flow[c].pc \in {"reason", "run"} /\ actor.phase = "down"
       \/ flow[c].pc \in {"reasoning", "running"} /\ conn[c].st = "idle"
    /\ Ends(c, "stopped")
    /\ UNCHANGED <<vars, said, did>>

\* The user interrupts the command; the daemon does not notice.
Quits(c) ==
    /\ flow[c].pc # "ended"
    /\ Ends(c, "killed")
    /\ UNCHANGED <<vars, said, did>>

-----------------------------------------------------------------------------
(* Replies (what ctlAsk, ctlPlan and RunViaDaemon do with them).           *)

Receives(c, pc, statuses) ==
    /\ flow[c].pc = pc
    /\ conn[c].reply \in statuses
    /\ Deliver(c)
    /\ UNCHANGED <<said, did>>

\* Reasoning failed, or there is nothing to do.
ReasonedNothing(c) ==
    \/ Receives(c, "reasoning", {"error"}) /\ Ends(c, "stopped")
    \/ /\ Receives(c, "reasoning", {"planned"})
       /\ conn[c].plan = <<>>
       /\ Ends(c, "answered")

Blocked(plan) == \E i \in DOMAIN plan : plan[i].decision = "deny"
NeedsConfirmation(plan) == \E i \in DOMAIN plan : plan[i].decision # "allow"

\* What a command does with the steps it shows.
AfterPreview(f, plan) ==
    CASE f.kind = "ask" -> IF f.cautious THEN "caution" ELSE "run"
      [] f.kind = "plan" \/ Blocked(plan) -> "ended"
      [] OTHER -> IF NeedsConfirmation(plan) THEN "approve" ELSE "run"

Preview(c) ==
    /\ Receives(c, "reasoning", {"planned"})
    /\ conn[c].plan # <<>>
    /\ LET plan == conn[c].plan
           pc == AfterPreview(flow[c], plan)
       IN flow' = [flow EXCEPT
              ![c].steps = plan, ![c].next = 1, ![c].pc = pc,
              ![c].outcome = IF pc # "ended" THEN "none"
                             ELSE IF Blocked(plan) THEN "denied" ELSE "shown"]

\* StatusRan: the next step of a plan, or the end.
StepRan(c) ==
    /\ Receives(c, "running", {"ran"})
    /\ IF flow[c].next < Len(flow[c].steps)
       THEN flow' = [flow EXCEPT ![c].next = @ + 1, ![c].pc = "run"]
       ELSE Ends(c, "done")

\* StatusDenied: a plan stops, a single call is denied.
StepDenied(c) ==
    /\ Receives(c, "running", {"denied"})
    /\ Ends(c, IF flow[c].kind = "do" THEN "stopped" ELSE "denied")

\* StatusNeedsConfirm: RunViaDaemon asks the human, a plan stops.
StepNeedsConfirm(c) ==
    /\ Receives(c, "running", {"needs_confirm"})
    /\ IF flow[c].kind = "do" \/ flow[c].approved
       THEN Ends(c, "unconfirmed")
       ELSE Goes(c, "confirm")

\* Mutant of StepFails: the approval of the last attempt carries over.
KeepsApproval(c) ==
    /\ Receives(c, "running", {"error"})
    /\ \/ Ends(c, "stopped")
       \/ /\ flow[c].kind = "ask"
          /\ flow[c].attempt < MaxAttempts
          /\ flow' = [flow EXCEPT ![c].pc = "reason", ![c].attempt = @ + 1,
                                  ![c].steps = <<>>]

\* Mutant of StepFails: a plan goes on after a failed step.
SkipsFailed(c) ==
    /\ Receives(c, "running", {"error"})
    /\ IF flow[c].next < Len(flow[c].steps)
       THEN flow' = [flow EXCEPT ![c].next = @ + 1, ![c].pc = "run"]
       ELSE Ends(c, "done")

\* StatusError: the capability may have rejected the arguments (Retryable),
\* then ctlAsk asks the model again unless this was the last attempt.
StepFails(c) ==
    /\ Receives(c, "running", {"error"})
    /\ \/ Ends(c, "stopped")
       \/ /\ flow[c].kind = "ask"
          /\ flow[c].attempt < MaxAttempts
          /\ flow' = [flow EXCEPT ![c].pc = "reason", ![c].attempt = @ + 1,
                                  ![c].steps = <<>>, ![c].approved = FALSE]

\* A command that was killed reads no reply.
Discard(c) ==
    /\ flow[c].pc = "ended"
    /\ Deliver(c)
    /\ UNCHANGED <<flow, said, did>>

-----------------------------------------------------------------------------
(* Questions to the human; no answer is a no.                              *)

\* "run X?", asked of a cautious ask before anything is sent.
CautionYes(c) ==
    /\ flow[c].pc = "caution"
    /\ Approves(c, "caution", {Current(c)})
    /\ Goes(c, "run")
    /\ UNCHANGED <<vars, did>>

\* "proceed?", on needs_confirm: the same request is sent again, approved.
ConfirmYes(c) ==
    /\ flow[c].pc = "confirm"
    /\ Approves(c, "confirm", {Current(c)})
    /\ flow' = [flow EXCEPT ![c].pc = "run", ![c].approved = TRUE]
    /\ UNCHANGED <<vars, did>>

\* "execute this plan?": the approval is for the steps shown.
PlanYes(c) ==
    /\ flow[c].pc = "approve"
    /\ Approves(c, "plan", {flow[c].steps[i].call : i \in DOMAIN flow[c].steps})
    /\ flow' = [flow EXCEPT ![c].pc = "run", ![c].approved = TRUE]
    /\ UNCHANGED <<vars, did>>

SaysNo(c) ==
    /\ flow[c].pc \in {"caution", "confirm", "approve"}
    /\ Ends(c, IF flow[c].pc = "confirm" THEN "denied" ELSE "aborted")
    /\ UNCHANGED <<vars, said, did>>

-----------------------------------------------------------------------------

Ask(c) == CautionYes(c) \/ ConfirmYes(c) \/ PlanYes(c) \/ SaysNo(c)

Client(c) ==
    \/ Reason(c)
    \/ Run(c)
    \/ Unreachable(c)
    \/ ReasonedNothing(c)
    \/ Preview(c)
    \/ StepRan(c)
    \/ StepDenied(c)
    \/ StepNeedsConfirm(c)
    \/ StepFails(c)
    \/ Discard(c)

\* The daemon's own steps; a success is remembered for the command.
Daemon ==
    \/ /\ \/ \E c \in Conn : Model(c) \/ BindNext(c) \/ Handle(c)
          \/ RunFails \/ FinishRun \/ TickPrune
          \/ Shutdown \/ Crash \/ Restart \/ Advance
       /\ UNCHANGED <<flow, said, did>>
    \/ /\ RunSucceeds
       /\ did' = [did EXCEPT ![actor.conn] =
                      Append(@, [cap |-> conn[actor.conn].req.cap,
                                 arg |-> conn[actor.conn].req.arg])]
       /\ UNCHANGED <<flow, said>>

ClientNext ==
    \/ Daemon
    \/ \E c \in Conn : Client(c) \/ Ask(c) \/ Quits(c)

\* The runtime schedules the daemon's goroutines, model calls are bounded by
\* their contexts, and the command is a running process.
ClientSpec ==
    /\ ClientInit
    /\ [][ClientNext]_clientVars
    /\ WF_clientVars(Serve /\ Daemon)
    /\ \A c \in Conn :
          /\ WF_clientVars((Model(c) \/ BindNext(c)) /\ Daemon)
          /\ WF_clientVars(Client(c))

-----------------------------------------------------------------------------
(* Properties.                                                             *)

Outcome == {"none", "stopped", "killed", "answered", "denied", "shown", "done",
            "unconfirmed", "aborted"}

\* Every variable of a command has its type.
FlowTypeOK ==
    /\ \A c \in Conn :
          /\ flow[c].kind \in Kinds
          /\ flow[c].pc \in {"reason", "reasoning", "run", "running", "caution",
                             "confirm", "approve", "ended"}
          /\ flow[c].attempt \in 1..MaxAttempts
          /\ flow[c].pc \in {"run", "running", "caution", "confirm"} =>
                 flow[c].next \in DOMAIN flow[c].steps
          /\ (flow[c].outcome = "none") = (flow[c].pc # "ended")
          /\ flow[c].outcome \in Outcome

SaidYes(c, question, call) ==
    [to |-> question, attempt |-> flow[c].attempt, call |-> call] \in said[c]

\* The human stays in the loop: an execution the daemon begins as approved was
\* approved, in this attempt, by a yes to the question asked about this very
\* call or about a plan that showed it; one begun unapproved for a plan was
\* shown as allowed; a cautious command executes nothing without a yes.
HumanInLoop ==
    [][\A c \in Conn :
          StartRun(c) =>
             LET q == conn[c].req
                 call == [cap |-> q.cap, arg |-> q.arg]
                 f == flow[c]
             IN /\ q.approved => \/ SaidYes(c, "confirm", call)
                                 \/ SaidYes(c, "plan", call)
                /\ (f.kind = "do" /\ ~q.approved) =>
                       f.steps[f.next] = [call |-> call, decision |-> "allow"]
                /\ f.cautious => SaidYes(c, "caution", call)]_clientVars

\* Whatever is lost, retried or interrupted, nothing takes effect twice and no
\* plan runs out of order: the successes are the first steps shown, and those
\* the command knows of are all of them but the one it may be waiting for.
StepsInOrder ==
    \A c \in Conn :
        LET done == did[c]
            shown == [i \in DOMAIN flow[c].steps |-> flow[c].steps[i].call]
        IN /\ IsPrefix(done, shown)
           /\ done # <<>> => Len(done) \in {flow[c].next - 1, flow[c].next}

\* The outcome reported is what happened: done means every step took effect;
\* a refusal, a no to the question or a preview, that nothing did.
OutcomeTruthful ==
    \A c \in Conn :
        /\ flow[c].outcome = "done" => Len(did[c]) = Len(flow[c].steps)
        /\ flow[c].outcome \in {"denied", "answered", "shown", "aborted"} =>
               did[c] = <<>>

\* If the human answers, or is not there to answer, every command ends: its
\* retries are bounded and no lost reply is waited for.
CommandEnds ==
    (\A c \in Conn : WF_clientVars(Ask(c)))
        => \A c \in Conn : <>(flow[c].pc = "ended")

=============================================================================
