--------------------------- MODULE RealtimeSession ---------------------------
(***************************************************************************)
(* The realtime plane of internal/daemon: handleRealtime runs on the actor *)
(* goroutine, but the generation, the session flag, the quarantine and the *)
(* context it depends on sit behind realtimeMu and are changed by other    *)
(* goroutines between its critical sections.  One action is one critical   *)
(* section of the handler, one step of a capability goroutine it launched, *)
(* or one call of StartRealtimeSession or RealtimeCancel.                  *)
(*                                                                         *)
(* A context is its serial number: every StartRealtimeSession and every    *)
(* RealtimeCancel cancels the current one and makes the next, so a context *)
(* is live exactly while it is the current one and before its deadline.    *)
(* Calls carry no arguments here: a signature is a capability.  The grants *)
(* are those on file (module DaemonActor shows that pruning them in memory *)
(* changes no decision).                                                   *)
(***************************************************************************)
EXTENDS PolicyFiles

CONSTANTS
    Unknown,         \* names outside the registry (hallucinated tools)
    SessionEnd,      \* the "SESSION_END" terminator
    NoCap,           \* the handler serves nothing
    Grants,          \* Daemon.arm
    SessionGrants,   \* Daemon.session
    RunTimeout,      \* 60 s
    QuarantineFor,   \* RealtimeQuarantineDuration: 180 s
    DrainFor,        \* RealtimeDrainDuration: 10 s
    MaxGen,          \* bound on generations (model checking)
    MaxContext,      \* bound on contexts (model checking)
    MaxRequests,     \* bound on requests (model checking)
    MaxNow           \* bound on the clock (model checking)

ASSUME RealtimeAssumption ==
    /\ Cap \cap Unknown = {}
    /\ SessionEnd \notin Cap \cup Unknown
    /\ NoCap \notin Cap \cup Unknown \cup {SessionEnd}
    /\ IsArmState(Grants)
    /\ SessionGrants \subseteq Cap
    /\ {RunTimeout, QuarantineFor, DrainFor} \subseteq Nat
    /\ {MaxGen, MaxContext, MaxRequests, MaxNow} \subseteq Nat

VARIABLES
    now,               \* the clock
    gen,               \* realtimeGen
    ctx,               \* realtimeCtx
    active,            \* realtimeSessionActive
    quarantinedUntil,  \* realtimeQuarantinedUntil
    drainUntil,        \* realtimeDrainUntil
    history,           \* Daemon.history
    logfile,           \* action-log.json, as LoadActionLog reads it
    h,                 \* handleRealtime on the actor
    tasks,             \* capability goroutines that have not returned
    completed,         \* capability runs that took effect
    audit,             \* events handed to the EventStore
    replies,           \* the replies sent so far
    received           \* number of requests taken so far

vars == <<now, gen, ctx, active, quarantinedUntil, drainUntil, history,
          logfile, h, tasks, completed, audit, replies, received>>

\* What realtimeMu guards.
guarded == <<gen, ctx, active, quarantinedUntil, drainUntil>>

\* What only the actor goroutine writes, the handler apart.
records == <<history, logfile, audit, replies>>

Record == [sig : Cap, at : Nat, id : Nat]

-----------------------------------------------------------------------------

Outcome == {"none", "ok", "fails", "invalid", "schema_drift"}

Resting == [pc |-> "idle", id |-> 0, cap |-> NoCap, gen |-> 0,
            approved |-> FALSE, at |-> 0, ctx |-> 0, deadline |-> 0,
            genAtStart |-> 0, result |-> "none"]

Init ==
    /\ now = 0
    /\ gen = 0
    /\ ctx = 0
    /\ active = FALSE
    /\ quarantinedUntil = 0
    /\ drainUntil = 0
    /\ history = {}
    /\ logfile = {}
    /\ h = Resting
    /\ tasks = {}
    /\ completed = {}
    /\ audit = {}
    /\ replies = {}
    /\ received = 0

Go(pc) == h' = [h EXCEPT !.pc = pc]

Reply(status) ==
    /\ h' = Resting
    /\ replies' = replies \cup {[id |-> h.id, cap |-> h.cap, status |-> status]}

Emit(kind) == audit' = audit \cup {[kind |-> kind, id |-> h.id]}

\* RealtimeIsStale.
IsStale(g) == g < gen

\* Mutant of Quarantines: leaves the session registered.
QuarantinesOnly ==
    /\ quarantinedUntil' = h.at + QuarantineFor
    /\ UNCHANGED <<gen, ctx, active, drainUntil>>

\* Drift and hallucination: quarantine and unregister the session at once.
Quarantines ==
    /\ quarantinedUntil' = h.at + QuarantineFor
    /\ active' = FALSE
    /\ UNCHANGED <<gen, ctx, drainUntil>>

-----------------------------------------------------------------------------
(* Calls from other goroutines.                                            *)

\* The context is cancelled and replaced.
Renews ==
    /\ ctx < MaxContext
    /\ ctx' = ctx + 1

StartRealtimeSession ==
    /\ Renews
    /\ active' = TRUE
    /\ gen' = 0
    /\ quarantinedUntil' = 0
    /\ drainUntil' = 0
    /\ UNCHANGED <<now, records, h, tasks, completed, received>>

RealtimeCancel ==
    /\ Renews
    /\ gen < MaxGen
    /\ gen' = gen + 1
    /\ UNCHANGED <<now, active, quarantinedUntil, drainUntil, records, h,
                   tasks, completed, received>>

-----------------------------------------------------------------------------
(* handleRealtime before the run, one critical section at a time.          *)

TakeRealtime ==
    /\ h.pc = "idle"
    /\ received < MaxRequests
    /\ now <= MaxNow
    /\ \E c \in Cap \cup Unknown \cup {SessionEnd}, g \in 0..MaxGen,
          a \in BOOLEAN :
          h' = [Resting EXCEPT !.pc = "quarantine", !.id = received + 1,
                    !.cap = c, !.gen = g, !.approved = a, !.at = now]
    /\ received' = received + 1
    /\ UNCHANGED <<now, guarded, records, tasks, completed>>

CheckQuarantine ==
    /\ h.pc = "quarantine"
    /\ IF h.at < quarantinedUntil
       THEN Reply("quarantined")
       ELSE /\ Go(IF h.cap = SessionEnd THEN "end" ELSE "active")
            /\ UNCHANGED replies
    /\ UNCHANGED <<now, guarded, history, logfile, tasks, completed, audit,
                   received>>

EndSession ==
    /\ h.pc = "end"
    /\ drainUntil' = h.at + DrainFor
    /\ active' = FALSE
    /\ Reply("ran")
    /\ UNCHANGED <<now, gen, ctx, quarantinedUntil, history, logfile, tasks,
                   completed, audit, received>>

\* Mutant of CheckActive: serves without a session.
ServesIdle ==
    /\ h.pc = "active"
    /\ Go("stale")
    /\ UNCHANGED <<now, guarded, records, tasks, completed, received>>

CheckActive ==
    /\ h.pc = "active"
    /\ IF active
       THEN Go("stale") /\ UNCHANGED replies
       ELSE Reply("error")
    /\ UNCHANGED <<now, guarded, history, logfile, tasks, completed, audit,
                   received>>

CheckStale ==
    /\ h.pc = "stale"
    /\ IF IsStale(h.gen)
       THEN Reply("cancelled")
       ELSE Go("gate") /\ UNCHANGED replies
    /\ UNCHANGED <<now, guarded, history, logfile, tasks, completed, audit,
                   received>>

\* The model named a tool that is not registered.
Hallucinated ==
    /\ h.pc = "gate"
    /\ h.cap \notin Cap
    /\ Quarantines
    /\ Emit("failed")
    /\ Reply("quarantined")
    /\ UNCHANGED <<now, history, logfile, tasks, completed, received>>

\* Mutant of AsksHuman: the breaker is left out of the realtime plane.
AsksPolicyOnly == ~h.approved /\ Decide(Grants, SessionGrants, h.cap, h.at) = "ask"

\* Mutant of Verdict: an approval outranks the policy.
ApprovalWidens ==
    IF h.approved THEN "allow" ELSE Decide(Grants, SessionGrants, h.cap, h.at)

Verdict == Decide(Grants, SessionGrants, h.cap, h.at)

AsksHuman ==
    /\ ~h.approved
    /\ Verdict = "ask" \/ IsDoomLoop(history, h.cap, h.at)

\* The policy denies, or a human has to confirm: nothing runs.
Refused ==
    /\ h.pc = "gate"
    /\ h.cap \in Cap
    /\ \/ /\ Verdict = "deny"
          /\ Emit("denied")
          /\ Reply("denied")
       \/ /\ Verdict # "deny"
          /\ AsksHuman
          /\ Emit("needs_confirm")
          /\ Reply("needs_confirm")
    /\ UNCHANGED <<now, guarded, history, logfile, tasks, completed, received>>

\* Admitted, the handler binds the run to the context of the moment.
BindContext ==
    /\ h.pc = "gate"
    /\ h.cap \in Cap
    /\ Verdict # "deny"
    /\ ~AsksHuman
    /\ h' = [h EXCEPT !.pc = "launch", !.ctx = ctx, !.deadline = now + RunTimeout]
    /\ UNCHANGED <<now, guarded, records, tasks, completed, received>>

\* It reads the generation once more and starts the capability goroutine.
Launch ==
    /\ h.pc = "launch"
    /\ h' = [h EXCEPT !.pc = "wait", !.genAtStart = gen]
    /\ tasks' = tasks \cup {[id |-> h.id, sig |-> h.cap, at |-> h.at]}
    /\ UNCHANGED <<now, guarded, records, completed, received>>

-----------------------------------------------------------------------------
(* The capability goroutine.  Its context may be done; whether a capability *)
(* notices before it has taken effect is up to it.                         *)

TaskReturns ==
    \E t \in tasks, o \in Outcome \ {"none"} :
        /\ tasks' = tasks \ {t}
        /\ completed' = IF o = "ok" THEN completed \cup {t} ELSE completed
        /\ h' = IF h.id = t.id THEN [h EXCEPT !.result = o] ELSE h
        /\ UNCHANGED <<now, guarded, records, received>>

-----------------------------------------------------------------------------
(* The handler's select and what follows the run.                          *)

\* Mutant of Abandons: waits for the capability to notice.
AbandonsNothing == FALSE /\ UNCHANGED vars

\* Mutant of TimesOut: only a stale generation times out.
TimesOutIfStale ==
    /\ h.pc = "wait"
    /\ now >= h.deadline
    /\ IsStale(h.genAtStart)
    /\ Reply("cancelled")
    /\ UNCHANGED <<now, guarded, history, logfile, tasks, completed, audit,
                   received>>

\* The bound context was cancelled, and runCtx with it: the goroutine is
\* abandoned, also when its result lies ready in the channel.
Abandons ==
    /\ h.pc = "wait"
    /\ h.ctx # ctx
    /\ Reply("cancelled")
    /\ UNCHANGED <<now, guarded, history, logfile, tasks, completed, audit,
                   received>>

\* runCtx is past its deadline: the goroutine is abandoned.
TimesOut ==
    /\ h.pc = "wait"
    /\ now >= h.deadline
    /\ Reply(IF IsStale(h.genAtStart) THEN "cancelled" ELSE "error")
    /\ UNCHANGED <<now, guarded, history, logfile, tasks, completed, audit,
                   received>>

Collects ==
    /\ h.pc = "wait"
    /\ h.result # "none"
    /\ Go("result")
    /\ UNCHANGED <<now, guarded, records, tasks, completed, received>>

SchemaDrifted ==
    /\ h.pc = "result"
    /\ h.result = "schema_drift"
    /\ Quarantines
    /\ Emit("failed")
    /\ Reply("quarantined")
    /\ UNCHANGED <<now, history, logfile, tasks, completed, received>>

ArgumentsRejected ==
    /\ h.pc = "result"
    /\ h.result = "invalid"
    /\ Emit("failed")
    /\ Reply("error")
    /\ UNCHANGED <<now, guarded, history, logfile, tasks, completed, received>>

\* Mutant of Discards: the event is emitted before the result is discarded.
DiscardsLate ==
    /\ h.pc = "result"
    /\ h.result \in {"ok", "fails"}
    /\ IsStale(h.genAtStart)
    /\ Emit("ran")
    /\ Reply("cancelled")
    /\ UNCHANGED <<now, guarded, history, logfile, tasks, completed, received>>

\* A result of an overtaken generation is discarded without a trace.
Discards ==
    /\ h.pc = "result"
    /\ h.result \in {"ok", "fails"}
    /\ IsStale(h.genAtStart)
    /\ Reply("cancelled")
    /\ UNCHANGED <<now, guarded, history, logfile, tasks, completed, audit,
                   received>>

Fails ==
    /\ h.pc = "result"
    /\ h.result = "fails"
    /\ ~IsStale(h.genAtStart)
    /\ Emit("failed")
    /\ Reply("error")
    /\ UNCHANGED <<now, guarded, history, logfile, tasks, completed, received>>

Succeeds ==
    /\ h.pc = "result"
    /\ h.result = "ok"
    /\ ~IsStale(h.genAtStart)
    /\ Go("record")
    /\ UNCHANGED <<now, guarded, records, tasks, completed, received>>

RecordsRun ==
    /\ h.pc = "record"
    /\ history' = history \cup {[sig |-> h.cap, at |-> h.at, id |-> h.id]}
    /\ logfile' \in {Saved(history'), logfile, {}}
    /\ Emit("ran")
    /\ Reply("ran")
    /\ UNCHANGED <<now, guarded, tasks, completed, received>>

-----------------------------------------------------------------------------

\* The ticker of the actor, between two commands.
TickPrune ==
    /\ h.pc = "idle"
    /\ history' = PruneActions(history, now)
    /\ UNCHANGED <<now, guarded, logfile, h, tasks, completed, audit, replies,
                   received>>

\* Time passes; past the bound only until a run's deadline is over.
Advance ==
    /\ now < MaxNow \/ (h.pc = "wait" /\ now < h.deadline)
    /\ now' = now + 1
    /\ UNCHANGED <<guarded, records, h, tasks, completed, received>>

\* The steps of the handler itself.
HandlerStep ==
    \/ CheckQuarantine
    \/ EndSession
    \/ CheckActive
    \/ CheckStale
    \/ Hallucinated
    \/ Refused
    \/ BindContext
    \/ Launch
    \/ Abandons
    \/ TimesOut
    \/ Collects
    \/ SchemaDrifted
    \/ ArgumentsRejected
    \/ Discards
    \/ Fails
    \/ Succeeds
    \/ RecordsRun

Next ==
    \/ StartRealtimeSession
    \/ RealtimeCancel
    \/ TakeRealtime
    \/ HandlerStep
    \/ TaskReturns
    \/ TickPrune
    \/ Advance

Spec == Init /\ [][Next]_vars

\* The actor goroutine is scheduled.  Nothing is assumed of capabilities.
ActorSpec == Spec /\ WF_vars(HandlerStep)

\* The clock does not stop.
ClockRuns == WF_vars(Advance)

-----------------------------------------------------------------------------
(* Properties.                                                             *)

Status == {"ran", "error", "denied", "needs_confirm", "quarantined", "cancelled"}

\* Every variable has the type the code declares for it.
TypeOK ==
    /\ {now, gen, ctx, quarantinedUntil, drainUntil, received} \subseteq Nat
    /\ active \in BOOLEAN
    /\ history \subseteq Record
    /\ logfile \subseteq Record
    /\ tasks \subseteq Record
    /\ completed \subseteq Record
    /\ h \in [pc : {"idle", "quarantine", "end", "active", "stale", "gate",
                    "launch", "wait", "result", "record"},
              id : Nat, cap : Cap \cup Unknown \cup {SessionEnd, NoCap},
              gen : Nat, approved : BOOLEAN, at : Nat, ctx : Nat,
              deadline : Nat, genAtStart : Nat, result : Outcome]
    /\ audit \subseteq [kind : {"failed", "denied", "needs_confirm", "ran"}, id : Nat]
    /\ replies \subseteq [id : Nat, cap : Cap \cup Unknown \cup {SessionEnd},
                          status : Status]

\* A quarantined daemon has no session: the two are set together, and a new
\* session lifts the quarantine (handleRealtime, StartRealtimeSession).
QuarantineEndsSession == now < quarantinedUntil => ~active

\* A capability is launched only inside a session that is neither ended nor
\* quarantined at that instant, whatever calls of StartRealtimeSession and
\* RealtimeCancel fall between the handler's critical sections.
LaunchInSession ==
    [][\A t \in tasks' \ tasks : active /\ now >= quarantinedUntil]_vars

\* "ran" is said of a run that took effect, with its event on record; after
\* any other reply neither the history nor the audit log speaks of a success,
\* and after a refusal nothing was ever launched.
RepliesTruthful ==
    \A r \in replies :
        IF r.status = "ran" /\ r.cap # SessionEnd
        THEN /\ \E t \in completed : t.id = r.id
             /\ [kind |-> "ran", id |-> r.id] \in audit
        ELSE /\ \A e \in history \cup logfile : e.id # r.id
             /\ [kind |-> "ran", id |-> r.id] \notin audit
             /\ r.status \in {"denied", "needs_confirm", "quarantined"} =>
                    \A t \in completed : t.id # r.id

\* The breaker cuts the realtime plane too: an unapproved launch is at most
\* the second answered success of its signature in the window.
RealtimeLoopCut ==
    [][\A t \in tasks' \ tasks :
          (~h.approved /\ Threshold >= 2) =>
              LET said == {e \in completed :
                               [kind |-> "ran", id |-> e.id] \in audit}
              IN  1 + Cardinality(Recent(said, t.sig, t.at)) < Threshold]_vars

\* The policy is evaluated at handle time: what is launched was allowed, or
\* asked for and approved, under the grants at the instant it was taken.
LaunchCovered ==
    [][\A t \in tasks' \ tasks :
          /\ Evaluate(Grants, t.sig, t.at) # "deny"
          /\ h.approved \/ Decide(Grants, SessionGrants, t.sig, t.at) = "allow"]_vars

\* A run whose context is cancelled releases the actor, without help from the
\* capability or the clock.
CancelReleases == (h.pc = "wait" /\ h.ctx # ctx) ~> h.pc = "idle"

\* Every realtime command comes to an answer though the capability may hang
\* for ever: as the clock runs, the deadline releases the actor.
RealtimeAnswered == ClockRuns => (h.pc # "idle" ~> h.pc = "idle")

\* realtime_test.go: "stale generation must NOT run the capability".
StaleNeverRuns == [][\A t \in tasks' \ tasks : ~IsStale(h.gen)]_vars

\* realtime_cancel_test.go: "cancelled must not run or persist".
CancelledNeverRan ==
    \A r \in replies :
        r.status = "cancelled" => \A t \in completed : t.id # r.id

=============================================================================
