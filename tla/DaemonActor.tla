----------------------------- MODULE DaemonActor -----------------------------
(***************************************************************************)
(* The resident daemon of internal/daemon: connection goroutines, the      *)
(* unbuffered mailbox they hand commands through, the one actor goroutine  *)
(* that owns the arming grants, the session grants and the action history,  *)
(* and the persisted action log it is seeded from.                         *)
(*                                                                         *)
(* Requests carry an id, which the code does not have: it names a request   *)
(* and the execution it caused in the properties.  A record of an executed *)
(* action keeps the id and the approval flag of its request besides the    *)
(* code's signature and instant; the actor never reads either.             *)
(* Realtime requests are in module RealtimeSession.                        *)
(***************************************************************************)
EXTENDS PolicyFiles, Sequences

CONSTANTS
    Conn,         \* connections, one goroutine each
    NoConn,       \* no connection
    Arg,          \* argument maps of a call, up to ActionSignature
    Unknown,      \* capability names outside the registry
    NoReply,      \* no response yet
    Ops,          \* the operations clients send
    RunTimeout,   \* the bound of one execution: 60 s
    MaxSteps,     \* the longest plan the model returns
    InitArm,      \* arming grants on file when the daemon starts
    InitSession,  \* session grants on file when the daemon starts
    InitLog,      \* action log on file before the first start
    MaxRequests,  \* bound on requests (model checking)
    MaxNow        \* bound on the clock (model checking)

\* The statuses of replies, those of evaluate and of ask and plan told apart.
Replies == {"pong", "caps", "error", "decision", "denied", "needs_confirm",
            "ran", "planned"}

Call == [cap : Cap, arg : Arg]
Sig == Cap \X Arg
Record == [sig : Sig, at : Nat, id : Int, approved : BOOLEAN]

ASSUME DaemonAssumption ==
    /\ NoConn \notin Conn
    /\ NoReply \notin Replies
    /\ Cap \cap Unknown = {}
    /\ RunTimeout \in Nat
    /\ MaxSteps \in Nat
    /\ IsArmState(InitArm)
    /\ InitSession \subseteq Cap
    /\ InitLog \subseteq Record
    /\ IsFiniteSet(InitLog)
    /\ MaxRequests \in Nat
    /\ MaxNow \in Nat

VARIABLES
    now,       \* the clock
    arm,       \* Daemon.arm
    session,   \* Daemon.session
    history,   \* Daemon.history
    logfile,   \* action-log.json, as LoadActionLog reads it
    conn,      \* the goroutine of each connection
    mailbox,   \* connections blocked in "d.mailbox <- command", first come first served
    actor,     \* the actor goroutine
    audit,     \* events handed to the EventStore
    restored,  \* what New loaded into history at the last start
    starts,    \* the executions begun since the last start
    runs,      \* those of them that succeeded
    received   \* number of requests read so far

vars == <<now, arm, session, history, logfile, conn, mailbox, actor, audit,
          restored, starts, runs, received>>

actorState == <<arm, session, history>>

\* What the properties record and no line of the code reads.
ghosts == <<restored, starts, runs>>

-----------------------------------------------------------------------------
(* Requests and replies.                                                   *)

Reasoned == {"ask", "plan"}

Request ==
    [op : Ops \cap {"run"}, cap : Cap \cup Unknown, arg : Arg,
     approved : BOOLEAN]
    \cup [op : Ops \cap {"evaluate"}, cap : Cap \cup Unknown, arg : Arg,
          approved : {FALSE}]
    \cup [op : Ops \ {"run", "evaluate"}, cap : {NoConn}, arg : {NoConn},
          approved : {FALSE}]

Signature(q) == <<q.cap, q.arg>>

\* The command a queued connection offers the actor: its own request, or the
\* evaluation of the next plan step when it is binding a plan.
Command(c) ==
    IF conn[c].todo # <<>>
    THEN [op |-> "evaluate", cap |-> Head(conn[c].todo).cap]
    ELSE [op |-> conn[c].req.op, cap |-> conn[c].req.cap]

Idle == [st |-> "idle", id |-> 0, req |-> NoReply, todo |-> <<>>,
         plan |-> <<>>, reply |-> NoReply]

Opened(st, q) == [st |-> st, id |-> received + 1, req |-> q, todo |-> <<>>,
                  plan |-> <<>>, reply |-> NoReply]

Listening == [phase |-> "select", conn |-> NoConn, since |-> 0]
Stopped == [phase |-> "down", conn |-> NoConn, since |-> 0]

Answer(c, status) == [conn EXCEPT ![c].st = "answered", ![c].reply = status]

Emit(kind, c) == audit' = audit \cup {[kind |-> kind, id |-> conn[c].id]}

-----------------------------------------------------------------------------
(* New: the state the daemon holds in memory when it starts at instant t   *)
(* with the action log f on disk.                                          *)

Seeded(f, t) == PruneActions(f, t)

Init ==
    /\ now = 0
    /\ arm = PruneArm(InitArm, 0)
    /\ session = InitSession
    /\ logfile = InitLog
    /\ history = Seeded(InitLog, 0)
    /\ restored = history
    /\ starts = {}
    /\ runs = {}
    /\ conn = [c \in Conn |-> Idle]
    /\ mailbox = <<>>
    /\ actor = Listening
    /\ audit = {}
    /\ received = 0

-----------------------------------------------------------------------------
(* Connection goroutines.                                                  *)

\* serveConn decodes a request and dispatch sends it to the actor.
ReceiveCommand(c) ==
    /\ actor.phase # "down"
    /\ conn[c].st = "idle"
    /\ received < MaxRequests
    /\ \E q \in Request :
          /\ q.op \notin Reasoned
          /\ conn' = [conn EXCEPT ![c] = Opened("queued", q)]
    /\ mailbox' = Append(mailbox, c)
    /\ received' = received + 1
    /\ UNCHANGED <<now, actorState, logfile, actor, audit, ghosts>>

\* serveConn decodes an ask or a plan: the model is called right here.
ReceiveReasoned(c) ==
    /\ actor.phase # "down"
    /\ conn[c].st = "idle"
    /\ received < MaxRequests
    /\ \E q \in Request :
          /\ q.op \in Reasoned
          /\ conn' = [conn EXCEPT ![c] = Opened("reasoning", q)]
    /\ received' = received + 1
    /\ UNCHANGED <<now, actorState, logfile, mailbox, actor, audit, ghosts>>

\* The request is empty, the model failed or timed out, or the plan is
\* invalid (an unregistered step, a lifecycle command).
ReasoningFails(c) ==
    /\ conn[c].st = "reasoning"
    /\ conn' = Answer(c, "error")
    /\ UNCHANGED <<now, actorState, logfile, mailbox, actor, audit, ghosts, received>>

\* The planner returned no steps: fallbackToIntent calls the intent model.
PlansNothing(c) ==
    /\ conn[c].st = "reasoning"
    /\ conn[c].req.op = "plan"
    /\ conn' = [conn EXCEPT ![c].st = "fallback"]
    /\ UNCHANGED <<now, actorState, logfile, mailbox, actor, audit, ghosts, received>>

\* Mutant of FindsNothing: a failed fallback goes back to the planner.
FallbackReplans(c) ==
    /\ conn[c].st = "fallback"
    /\ conn' = [conn EXCEPT ![c].st = "reasoning"]
    /\ UNCHANGED <<now, actorState, logfile, mailbox, actor, audit, ghosts,
                   received>>

\* The intent model chose no registered capability (or, in the fallback,
\* failed): an empty plan, and a replied event when it said something.
FindsNothing(c) ==
    /\ \/ conn[c].st = "reasoning" /\ conn[c].req.op = "ask"
       \/ conn[c].st = "fallback"
    /\ conn' = Answer(c, "planned")
    /\ Emit("replied", c) \/ UNCHANGED audit
    /\ UNCHANGED <<now, actorState, logfile, mailbox, actor, ghosts,
                   received>>

\* The model chose validated steps; evaluate offers the first to the actor.
FindsSteps(c) ==
    /\ conn[c].st \in {"reasoning", "fallback"}
    /\ \E n \in 1..MaxSteps : \E steps \in [1..n -> Call] :
          /\ (conn[c].st = "fallback" \/ conn[c].req.op = "ask") => n = 1
          /\ conn' = [conn EXCEPT ![c].st = "queued", ![c].todo = steps]
    /\ mailbox' = Append(mailbox, c)
    /\ UNCHANGED <<now, actorState, logfile, actor, audit, ghosts,
                   received>>

\* The decision of one step came back: offer the next step, or answer.
BindNext(c) ==
    /\ conn[c].st = "bound"
    /\ IF conn[c].todo # <<>>
       THEN /\ conn' = [conn EXCEPT ![c].st = "queued"]
            /\ mailbox' = Append(mailbox, c)
       ELSE /\ conn' = Answer(c, "planned")
            /\ UNCHANGED mailbox
    /\ UNCHANGED <<now, actorState, logfile, actor, audit, ghosts,
                   received>>

\* The reply is encoded, or the client is gone and the goroutine returns.
Deliver(c) ==
    /\ conn[c].st = "answered"
    /\ conn' = [conn EXCEPT ![c] = Idle]
    /\ UNCHANGED <<now, actorState, logfile, mailbox, actor, audit, ghosts, received>>

-----------------------------------------------------------------------------
(* The actor goroutine: select over the mailbox, the ticker, cancellation. *)

\* The actor receives the command of the first blocked sender.
Takes(c) ==
    /\ actor.phase = "select"
    /\ mailbox # <<>>
    /\ c = Head(mailbox)
    /\ mailbox' = Tail(mailbox)

\* The record of an execution for connection c begun at instant t.
RecordOf(c, t) ==
    [sig |-> Signature(conn[c].req), at |-> t, id |-> conn[c].id,
     approved |-> conn[c].req.approved]

StatelessReply(op) ==
    CASE op = "ping" -> "pong" [] op = "list" -> "caps" [] OTHER -> "error"

HandleStateless(c) ==
    /\ Takes(c)
    /\ Command(c).op \notin {"run", "evaluate"}
    /\ conn' = Answer(c, StatelessReply(Command(c).op))
    /\ UNCHANGED <<now, actorState, logfile, actor, audit, ghosts,
                   received>>

\* handleEvaluate, for a client's own evaluate and for a plan step.
HandleEvaluate(c) ==
    /\ Takes(c)
    /\ Command(c).op = "evaluate"
    /\ LET name == Command(c).cap
           d == Decide(arm, session, name, now)
       IN IF conn[c].todo # <<>>
          THEN conn' = [conn EXCEPT
                   ![c].st = "bound",
                   ![c].todo = Tail(@),
                   ![c].plan = Append(@, [call |-> Head(conn[c].todo),
                                          decision |-> d])]
          ELSE conn' = Answer(c, IF name \in Cap THEN "decision" ELSE "error")
    /\ UNCHANGED <<now, actorState, logfile, actor, audit, ghosts,
                   received>>

\* Mutant of RunUnknown: returns without a reply to the connection.
ForgetsUnknown(c) ==
    /\ Takes(c)
    /\ Command(c).op = "run"
    /\ Command(c).cap \notin Cap
    /\ UNCHANGED <<now, actorState, logfile, conn, actor, audit, ghosts,
                   received>>

\* handleRun, the returns before the capability runs.
RunUnknown(c) ==
    /\ Takes(c)
    /\ Command(c).op = "run"
    /\ Command(c).cap \notin Cap
    /\ conn' = Answer(c, "error")
    /\ UNCHANGED <<now, actorState, logfile, actor, audit, ghosts,
                   received>>

\* Mutant of Denies: an approval overrides what the policy forbids.
ApprovalOverrides(q) ==
    Decide(arm, session, q.cap, now) = "deny" /\ ~q.approved

Denies(q) == Decide(arm, session, q.cap, now) = "deny"

AsksHuman(q) ==
    /\ ~q.approved
    /\ \/ Decide(arm, session, q.cap, now) = "ask"
       \/ IsDoomLoop(history, Signature(q), now)

RunDenied(c) ==
    /\ Takes(c)
    /\ Command(c).op = "run"
    /\ Command(c).cap \in Cap
    /\ Denies(conn[c].req)
    /\ Emit("denied", c)
    /\ conn' = Answer(c, "denied")
    /\ UNCHANGED <<now, actorState, logfile, actor, ghosts, received>>

RunNeedsConfirm(c) ==
    /\ Takes(c)
    /\ Command(c).op = "run"
    /\ Command(c).cap \in Cap
    /\ ~Denies(conn[c].req)
    /\ AsksHuman(conn[c].req)
    /\ Emit("needs_confirm", c)
    /\ conn' = Answer(c, "needs_confirm")
    /\ UNCHANGED <<now, actorState, logfile, actor, ghosts, received>>

\* handleRun reaches cap.Run: the actor is busy until it returns.
StartRun(c) ==
    /\ Takes(c)
    /\ Command(c).op = "run"
    /\ Command(c).cap \in Cap
    /\ ~Denies(conn[c].req)
    /\ ~AsksHuman(conn[c].req)
    /\ actor' = [phase |-> "running", conn |-> c, since |-> now]
    /\ starts' = starts \cup {RecordOf(c, now)}
    /\ UNCHANGED <<now, actorState, logfile, conn, audit, restored, runs,
                   received>>

\* Mutant of RunFails: the error is not handed to the connection.
FailsSilently ==
    /\ actor.phase = "running"
    /\ Emit("failed", actor.conn)
    /\ actor' = Listening
    /\ UNCHANGED <<now, actorState, logfile, conn, mailbox, ghosts, received>>

\* cap.Run returned an error (its own, or the deadline of 60 s).
RunFails ==
    /\ actor.phase = "running"
    /\ Emit("failed", actor.conn)
    /\ conn' = Answer(actor.conn, "error")
    /\ actor' = Listening
    /\ UNCHANGED <<now, actorState, logfile, mailbox, ghosts, received>>

NewRecord == RecordOf(actor.conn, actor.since)

\* Mutant of RunSucceeds: saves the history before it is appended to.
SavesBeforeAppend ==
    /\ actor.phase = "running"
    /\ history' = history \cup {NewRecord}
    /\ runs' = runs \cup {NewRecord}
    /\ logfile' = Saved(history)
    /\ actor' = [actor EXCEPT !.phase = "ran"]
    /\ UNCHANGED <<now, arm, session, conn, mailbox, audit, restored, starts,
                   received>>

\* cap.Run returned: append to history and SaveActionLog.  The save may fail
\* before touching the file or after truncating it; both are only logged.
RunSucceeds ==
    /\ actor.phase = "running"
    /\ history' = history \cup {NewRecord}
    /\ runs' = runs \cup {NewRecord}
    /\ logfile' \in {Saved(history'), logfile, {}}
    /\ actor' = [actor EXCEPT !.phase = "ran"]
    /\ UNCHANGED <<now, arm, session, conn, mailbox, audit, restored, starts,
                   received>>

\* Mutant of FinishRun: replies without an audit event.
FinishUnaudited ==
    /\ actor.phase = "ran"
    /\ conn' = Answer(actor.conn, "ran")
    /\ actor' = Listening
    /\ UNCHANGED <<now, actorState, logfile, mailbox, audit, ghosts, received>>

\* The ran event is emitted and the reply handed to the connection.
FinishRun ==
    /\ actor.phase = "ran"
    /\ Emit("ran", actor.conn)
    /\ conn' = Answer(actor.conn, "ran")
    /\ actor' = Listening
    /\ UNCHANGED <<now, actorState, logfile, mailbox, ghosts, received>>

\* The ticker fired: expired grants and old records are dropped.
TickPrune ==
    /\ actor.phase = "select"
    /\ arm' = PruneArm(arm, now)
    /\ history' = PruneActions(history, now)
    /\ UNCHANGED <<now, session, logfile, conn, mailbox, actor, audit,
                   ghosts, received>>

-----------------------------------------------------------------------------
(* The process: cancellation, crash, restart; and the clock.               *)

\* The process is gone, and every connection with it.
Stops ==
    /\ actor' = Stopped
    /\ conn' = [c \in Conn |-> Idle]
    /\ mailbox' = <<>>
    /\ arm' = [x \in {} |-> 0]
    /\ session' = {}
    /\ history' = {}
    /\ UNCHANGED <<now, logfile, audit, ghosts, received>>

\* SIGTERM cancels the context; Run returns when the actor selects it.
Shutdown ==
    /\ actor.phase = "select"
    /\ Stops

\* The process is killed in the middle of an execution or of its tail.
Crash ==
    /\ actor.phase \in {"running", "ran"}
    /\ Stops

Restart ==
    /\ actor.phase = "down"
    /\ arm' = PruneArm(InitArm, now)
    /\ session' = InitSession
    /\ history' = Seeded(logfile, now)
    /\ restored' = history'
    /\ starts' = {}
    /\ runs' = {}
    /\ actor' = Listening
    /\ UNCHANGED <<now, logfile, conn, mailbox, audit, received>>

\* Time passes, but no execution outlives its deadline.
Advance ==
    /\ now < MaxNow
    /\ actor.phase = "running" => now < actor.since + RunTimeout
    /\ now' = now + 1
    /\ UNCHANGED <<actorState, logfile, conn, mailbox, actor, audit, ghosts, received>>

-----------------------------------------------------------------------------

Handle(c) ==
    \/ HandleStateless(c)
    \/ HandleEvaluate(c)
    \/ RunUnknown(c)
    \/ RunDenied(c)
    \/ RunNeedsConfirm(c)
    \/ StartRun(c)

Model(c) ==
    \/ ReasoningFails(c)
    \/ PlansNothing(c)
    \/ FindsNothing(c)
    \/ FindsSteps(c)

Serve == (\E c \in Conn : Handle(c)) \/ RunFails \/ RunSucceeds \/ FinishRun

Next ==
    \/ \E c \in Conn :
          \/ ReceiveCommand(c)
          \/ ReceiveReasoned(c)
          \/ Model(c)
          \/ BindNext(c)
          \/ Deliver(c)
          \/ Handle(c)
    \/ RunFails
    \/ RunSucceeds
    \/ FinishRun
    \/ TickPrune
    \/ Shutdown
    \/ Crash
    \/ Restart
    \/ Advance

Spec == Init /\ [][Next]_vars

\* The goroutines the runtime schedules: the actor, whose executions are
\* bounded by their deadline, and the connections between two sends.  Nothing
\* is assumed of the model, of clients, of the clock or of a restart.
Scheduled ==
    /\ WF_vars(Serve)
    /\ \A c \in Conn : WF_vars(BindNext(c))

\* The reasoning calls are bounded as well (90 s and 120 s contexts).
ModelBounded == \A c \in Conn : WF_vars(Model(c))

SchedSpec == Spec /\ Scheduled

-----------------------------------------------------------------------------
(* Properties.                                                             *)

Status == Replies \cup {NoReply}

Step == [call : Call, decision : Decision]

ConnState ==
    [st : {"idle", "queued", "reasoning", "fallback", "bound", "answered"},
     id : Nat, req : Request \cup {NoReply}, todo : Seq(Call),
     plan : Seq(Step), reply : Status]

Event == [kind : {"replied", "denied", "needs_confirm", "failed", "ran"},
          id : Nat]

\* Every variable has the type the code declares for it.
TypeOK ==
    /\ now \in Nat
    /\ IsArmState(arm)
    /\ session \subseteq Cap
    /\ history \subseteq Record
    /\ logfile \subseteq Record
    /\ conn \in [Conn -> ConnState]
    /\ mailbox \in Seq(Conn)
    /\ actor \in [phase : {"select", "running", "ran", "down"},
                   conn : Conn \cup {NoConn}, since : Nat]
    /\ audit \subseteq Event
    /\ restored \subseteq Record
    /\ starts \subseteq Record
    /\ runs \subseteq Record
    /\ received \in Nat

Busy == actor.phase \in {"running", "ran"}

\* Who may hold a command: the senders in the mailbox wait, each once; the
\* connection the actor executes for waits too, with a run of a registered
\* capability, and is not in the mailbox (the strengthening of TypeOK).
CommandOwners ==
    /\ \A c \in Conn : conn[c].st # "idle" => conn[c].req \in Request
    /\ \A i \in DOMAIN mailbox : conn[mailbox[i]].st = "queued"
    /\ \A i, j \in DOMAIN mailbox : mailbox[i] = mailbox[j] => i = j
    /\ Busy =>
          /\ actor.conn \in Conn
          /\ conn[actor.conn].st = "queued"
          /\ conn[actor.conn].todo = <<>>
          /\ conn[actor.conn].req.op = "run"
          /\ conn[actor.conn].req.cap \in Cap
          /\ \A i \in DOMAIN mailbox : mailbox[i] # actor.conn

\* No command is lost and none is handled twice: a connection waits for the
\* actor exactly when it is one sender in the mailbox or the one the actor
\* is executing for (dispatch, Run).
NoCommandLost ==
    \A c \in Conn :
        Cardinality({i \in DOMAIN mailbox : mailbox[i] = c})
            + (IF Busy /\ actor.conn = c THEN 1 ELSE 0)
        = (IF conn[c].st = "queued" THEN 1 ELSE 0)

\* While the daemon is up, its history is the daemon's own successes and what
\* it loaded at start, and the ticker has dropped none that the doom-loop
\* window still reaches (Run's tick, handleRun's append).
HistoryCoversWindow ==
    actor.phase # "down" =>
        /\ history \subseteq runs \cup restored
        /\ \A r \in runs \cup restored :
               r.at > now - Window => r \in history

\* Every execution was covered, at the instant it was decided, by the grants
\* on file: no approval overrode a deny, no expired arming grant was honoured,
\* and nothing that asks ran without an approval or a session grant.
StartsCovered ==
    \A e \in starts :
        /\ Evaluate(InitArm, e.sig[1], e.at) # "deny"
        /\ \/ e.approved
           \/ Decide(InitArm, InitSession, e.sig[1], e.at) = "allow"

\* Pruning is invisible: while the daemon is up, a capability is armed in its
\* memory exactly when the grant it was started with still runs.
GrantsExact ==
    actor.phase # "down" =>
        \A c \in Cap : IsArmed(arm, c, now) <=> IsArmed(InitArm, c, now)

\* What a client is told is true: after "ran" the execution is recorded for
\* the doom-loop breaker and audited; after a refusal nothing was executed.
RepliesTruthful ==
    \A c \in Conn :
        /\ conn[c].reply = "ran" =>
               /\ \E r \in runs : r.id = conn[c].id
               /\ [kind |-> "ran", id |-> conn[c].id] \in audit
        /\ conn[c].reply \in {"denied", "needs_confirm"} =>
               \A e \in starts : e.id # conn[c].id

\* The doom-loop breaker cuts: an execution that begins unapproved is at most
\* the second success of its signature in the window, counting what the
\* daemon remembered from before its start.
DoomLoopCut ==
    [][\A e \in starts' \ starts :
          (~e.approved /\ Threshold >= 2) =>
              1 + Cardinality(Recent(runs \cup restored, e.sig, e.at))
                  < Threshold]_vars

\* core/doomloop.go speaks of identical calls, cut "at the same point" by the
\* daemon and the CLI: an execution that begins unapproved would be at most
\* the second identical call in the window, failed calls included.
IdenticalCallsCut ==
    [][\A e \in starts' \ starts :
          (~e.approved /\ Threshold >= 2) =>
              1 + Cardinality(Recent(starts, e.sig, e.at)) < Threshold]_vars

\* What an observer of executions sees of the daemon.
Guarded == INSTANCE GuardedRuns WITH
    Id <- 0..MaxRequests,
    up <- actor.phase # "down",
    running <- IF actor.phase = "running" THEN {NewRecord} ELSE {},
    done <- runs,
    known <- restored

\* Pruned memory, mailbox, confirmations and restarts are invisible: the daemon
\* behaves like one that decides on the grants on file and on all it ever did.
ImplementsGuardedRuns == Guarded!Spec

\* A command or a plan step handed to the actor comes to an answer, unless the
\* process stops, whatever the model calls of other connections do.
CommandAnswered ==
    \A c \in Conn :
        conn[c].st \in {"queued", "bound"} ~> conn[c].st \in {"answered", "idle"}

\* If the calls of the model end, as their contexts promise, every reasoned
\* request comes to an answer, unless the process stops.
ReasonedAnswered ==
    ModelBounded =>
        \A c \in Conn :
            conn[c].st \in {"reasoning", "fallback"}
                ~> conn[c].st \in {"answered", "idle"}

=============================================================================
