--------------------------- MODULE Daemon_proofs ---------------------------
(***************************************************************************)
(* Proofs about DaemonActor, that it implements GuardedRuns, and about      *)
(* ClientFlows: every step of a command is a step of the daemon or of its  *)
(* environment, so what is shown of the daemon holds of the composition;   *)
(* the rest relates each command to the connection that serves it.         *)
(***************************************************************************)
EXTENDS ClientFlows, FiniteSetTheorems, TLAPS

-----------------------------------------------------------------------------
(* DaemonActor.                                                            *)

\* The instant SaveActionLog writes is an instant.
LEMMA FileTimeType == \A t \in Nat : FileTime(t) \in Nat
<1> SUFFICES ASSUME NEW t \in Nat PROVE FileTime(t) \in Nat
  OBVIOUS
<1> Second \in Nat \ {0}
  BY FilesAssumption
<1>1. t % Second \in 0 .. (Second - 1)
  OBVIOUS
<1>2. t % Second <= t
  OBVIOUS
<1> QED
  BY <1>1, <1>2 DEF FileTime

\* SaveActionLog writes records.
LEMMA SavedType == \A h \in SUBSET Record : Saved(h) \subseteq Record
  BY FileTimeType DEF Saved, Record

\* Pruning grants leaves grants.
LEMMA PruneArmType ==
    ASSUME NEW a, IsArmState(a), NEW t \in Nat
    PROVE  IsArmState(PruneArm(a, t))
  BY DEF IsArmState, IsMap, PruneArm

\* A decision is a decision.
LEMMA DecideType ==
    ASSUME NEW a, NEW S, NEW c \in Cap, NEW t
    PROVE  Decide(a, S, c, t) \in Decision
<1>1. Resolve(c) \in Rule
  BY GateAssumption DEF Resolve, IsMap
<1> QED
  BY <1>1 DEF Decide, Evaluate, Rule, Decision

Typed == TypeOK /\ CommandOwners

\* The state New leaves, and nothing queued, is well typed.
LEMMA TypedInit == Init => Typed
<1> SUFFICES ASSUME Init PROVE Typed
  OBVIOUS
<1>1. IsArmState(arm)
  BY DaemonAssumption, PruneArmType DEF Init
<1>2. history \subseteq Record
  BY DaemonAssumption DEF Init, Seeded, PruneActions
<1>3. conn \in [Conn -> ConnState]
  BY DEF Init, Idle, ConnState, Status, Replies
<1> QED
  BY <1>1, <1>2, <1>3, DaemonAssumption
     DEF Init, Typed, TypeOK, CommandOwners, Idle, Listening, Busy

-----------------------------------------------------------------------------
(* One connection moves: what that does to the owners of commands.         *)

OnlyConn(c) ==
    /\ conn' \in [Conn -> ConnState]
    /\ \A d \in Conn \ {c} : conn'[d] = conn[d]

\* A goroutine that was not waiting for the actor moves, and may now wait.
LEMMA QuietStep ==
    ASSUME Typed, NEW c \in Conn, conn[c].st # "queued", OnlyConn(c),
           conn'[c].st # "idle" => conn'[c].req \in Request,
           actor' = actor,
           \/ mailbox' = mailbox
           \/ mailbox' = Append(mailbox, c) /\ conn'[c].st = "queued"
    PROVE  mailbox' \in Seq(Conn) /\ CommandOwners'
<1> USE DEF Typed, TypeOK, CommandOwners, OnlyConn, Busy
<1>1. \A i \in DOMAIN mailbox : mailbox[i] \in Conn /\ mailbox[i] # c
  OBVIOUS
<1>2. CASE mailbox' = mailbox
  BY <1>1, <1>2
<1>3. CASE mailbox' = Append(mailbox, c) /\ conn'[c].st = "queued"
  <2>1. /\ mailbox' \in Seq(Conn)
        /\ DOMAIN mailbox' = 1 .. (Len(mailbox) + 1)
        /\ DOMAIN mailbox = 1 .. Len(mailbox)
        /\ Len(mailbox) \in Nat
        /\ mailbox'[Len(mailbox) + 1] = c
        /\ \A i \in DOMAIN mailbox : mailbox'[i] = mailbox[i]
    BY <1>3
  <2>2. \A i \in DOMAIN mailbox' :
           (i \in DOMAIN mailbox /\ mailbox'[i] = mailbox[i])
           \/ (i = Len(mailbox) + 1 /\ mailbox'[i] = c)
    BY <2>1
  <2>3. \A i \in DOMAIN mailbox' : conn'[mailbox'[i]].st = "queued"
    BY <1>1, <1>3, <2>2
  <2>4. \A i, j \in DOMAIN mailbox' : mailbox'[i] = mailbox'[j] => i = j
    BY <1>1, <2>2
  <2>5. Busy => actor.conn # c
    OBVIOUS
  <2>6. Busy' => \A i \in DOMAIN mailbox' : mailbox'[i] # actor'.conn
    BY <2>2, <2>5
  <2> QED
    BY <2>1, <2>3, <2>4, <2>5, <2>6
<1> QED
  BY <1>2, <1>3

\* What the actor finds when it receives from the mailbox.
LEMMA TakesFacts ==
    ASSUME Typed, NEW c \in Conn, Takes(c)
    PROVE  /\ ~Busy
           /\ conn[c].st = "queued"
           /\ conn[c].req \in Request
           /\ mailbox' \in Seq(Conn)
           /\ \A i \in DOMAIN mailbox' :
                 /\ mailbox'[i] \in Conn \ {c}
                 /\ conn[mailbox'[i]].st = "queued"
           /\ \A i, j \in DOMAIN mailbox' : mailbox'[i] = mailbox'[j] => i = j
<1> USE DEF Typed, TypeOK, CommandOwners, Takes, Busy
<1>1. /\ mailbox' \in Seq(Conn)
      /\ DOMAIN mailbox = 1 .. Len(mailbox)
      /\ Len(mailbox) \in Nat \ {0}
      /\ DOMAIN mailbox' = 1 .. (Len(mailbox) - 1)
      /\ c = mailbox[1]
      /\ \A i \in DOMAIN mailbox' : mailbox'[i] = mailbox[i + 1]
  OBVIOUS
<1>2. \A i \in DOMAIN mailbox' : i + 1 \in DOMAIN mailbox /\ i + 1 # 1
  BY <1>1
<1>3. \A i \in DOMAIN mailbox' : mailbox'[i] \in Conn \ {c}
  BY <1>1, <1>2
<1>4. \A i, j \in DOMAIN mailbox' : mailbox'[i] = mailbox'[j] => i = j
  <2> SUFFICES ASSUME NEW i \in DOMAIN mailbox', NEW j \in DOMAIN mailbox',
                      mailbox'[i] = mailbox'[j]
               PROVE  i = j
    OBVIOUS
  <2>1. i + 1 = j + 1
    BY <1>1, <1>2
  <2> QED
    BY <1>1, <2>1
<1> QED
  BY <1>1, <1>2, <1>3, <1>4

\* The actor answers the command it received at once.
LEMMA HandledStep ==
    ASSUME Typed, NEW c \in Conn, Takes(c), OnlyConn(c), actor' = actor,
           conn'[c].req = conn[c].req
    PROVE  mailbox' \in Seq(Conn) /\ CommandOwners'
  BY TakesFacts DEF Typed, TypeOK, CommandOwners, OnlyConn, Busy

\* The actor answers the run it was busy with.
LEMMA ReleaseStep ==
    ASSUME Typed, Busy, OnlyConn(actor.conn), actor' = Listening,
           mailbox' = mailbox,
           conn'[actor.conn].req = conn[actor.conn].req
    PROVE  CommandOwners'
  BY DEF Typed, TypeOK, CommandOwners, OnlyConn, Busy, Listening

\* What Answer does to a connection.
LEMMA AnswerStep ==
    ASSUME Typed, NEW c \in Conn, NEW s \in Status, conn' = Answer(c, s)
    PROVE  OnlyConn(c) /\ conn'[c].req = conn[c].req
<1> DEFINE r == [conn[c] EXCEPT !.st = "answered", !.reply = s]
<1>1. conn \in [Conn -> ConnState] /\ conn[c] \in ConnState
  BY DEF Typed, TypeOK
<1>2. conn' = [conn EXCEPT ![c] = r]
  BY <1>1 DEF Answer, ConnState
<1>3. r \in ConnState /\ r.req = conn[c].req
  BY <1>1 DEF ConnState
<1> HIDE DEF r
<1> QED
  BY <1>1, <1>2, <1>3 DEF OnlyConn

\* What Emit does to the audit log.
LEMMA EmitStep ==
    ASSUME Typed, NEW c \in Conn, NEW k,
           k \in {"replied", "denied", "needs_confirm", "failed", "ran"},
           Emit(k, c)
    PROVE  audit' \subseteq Event
<1>1. conn[c].id \in Nat
  BY DEF Typed, TypeOK, ConnState
<1> QED
  BY <1>1 DEF Typed, TypeOK, Emit, Event

-----------------------------------------------------------------------------
(* Every step keeps the types and the owners of commands.                  *)

\* A request decoded from a connection keeps the types.
LEMMA TypedReceive ==
    ASSUME Typed, NEW c \in Conn, ReceiveCommand(c) \/ ReceiveReasoned(c)
    PROVE  Typed'
<1>1. PICK q \in Request, st \in {"queued", "reasoning"} :
         /\ conn[c].st = "idle"
         /\ conn' = [conn EXCEPT ![c] = Opened(st, q)]
         /\ \/ mailbox' = mailbox
            \/ mailbox' = Append(mailbox, c) /\ st = "queued"
         /\ received' = received + 1
         /\ UNCHANGED <<now, actorState, logfile, actor, audit, ghosts>>
  BY DEF ReceiveCommand, ReceiveReasoned
<1>2. Opened(st, q) \in ConnState
  <2>1. received + 1 \in Nat
    BY DEF Typed, TypeOK
  <2>2. <<>> \in Seq(Call) /\ <<>> \in Seq(Step)
    OBVIOUS
  <2> QED
    BY <2>1, <2>2 DEF Opened, ConnState, Status, Replies
<1>3. OnlyConn(c) /\ conn'[c].st = st /\ conn'[c].req = q
  BY <1>1, <1>2 DEF Typed, TypeOK, OnlyConn, Opened
<1>4. mailbox' \in Seq(Conn) /\ CommandOwners'
  BY <1>1, <1>3, QuietStep
<1> QED
  BY <1>1, <1>3, <1>4 DEF Typed, TypeOK, OnlyConn, actorState, ghosts

\* The reasoning goroutine, and a reply delivered, keep the types.
LEMMA TypedModel ==
    ASSUME Typed, NEW c \in Conn, Model(c) \/ BindNext(c) \/ Deliver(c)
    PROVE  Typed'
<1>1. /\ UNCHANGED <<now, actorState, logfile, actor, ghosts, received>>
      /\ conn[c].st \in {"reasoning", "fallback", "bound", "answered"}
      /\ conn[c].req \in Request
  BY DEF Model, ReasoningFails, PlansNothing, FindsNothing, FindsSteps,
         BindNext, Deliver, Typed, CommandOwners
<1>2. audit' \subseteq Event
  BY EmitStep DEF Model, ReasoningFails, PlansNothing, FindsNothing, FindsSteps,
                  BindNext, Deliver, Typed, TypeOK
<1>3. /\ OnlyConn(c)
      /\ conn'[c].st # "idle" => conn'[c].req \in Request
      /\ \/ mailbox' = mailbox
         \/ mailbox' = Append(mailbox, c) /\ conn'[c].st = "queued"
  <2>1. CASE conn' = Answer(c, "error") /\ mailbox' = mailbox
    BY <1>1, <2>1, AnswerStep DEF Status, Replies
  <2>2. CASE conn' = Answer(c, "planned") /\ mailbox' = mailbox
    BY <1>1, <2>2, AnswerStep DEF Status, Replies
  <2>3. CASE PlansNothing(c)
    BY <1>1, <2>3 DEF PlansNothing, OnlyConn, Typed, TypeOK, ConnState
  <2>4. CASE FindsSteps(c)
    <3>1. PICK n \in 1..MaxSteps : \E steps \in [1..n -> Call] :
             conn' = [conn EXCEPT ![c].st = "queued", ![c].todo = steps]
      BY <2>4 DEF FindsSteps
    <3>2. PICK steps \in [1..n -> Call] :
             conn' = [conn EXCEPT ![c].st = "queued", ![c].todo = steps]
      BY <3>1
    <3>3. steps \in Seq(Call)
      BY DaemonAssumption
    <3>4. [conn[c] EXCEPT !.st = "queued", !.todo = steps] \in ConnState
      BY <3>3 DEF Typed, TypeOK, ConnState
    <3>5. conn' = [conn EXCEPT ![c] = [conn[c] EXCEPT !.st = "queued", !.todo = steps]]
      BY <3>2 DEF Typed, TypeOK, ConnState
    <3> QED
      BY <1>1, <2>4, <3>4, <3>5 DEF FindsSteps, OnlyConn, Typed, TypeOK, ConnState
  <2>5. CASE /\ conn' = [conn EXCEPT ![c].st = "queued"]
             /\ mailbox' = Append(mailbox, c)
    BY <1>1, <2>5 DEF OnlyConn, Typed, TypeOK, ConnState
  <2>6. CASE Deliver(c)
    <3>1. Idle \in ConnState
      BY DEF Idle, ConnState, Status, Replies
    <3> QED
      BY <2>6, <3>1 DEF Deliver, OnlyConn, Typed, TypeOK, Idle
  <2> QED
    BY <2>1, <2>2, <2>3, <2>4, <2>5, <2>6
       DEF Model, ReasoningFails, FindsNothing, BindNext
<1>4. mailbox' \in Seq(Conn) /\ CommandOwners'
  BY <1>1, <1>3, QuietStep
<1> QED
  BY <1>1, <1>2, <1>3, <1>4 DEF Typed, TypeOK, OnlyConn, actorState, ghosts

\* A command answered on the actor goroutine keeps the types.
LEMMA TypedHandle ==
    ASSUME Typed, NEW c \in Conn, Handle(c), ~StartRun(c)
    PROVE  Typed'
<1>1. /\ Takes(c)
      /\ UNCHANGED <<now, actorState, logfile, actor, ghosts, received>>
  BY DEF Handle, HandleStateless, HandleEvaluate, RunUnknown, RunDenied,
         RunNeedsConfirm
<1>2. audit' \subseteq Event
  BY EmitStep DEF Handle, HandleStateless, HandleEvaluate, RunUnknown,
                  RunDenied, RunNeedsConfirm, Typed, TypeOK
<1>3. OnlyConn(c) /\ conn'[c].req = conn[c].req
  <2>1. ASSUME NEW s \in Status, conn' = Answer(c, s)
        PROVE  OnlyConn(c) /\ conn'[c].req = conn[c].req
    BY <2>1, AnswerStep
  <2>2. CASE HandleEvaluate(c) /\ conn[c].todo # <<>>
    <3> DEFINE d == Decide(arm, session, Command(c).cap, now)
               step == [call |-> Head(conn[c].todo), decision |-> d]
               r == [conn[c] EXCEPT !.st = "bound", !.todo = Tail(@),
                                    !.plan = Append(@, step)]
    <3>1. conn[c].todo \in Seq(Call) /\ conn[c].plan \in Seq(Step)
      BY DEF Typed, TypeOK, ConnState
    <3>2. Head(conn[c].todo) \in Call /\ Tail(conn[c].todo) \in Seq(Call)
      BY <2>2, <3>1
    <3>3. Command(c).cap \in Cap
      BY <2>2, <3>2 DEF Command, Call
    <3>4. d \in Decision
      BY <3>3, DecideType DEF Typed, TypeOK
    <3>5. step \in Step
      BY <3>2, <3>4 DEF Step
    <3>6. r \in ConnState /\ r.req = conn[c].req
      <4>1. Append(conn[c].plan, step) \in Seq(Step)
        BY <3>1, <3>5
      <4> HIDE DEF step, d
      <4> QED
        BY <3>2, <4>1 DEF Typed, TypeOK, ConnState
    <3>7. conn' = [conn EXCEPT ![c] = r]
      BY <2>2 DEF HandleEvaluate, Typed, TypeOK, ConnState
    <3> QED
      BY <3>6, <3>7 DEF OnlyConn, Typed, TypeOK
  <2>3. CASE HandleEvaluate(c) /\ conn[c].todo = <<>>
    BY <2>1, <2>3 DEF HandleEvaluate, Status, Replies
  <2> QED
    BY <2>1, <2>2, <2>3 DEF Handle, HandleStateless, StatelessReply, RunUnknown,
                       RunDenied, RunNeedsConfirm, Status, Replies
<1>4. mailbox' \in Seq(Conn) /\ CommandOwners'
  BY <1>1, <1>3, HandledStep
<1> QED
  BY <1>1, <1>2, <1>3, <1>4 DEF Typed, TypeOK, OnlyConn, actorState, ghosts

\* The record of a run of a registered capability is a record.
LEMMA RecordType ==
    ASSUME Typed, NEW c \in Conn, conn[c].req \in Request,
           conn[c].req.op = "run", conn[c].req.cap \in Cap, NEW t \in Nat
    PROVE  RecordOf(c, t) \in Record
<1>1. conn[c].id \in Nat
  BY DEF Typed, TypeOK, ConnState
<1>2. conn[c].req.arg \in Arg /\ conn[c].req.approved \in BOOLEAN
  BY DEF Request
<1> QED
  BY <1>1, <1>2 DEF RecordOf, Record, Signature, Sig

\* A run admitted by the gate keeps the types.
LEMMA TypedStartRun ==
    ASSUME Typed, NEW c \in Conn, StartRun(c)
    PROVE  Typed' /\ RecordOf(c, now) \in Record
<1>1. /\ Takes(c)
      /\ conn[c].todo = <<>>
      /\ conn[c].req.op = "run"
      /\ conn[c].req.cap \in Cap
  BY DEF StartRun, Command
<1>2. conn[c].st = "queued" /\ conn[c].req \in Request
  BY <1>1, TakesFacts
<1>3. RecordOf(c, now) \in Record
  BY <1>1, <1>2, RecordType DEF Typed, TypeOK
<1>4. CommandOwners' /\ mailbox' \in Seq(Conn)
  BY <1>1, <1>2, TakesFacts DEF StartRun, Typed, TypeOK, CommandOwners, Busy
<1> QED
  BY <1>3, <1>4 DEF StartRun, Typed, TypeOK, actorState

\* The reply of a run, failed or saved, keeps the types.
LEMMA TypedRelease ==
    ASSUME Typed, RunFails \/ FinishRun
    PROVE  Typed'
<1>1. Busy /\ actor.conn \in Conn
  BY DEF RunFails, FinishRun, Busy, Typed, CommandOwners
<1>2. PICK s \in Status : conn' = Answer(actor.conn, s)
  BY DEF RunFails, FinishRun, Status, Replies
<1>3. OnlyConn(actor.conn) /\ conn'[actor.conn].req = conn[actor.conn].req
  BY <1>1, <1>2, AnswerStep
<1>4. audit' \subseteq Event
  BY <1>1, EmitStep DEF RunFails, FinishRun
<1>5. CommandOwners'
  BY <1>1, <1>3, ReleaseStep DEF RunFails, FinishRun
<1> QED
  BY <1>3, <1>4, <1>5
     DEF RunFails, FinishRun, Listening, Typed, TypeOK, OnlyConn, actorState, ghosts

\* A successful execution and its save keep the types.
LEMMA TypedRunSucceeds ==
    ASSUME Typed, RunSucceeds
    PROVE  Typed' /\ NewRecord \in Record
<1>1. Busy /\ actor.conn \in Conn
  BY DEF RunSucceeds, Busy, Typed, CommandOwners
<1>2. NewRecord \in Record
  BY <1>1, RecordType DEF NewRecord, Typed, TypeOK, CommandOwners
<1>3. logfile' \subseteq Record /\ history' \subseteq Record
  BY <1>2, SavedType DEF RunSucceeds, Typed, TypeOK
<1> QED
  BY <1>1, <1>2, <1>3 DEF RunSucceeds, Typed, TypeOK, CommandOwners, Busy

\* Every step keeps the types.
LEMMA TypedNext == Typed /\ [Next]_vars => Typed'
<1> SUFFICES ASSUME Typed, [Next]_vars PROVE Typed'
  OBVIOUS
<1>1. ASSUME NEW c \in Conn, ReceiveCommand(c) \/ ReceiveReasoned(c) PROVE Typed'
  BY <1>1, TypedReceive
<1>2. ASSUME NEW c \in Conn, Model(c) \/ BindNext(c) \/ Deliver(c) PROVE Typed'
  BY <1>2, TypedModel
<1>3. ASSUME NEW c \in Conn, Handle(c) PROVE Typed'
  BY <1>3, TypedHandle, TypedStartRun
<1>4. CASE RunFails \/ FinishRun
  BY <1>4, TypedRelease
<1>5. CASE RunSucceeds
  BY <1>5, TypedRunSucceeds
<1>6. CASE TickPrune
  BY <1>6, PruneArmType
     DEF TickPrune, PruneActions, ghosts, Typed, TypeOK, CommandOwners, Busy
<1>7. CASE Shutdown \/ Crash
  <2>1. Idle \in ConnState
    BY DEF Idle, ConnState, Status, Replies
  <2>2. IsArmState([x \in {} |-> 0])
    BY DEF IsArmState, IsMap
  <2> QED
    <3>1. /\ conn' = [c \in Conn |-> Idle]
          /\ mailbox' = <<>>
          /\ arm' = [x \in {} |-> 0]
          /\ session' = {}
          /\ history' = {}
          /\ actor' = Stopped
          /\ UNCHANGED <<now, logfile, audit, restored, starts, runs, received>>
      BY <1>7 DEF Shutdown, Crash, Stops, ghosts
    <3>2. TypeOK'
      BY <2>1, <2>2, <3>1 DEF Stopped, Typed, TypeOK
    <3>3. CommandOwners'
      BY <3>1 DEF Stopped, Idle, CommandOwners, Busy
    <3> QED
      BY <3>2, <3>3 DEF Typed
<1>8. CASE Restart
  BY <1>8, PruneArmType, DaemonAssumption
     DEF Restart, Listening, Seeded, PruneActions, Typed, TypeOK,
         CommandOwners, Busy
<1>9. CASE Advance
  BY <1>9 DEF Advance, actorState, ghosts, Typed, TypeOK, CommandOwners, Busy
<1>10. CASE UNCHANGED vars
  BY <1>10 DEF vars, Typed, TypeOK, CommandOwners, Busy
<1> QED
  BY <1>1, <1>2, <1>3, <1>4, <1>5, <1>6, <1>7, <1>8, <1>9, <1>10 DEF Next

\* The daemon's state is well typed in every reachable state.
THEOREM TypeCorrect == Spec => []TypeOK
<1>1. Spec => []Typed
  BY TypedInit, TypedNext, PTL DEF Spec
<1>2. Typed => TypeOK
  BY DEF Typed
<1> QED
  BY <1>1, <1>2, PTL

-----------------------------------------------------------------------------
(* The doom-loop breaker never misses a success inside its window.         *)

\* The sets of records the daemon counts are finite.
FiniteRecords ==
    /\ IsFiniteSet(logfile)
    /\ IsFiniteSet(history)
    /\ IsFiniteSet(runs)
    /\ IsFiniteSet(restored)

Remembered == Typed /\ HistoryCoversWindow /\ FiniteRecords

\* Pruning keeps a history finite.
LEMMA PruneActionsFinite ==
    ASSUME NEW h, IsFiniteSet(h), NEW t
    PROVE  IsFiniteSet(PruneActions(h, t))
<1>1. PruneActions(h, t) \subseteq h
  BY DEF PruneActions
<1> QED
  BY <1>1, FS_Subset

\* A saved history is finite.
LEMMA SavedFinite ==
    ASSUME NEW h, IsFiniteSet(h)
    PROVE  IsFiniteSet(Saved(h))
<1> DEFINE f == [r \in h |-> [r EXCEPT !.at = FileTime(@)]]
<1>1. f \in [h -> Saved(h)]
  BY DEF Saved
<1>2. \A s \in Saved(h) : \E r \in h : f[r] = s
  BY DEF Saved
<1>3. f \in Surjection(h, Saved(h))
  BY <1>1, <1>2 DEF Surjection
<1> QED
  BY <1>3, FS_Surjection

\* New remembers what the log holds inside the window.
LEMMA RememberedInit == Init => Remembered
<1> SUFFICES ASSUME Init PROVE Remembered
  OBVIOUS
<1>1. Typed
  BY TypedInit
<1>2. FiniteRecords
  BY PruneActionsFinite, FS_EmptySet, DaemonAssumption
     DEF Init, Seeded, FiniteRecords
<1>3. HistoryCoversWindow
  BY DEF Init, HistoryCoversWindow
<1> QED
  BY <1>1, <1>2, <1>3 DEF Remembered

\* Only four actions and a stop touch what the breaker remembers.
LEMMA OthersRemember ==
    ASSUME [Next]_vars, ~RunSucceeds, ~TickPrune, ~Shutdown, ~Crash, ~Restart
    PROVE  /\ UNCHANGED <<logfile, history, runs, restored, arm, session>>
           /\ actor'.phase # "down" => actor.phase # "down"
           /\ now' = now \/ (Advance /\ now' = now + 1)
<1>1. ASSUME NEW c \in Conn, Handle(c)
      PROVE  /\ UNCHANGED <<logfile, history, runs, restored, arm, session, now>>
             /\ actor.phase # "down"
  BY <1>1 DEF Handle, HandleStateless, HandleEvaluate, RunUnknown, RunDenied,
         RunNeedsConfirm, StartRun, Takes, actorState, ghosts
<1>2. ASSUME NEW c \in Conn,
             \/ ReceiveCommand(c) \/ ReceiveReasoned(c) \/ Model(c)
             \/ BindNext(c) \/ Deliver(c)
      PROVE  UNCHANGED <<logfile, history, runs, restored, arm, session, now, actor>>
  BY <1>2 DEF ReceiveCommand, ReceiveReasoned, Model, ReasoningFails,
         PlansNothing, FindsNothing, FindsSteps, BindNext, Deliver, actorState,
         ghosts
<1>3. CASE RunFails \/ FinishRun
  BY <1>3 DEF RunFails, FinishRun, actorState, ghosts
<1>4. CASE Advance
  BY <1>4 DEF Advance, actorState, ghosts
<1>5. CASE UNCHANGED vars
  BY <1>5 DEF vars, actorState, ghosts
<1> QED
  BY <1>1, <1>2, <1>3, <1>4, <1>5 DEF Next

\* Every step remembers what the window holds.
LEMMA RememberedNext == Remembered /\ [Next]_vars => Remembered'
<1> SUFFICES ASSUME Remembered, [Next]_vars PROVE Remembered'
  OBVIOUS
<1>1. Typed'
  BY TypedNext DEF Remembered
<1> SUFFICES HistoryCoversWindow' /\ FiniteRecords'
  BY <1>1 DEF Remembered
<1>2. now \in Nat /\ \A r \in runs \cup restored : r.at \in Nat
  BY DEF Remembered, Typed, TypeOK, Record
<1> Window \in Nat
  BY GateAssumption
<1>3. CASE RunSucceeds
  <2>1. FiniteRecords'
    <3>1. IsFiniteSet(history') /\ IsFiniteSet(runs')
      BY <1>3, FS_AddElement DEF RunSucceeds, Remembered, FiniteRecords
    <3>2. IsFiniteSet(logfile')
      BY <1>3, <3>1, SavedFinite, FS_EmptySet
         DEF RunSucceeds, Remembered, FiniteRecords
    <3> QED
      BY <1>3, <3>1, <3>2 DEF RunSucceeds, Remembered, FiniteRecords
  <2>2. HistoryCoversWindow'
    BY <1>3 DEF RunSucceeds, Remembered, HistoryCoversWindow
  <2> QED
    BY <2>1, <2>2
<1>4. CASE TickPrune
  <2>1. FiniteRecords'
    BY <1>4, PruneActionsFinite DEF TickPrune, ghosts, Remembered, FiniteRecords
  <2>2. HistoryCoversWindow'
    BY <1>2, <1>4
       DEF TickPrune, PruneActions, ghosts, Remembered, HistoryCoversWindow
  <2> QED
    BY <2>1, <2>2
<1>5. CASE Shutdown \/ Crash
  <2>1. FiniteRecords'
    BY <1>5, FS_EmptySet
       DEF Shutdown, Crash, Stops, ghosts, Remembered, FiniteRecords
  <2>2. HistoryCoversWindow'
    BY <1>5 DEF Shutdown, Crash, Stops, Stopped, HistoryCoversWindow
  <2> QED
    BY <2>1, <2>2
<1>6. CASE Restart
  <2>1. FiniteRecords'
    BY <1>6, PruneActionsFinite, FS_EmptySet
       DEF Restart, Seeded, Remembered, FiniteRecords
  <2>2. HistoryCoversWindow'
    BY <1>6 DEF Restart, HistoryCoversWindow
  <2> QED
    BY <2>1, <2>2
<1>7. CASE ~RunSucceeds /\ ~TickPrune /\ ~Shutdown /\ ~Crash /\ ~Restart
  <2>1. /\ UNCHANGED <<logfile, history, runs, restored>>
        /\ actor'.phase # "down" => actor.phase # "down"
        /\ now' = now \/ now' = now + 1
    BY <1>7, OthersRemember
  <2>2. FiniteRecords'
    BY <2>1 DEF Remembered, FiniteRecords
  <2>3. HistoryCoversWindow'
    BY <1>2, <2>1 DEF Remembered, HistoryCoversWindow
  <2> QED
    BY <2>2, <2>3
<1> QED
  BY <1>3, <1>4, <1>5, <1>6, <1>7

\* While the daemon is up no success inside the window is ever forgotten,
\* whatever the ticker prunes and whenever the process restarts.
THEOREM HistoryCovers == Spec => []HistoryCoversWindow
<1>1. Spec => []Remembered
  BY RememberedInit, RememberedNext, PTL DEF Spec
<1>2. Remembered => HistoryCoversWindow
  BY DEF Remembered
<1> QED
  BY <1>1, <1>2, PTL

\* An execution is begun by StartRun alone.
LEMMA StartsGrow ==
    ASSUME [Next]_vars, NEW e \in starts' \ starts
    PROVE  \E c \in Conn : StartRun(c) /\ e = RecordOf(c, now)
<1>1. ASSUME NEW c \in Conn, Handle(c), ~StartRun(c) PROVE starts' = starts
  BY <1>1 DEF Handle, HandleStateless, HandleEvaluate, RunUnknown, RunDenied,
         RunNeedsConfirm, ghosts
<1>2. ASSUME NEW c \in Conn,
             \/ ReceiveCommand(c) \/ ReceiveReasoned(c) \/ Model(c)
             \/ BindNext(c) \/ Deliver(c)
      PROVE  starts' = starts
  BY <1>2 DEF ReceiveCommand, ReceiveReasoned, Model, ReasoningFails,
         PlansNothing, FindsNothing, FindsSteps, BindNext, Deliver, ghosts
<1>3. CASE RunFails \/ FinishRun \/ RunSucceeds \/ TickPrune \/ Shutdown
           \/ Crash \/ Restart \/ Advance \/ UNCHANGED vars
  BY <1>3 DEF RunFails, FinishRun, RunSucceeds, TickPrune, Shutdown, Crash,
         Stops, Restart, Advance, vars, ghosts
<1>4. ASSUME NEW c \in Conn, StartRun(c) PROVE e = RecordOf(c, now)
  BY <1>4 DEF StartRun
<1> QED
  BY <1>1, <1>2, <1>3, <1>4 DEF Next

\* Before a start the breaker counted exactly the successes in the window.
LEMMA RecentExact ==
    ASSUME Remembered, actor.phase # "down", NEW sig
    PROVE  /\ Recent(history, sig, now) = Recent(runs \cup restored, sig, now)
           /\ Cardinality(Recent(history, sig, now)) \in Nat
<1>1. Recent(history, sig, now) = Recent(runs \cup restored, sig, now)
  BY DEF Remembered, HistoryCoversWindow, Recent
<1>2. Recent(history, sig, now) \subseteq history
  BY DEF Recent
<1>3. IsFiniteSet(Recent(history, sig, now))
  BY <1>2, FS_Subset DEF Remembered, FiniteRecords
<1> QED
  BY <1>1, <1>3, FS_CardinalityType

\* No step begins an unapproved Threshold-th repetition.
LEMMA CutStep ==
    ASSUME Remembered, [Next]_vars,
           NEW e \in starts' \ starts, ~e.approved, Threshold >= 2
    PROVE  1 + Cardinality(Recent(runs \cup restored, e.sig, e.at)) < Threshold
<1>1. PICK c \in Conn : StartRun(c) /\ e = RecordOf(c, now)
  BY StartsGrow
<1>2. e.sig = Signature(conn[c].req) /\ e.at = now
      /\ e.approved = conn[c].req.approved
  BY <1>1 DEF RecordOf
<1>3. ~IsDoomLoop(history, e.sig, now)
  BY <1>1, <1>2 DEF StartRun, AsksHuman
<1>4. actor.phase # "down"
  BY <1>1 DEF StartRun, Takes
<1>5. /\ Recent(history, e.sig, now) = Recent(runs \cup restored, e.sig, now)
      /\ Cardinality(Recent(history, e.sig, now)) \in Nat
  BY <1>4, RecentExact
<1> QED
  BY <1>2, <1>3, <1>5, GateAssumption DEF IsDoomLoop

\* The daemon cuts: no execution begins unapproved as the Threshold-th success
\* of its signature inside the window, for any policy and any schedule.
THEOREM CutsDoomLoop == Spec => DoomLoopCut
<1>1. Spec => []Remembered
  BY RememberedInit, RememberedNext, PTL DEF Spec
<1>2. Remembered /\ [Next]_vars =>
        [\A e \in starts' \ starts :
            (~e.approved /\ Threshold >= 2) =>
                1 + Cardinality(Recent(runs \cup restored, e.sig, e.at))
                    < Threshold]_vars
  BY CutStep
<1> QED
  BY <1>1, <1>2, PTL DEF Spec, DoomLoopCut

-----------------------------------------------------------------------------
(* Nothing runs that the grants on file did not cover.                     *)

\* The grants a are those on file, less some that have expired by t.
Agrees(a, t) ==
    /\ \A c \in DOMAIN a : c \in DOMAIN InitArm /\ a[c] = InitArm[c]
    /\ \A c \in DOMAIN InitArm : t < InitArm[c] => c \in DOMAIN a

Granted ==
    actor.phase # "down" =>
        /\ session = InitSession
        /\ Agrees(arm, now)

Authorised == Typed /\ Granted /\ StartsCovered

\* Grants that agree with those on file still do after pruning.
LEMMA PruneAgrees ==
    ASSUME NEW t, NEW a, Agrees(a, t)
    PROVE  Agrees(PruneArm(a, t), t)
  BY DEF Agrees, PruneArm

\* New's pruning of the grants on file.
LEMMA PrunedAgree == \A t : Agrees(PruneArm(InitArm, t), t)
  BY PruneAgrees DEF Agrees

\* At the start the grants in memory agree with those on file.
LEMMA AuthorisedInit == Init => Authorised
<1> SUFFICES ASSUME Init PROVE Authorised
  OBVIOUS
<1>1. Granted
  <2>1. /\ arm = PruneArm(InitArm, now)
        /\ session = InitSession
    BY DEF Init
  <2> QED
    BY <2>1, PrunedAgree DEF Granted
<1> QED
  BY <1>1, TypedInit DEF Init, Authorised, StartsCovered

\* Grants that agree on file and in memory give the same answers.
LEMMA GrantsExactStep == Typed /\ Granted => GrantsExact
  BY DEF Granted, Agrees, GrantsExact, IsArmed

\* The decision a start was taken with is the decision of the grants on file.
LEMMA SameDecision ==
    ASSUME Typed, Granted, actor.phase # "down", NEW c \in Cap
    PROVE  /\ Evaluate(arm, c, now) = Evaluate(InitArm, c, now)
           /\ Decide(arm, session, c, now) = Decide(InitArm, InitSession, c, now)
<1>1. IsArmed(arm, c, now) <=> IsArmed(InitArm, c, now)
  BY GrantsExactStep DEF GrantsExact
<1>2. Evaluate(arm, c, now) = Evaluate(InitArm, c, now)
  BY <1>1 DEF Evaluate
<1> QED
  BY <1>2 DEF Decide, Granted

\* A run the gate admits is covered by the grants on file.
LEMMA StartCovered ==
    ASSUME Authorised, NEW c \in Conn, StartRun(c)
    PROVE  LET e == RecordOf(c, now)
           IN  /\ Evaluate(InitArm, e.sig[1], e.at) # "deny"
               /\ \/ e.approved
                  \/ Decide(InitArm, InitSession, e.sig[1], e.at) = "allow"
<1> DEFINE q == conn[c].req
<1>1. q.cap \in Cap /\ actor.phase # "down" /\ ~Denies(q) /\ ~AsksHuman(q)
  BY DEF StartRun, Takes, Command
<1>2. /\ Evaluate(arm, q.cap, now) = Evaluate(InitArm, q.cap, now)
      /\ Decide(arm, session, q.cap, now) = Decide(InitArm, InitSession, q.cap, now)
  BY <1>1, SameDecision DEF Authorised
<1>3. Decide(arm, session, q.cap, now) \in Decision
  BY <1>1, DecideType
<1>4. Evaluate(arm, q.cap, now) # "deny"
  BY <1>1 DEF Denies, Decide
<1>5. q.approved \/ Decide(arm, session, q.cap, now) = "allow"
  BY <1>1, <1>3 DEF Denies, AsksHuman, Decision
<1> QED
  BY <1>2, <1>4, <1>5 DEF RecordOf, Signature

\* Every step keeps executions covered.
LEMMA AuthorisedNext == Authorised /\ [Next]_vars => Authorised'
<1> SUFFICES ASSUME Authorised, [Next]_vars PROVE Authorised'
  OBVIOUS
<1>1. Typed'
  BY TypedNext DEF Authorised
<1>2. StartsCovered'
  <2> SUFFICES ASSUME NEW e \in starts'
               PROVE  /\ Evaluate(InitArm, e.sig[1], e.at) # "deny"
                      /\ \/ e.approved
                         \/ Decide(InitArm, InitSession, e.sig[1], e.at) = "allow"
    BY DEF StartsCovered
  <2>1. CASE e \in starts
    BY <2>1 DEF Authorised, StartsCovered
  <2>2. CASE e \notin starts
    <3>1. PICK c \in Conn : StartRun(c) /\ e = RecordOf(c, now)
      BY <2>2, StartsGrow
    <3> QED
      BY <3>1, StartCovered
  <2> QED
    BY <2>1, <2>2
<1>3. Granted'
  <2>1. now \in Nat /\ IsArmState(arm) /\ IsArmState(InitArm)
    BY DaemonAssumption DEF Authorised, Typed, TypeOK
  <2>2. CASE TickPrune
    BY <2>2, PruneAgrees DEF TickPrune, Authorised, Granted
  <2>3. CASE Shutdown \/ Crash
    BY <2>3 DEF Shutdown, Crash, Stops, Stopped, Granted
  <2>4. CASE Restart
    BY <2>4, PrunedAgree DEF Restart, Granted
  <2>5. CASE RunSucceeds
    BY <2>5 DEF RunSucceeds, Authorised, Granted
  <2>6. CASE ~RunSucceeds /\ ~TickPrune /\ ~Shutdown /\ ~Crash /\ ~Restart
    <3>1. /\ UNCHANGED <<arm, session>>
          /\ actor'.phase # "down" => actor.phase # "down"
          /\ now' = now \/ now' = now + 1
      BY <2>6, OthersRemember
    <3>2. \A c \in DOMAIN InitArm : InitArm[c] \in Nat
      BY <2>1 DEF IsArmState, IsMap
    <3> QED
      BY <2>1, <3>1, <3>2 DEF Authorised, Granted, Agrees
  <2> QED
    BY <2>2, <2>3, <2>4, <2>5, <2>6
<1> QED
  BY <1>1, <1>2, <1>3 DEF Authorised

\* Every execution was covered by the grants on file when it was decided.
THEOREM CoversStarts == Spec => []StartsCovered
<1>1. Spec => []Authorised
  BY AuthorisedInit, AuthorisedNext, PTL DEF Spec
<1>2. Authorised => StartsCovered
  BY DEF Authorised
<1> QED
  BY <1>1, <1>2, PTL

\* Pruning is invisible: memory and file agree on what is armed.
THEOREM GrantsStayExact == Spec => []GrantsExact
<1>1. Spec => []Authorised
  BY AuthorisedInit, AuthorisedNext, PTL DEF Spec
<1>2. Authorised => GrantsExact
  BY GrantsExactStep DEF Authorised
<1> QED
  BY <1>1, <1>2, PTL

-----------------------------------------------------------------------------
(* Requests are numbered within their bound.                               *)

Numbered ==
    /\ received \in 0..MaxRequests
    /\ \A c \in Conn : conn[c].id \in 0..received

\* Before the first request the numbers are zero.
LEMMA NumberedInit == Init => Numbered
  BY DaemonAssumption DEF Init, Numbered, Idle

\* The connections keep their numbers, or are closed.
Kept == \A d \in Conn : conn'[d].id \in {0, conn[d].id}

\* An answer keeps them.
LEMMA AnswerKeeps ==
    ASSUME Typed, NEW c \in Conn, NEW s, conn' = Answer(c, s)
    PROVE  Kept
  BY DEF Typed, TypeOK, ConnState, Answer, Kept

\* A request takes the next number; nothing else makes one.
LEMMA NumberedNext == Typed /\ Numbered /\ [Next]_vars => Numbered'
<1> SUFFICES ASSUME Typed, Numbered, [Next]_vars PROVE Numbered'
  OBVIOUS
<1> USE DaemonAssumption DEF Numbered
<1>1. conn \in [Conn -> ConnState] /\ received \in Nat
  BY DEF Typed, TypeOK
<1>2. ASSUME NEW c \in Conn, ReceiveCommand(c) \/ ReceiveReasoned(c)
      PROVE  Numbered'
  <2>1. PICK st, q : /\ conn' = [conn EXCEPT ![c] = Opened(st, q)]
                     /\ received < MaxRequests
                     /\ received' = received + 1
    BY <1>2 DEF ReceiveCommand, ReceiveReasoned
  <2>2. conn'[c].id = received + 1
    BY <1>1, <2>1 DEF Opened
  <2>3. \A d \in Conn \ {c} : conn'[d] = conn[d]
    BY <1>1, <2>1
  <2> QED
    BY <1>1, <2>1, <2>2, <2>3
<1>3. ASSUME NEW c \in Conn, Model(c) \/ BindNext(c) \/ Deliver(c)
      PROVE  Numbered'
  <2>1. received' = received
    BY <1>3 DEF Model, ReasoningFails, PlansNothing, FindsNothing, FindsSteps,
                BindNext, Deliver
  <2>2. ASSUME \E t : conn' = Answer(c, t) PROVE Kept
    BY <2>2, AnswerKeeps
  <2>3. ASSUME Deliver(c) PROVE Kept
    BY <1>1, <2>3 DEF Deliver, Idle, Kept
  <2>4. ASSUME PlansNothing(c) PROVE Kept
    BY <1>1, <2>4 DEF PlansNothing, ConnState, Kept
  <2>5. ASSUME FindsSteps(c) PROVE Kept
    BY <1>1, <2>5 DEF FindsSteps, ConnState, Kept
  <2>6. ASSUME conn' = [conn EXCEPT ![c].st = "queued"] PROVE Kept
    BY <1>1, <2>6 DEF ConnState, Kept
  <2>7. Kept
    BY <1>3, <2>2, <2>3, <2>4, <2>5, <2>6
       DEF Model, ReasoningFails, FindsNothing, BindNext
  <2> QED
    BY <1>1, <2>1, <2>7 DEF Kept
<1>4. ASSUME NEW c \in Conn, Handle(c)
      PROVE  Numbered'
  <2>1. received' = received
    BY <1>4 DEF Handle, HandleStateless, HandleEvaluate, RunUnknown, RunDenied,
                RunNeedsConfirm, StartRun
  <2>2. ASSUME \E t : conn' = Answer(c, t) PROVE Kept
    BY <2>2, AnswerKeeps
  <2>3. ASSUME HandleEvaluate(c) /\ conn[c].todo # <<>> PROVE Kept
    <3> DEFINE d == Decide(arm, session, Command(c).cap, now)
               step == [call |-> Head(conn[c].todo), decision |-> d]
               plan == Append(conn[c].plan, step)
               r == [conn[c] EXCEPT !.st = "bound", !.todo = Tail(@),
                                    !.plan = plan]
    <3>1. conn' = [conn EXCEPT ![c] = r]
      BY <1>1, <2>3 DEF HandleEvaluate, ConnState
    <3>2. r.id = conn[c].id
      <4> HIDE DEF plan
      <4> QED
        BY <1>1 DEF ConnState
    <3> HIDE DEF r
    <3> QED
      BY <1>1, <3>1, <3>2 DEF Kept
  <2>4. ASSUME conn' = conn PROVE Kept
    BY <2>4 DEF Kept
  <2>5. Kept
    BY <1>4, <2>2, <2>3, <2>4
       DEF Handle, HandleStateless, HandleEvaluate, RunUnknown, RunDenied,
           RunNeedsConfirm, StartRun
  <2> QED
    BY <1>1, <2>1, <2>5 DEF Kept
<1>5. CASE RunFails \/ FinishRun
  <2>1. Busy /\ actor.conn \in Conn
    BY <1>5 DEF RunFails, FinishRun, Busy, Typed, CommandOwners
  <2>2. received' = received /\ Kept
    BY <1>5, <2>1, AnswerKeeps DEF RunFails, FinishRun
  <2> QED
    BY <1>1, <2>2 DEF Kept
<1>6. CASE Shutdown \/ Crash
  BY <1>1, <1>6 DEF Shutdown, Crash, Stops, Idle
<1>7. CASE RunSucceeds \/ TickPrune \/ Restart \/ Advance \/ UNCHANGED vars
  BY <1>7 DEF RunSucceeds, TickPrune, Restart, Advance, vars
<1> QED
  BY <1>2, <1>3, <1>4, <1>5, <1>6, <1>7 DEF Next

-----------------------------------------------------------------------------
(* The operators of the two specifications are the same.                   *)

\* The gate of GuardedRuns is the gate.
LEMMA SameGate ==
    /\ \A a, c, t : Guarded!Evaluate(a, c, t) = Evaluate(a, c, t)
    /\ \A a, S, c, t : Guarded!Decide(a, S, c, t) = Decide(a, S, c, t)
    /\ \A h, s, t : Guarded!IsDoomLoop(h, s, t) <=> IsDoomLoop(h, s, t)
<1>1. \A c : Guarded!Resolve(c) = Resolve(c)
  BY DEF Guarded!Resolve, Resolve
<1>2. \A a, c, t : Guarded!IsArmed(a, c, t) <=> IsArmed(a, c, t)
  BY DEF Guarded!IsArmed, IsArmed
<1>3. \A a, c, t : Guarded!Evaluate(a, c, t) = Evaluate(a, c, t)
  BY <1>1, <1>2 DEF Guarded!Evaluate, Evaluate
<1>4. \A a, S, c, t : Guarded!Decide(a, S, c, t) = Decide(a, S, c, t)
  BY <1>3 DEF Guarded!Decide, Decide
<1>5. \A h, s, t : Guarded!Recent(h, s, t) = Recent(h, s, t)
  BY DEF Guarded!Recent, Recent
<1>6. \A h, s, t : Guarded!IsDoomLoop(h, s, t) <=> IsDoomLoop(h, s, t)
  <2> SUFFICES ASSUME NEW h, NEW s, NEW t
               PROVE  Guarded!IsDoomLoop(h, s, t) <=> IsDoomLoop(h, s, t)
    OBVIOUS
  <2>1. Guarded!Cardinality(Guarded!Recent(h, s, t)) = Cardinality(Recent(h, s, t))
    BY <1>5 DEF Guarded!Cardinality, Cardinality
  <2> QED
    BY <2>1 DEF Guarded!IsDoomLoop, IsDoomLoop
<1> QED
  BY <1>3, <1>4, <1>6

\* So are its files.
LEMMA SameFiles ==
    /\ \A h, t : Guarded!PruneActions(h, t) = PruneActions(h, t)
    /\ \A h : Guarded!Saved(h) = Saved(h)
<1>1. \A t : Guarded!FileTime(t) = FileTime(t)
  BY DEF Guarded!FileTime, FileTime
<1> QED
  BY <1>1 DEF Guarded!PruneActions, PruneActions, Guarded!Saved, Saved

-----------------------------------------------------------------------------
(* Every step of the daemon is a step of GuardedRuns, or none.             *)

\* The execution in progress, as GuardedRuns sees it.
Running == IF actor.phase = "running" THEN {NewRecord} ELSE {}

\* All that the simulation rests on.
Faithful == Remembered /\ Authorised /\ Numbered

\* The invariant the refinement rests on holds at first.
LEMMA FaithfulInit == Init => Faithful
  BY RememberedInit, AuthorisedInit, NumberedInit DEF Faithful

\* Every step keeps it.
LEMMA FaithfulNext == Faithful /\ [Next]_vars => Faithful'
  BY RememberedNext, AuthorisedNext, NumberedNext DEF Faithful, Authorised

\* The initial states map to the initial state of GuardedRuns.
LEMMA GuardedInit == Init => Guarded!Init
  BY SameFiles DEF Init, Guarded!Init, Seeded, Listening

\* A start is admitted by the grants on file and by everything remembered.
LEMMA StartRunBegins ==
    ASSUME Faithful, NEW c \in Conn, StartRun(c)
    PROVE  Guarded!Begin
<1> DEFINE e == RecordOf(c, now)
<1>1. /\ actor.phase = "select"
      /\ actor' = [phase |-> "running", conn |-> c, since |-> now]
      /\ UNCHANGED <<now, conn, logfile, restored, runs>>
      /\ conn[c].req.op = "run"
      /\ ~AsksHuman(conn[c].req)
  BY DEF StartRun, Takes, Command
<1>2. e \in Record
  BY TypedStartRun DEF Faithful, Remembered
<1>3. /\ e.sig \in Cap \X Arg
      /\ e.approved \in BOOLEAN
      /\ e.id \in 0..MaxRequests
      /\ e = [sig |-> e.sig, at |-> now, id |-> e.id, approved |-> e.approved]
  <2>1. e.sig \in Cap \X Arg /\ e.approved \in BOOLEAN
    BY <1>2 DEF Record, Sig
  <2>2. e.id \in 0..MaxRequests
    BY DaemonAssumption DEF Faithful, Numbered, RecordOf
  <2> QED
    BY <2>1, <2>2 DEF RecordOf
<1>4. /\ Evaluate(InitArm, e.sig[1], now) # "deny"
      /\ \/ e.approved
         \/ Decide(InitArm, InitSession, e.sig[1], now) = "allow"
  BY StartCovered DEF Faithful, RecordOf
<1>5. e.approved \/ ~IsDoomLoop(runs \cup restored, e.sig, now)
  <2>1. Recent(history, e.sig, now) = Recent(runs \cup restored, e.sig, now)
    BY <1>1, RecentExact DEF Faithful
  <2>2. e.approved \/ ~IsDoomLoop(history, e.sig, now)
    BY <1>1 DEF AsksHuman, RecordOf
  <2> QED
    BY <2>1, <2>2 DEF IsDoomLoop
<1>6. Guarded!Admitted(e.sig, e.approved)
  BY <1>4, <1>5, SameGate DEF Guarded!Admitted
<1>7. NewRecord' = e
  BY <1>1 DEF NewRecord, RecordOf, Signature
<1> QED
  BY <1>1, <1>3, <1>6, <1>7 DEF Guarded!Begin

\* What is saved after a run holds all that the window reaches.
LEMMA RunSucceedsSucceeds ==
    ASSUME Faithful, RunSucceeds, Faithful'
    PROVE  Guarded!Succeed
<1>1. /\ actor.phase = "running"
      /\ actor'.phase = "ran"
      /\ runs' = runs \cup {NewRecord}
      /\ logfile' \in {Saved(history'), logfile, {}}
      /\ UNCHANGED <<now, restored>>
  BY DEF RunSucceeds, Faithful, Remembered, Typed, TypeOK
<1>2. /\ history' \subseteq runs' \cup restored
      /\ \A r \in runs' \cup restored : r.at > now - Window => r \in history'
  BY <1>1 DEF Faithful, Remembered, HistoryCoversWindow
<1>3. logfile' = Saved(history') => Guarded!Intact(logfile')
  BY <1>2, SameFiles DEF Guarded!Intact
<1> QED
  BY <1>1, <1>3 DEF Guarded!Succeed

\* Steps of other connections leave the execution in progress alone.
LEMMA OthersInvisible ==
    ASSUME Faithful, NEW c \in Conn,
           \/ ReceiveCommand(c) \/ ReceiveReasoned(c) \/ Model(c)
           \/ BindNext(c) \/ Deliver(c)
    PROVE  UNCHANGED <<now, actor, restored, runs, logfile, Running>>
<1>1. /\ UNCHANGED <<now, actor, restored, runs, logfile>>
      /\ conn[c].st # "queued"
      /\ \A d \in Conn \ {c} : conn'[d] = conn[d]
  <2>1. conn \in [Conn -> ConnState]
    BY DEF Faithful, Remembered, Typed, TypeOK
  <2> QED
    BY <2>1 DEF ReceiveCommand, ReceiveReasoned, Model, ReasoningFails,
         PlansNothing, FindsNothing, FindsSteps, BindNext, Deliver, Answer,
         ghosts
<1>2. Busy => actor.conn \in Conn \ {c}
  BY <1>1 DEF Faithful, Remembered, Typed, CommandOwners
<1>3. actor.phase = "running" => NewRecord' = NewRecord
  BY <1>1, <1>2 DEF Busy, NewRecord, RecordOf, Signature
<1> QED
  BY <1>1, <1>3 DEF Running

\* Every step maps to a step of GuardedRuns or to a stutter.
LEMMA GuardedNext == Faithful /\ Faithful' /\ [Next]_vars => [Guarded!Next]_Guarded!vars
<1> SUFFICES ASSUME Faithful, Faithful', [Next]_vars
             PROVE  Guarded!Next \/ UNCHANGED Guarded!vars
  OBVIOUS
<1>1. ASSUME NEW c \in Conn,
             \/ ReceiveCommand(c) \/ ReceiveReasoned(c) \/ Model(c)
             \/ BindNext(c) \/ Deliver(c)
      PROVE  UNCHANGED Guarded!vars
  BY <1>1, OthersInvisible DEF Running, Guarded!vars
<1>2. ASSUME NEW c \in Conn, StartRun(c)
      PROVE  Guarded!Next
  BY <1>2, StartRunBegins DEF Guarded!Next
<1>3. ASSUME NEW c \in Conn, Handle(c), ~StartRun(c)
      PROVE  UNCHANGED Guarded!vars
  <2>1. actor.phase = "select" /\ UNCHANGED <<now, actor, restored, runs, logfile>>
    BY <1>3 DEF Handle, HandleStateless, HandleEvaluate, RunUnknown, RunDenied,
         RunNeedsConfirm, Takes, ghosts
  <2> QED
    BY <2>1 DEF Guarded!vars
<1>4. CASE RunFails
  <2>1. /\ actor.phase = "running" /\ actor'.phase = "select"
        /\ UNCHANGED <<now, restored, runs, logfile>>
    BY <1>4 DEF RunFails, Listening, ghosts
  <2> QED
    BY <2>1 DEF Guarded!Next, Guarded!Fail
<1>5. CASE RunSucceeds
  BY <1>5, RunSucceedsSucceeds DEF Guarded!Next
<1>6. CASE FinishRun
  <2>1. /\ actor.phase = "ran" /\ actor'.phase = "select"
        /\ UNCHANGED <<now, restored, runs, logfile>>
    BY <1>6 DEF FinishRun, Listening, ghosts
  <2> QED
    BY <2>1 DEF Guarded!vars
<1>7. CASE TickPrune
  <2>1. actor.phase = "select" /\ UNCHANGED <<now, actor, restored, runs, logfile>>
    BY <1>7 DEF TickPrune, ghosts
  <2> QED
    BY <2>1 DEF Guarded!vars
<1>8. CASE Shutdown \/ Crash
  <2>1. /\ actor.phase # "down" /\ actor'.phase = "down"
        /\ UNCHANGED <<now, restored, runs, logfile>>
    BY <1>8 DEF Shutdown, Crash, Stops, Stopped, ghosts
  <2> QED
    BY <2>1 DEF Guarded!Next, Guarded!Stop
<1>9. CASE Restart
  <2>1. /\ actor.phase = "down" /\ actor'.phase = "select"
        /\ runs' = {}
        /\ restored' = Guarded!PruneActions(logfile, now)
        /\ UNCHANGED <<now, logfile>>
    BY <1>9, SameFiles DEF Restart, Listening, Seeded
  <2> QED
    BY <2>1 DEF Guarded!Next, Guarded!Start
<1>10. CASE Advance
  <2>1. /\ now' = now + 1
        /\ UNCHANGED <<conn, actor, restored, runs, logfile>>
    BY <1>10 DEF Advance, ghosts
  <2>2. Running' = Running
    BY <2>1 DEF Running, NewRecord, RecordOf, Signature
  <2> QED
    BY <2>1, <2>2 DEF Running, Guarded!Next, Guarded!Tick
<1>11. CASE UNCHANGED vars
  BY <1>11 DEF vars, Guarded!vars, NewRecord, RecordOf, Signature
<1> QED
  BY <1>1, <1>2, <1>3, <1>4, <1>5, <1>6, <1>7, <1>8, <1>9, <1>10, <1>11 DEF Next

\* Whatever the policy, the schedule, the prunings and the restarts, an
\* observer of executions sees the daemon behave as GuardedRuns says.
THEOREM Refines == Spec => ImplementsGuardedRuns
<1>1. Spec => []Faithful
  BY FaithfulInit, FaithfulNext, PTL DEF Spec
<1>2. Init => Guarded!Init
  BY GuardedInit
<1>3. Faithful /\ Faithful' /\ [Next]_vars => [Guarded!Next]_Guarded!vars
  BY GuardedNext
<1> QED
  BY <1>1, <1>2, <1>3, PTL DEF Spec, ImplementsGuardedRuns, Guarded!Spec

-----------------------------------------------------------------------------
(* Replies are true, and no command is lost.                               *)

\* The connection the actor executes for.
Executing(c) == Busy /\ actor.conn = c

Unstarted(c) == \A e \in starts : e.id # conn[c].id

\* Requests in service have numbers of their own.
OwnNumbers ==
    /\ \A c \in Conn : conn[c].st # "idle" => conn[c].id # 0
    /\ \A c, d \in Conn :
          (conn[c].st # "idle" /\ conn[d].st # "idle" /\ conn[c].id = conn[d].id)
              => c = d

\* The executions of a request in service are known: none yet, the one the actor
\* is busy with, or the one it has answered for.
Accounted ==
    /\ \A e \in starts : e.id \in 1..received
    /\ \A c \in Conn : conn[c].reply # NoReply => conn[c].st = "answered"
    /\ \A c \in Conn : conn[c].st # "idle" =>
          Unstarted(c) \/ Executing(c) \/ conn[c].reply \in {"ran", "error"}
    /\ actor.phase = "ran" => NewRecord \in runs
    /\ actor.phase = "down" => \A c \in Conn : conn[c].st = "idle"

Truthful == Typed /\ Numbered /\ OwnNumbers /\ Accounted /\ RepliesTruthful

\* The statuses of replies, and the absence of one.
LEMMA NoReplyDistinct ==
    NoReply \notin {"pong", "caps", "error", "decision", "denied",
                    "needs_confirm", "ran", "planned"}
  BY DaemonAssumption DEF Replies

LEMMA TruthfulInit == Init => Truthful
<1> SUFFICES ASSUME Init PROVE Truthful
  OBVIOUS
<1>1. Typed /\ Numbered
  BY TypedInit, NumberedInit
<1>2. OwnNumbers /\ Accounted
  BY DEF Init, OwnNumbers, Accounted, Idle, Listening
<1>3. RepliesTruthful
  BY NoReplyDistinct DEF Init, RepliesTruthful, Idle
<1> QED
  BY <1>1, <1>2, <1>3 DEF Truthful

\* A request in service moves on: its goroutine reasons or binds, or the actor
\* answers it, with an answer that is true.
LEMMA MovesOn ==
    ASSUME Truthful, NEW c \in Conn, OnlyConn(c),
           conn[c].st # "idle", conn'[c].st # "idle", conn'[c].id = conn[c].id,
           conn'[c].reply # NoReply => conn'[c].st = "answered",
           UNCHANGED <<received, starts, runs>>, audit \subseteq audit',
           \/ ~Executing(c) /\ actor' = actor
           \/ Executing(c) /\ actor' = Listening,
           Unstarted(c) \/ conn'[c].reply \in {"ran", "error"},
           conn'[c].reply = "ran" =>
              /\ \E r \in runs : r.id = conn[c].id
              /\ [kind |-> "ran", id |-> conn[c].id] \in audit'
    PROVE  OwnNumbers' /\ Accounted' /\ RepliesTruthful'
<1> USE DEF Truthful, OnlyConn
<1>1. OwnNumbers'
  BY DEF OwnNumbers
<1>2. Accounted'
  <2>1. \A d \in Conn : conn'[d].st # "idle" =>
            \/ \A e \in starts' : e.id # conn'[d].id
            \/ Busy' /\ actor'.conn = d
            \/ conn'[d].reply \in {"ran", "error"}
    BY DEF Accounted, Unstarted, Executing, Busy, Listening
  <2>2. actor'.phase = "ran" => NewRecord' \in runs'
    <3> SUFFICES ASSUME actor'.phase = "ran" PROVE NewRecord' \in runs'
      OBVIOUS
    <3>1. actor' = actor /\ actor.conn # c
      BY DEF Listening, Executing, Busy
    <3>2. actor.conn \in Conn /\ conn[actor.conn].st = "queued"
      BY <3>1 DEF Typed, CommandOwners, Busy
    <3> QED
      BY <3>1, <3>2 DEF Accounted, NewRecord, RecordOf
  <2> QED
    BY <2>1, <2>2 DEF Accounted, Unstarted, Executing, Listening
<1>3. RepliesTruthful'
  BY NoReplyDistinct DEF RepliesTruthful, Unstarted
<1> QED
  BY <1>1, <1>2, <1>3

\* serveConn reads a request: the next number.
LEMMA TruthfulReceive ==
    ASSUME Truthful, NEW c \in Conn, ReceiveCommand(c) \/ ReceiveReasoned(c), Typed'
    PROVE  OwnNumbers' /\ Accounted' /\ RepliesTruthful'
<1> USE DEF Truthful
<1>1. PICK q \in Request, st \in {"queued", "reasoning"} :
         /\ conn' = [conn EXCEPT ![c] = Opened(st, q)]
         /\ conn[c].st = "idle"
         /\ received' = received + 1
         /\ UNCHANGED <<actor, audit, ghosts>>
  BY DEF ReceiveCommand, ReceiveReasoned
<1>2. /\ conn'[c].id = received + 1 /\ conn'[c].st \in {"queued", "reasoning"}
      /\ conn'[c].reply = NoReply
      /\ \A d \in Conn \ {c} : conn'[d] = conn[d]
  BY <1>1 DEF Typed, TypeOK, Opened
<1>3. received \in Nat /\ \A d \in Conn : conn[d].id \in 0..received
  BY DEF Typed, TypeOK, Numbered
<1>4. OwnNumbers'
  BY <1>1, <1>2, <1>3 DEF OwnNumbers
<1>5. Accounted'
  <2>1. \A e \in starts' : e.id \in 1..received /\ e.id # conn'[c].id
    BY <1>1, <1>2, <1>3 DEF Accounted, ghosts
  <2>2. actor.phase # "down"
    BY DEF ReceiveCommand, ReceiveReasoned
  <2>3. actor'.phase = "ran" => NewRecord' \in runs'
    <3>1. Busy => actor.conn \in Conn \ {c}
      BY <1>1 DEF Typed, CommandOwners
    <3> QED
      BY <1>1, <1>2, <3>1 DEF Accounted, NewRecord, RecordOf, Busy, ghosts
  <2>4. \A e \in starts' : e.id \in 1..received'
    BY <1>1, <1>3, <2>1
  <2> QED
    BY <1>1, <1>2, <2>1, <2>2, <2>3, <2>4
       DEF Accounted, Unstarted, Executing, Busy, ghosts
<1>6. RepliesTruthful'
  BY <1>1, <1>2, NoReplyDistinct DEF RepliesTruthful, ghosts
<1> QED
  BY <1>4, <1>5, <1>6

\* The model's goroutine and the next step to bind: no such reply is of a run.
LEMMA TruthfulModel ==
    ASSUME Truthful, NEW c \in Conn, Model(c) \/ BindNext(c)
    PROVE  OwnNumbers' /\ Accounted' /\ RepliesTruthful'
<1> USE DEF Truthful
<1>1. /\ UNCHANGED <<actor, ghosts, received>>
      /\ conn[c].st \in {"reasoning", "fallback", "bound"}
  BY DEF Model, ReasoningFails, PlansNothing, FindsNothing, FindsSteps, BindNext
<1>2. audit \subseteq audit'
  BY DEF Model, ReasoningFails, PlansNothing, FindsNothing, FindsSteps, BindNext, Emit
<1>3. conn \in [Conn -> ConnState] /\ conn[c].reply = NoReply
  BY <1>1 DEF Typed, TypeOK, Accounted
<1>4. OnlyConn(c)
  <2>1. conn' \in [Conn -> ConnState]
    BY TypedModel DEF Typed, TypeOK
  <2> QED
    BY <2>1, <1>3 DEF OnlyConn, Model, ReasoningFails, PlansNothing, FindsNothing,
                FindsSteps, BindNext, Answer
<1>5. /\ conn'[c].id = conn[c].id
      /\ \/ conn'[c].st = "answered" /\ conn'[c].reply \in {"error", "planned"}
         \/ conn'[c].st \in {"queued", "fallback"} /\ conn'[c].reply = NoReply
  <2>1. CASE ReasoningFails(c) \/ PlansNothing(c) \/ FindsNothing(c) \/ BindNext(c)
    BY <1>3, <2>1 DEF ReasoningFails, PlansNothing, FindsNothing, BindNext, Answer, ConnState
  <2>2. CASE FindsSteps(c)
    <3>1. \E s : conn' = [conn EXCEPT ![c].st = "queued", ![c].todo = s]
      BY <2>2 DEF FindsSteps
    <3> QED
      BY <1>3, <3>1 DEF ConnState
  <2> QED
    BY <2>1, <2>2 DEF Model
<1>6. ~Executing(c) /\ Unstarted(c)
  <2>1. ~Executing(c)
    BY <1>1 DEF Executing, Typed, CommandOwners
  <2> QED
    BY <1>1, <1>3, <2>1, NoReplyDistinct DEF Accounted
<1> QED
  BY <1>1, <1>2, <1>4, <1>5, <1>6, MovesOn, NoReplyDistinct DEF ghosts

\* The actor answers a command it does not execute.
LEMMA TruthfulHandle ==
    ASSUME Truthful, NEW c \in Conn, Handle(c), ~StartRun(c)
    PROVE  OwnNumbers' /\ Accounted' /\ RepliesTruthful'
<1> USE DEF Truthful
<1>1. /\ UNCHANGED <<actor, ghosts, received>>
      /\ Takes(c)
      /\ audit \subseteq audit'
  BY DEF Handle, HandleStateless, HandleEvaluate, RunUnknown, RunDenied,
         RunNeedsConfirm, Emit
<1>2. /\ conn \in [Conn -> ConnState] /\ conn[c].st = "queued"
      /\ ~Executing(c) /\ conn[c].reply = NoReply
  BY <1>1, TakesFacts DEF Typed, TypeOK, Accounted, Executing
<1>3. OnlyConn(c)
  <2>1. conn' \in [Conn -> ConnState]
    BY TypedHandle DEF Typed, TypeOK
  <2> QED
    BY <1>2, <2>1 DEF OnlyConn, Handle, HandleStateless, HandleEvaluate, RunUnknown,
                      RunDenied, RunNeedsConfirm, Answer
<1>4. /\ conn'[c].id = conn[c].id
      /\ \/ conn'[c].st = "answered" /\ conn'[c].reply # "ran"
         \/ conn'[c].st = "bound" /\ conn'[c].reply = NoReply
  BY <1>2, NoReplyDistinct
     DEF Handle, HandleStateless, StatelessReply, HandleEvaluate, RunUnknown, RunDenied,
         RunNeedsConfirm, Answer, ConnState
<1>5. Unstarted(c)
  BY <1>2, NoReplyDistinct DEF Accounted
<1> QED
  BY <1>1, <1>2, <1>3, <1>4, <1>5, MovesOn, NoReplyDistinct DEF ghosts

\* The actor begins to execute: the one start with the number of its request.
LEMMA TruthfulStart ==
    ASSUME Truthful, NEW c \in Conn, StartRun(c)
    PROVE  OwnNumbers' /\ Accounted' /\ RepliesTruthful'
<1> USE DEF Truthful
<1>1. /\ UNCHANGED <<conn, audit, runs, received>>
      /\ starts' = starts \cup {RecordOf(c, now)}
      /\ actor' = [phase |-> "running", conn |-> c, since |-> now]
      /\ Takes(c)
  BY DEF StartRun
<1>2. conn[c].st = "queued" /\ ~Busy /\ RecordOf(c, now).id = conn[c].id
  BY <1>1, TakesFacts DEF RecordOf
<1>3. conn[c].reply = NoReply /\ conn[c].id \in 1..received
  BY <1>2 DEF Accounted, OwnNumbers, Numbered
<1>4. \A d \in Conn : (conn[d].st # "idle" /\ d # c) => conn[d].id # conn[c].id
  BY <1>2 DEF OwnNumbers
<1>5. Accounted'
  BY <1>1, <1>2, <1>3, <1>4 DEF Accounted, Unstarted, Executing, Busy
<1>6. RepliesTruthful'
  BY <1>1, <1>2, <1>3, <1>4, NoReplyDistinct DEF RepliesTruthful, Accounted
<1> QED
  BY <1>1, <1>5, <1>6 DEF OwnNumbers

\* The actor answers for the execution it was busy with.
LEMMA TruthfulRelease ==
    ASSUME Truthful, RunFails \/ FinishRun
    PROVE  OwnNumbers' /\ Accounted' /\ RepliesTruthful'
<1> USE DEF Truthful
<1> DEFINE c == actor.conn
<1>1. /\ Executing(c) /\ c \in Conn
      /\ conn[c].st = "queued" /\ conn \in [Conn -> ConnState]
      /\ UNCHANGED <<received, starts, runs>> /\ actor' = Listening
      /\ audit \subseteq audit'
  BY DEF RunFails, FinishRun, Executing, Busy, Typed, TypeOK, CommandOwners, ghosts, Emit
<1>2. /\ OnlyConn(c)
      /\ conn'[c].id = conn[c].id /\ conn'[c].st = "answered"
      /\ conn'[c].reply \in {"error", "ran"}
      /\ conn'[c].reply = "ran" => FinishRun
  <2>1. PICK s \in {"error", "ran"} : conn' = Answer(c, s) /\ (s = "ran" => FinishRun)
    BY DEF RunFails, FinishRun
  <2>2. OnlyConn(c)
    BY <1>1, <2>1, AnswerStep DEF Status, Replies
  <2> QED
    BY <1>1, <2>1, <2>2 DEF Answer, ConnState
<1>3. FinishRun =>
         /\ \E r \in runs : r.id = conn[c].id
         /\ [kind |-> "ran", id |-> conn[c].id] \in audit'
  BY DEF FinishRun, Accounted, NewRecord, RecordOf, Emit
<1> QED
  BY <1>1, <1>2, <1>3, MovesOn

\* Every step keeps the replies true.
LEMMA TruthfulNext == Truthful /\ [Next]_vars => Truthful'
<1> SUFFICES ASSUME Truthful, [Next]_vars PROVE Truthful'
  OBVIOUS
<1>1. Typed' /\ Numbered'
  BY TypedNext, NumberedNext DEF Truthful
<1> SUFFICES OwnNumbers' /\ Accounted' /\ RepliesTruthful'
  BY <1>1 DEF Truthful
<1> USE DEF Truthful
<1>2. ASSUME NEW c \in Conn, ReceiveCommand(c) \/ ReceiveReasoned(c)
      PROVE  OwnNumbers' /\ Accounted' /\ RepliesTruthful'
  BY <1>1, <1>2, TruthfulReceive
<1>3. ASSUME NEW c \in Conn, Model(c) \/ BindNext(c)
      PROVE  OwnNumbers' /\ Accounted' /\ RepliesTruthful'
  BY <1>3, TruthfulModel
<1>4. ASSUME NEW c \in Conn, Deliver(c)
      PROVE  OwnNumbers' /\ Accounted' /\ RepliesTruthful'
  <2>1. /\ UNCHANGED <<actor, audit, ghosts, received>>
        /\ conn[c].st = "answered"
        /\ conn'[c] = Idle /\ \A d \in Conn \ {c} : conn'[d] = conn[d]
    BY <1>4 DEF Deliver, Typed, TypeOK
  <2>2. OwnNumbers' /\ RepliesTruthful'
    BY <2>1, NoReplyDistinct DEF OwnNumbers, RepliesTruthful, Idle, ghosts
  <2>3. Busy => actor.conn \in Conn \ {c}
    BY <2>1 DEF Typed, CommandOwners
  <2>4. actor'.phase = "ran" => NewRecord' \in runs'
    BY <2>1, <2>3 DEF Accounted, NewRecord, RecordOf, Busy, ghosts
  <2> QED
    BY <2>1, <2>2, <2>4 DEF Accounted, Unstarted, Executing, Busy, Idle, ghosts
<1>5. ASSUME NEW c \in Conn, Handle(c)
      PROVE  OwnNumbers' /\ Accounted' /\ RepliesTruthful'
  BY <1>5, TruthfulHandle, TruthfulStart
<1>6. CASE RunFails \/ FinishRun
  BY <1>6, TruthfulRelease
<1>7. CASE RunSucceeds
  <2>1. /\ UNCHANGED <<conn, audit, starts, received>>
        /\ runs' = runs \cup {NewRecord}
        /\ actor' = [actor EXCEPT !.phase = "ran"] /\ actor.phase = "running"
    BY <1>7 DEF RunSucceeds
  <2>2. /\ actor'.phase = "ran" /\ actor'.conn = actor.conn /\ actor'.since = actor.since
    BY <2>1 DEF Typed, TypeOK
  <2>3. NewRecord' = NewRecord
    BY <2>1, <2>2 DEF NewRecord, RecordOf
  <2> QED
    BY <2>1, <2>2, <2>3 DEF OwnNumbers, Accounted, RepliesTruthful, Unstarted, Executing, Busy
<1>8. CASE TickPrune \/ Advance \/ UNCHANGED vars
  <2>1. UNCHANGED <<conn, audit, actor, starts, runs, received>>
    BY <1>8 DEF TickPrune, Advance, vars, ghosts
  <2>2. NewRecord' = NewRecord
    BY <2>1 DEF NewRecord, RecordOf
  <2> QED
    BY <2>1, <2>2 DEF OwnNumbers, Accounted, RepliesTruthful, Unstarted, Executing, Busy
<1>9. CASE Shutdown \/ Crash
  <2>1. /\ UNCHANGED <<audit, starts, runs, received>>
        /\ actor' = Stopped /\ conn' = [c \in Conn |-> Idle]
    BY <1>9 DEF Shutdown, Crash, Stops, ghosts
  <2> QED
    BY <2>1, NoReplyDistinct DEF OwnNumbers, Accounted, RepliesTruthful, Idle, Stopped
<1>10. CASE Restart
  <2>1. /\ UNCHANGED <<conn, audit, received>>
        /\ starts' = {} /\ actor' = Listening
        /\ \A c \in Conn : conn[c].st = "idle" /\ conn[c].reply = NoReply
    BY <1>10 DEF Restart, Accounted
  <2> QED
    BY <2>1, NoReplyDistinct DEF OwnNumbers, Accounted, RepliesTruthful, Listening
<1> QED
  BY <1>2, <1>3, <1>4, <1>5, <1>6, <1>7, <1>8, <1>9, <1>10 DEF Next

\* What a client is told is true in every state, whatever the order of requests,
\* executions, audits and crashes (handleRun, serveConn, emit).
THEOREM TellsTheTruth == Spec => []RepliesTruthful
<1>1. Spec => []Truthful
  BY TruthfulInit, TruthfulNext, PTL DEF Spec
<1>2. Truthful => RepliesTruthful
  BY DEF Truthful
<1> QED
  BY <1>1, <1>2, PTL

-----------------------------------------------------------------------------
(* No command is lost and none is handled twice.                           *)

\* Whoever waits for the actor is a sender in the mailbox, or executed for: what
\* CommandOwners says the other way round.
Waiting ==
    \A c \in Conn : conn[c].st = "queued" =>
        Executing(c) \/ \E i \in DOMAIN mailbox : mailbox[i] = c

\* The owners of commands, counted.
LEMMA OwnersCounted == Typed /\ Waiting => NoCommandLost
<1> SUFFICES ASSUME Typed, Waiting, NEW c \in Conn
             PROVE  Cardinality({i \in DOMAIN mailbox : mailbox[i] = c})
                        + (IF Busy /\ actor.conn = c THEN 1 ELSE 0)
                    = (IF conn[c].st = "queued" THEN 1 ELSE 0)
  BY DEF NoCommandLost
<1> DEFINE at == {i \in DOMAIN mailbox : mailbox[i] = c}
<1>1. CASE at = {}
  <2>1. Cardinality(at) = 0
    BY <1>1, FS_EmptySet
  <2>2. conn[c].st = "queued" <=> Executing(c)
    BY <1>1 DEF Waiting, Typed, CommandOwners, Executing
  <2> QED
    BY <2>1, <2>2 DEF Executing
<1>2. CASE at # {}
  <2>1. PICK i \in DOMAIN mailbox : mailbox[i] = c
    BY <1>2
  <2>2. at = {i} /\ conn[c].st = "queued" /\ ~(Busy /\ actor.conn = c)
    BY <2>1 DEF Typed, CommandOwners
  <2>3. Cardinality(at) = 1
    BY <2>2, FS_Singleton
  <2> QED
    BY <2>2, <2>3
<1> QED
  BY <1>1, <1>2

\* One goroutine moves, which does not wait, or waits at the end of the queue.
LEMMA WaitsLast ==
    ASSUME Typed, Waiting, NEW c \in Conn, actor' = actor,
           \A d \in Conn \ {c} : conn'[d] = conn[d],
           \/ mailbox' = mailbox /\ conn'[c].st # "queued"
           \/ mailbox' = Append(mailbox, c)
    PROVE  Waiting'
<1>1. CASE mailbox' = mailbox /\ conn'[c].st # "queued"
  BY <1>1 DEF Waiting, Executing, Busy
<1>2. CASE mailbox' = Append(mailbox, c)
  <2>1. /\ DOMAIN mailbox' = 1 .. (Len(mailbox) + 1)
        /\ DOMAIN mailbox = 1 .. Len(mailbox) /\ Len(mailbox) \in Nat
        /\ mailbox'[Len(mailbox) + 1] = c
        /\ \A i \in DOMAIN mailbox : mailbox'[i] = mailbox[i]
    BY <1>2 DEF Typed, TypeOK
  <2>2. \E i \in DOMAIN mailbox' : mailbox'[i] = c
    BY <2>1
  <2>3. ASSUME NEW d \in Conn \ {c}, conn'[d].st = "queued"
        PROVE  (Busy' /\ actor'.conn = d) \/ \E i \in DOMAIN mailbox' : mailbox'[i] = d
    BY <2>1, <2>3 DEF Waiting, Executing, Busy
  <2> QED
    BY <2>2, <2>3 DEF Waiting, Executing, Busy
<1> QED
  BY <1>1, <1>2

\* The actor takes the first command, and answers it or executes it.
LEMMA TakesFirst ==
    ASSUME Typed, Waiting, NEW c \in Conn, Takes(c),
           \A d \in Conn \ {c} : conn'[d] = conn[d],
           conn'[c].st # "queued" \/ (Busy' /\ actor'.conn = c)
    PROVE  Waiting'
<1>1. /\ DOMAIN mailbox = 1 .. Len(mailbox) /\ Len(mailbox) \in Nat \ {0}
      /\ DOMAIN mailbox' = 1 .. (Len(mailbox) - 1)
      /\ mailbox[1] = c /\ ~Busy
      /\ \A i \in DOMAIN mailbox' : mailbox'[i] = mailbox[i + 1]
  BY DEF Typed, TypeOK, Takes, Busy
<1>2. ASSUME NEW d \in Conn \ {c}, conn'[d].st = "queued"
      PROVE  \E i \in DOMAIN mailbox' : mailbox'[i] = d
  <2>1. PICK i \in DOMAIN mailbox : mailbox[i] = d
    BY <1>1, <1>2 DEF Waiting, Executing
  <2>2. i - 1 \in DOMAIN mailbox' /\ (i - 1) + 1 = i
    BY <1>1, <2>1
  <2> QED
    BY <1>1, <2>1, <2>2
<1> QED
  BY <1>2 DEF Waiting, Executing, Busy

LEMMA WaitingNext == Typed /\ Waiting /\ [Next]_vars => Waiting'
<1> SUFFICES ASSUME Typed, Waiting, [Next]_vars PROVE Waiting'
  OBVIOUS
<1>0. conn \in [Conn -> ConnState]
  BY DEF Typed, TypeOK
<1>1. ASSUME NEW c \in Conn,
             ReceiveCommand(c) \/ ReceiveReasoned(c) \/ Model(c) \/ BindNext(c) \/ Deliver(c)
      PROVE  Waiting'
  <2>1. /\ actor' = actor
        /\ conn[c].st # "queued"
        /\ \A d \in Conn \ {c} : conn'[d] = conn[d]
    BY <1>0, <1>1 DEF ReceiveCommand, ReceiveReasoned, Model, ReasoningFails,
         PlansNothing, FindsNothing, FindsSteps, BindNext, Deliver, Answer
  <2>2. \/ mailbox' = mailbox /\ conn'[c].st # "queued"
        \/ mailbox' = Append(mailbox, c)
    BY <1>0, <1>1 DEF ReceiveCommand, ReceiveReasoned, Model, ReasoningFails,
         PlansNothing, FindsNothing, FindsSteps, BindNext, Deliver, Answer, Opened,
         Idle, ConnState
  <2> QED
    BY <2>1, <2>2, WaitsLast
<1>2. ASSUME NEW c \in Conn, Handle(c)
      PROVE  Waiting'
  <2>1. Takes(c) /\ \A d \in Conn \ {c} : conn'[d] = conn[d]
    BY <1>0, <1>2 DEF Handle, HandleStateless, HandleEvaluate, RunUnknown, RunDenied,
         RunNeedsConfirm, StartRun, Answer
  <2>2. conn'[c].st # "queued" \/ (Busy' /\ actor'.conn = c)
    BY <1>0, <1>2 DEF Handle, HandleStateless, HandleEvaluate, RunUnknown, RunDenied,
         RunNeedsConfirm, StartRun, Answer, ConnState, Busy
  <2> QED
    BY <2>1, <2>2, TakesFirst
<1>3. CASE RunFails \/ FinishRun
  <2>1. /\ mailbox' = mailbox /\ actor.conn \in Conn
        /\ conn'[actor.conn].st = "answered"
        /\ \A d \in Conn \ {actor.conn} : conn'[d] = conn[d]
    BY <1>0, <1>3 DEF RunFails, FinishRun, Answer, Typed, CommandOwners, Busy, ConnState
  <2> QED
    BY <2>1 DEF Waiting, Executing
<1>4. CASE RunSucceeds
  BY <1>4 DEF RunSucceeds, Waiting, Executing, Busy, Typed, TypeOK
<1>5. CASE Shutdown \/ Crash
  BY <1>5 DEF Shutdown, Crash, Stops, Idle, Waiting
<1>6. CASE Restart
  BY <1>6 DEF Restart, Waiting, Executing, Busy
<1>7. CASE TickPrune \/ Advance \/ UNCHANGED vars
  BY <1>7 DEF TickPrune, Advance, vars, Waiting, Executing, Busy
<1> QED
  BY <1>1, <1>2, <1>3, <1>4, <1>5, <1>6, <1>7 DEF Next

\* A connection waits for the actor exactly when it is one sender in the mailbox
\* or the one executed for, for any number of connections (dispatch, Run).
THEOREM LosesNoCommand == Spec => []NoCommandLost
<1>1. Init => Typed /\ Waiting
  BY TypedInit DEF Init, Idle, Waiting
<1>2. Spec => [](Typed /\ Waiting)
  BY <1>1, TypedNext, WaitingNext, PTL DEF Spec
<1> QED
  BY <1>2, OwnersCounted, PTL

-----------------------------------------------------------------------------
(* ClientFlows: what relates a command to its connection.                  *)

\* A request of c is in service; it asks for an execution.
Live(c) == conn[c].st # "idle"
OnRun(c) == Live(c) /\ conn[c].req.op = "run"

\* The execution c asked for took effect.
HasRun(c) == conn[c].reply = "ran" \/ (actor.phase = "ran" /\ actor.conn = c)

\* The request for the current step.
Sent(c) == [op |-> "run", cap |-> Current(c).cap, arg |-> Current(c).arg,
            approved |-> flow[c].approved]

\* Commands and their variables.
ShownStep == [call : AnyCall, decision : Decision]

Pc == {"reason", "reasoning", "run", "running", "caution", "confirm", "approve",
       "ended"}

Flow == [kind : Kinds, cautious : BOOLEAN, steps : Seq(ShownStep), pc : Pc,
         attempt : 1..MaxAttempts, next : Nat \ {0}, approved : BOOLEAN,
         outcome : Outcome]

FlowTyped ==
    /\ flow \in [Conn -> Flow]
    /\ DOMAIN said = Conn
    /\ did \in [Conn -> Seq(AnyCall)]

\* What a goroutine that reasons has found: nothing yet, and one step at most
\* for an ask.
Brief(c) ==
    /\ conn[c].st \in {"reasoning", "fallback"} =>
           conn[c].plan = <<>> /\ conn[c].todo = <<>>
    /\ (Live(c) /\ conn[c].req.op = "ask") =>
           Len(conn[c].plan) + Len(conn[c].todo) <= 1

\* Where a command of each kind may be.
Shape(f) ==
    /\ (f.outcome = "none") <=> (f.pc # "ended")
    /\ f.pc \in {"run", "running", "caution", "confirm"} => f.next \in 1..Len(f.steps)
    /\ f.kind \in {"ask", "run"} => Len(f.steps) <= 1
    /\ f.cautious => f.kind = "ask"
    /\ f.pc \in {"run", "running"} => f.kind # "plan"
    /\ f.pc = "confirm" => f.kind \in {"ask", "run"}
    /\ f.pc = "caution" => f.kind = "ask"
    /\ f.pc = "approve" => f.kind = "do" /\ f.next = 1 /\ Len(f.steps) >= 1
    /\ f.pc \in {"reason", "reasoning"} => f.kind # "run"
    /\ f.pc \in {"reason", "reasoning", "caution", "approve"} => ~f.approved

\* The connection serves the request the command waits for, or one that a
\* killed command has left behind.
Linked(c) ==
    /\ Live(c) => flow[c].pc \in {"reasoning", "running", "ended"}
    /\ OnRun(c) =>
          /\ flow[c].pc \in {"running", "ended"}
          /\ flow[c].next \in 1..Len(flow[c].steps)
          /\ conn[c].req = Sent(c)
    /\ (Live(c) /\ ~OnRun(c)) =>
          /\ flow[c].pc \in {"reasoning", "ended"}
          /\ (flow[c].pc = "reasoning" /\ flow[c].kind = "ask") =>
                 conn[c].req.op = "ask"
    /\ (flow[c].pc = "ended" /\ Live(c)) => flow[c].outcome = "killed"

\* The successes are the first steps, and the command knows how many they are
\* but for the one in service.
Counted(c) ==
    /\ Len(did[c]) <= Len(flow[c].steps)
    /\ \A i \in 1..Len(did[c]) : did[c][i] = flow[c].steps[i].call
    /\ did[c] # <<>> => Len(did[c]) \in {flow[c].next - 1, flow[c].next}
    /\ flow[c].pc \in {"reason", "reasoning", "caution", "confirm", "approve"} =>
           did[c] = <<>>
    /\ flow[c].pc = "run" => Len(did[c]) = flow[c].next - 1
    /\ OnRun(c) => Len(did[c]) = IF HasRun(c) THEN flow[c].next ELSE flow[c].next - 1
    /\ flow[c].outcome = "done" => Len(did[c]) = Len(flow[c].steps)
    /\ flow[c].outcome \in {"denied", "answered", "shown", "aborted"} =>
           did[c] = <<>>

\* What is sent, or may still be, has the consent it needs.
Consented(c) ==
    /\ flow[c].approved =>
           \A i \in 1..Len(flow[c].steps) :
               \/ SaidYes(c, "plan", flow[c].steps[i].call)
               \/ SaidYes(c, "confirm", flow[c].steps[i].call)
    /\ ((flow[c].pc = "run" \/ OnRun(c)) /\ flow[c].kind = "do" /\ ~flow[c].approved) =>
           \A i \in 1..Len(flow[c].steps) : flow[c].steps[i].decision = "allow"
    /\ ((flow[c].pc \in {"run", "confirm"} \/ OnRun(c)) /\ flow[c].cautious) =>
           \A i \in 1..Len(flow[c].steps) :
               SaidYes(c, "caution", flow[c].steps[i].call)

Follows(c) == Shape(flow[c]) /\ Linked(c) /\ Counted(c) /\ Consented(c)

InStep ==
    /\ Truthful
    /\ FlowTyped
    /\ \A c \in Conn : Brief(c)
    /\ \A c \in Conn : Follows(c)

-----------------------------------------------------------------------------
(* The initial states.                                                     *)

LEMMA InStepInit == ClientInit => InStep
<1> SUFFICES ASSUME ClientInit PROVE InStep
  OBVIOUS
<1>1. Truthful
  BY TruthfulInit DEF ClientInit
<1>2. ASSUME NEW f \in Commands, f.kind \in Kinds
      PROVE  /\ f \in Flow /\ Shape(f) /\ ~f.approved /\ f.next = 1
             /\ f.pc \in {"reason", "run"} /\ f.outcome = "none"
             /\ ~f.cautious \/ f.pc = "reason"
             /\ f.kind = "do" => f.pc = "reason"
  <2>1. 1 \in 1..MaxAttempts /\ 1 \in Nat \ {0}
    BY ClientAssumption
  <2>2. CASE \E cautious \in BOOLEAN : f = Started("ask", cautious, <<>>)
    BY <1>2, <2>1, <2>2 DEF Started, Flow, Shape, Pc, Outcome
  <2>3. CASE \E kind \in {"plan", "do"} : f = Started(kind, FALSE, <<>>)
    BY <1>2, <2>1, <2>3 DEF Started, Flow, Shape, Pc, Outcome
  <2>4. CASE \E call \in [call : AnyCall, decision : {"ask"}] :
                 f = Started("run", FALSE, <<call>>)
    <3>1. PICK call \in [call : AnyCall, decision : {"ask"}] :
             f = Started("run", FALSE, <<call>>)
      BY <2>4
    <3>2. call \in ShownStep
      BY DEF ShownStep, Decision
    <3>3. <<call>> \in Seq(ShownStep) /\ Len(<<call>>) = 1
      BY <3>2
    <3> QED
      BY <1>2, <2>1, <3>1, <3>3 DEF Started, Flow, Shape, Pc, Outcome
  <2> QED
    BY <2>2, <2>3, <2>4 DEF Commands
<1>3. FlowTyped
  BY <1>2 DEF ClientInit, FlowTyped
<1>4. \A c \in Conn : conn[c].st = "idle" /\ did[c] = <<>>
  BY DEF ClientInit, Init, Idle
<1>5. \A c \in Conn : Brief(c)
  BY <1>4 DEF Brief, Live
<1>6. ASSUME NEW c \in Conn PROVE Follows(c)
  <2>1. flow[c] \in Commands /\ flow[c].kind \in Kinds
    BY DEF ClientInit
  <2>2. ~Live(c) /\ ~OnRun(c)
    BY <1>4 DEF Live, OnRun
  <2>3. Len(flow[c].steps) \in Nat
    BY <1>2, <2>1 DEF Flow
  <2>4. Linked(c) /\ Counted(c) /\ Consented(c)
    BY <1>2, <1>4, <2>1, <2>2, <2>3 DEF Linked, Counted, Consented
  <2> QED
    BY <1>2, <2>1, <2>4 DEF Follows
<1> QED
  BY <1>1, <1>3, <1>5, <1>6 DEF InStep

-----------------------------------------------------------------------------
(* The daemon serves a request.                                            *)

\* The daemon moves on with the request of c, if there is one: it is the same
\* request, and it has taken effect if it had.
Serves(c) ==
    /\ Live(c)' <=> Live(c)
    /\ conn'[c].req = conn[c].req
    /\ HasRun(c)' <=> HasRun(c)
    /\ Brief(c)'

\* A goroutine that is not moved is served.
LEMMA StaysServed ==
    ASSUME NEW c \in Conn, Brief(c), conn'[c] = conn[c],
           (actor'.phase = "ran" /\ actor'.conn = c)
               <=> (actor.phase = "ran" /\ actor.conn = c)
    PROVE  Serves(c)
  BY DEF Serves, Live, HasRun, Brief

\* An answer other than "ran" to a request that took no effect.
LEMMA AnswerServes ==
    ASSUME Typed, NEW c \in Conn, Brief(c), Live(c), NEW s \in Status,
           conn' = Answer(c, s), HasRun(c)' <=> HasRun(c)
    PROVE  Serves(c) /\ OnlyConn(c) /\ conn'[c].reply = s
<1>1. OnlyConn(c) /\ conn'[c].req = conn[c].req
  BY AnswerStep
<1>2. /\ conn'[c].st = "answered" /\ conn'[c].reply = s
      /\ conn'[c].plan = conn[c].plan /\ conn'[c].todo = conn[c].todo
  BY DEF Answer, Typed, TypeOK, ConnState
<1>3. Live(c)' /\ Brief(c)'
  BY <1>1, <1>2 DEF Live, Brief
<1> QED
  BY <1>1, <1>2, <1>3 DEF Serves

\* The request of a goroutine that reasons, or waits, has taken no effect.
LEMMA NotRun ==
    ASSUME Truthful, NEW c \in Conn, conn[c].st # "answered",
           ~Executing(c)
    PROVE  ~HasRun(c)
  BY NoReplyDistinct DEF Truthful, Accounted, HasRun, Executing, Busy

\* The model finds nothing, or steps that are bound one at a time.
LEMMA ReasonServes ==
    ASSUME Truthful, NEW c \in Conn, Brief(c), Model(c) \/ BindNext(c)
    PROVE  Serves(c) /\ OnlyConn(c) /\ actor' = actor
<1> USE DEF Truthful
<1>1. /\ actor' = actor
      /\ conn[c].st \in {"reasoning", "fallback", "bound"}
  BY DEF Model, ReasoningFails, PlansNothing, FindsNothing, FindsSteps, BindNext
<1>2. ~Executing(c) /\ ~(actor.phase = "ran" /\ actor.conn = c)
  BY <1>1 DEF Executing, Busy, Typed, CommandOwners
<1>3. ~HasRun(c) /\ Live(c)
  BY <1>1, <1>2, NotRun DEF Live
<1>4. conn[c] \in ConnState /\ conn \in [Conn -> ConnState]
  BY DEF Typed, TypeOK
<1>5. conn[c].reply # "ran"
  BY <1>3 DEF HasRun
<1>6. ASSUME NEW s \in {"error", "planned"}, conn' = Answer(c, s)
      PROVE  Serves(c) /\ OnlyConn(c)
  <2>1. s \in Status
    BY DEF Status, Replies
  <2>2. conn'[c].reply = s
    BY <1>4, <1>6 DEF Answer, ConnState
  <2>3. HasRun(c)' <=> HasRun(c)
    BY <1>1, <1>2, <1>3, <2>2 DEF HasRun
  <2> QED
    BY <1>3, <1>6, <2>1, <2>3, AnswerServes
<1>7. ASSUME /\ conn[c].st = "bound" /\ conn' = [conn EXCEPT ![c].st = "queued"]
             \/ PlansNothing(c)
      PROVE  Serves(c) /\ OnlyConn(c)
  <2>1. /\ OnlyConn(c)
        /\ conn'[c].st \in {"queued", "fallback"}
        /\ conn'[c].st = "fallback" => conn[c].st = "reasoning"
        /\ conn'[c].req = conn[c].req /\ conn'[c].reply = conn[c].reply
        /\ conn'[c].plan = conn[c].plan /\ conn'[c].todo = conn[c].todo
    BY <1>4, <1>7 DEF PlansNothing, ConnState, OnlyConn
  <2> QED
    BY <1>1, <1>2, <1>3, <1>5, <2>1 DEF Serves, Live, HasRun, Brief
<1>8. ASSUME FindsSteps(c)
      PROVE  Serves(c) /\ OnlyConn(c)
  <2>1. PICK n \in 1..MaxSteps : \E steps \in [1..n -> Call] :
           /\ (conn[c].st = "fallback" \/ conn[c].req.op = "ask") => n = 1
           /\ conn' = [conn EXCEPT ![c].st = "queued", ![c].todo = steps]
    BY <1>8 DEF FindsSteps
  <2>2. PICK steps \in [1..n -> Call] :
           conn' = [conn EXCEPT ![c].st = "queued", ![c].todo = steps]
    BY <2>1
  <2>3. steps \in Seq(Call) /\ Len(steps) = n
    BY DaemonAssumption
  <2>4. /\ conn'[c].st = "queued" /\ conn'[c].todo = steps
        /\ conn'[c].req = conn[c].req /\ conn'[c].reply = conn[c].reply
        /\ conn'[c].plan = <<>>
    BY <1>4, <1>8, <2>2 DEF ConnState, FindsSteps, Brief
  <2>5. OnlyConn(c)
    <3>1. conn' \in [Conn -> ConnState]
      BY <1>8, TypedModel DEF Model, Typed, TypeOK
    <3> QED
      BY <1>4, <2>2, <3>1 DEF OnlyConn
  <2>6. Live(c)' /\ Brief(c)'
    <3>1. Len(conn'[c].plan) = 0 /\ Len(conn'[c].todo) = n
      BY <2>3, <2>4
    <3>2. conn'[c].req.op = "ask" => n = 1
      BY <2>1, <2>4
    <3>3. conn'[c].req.op = "ask" => Len(conn'[c].plan) + Len(conn'[c].todo) <= 1
      BY <3>1, <3>2
    <3> QED
      BY <2>4, <3>3 DEF Live, Brief
  <2>7. HasRun(c)' <=> HasRun(c)
    BY <1>1, <2>4 DEF HasRun
  <2> QED
    BY <1>3, <2>4, <2>5, <2>6, <2>7 DEF Serves
<1> QED
  BY <1>1, <1>6, <1>7, <1>8
     DEF Model, ReasoningFails, FindsNothing, BindNext

\* A step that moves from one sequence to another leaves their lengths' sum.
LEMMA MovesAlong ==
    ASSUME NEW S, NEW s \in Seq(S), NEW T, NEW t \in Seq(T), t # <<>>, NEW e
    PROVE  Len(Append(s, e)) + Len(Tail(t)) = Len(s) + Len(t)
<1>1. Len(Append(s, e)) = Len(s) + 1
  OBVIOUS
<1>2. Len(Tail(t)) = Len(t) - 1
  OBVIOUS
<1>3. Len(s) \in Nat /\ Len(t) \in Nat
  OBVIOUS
<1> QED
  BY <1>1, <1>2, <1>3

\* The actor takes a command: it answers, binds a step or begins an execution.
LEMMA HandleServes ==
    ASSUME Truthful, NEW c \in Conn, Brief(c), Handle(c)
    PROVE  Serves(c) /\ OnlyConn(c) /\ actor.phase # "ran" /\ actor'.phase # "ran"
<1> USE DEF Truthful
<1>1. ~Busy /\ conn[c].st = "queued"
  BY TakesFacts DEF Handle, HandleStateless, HandleEvaluate, RunUnknown,
                    RunDenied, RunNeedsConfirm, StartRun
<1>2. actor.phase # "ran" /\ actor'.phase # "ran"
  BY <1>1 DEF Busy, Handle, HandleStateless, HandleEvaluate, RunUnknown,
              RunDenied, RunNeedsConfirm, StartRun
<1>3. ~HasRun(c) /\ Live(c)
  BY <1>1, NotRun DEF Live, Executing
<1>4. conn[c] \in ConnState /\ conn \in [Conn -> ConnState]
  BY DEF Typed, TypeOK
<1>5. conn[c].reply # "ran"
  BY <1>3 DEF HasRun
<1>6. ASSUME NEW s \in Status, s # "ran", conn' = Answer(c, s)
      PROVE  Serves(c) /\ OnlyConn(c)
  <2>1. conn'[c].reply = s
    BY <1>4, <1>6 DEF Answer, ConnState
  <2>2. HasRun(c)' <=> HasRun(c)
    BY <1>2, <1>3, <1>6, <2>1 DEF HasRun
  <2> QED
    BY <1>3, <1>6, <2>2, AnswerServes
<1>7. ASSUME HandleEvaluate(c), conn[c].todo # <<>>
      PROVE  Serves(c) /\ OnlyConn(c)
  <2> DEFINE step == [call |-> Head(conn[c].todo),
                      decision |-> Decide(arm, session, Command(c).cap, now)]
             plan == Append(conn[c].plan, step)
  <2>1. conn' = [conn EXCEPT ![c].st = "bound", ![c].todo = Tail(@),
                             ![c].plan = plan]
    BY <1>4, <1>7 DEF HandleEvaluate, ConnState
  <2>2. Len(plan) + Len(Tail(conn[c].todo)) = Len(conn[c].plan) + Len(conn[c].todo)
    <3>1. conn[c].todo \in Seq(Call) /\ conn[c].plan \in Seq(Step)
      BY <1>4 DEF ConnState
    <3> HIDE DEF step
    <3> QED
      BY <1>7, <3>1, MovesAlong
  <2> HIDE DEF plan
  <2>3. /\ conn'[c].st = "bound" /\ conn'[c].plan = plan
        /\ conn'[c].todo = Tail(conn[c].todo)
        /\ conn'[c].req = conn[c].req /\ conn'[c].reply = conn[c].reply
    BY <1>4, <2>1 DEF ConnState
  <2>4. Live(c)' /\ Brief(c)'
    BY <1>3, <2>2, <2>3 DEF Live, Brief
  <2>5. ~HasRun(c)'
    BY <1>2, <1>5, <2>3 DEF HasRun
  <2>6. conn' \in [Conn -> ConnState]
    BY <1>7, TypedHandle, TypedStartRun DEF Handle, TypeOK, Typed
  <2>7. OnlyConn(c)
    BY <1>4, <2>1, <2>6 DEF OnlyConn
  <2> QED
    BY <1>3, <2>3, <2>4, <2>5, <2>7 DEF Serves
<1>8. ASSUME StartRun(c)
      PROVE  Serves(c) /\ OnlyConn(c)
  BY <1>2, <1>4, <1>8, StaysServed DEF StartRun, OnlyConn
<1>9. CASE HandleEvaluate(c)
  BY <1>2, <1>6, <1>7, <1>9 DEF HandleEvaluate, Status, Replies
<1>10. CASE HandleStateless(c)
  BY <1>2, <1>6, <1>10 DEF HandleStateless, StatelessReply, Status, Replies
<1>11. CASE RunUnknown(c) \/ RunDenied(c) \/ RunNeedsConfirm(c)
  BY <1>2, <1>6, <1>11 DEF RunUnknown, RunDenied, RunNeedsConfirm, Status, Replies
<1> QED
  BY <1>2, <1>8, <1>9, <1>10, <1>11 DEF Handle

\* The actor is done with an execution.
LEMMA ReleaseServes ==
    ASSUME Truthful, \A c \in Conn : Brief(c), RunFails \/ FinishRun
    PROVE  \A c \in Conn : Serves(c)
<1> USE DEF Truthful
<1>0. PICK c \in Conn : c = actor.conn
  BY DEF RunFails, FinishRun, Busy, Typed, CommandOwners
<1>1. /\ Live(c) /\ Executing(c) /\ actor' = Listening
      /\ conn[c].reply # "ran" /\ conn \in [Conn -> ConnState]
  BY <1>0, NoReplyDistinct
     DEF RunFails, FinishRun, Busy, Typed, TypeOK, CommandOwners, Live,
         Executing, Accounted
<1>2. PICK s \in {"error", "ran"} :
         conn' = Answer(c, s) /\ (s = "ran" <=> actor.phase = "ran")
  BY <1>0 DEF RunFails, FinishRun
<1>3. s \in Status
  BY DEF Status, Replies
<1>4. conn'[c].reply = s
  BY <1>1, <1>2 DEF Answer, ConnState
<1>5. HasRun(c)' <=> HasRun(c)
  BY <1>0, <1>1, <1>2, <1>4 DEF HasRun, Listening
<1>6. Serves(c) /\ OnlyConn(c)
  BY <1>1, <1>2, <1>3, <1>5, AnswerServes
<1>7. ASSUME NEW d \in Conn, d # c PROVE Serves(d)
  BY <1>0, <1>1, <1>6, <1>7, StaysServed DEF OnlyConn, Listening
<1> QED
  BY <1>6, <1>7

\* A success is the current one of the connection the actor executes for.
LEMMA SuccessServes ==
    ASSUME Truthful, \A c \in Conn : Brief(c), RunSucceeds
    PROVE  /\ actor.conn \in Conn
           /\ OnRun(actor.conn) /\ ~HasRun(actor.conn) /\ HasRun(actor.conn)'
           /\ \A c \in Conn \ {actor.conn} : HasRun(c)' <=> HasRun(c)
           /\ conn' = conn /\ (\A c \in Conn : Brief(c)')
<1> USE DEF Truthful
<1>1. /\ actor.conn \in Conn /\ actor.phase = "running"
      /\ conn[actor.conn].st = "queued" /\ conn[actor.conn].req.op = "run"
      /\ actor'.phase = "ran" /\ actor'.conn = actor.conn /\ conn' = conn
  BY DEF RunSucceeds, Busy, Typed, TypeOK, CommandOwners
<1>2. conn[actor.conn].reply # "ran"
  BY <1>1, NoReplyDistinct DEF Accounted
<1> QED
  BY <1>1, <1>2 DEF OnRun, Live, HasRun, Brief

-----------------------------------------------------------------------------
(* A step of the daemon keeps the relation.                                *)

\* A command that does not move follows its request as it is served.
LEMMA ServedFollows ==
    ASSUME NEW c \in Conn, Follows(c), Serves(c), UNCHANGED <<flow, said, did>>
    PROVE  Follows(c)'
<1>1. (Live(c)' <=> Live(c)) /\ (OnRun(c)' <=> OnRun(c))
  BY DEF Serves, OnRun
<1>2. Linked(c)'
  BY <1>1 DEF Follows, Linked, Serves, Sent, Current
<1>3. Counted(c)'
  BY <1>1 DEF Follows, Counted, Serves
<1>4. Consented(c)'
  BY <1>1 DEF Follows, Consented, SaidYes
<1> QED
  BY <1>2, <1>3, <1>4 DEF Follows

\* The process is gone and the request with it.
LEMMA GoneFollows ==
    ASSUME NEW c \in Conn, Follows(c), conn'[c] = Idle, UNCHANGED <<flow, said, did>>
    PROVE  Follows(c)' /\ Brief(c)'
<1>1. ~Live(c)' /\ ~OnRun(c)'
  BY DEF Live, OnRun, Idle
<1>2. Linked(c)'
  BY <1>1 DEF Linked
<1>3. Counted(c)'
  BY <1>1 DEF Follows, Counted
<1>4. Consented(c)'
  BY <1>1 DEF Follows, Consented, SaidYes
<1>5. Brief(c)'
  BY <1>1 DEF Brief, Idle
<1> QED
  BY <1>2, <1>3, <1>4, <1>5 DEF Follows

\* A step that gives no success to a command.
LEMMA DaemonServes ==
    ASSUME Truthful, \A c \in Conn : Brief(c),
           \/ \E c \in Conn : Model(c) \/ BindNext(c) \/ Handle(c)
           \/ RunFails \/ FinishRun
           \/ TickPrune \/ Shutdown \/ Crash \/ Restart \/ Advance
    PROVE  \/ \A c \in Conn : Serves(c)
           \/ \A c \in Conn : conn'[c] = Idle
<1>1. ASSUME NEW c \in Conn, Model(c) \/ BindNext(c)
      PROVE  \A d \in Conn : Serves(d)
  <2>1. Serves(c) /\ OnlyConn(c) /\ actor' = actor
    BY <1>1, ReasonServes
  <2> QED
    BY <2>1, StaysServed DEF OnlyConn
<1>2. ASSUME NEW c \in Conn, Handle(c)
      PROVE  \A d \in Conn : Serves(d)
  <2>1. Serves(c) /\ OnlyConn(c) /\ actor.phase # "ran" /\ actor'.phase # "ran"
    BY <1>2, HandleServes
  <2> QED
    BY <2>1, StaysServed DEF OnlyConn
<1>3. CASE RunFails \/ FinishRun
  BY <1>3, ReleaseServes
<1>4. CASE TickPrune \/ Restart \/ Advance
  <2>1. conn' = conn
    BY <1>4 DEF TickPrune, Restart, Advance
  <2>2. actor' = actor \/ (actor.phase # "ran" /\ actor'.phase # "ran")
    BY <1>4 DEF TickPrune, Restart, Advance, Listening
  <2> QED
    BY <2>1, <2>2, StaysServed
<1>5. CASE Shutdown \/ Crash
  BY <1>5 DEF Shutdown, Crash, Stops
<1> QED
  BY <1>1, <1>2, <1>3, <1>4, <1>5

\* A success is the step the command waits for, and the next one it counts.
LEMMA SuccessFollows ==
    ASSUME InStep, RunSucceeds, UNCHANGED <<flow, said>>,
           did' = [did EXCEPT ![actor.conn] =
                      Append(@, [cap |-> conn[actor.conn].req.cap,
                                 arg |-> conn[actor.conn].req.arg])]
    PROVE  FlowTyped' /\ \A c \in Conn : Follows(c)'
<1> USE DEF InStep
<1>1. /\ actor.conn \in Conn
      /\ OnRun(actor.conn) /\ ~HasRun(actor.conn) /\ HasRun(actor.conn)'
      /\ \A c \in Conn \ {actor.conn} : HasRun(c)' <=> HasRun(c)
      /\ conn' = conn
  BY SuccessServes
<1>2. PICK c \in Conn : c = actor.conn
  BY <1>1
<1> DEFINE f == flow[c]
           call == [cap |-> conn[c].req.cap, arg |-> conn[c].req.arg]
<1>3. /\ f \in Flow /\ did[c] \in Seq(AnyCall)
      /\ f.steps \in Seq(ShownStep) /\ f.next \in Nat \ {0}
  BY DEF FlowTyped, Flow
<1>4. /\ f.pc \in {"running", "ended"} /\ f.next \in 1..Len(f.steps)
      /\ conn[c].req = Sent(c) /\ Live(c)
  BY <1>1, <1>2 DEF Follows, Linked, OnRun
<1>5. call = f.steps[f.next].call /\ call \in AnyCall
  <2>1. f.steps[f.next] \in ShownStep
    <3> HIDE DEF f
    <3> QED
      BY <1>3, <1>4
  <2>2. f.steps[f.next].call \in AnyCall
    BY <2>1 DEF ShownStep
  <2> QED
    BY <1>4, <2>2 DEF Sent, Current, AnyCall
<1>6. Len(did[c]) = f.next - 1
  BY <1>1, <1>2 DEF Follows, Counted
<1>7. /\ did'[c] = Append(did[c], call)
      /\ \A d \in Conn \ {c} : did'[d] = did[d]
      /\ DOMAIN did' = Conn
  BY <1>2 DEF FlowTyped
<1>8. /\ did'[c] \in Seq(AnyCall)
      /\ Len(did'[c]) = f.next
      /\ did'[c] # <<>>
      /\ \A i \in 1..f.next :
            did'[c][i] = IF i = f.next THEN call ELSE did[c][i]
  <2> HIDE DEF call, f
  <2> QED
    BY <1>3, <1>5, <1>6, <1>7
<1>9. FlowTyped'
  BY <1>7, <1>8 DEF FlowTyped
<1>10. Follows(c)'
  <2>1. Live(c)' /\ OnRun(c)' /\ HasRun(c)'
    <3>1. actor'.conn = actor.conn
      BY DEF RunSucceeds
    <3> QED
      BY <1>1, <1>2, <1>4, <3>1 DEF OnRun, Live
  <2>2. Linked(c)'
    BY <1>1, <2>1, <1>2 DEF Follows, Linked, Sent, Current, Live, OnRun
  <2>3. Consented(c)'
    BY <1>1, <1>2 DEF Follows, Consented, SaidYes, OnRun, Live
  <2>4. f.outcome \in {"none", "killed"}
    BY <1>4 DEF Follows, Linked, Shape
  <2>5. ASSUME NEW i \in 1..Len(did'[c]) PROVE did'[c][i] = f.steps[i].call
    <3>1. CASE i = f.next
      BY <1>5, <1>8, <3>1
    <3>2. CASE i # f.next
      <4>1. i \in 1..Len(did[c]) /\ did'[c][i] = did[c][i]
        <5> HIDE DEF f, call
        <5> QED
          BY <1>3, <1>6, <1>8, <3>2
      <4> QED
        BY <1>2, <4>1 DEF Follows, Counted
    <3> QED
      BY <3>1, <3>2
  <2>6. Counted(c)'
    BY <1>4, <1>8, <2>1, <2>4, <2>5 DEF Counted
  <2> QED
    BY <2>2, <2>3, <2>6 DEF Follows
<1>11. ASSUME NEW d \in Conn, d # c PROVE Follows(d)'
  <2>1. Serves(d)
    BY <1>1, <1>2, <1>11 DEF Serves, Live, Brief
  <2>2. Follows(d) /\ did'[d] = did[d]
    BY <1>7, <1>11
  <2>3. (Live(d)' <=> Live(d)) /\ (OnRun(d)' <=> OnRun(d))
    BY <2>1 DEF Serves, OnRun
  <2>4. Linked(d)' /\ Consented(d)'
    BY <2>1, <2>2, <2>3 DEF Follows, Linked, Serves, Sent, Current, Consented, SaidYes
  <2>5. Counted(d)'
    BY <2>1, <2>2, <2>3 DEF Follows, Counted, Serves
  <2> QED
    BY <2>2, <2>4, <2>5 DEF Follows
<1> QED
  BY <1>9, <1>10, <1>11

-----------------------------------------------------------------------------
(* A step of a command moves that command, and its connection only.        *)

\* The other commands do not move.
OnlyFlow(c) ==
    /\ flow' \in [Conn -> Flow]
    /\ \A d \in Conn \ {c} : flow'[d] = flow[d]

\* The command c is at the same step of the same attempt.
SameStep(c) ==
    /\ flow'[c].kind = flow[c].kind
    /\ flow'[c].cautious = flow[c].cautious
    /\ flow'[c].attempt = flow[c].attempt
    /\ flow'[c].steps = flow[c].steps
    /\ flow'[c].next = flow[c].next

\* What Goes and Ends do.
LEMMA GoesEffect ==
    ASSUME FlowTyped, NEW c \in Conn, NEW pc \in Pc, Goes(c, pc)
    PROVE  /\ OnlyFlow(c) /\ SameStep(c)
           /\ flow'[c].pc = pc /\ flow'[c].outcome = flow[c].outcome
           /\ flow'[c].approved = flow[c].approved
<1>1. flow' = [flow EXCEPT ![c] = [flow[c] EXCEPT !.pc = pc]]
  BY DEF Goes, FlowTyped, Flow
<1>2. [flow[c] EXCEPT !.pc = pc] \in Flow
  BY DEF FlowTyped, Flow
<1> QED
  BY <1>1, <1>2 DEF OnlyFlow, SameStep, FlowTyped, Flow

LEMMA EndsEffect ==
    ASSUME FlowTyped, NEW c \in Conn, NEW outcome \in Outcome, Ends(c, outcome)
    PROVE  /\ OnlyFlow(c) /\ SameStep(c)
           /\ flow'[c].pc = "ended" /\ flow'[c].outcome = outcome
           /\ flow'[c].approved = flow[c].approved
<1>1. flow' = [flow EXCEPT ![c] =
                  [flow[c] EXCEPT !.pc = "ended", !.outcome = outcome]]
  BY DEF Ends, FlowTyped, Flow
<1>2. [flow[c] EXCEPT !.pc = "ended", !.outcome = outcome] \in Flow
  BY DEF FlowTyped, Flow, Pc
<1> QED
  BY <1>1, <1>2 DEF OnlyFlow, SameStep, FlowTyped, Flow

\* A command that ends with an outcome that is true follows what is left.
LEMMA EndsFollows ==
    ASSUME InStep, NEW c \in Conn, NEW outcome \in Outcome \ {"none"},
           Ends(c, outcome), UNCHANGED <<said, did, actor>>,
           \/ outcome = "killed" /\ conn'[c] = conn[c]
           \/ conn'[c].st = "idle",
           outcome = "done" => Len(did[c]) = Len(flow[c].steps),
           outcome \in {"denied", "answered", "shown", "aborted"} => did[c] = <<>>
    PROVE  FlowTyped' /\ OnlyFlow(c) /\ Follows(c)'
<1>1. /\ OnlyFlow(c) /\ SameStep(c)
      /\ flow'[c].pc = "ended" /\ flow'[c].outcome = outcome
      /\ flow'[c].approved = flow[c].approved
  BY EndsEffect DEF InStep
<1>2. FlowTyped'
  BY <1>1 DEF InStep, FlowTyped, OnlyFlow
<1>3. Follows(c)
  BY DEF InStep
<1>4. OnRun(c)' => /\ OnRun(c) /\ (HasRun(c)' <=> HasRun(c))
                   /\ conn'[c] = conn[c] /\ outcome = "killed"
  BY DEF OnRun, Live, HasRun
<1>5. Live(c)' => outcome = "killed"
  BY DEF Live
<1>6. Shape(flow'[c])
  BY <1>1, <1>3 DEF Follows, Shape, SameStep
<1>7. Linked(c)'
  BY <1>1, <1>3, <1>4, <1>5 DEF Follows, Linked, SameStep, Sent, Current
<1>8. Counted(c)'
  BY <1>1, <1>3, <1>4 DEF Follows, Counted, SameStep
<1>9. Consented(c)'
  BY <1>1, <1>3, <1>4 DEF Follows, Consented, SaidYes, SameStep
<1> QED
  BY <1>1, <1>2, <1>6, <1>7, <1>8, <1>9 DEF Follows

\* A command whose request is over, and what it may then know.
LEMMA Delivered ==
    ASSUME InStep, NEW c \in Conn, Deliver(c)
    PROVE  /\ OnlyConn(c) /\ actor' = actor /\ Live(c)
           /\ ~Live(c)' /\ ~OnRun(c)' /\ conn'[c].st = "idle" /\ Brief(c)'
           /\ HasRun(c) => conn[c].reply = "ran"
<1>1. Typed /\ Typed'
  BY TypedModel DEF InStep, Truthful
<1>2. /\ conn' = [conn EXCEPT ![c] = Idle] /\ actor' = actor
      /\ conn[c].st = "answered"
  BY DEF Deliver
<1>3. OnlyConn(c) /\ conn'[c] = Idle
  BY <1>1, <1>2 DEF OnlyConn, Typed, TypeOK
<1>4. ~(actor.phase = "ran" /\ actor.conn = c)
  BY <1>1, <1>2 DEF Typed, CommandOwners, Busy
<1>5. conn'[c].st = "idle"
  BY <1>3 DEF Idle
<1>6. ~Live(c)' /\ ~OnRun(c)' /\ Brief(c)'
  BY <1>5 DEF Live, OnRun, Brief
<1> QED
  BY <1>2, <1>3, <1>4, <1>5, <1>6 DEF Live, HasRun

\* A command reads the reply to its execution: it knows what took effect.
LEMMA ReceivesRun ==
    ASSUME InStep, NEW c \in Conn, NEW statuses, Receives(c, "running", statuses)
    PROVE  /\ OnlyConn(c) /\ OnRun(c) /\ conn[c].reply \in statuses
           /\ ~OnRun(c)' /\ ~Live(c)' /\ conn'[c].st = "idle" /\ Brief(c)'
           /\ UNCHANGED <<said, did, actor>>
           /\ flow[c].pc = "running" /\ flow[c].kind # "plan"
           /\ flow[c].next \in 1..Len(flow[c].steps)
           /\ Len(did[c]) = IF conn[c].reply = "ran" THEN flow[c].next
                            ELSE flow[c].next - 1
           /\ (flow[c].kind # "do" /\ conn[c].reply # "ran") => did[c] = <<>>
<1>1. /\ OnlyConn(c) /\ actor' = actor /\ Live(c)
      /\ ~Live(c)' /\ ~OnRun(c)' /\ conn'[c].st = "idle" /\ Brief(c)'
      /\ HasRun(c) => conn[c].reply = "ran"
  BY Delivered DEF Receives
<1>2. flow[c].pc = "running" /\ conn[c].reply \in statuses /\ UNCHANGED <<said, did>>
  BY DEF Receives
<1>3. Follows(c) /\ flow[c] \in Flow /\ did[c] \in Seq(AnyCall)
  BY DEF InStep, FlowTyped
<1>4. OnRun(c) /\ flow[c].kind # "plan" /\ flow[c].next \in 1..Len(flow[c].steps)
  BY <1>1, <1>2, <1>3 DEF Follows, Linked, Shape
<1>5. HasRun(c) <=> conn[c].reply = "ran"
  BY <1>1 DEF HasRun
<1>6. Len(did[c]) = IF conn[c].reply = "ran" THEN flow[c].next ELSE flow[c].next - 1
  BY <1>3, <1>4, <1>5 DEF Follows, Counted
<1>7. ASSUME flow[c].kind # "do", conn[c].reply # "ran" PROVE did[c] = <<>>
  <2>1. flow[c].kind \in {"ask", "run"}
    BY <1>3, <1>4, <1>7, ClientAssumption DEF Flow
  <2>2. flow[c].next = 1
    BY <1>3, <1>4, <2>1 DEF Follows, Shape, Flow
  <2> QED
    BY <1>3, <1>6, <1>7, <2>2
<1> QED
  BY <1>1, <1>2, <1>4, <1>6, <1>7

\* A request is sent on a connection that was free.
LEMMA SendsRequest ==
    ASSUME InStep, NEW c \in Conn, ReceiveCommand(c) \/ ReceiveReasoned(c)
    PROVE  /\ OnlyConn(c) /\ actor' = actor /\ Live(c)' /\ ~HasRun(c)' /\ Brief(c)'
<1>1. Typed /\ Typed'
  BY TypedReceive DEF InStep, Truthful
<1>2. PICK st, q : /\ st \in {"queued", "reasoning"}
                    /\ conn' = [conn EXCEPT ![c] = Opened(st, q)]
  BY DEF ReceiveCommand, ReceiveReasoned
<1>3. OnlyConn(c) /\ conn'[c] = Opened(st, q)
  BY <1>1, <1>2 DEF OnlyConn, Typed, TypeOK
<1>4. actor' = actor /\ conn[c].st = "idle"
  BY DEF ReceiveCommand, ReceiveReasoned
<1>5. ~(actor.phase = "ran" /\ actor.conn = c)
  BY <1>1, <1>4 DEF Typed, CommandOwners, Busy
<1>6. /\ conn'[c].st = st /\ conn'[c].reply = NoReply
      /\ Len(conn'[c].plan) = 0 /\ Len(conn'[c].todo) = 0
      /\ conn'[c].plan = <<>> /\ conn'[c].todo = <<>>
  BY <1>3 DEF Opened
<1>7. ~HasRun(c)'
  BY <1>4, <1>5, <1>6, NoReplyDistinct DEF HasRun
<1>8. Live(c)'
  BY <1>2, <1>6 DEF Live
<1>9. Brief(c)'
  <2>1. Len(conn'[c].plan) + Len(conn'[c].todo) <= 1
    BY <1>6
  <2> QED
    BY <1>6, <2>1 DEF Brief
<1> QED
  BY <1>3, <1>4, <1>7, <1>8, <1>9

\* A command asks for a plan.
LEMMA ReasonFollows ==
    ASSUME InStep, NEW c \in Conn, Reason(c)
    PROVE  FlowTyped' /\ OnlyFlow(c) /\ OnlyConn(c) /\ Follows(c)' /\ Brief(c)'
<1>1. OnlyConn(c) /\ Live(c)' /\ Brief(c)'
  BY SendsRequest DEF Reason
<1>2. /\ flow[c].pc = "reason" /\ UNCHANGED <<said, did>>
      /\ conn'[c].req.op = (IF flow[c].kind = "ask" THEN "ask" ELSE "plan")
  BY DEF Reason
<1>3. /\ OnlyFlow(c) /\ SameStep(c)
      /\ flow'[c].pc = "reasoning" /\ flow'[c].outcome = flow[c].outcome
      /\ flow'[c].approved = flow[c].approved
  BY GoesEffect DEF InStep, Reason, Pc
<1>4. FlowTyped'
  BY <1>2, <1>3 DEF InStep, FlowTyped, OnlyFlow
<1>5. Follows(c) /\ ~OnRun(c)'
  BY <1>2 DEF InStep, OnRun
<1>6. Shape(flow'[c])
  BY <1>2, <1>3, <1>5 DEF Follows, Shape, SameStep
<1>7. Linked(c)'
  BY <1>2, <1>3, <1>5 DEF Linked, SameStep
<1>8. Counted(c)'
  BY <1>2, <1>3, <1>5 DEF Follows, Counted, SameStep
<1>9. Consented(c)'
  BY <1>2, <1>3, <1>5 DEF Follows, Consented, SaidYes, SameStep
<1> QED
  BY <1>1, <1>3, <1>4, <1>6, <1>7, <1>8, <1>9 DEF Follows

\* A command asks for its current step.
LEMMA RunFollows ==
    ASSUME InStep, NEW c \in Conn, Run(c)
    PROVE  FlowTyped' /\ OnlyFlow(c) /\ OnlyConn(c) /\ Follows(c)' /\ Brief(c)'
<1>1. OnlyConn(c) /\ Live(c)' /\ ~HasRun(c)' /\ Brief(c)'
  BY SendsRequest DEF Run
<1>2. /\ flow[c].pc = "run" /\ UNCHANGED <<said, did>>
      /\ conn'[c].req = Sent(c)
  BY DEF Run, Sent
<1>3. /\ OnlyFlow(c) /\ SameStep(c)
      /\ flow'[c].pc = "running" /\ flow'[c].outcome = flow[c].outcome
      /\ flow'[c].approved = flow[c].approved
  BY GoesEffect DEF InStep, Run, Pc
<1>4. FlowTyped'
  BY <1>2, <1>3 DEF InStep, FlowTyped, OnlyFlow
<1>5. Follows(c) /\ OnRun(c)' /\ conn'[c].req = Sent(c)'
  BY <1>1, <1>2, <1>3 DEF InStep, OnRun, Sent, Current, SameStep
<1>6. Shape(flow'[c])
  BY <1>2, <1>3, <1>5 DEF Follows, Shape, SameStep
<1>7. Linked(c)'
  BY <1>2, <1>3, <1>5, <1>6 DEF Linked, Shape, OnRun
<1>8. Counted(c)'
  BY <1>1, <1>2, <1>3, <1>5 DEF Follows, Shape, Counted, SameStep
<1>9. Consented(c)'
  BY <1>2, <1>3, <1>5 DEF Follows, Consented, SaidYes, SameStep
<1> QED
  BY <1>1, <1>3, <1>4, <1>6, <1>7, <1>8, <1>9 DEF Follows

\* A command that loses its daemon, is killed, or is told no.
LEMMA StopFollows ==
    ASSUME InStep, NEW c \in Conn, Unreachable(c) \/ Quits(c) \/ SaysNo(c)
    PROVE  FlowTyped' /\ OnlyFlow(c) /\ OnlyConn(c) /\ Follows(c)' /\ Brief(c)'
<1>1. UNCHANGED <<vars, said, did>>
  BY DEF Unreachable, Quits, SaysNo
<1>2. conn' = conn /\ actor' = actor
  BY <1>1 DEF vars
<1>3. OnlyConn(c) /\ Brief(c)'
  BY <1>2 DEF OnlyConn, InStep, Truthful, Typed, TypeOK, Brief, Live
<1>4. Linked(c) /\ Counted(c)
  BY DEF InStep, Follows
<1>5. CASE Unreachable(c)
  <2>1. conn[c].st = "idle"
    BY <1>4, <1>5 DEF Unreachable, Linked, Live
  <2> QED
    BY <1>1, <1>2, <1>3, <1>5, <2>1, EndsFollows DEF Unreachable, Outcome
<1>6. CASE Quits(c)
  BY <1>1, <1>2, <1>3, <1>6, EndsFollows DEF Quits, Outcome
<1>7. CASE SaysNo(c)
  <2>1. conn[c].st = "idle" /\ did[c] = <<>>
    BY <1>4, <1>7 DEF SaysNo, Linked, Counted, Live
  <2>2. PICK outcome \in {"denied", "aborted"} : Ends(c, outcome)
    BY <1>7 DEF SaysNo
  <2> QED
    BY <1>1, <1>2, <1>3, <2>1, <2>2, EndsFollows DEF Outcome
<1> QED
  BY <1>5, <1>6, <1>7

\* A command ends on the reply to its execution.
LEMMA LastReplyFollows ==
    ASSUME InStep, NEW c \in Conn,
           \/ StepRan(c) /\ flow[c].next >= Len(flow[c].steps)
           \/ StepDenied(c)
           \/ StepNeedsConfirm(c) /\ (flow[c].kind = "do" \/ flow[c].approved)
           \/ StepFails(c) /\ Ends(c, "stopped")
    PROVE  FlowTyped' /\ OnlyFlow(c) /\ OnlyConn(c) /\ Follows(c)' /\ Brief(c)'
<1>1. PICK statuses \in {{"ran"}, {"denied"}, {"needs_confirm"}, {"error"}} :
         Receives(c, "running", statuses)
  BY DEF StepRan, StepDenied, StepNeedsConfirm, StepFails
<1>2. /\ OnlyConn(c) /\ conn'[c].st = "idle" /\ Brief(c)'
      /\ UNCHANGED <<said, did, actor>>
      /\ flow[c].next \in 1..Len(flow[c].steps)
      /\ Len(did[c]) = IF conn[c].reply = "ran" THEN flow[c].next
                       ELSE flow[c].next - 1
      /\ (flow[c].kind # "do" /\ conn[c].reply # "ran") => did[c] = <<>>
  BY <1>1, ReceivesRun
<1>3. Len(flow[c].steps) \in Nat
  BY DEF InStep, FlowTyped, Flow
<1>4. PICK outcome \in {"done", "stopped", "denied", "unconfirmed"} :
         /\ Ends(c, outcome)
         /\ outcome = "done" =>
                conn[c].reply = "ran" /\ flow[c].next >= Len(flow[c].steps)
         /\ outcome = "denied" => flow[c].kind # "do" /\ conn[c].reply # "ran"
  BY <1>2, <1>3 DEF StepRan, StepDenied, StepNeedsConfirm, StepFails, Receives
<1>5. outcome = "done" => Len(did[c]) = Len(flow[c].steps)
  BY <1>2, <1>3, <1>4
<1> QED
  BY <1>2, <1>4, <1>5, EndsFollows DEF Outcome

\* A plan goes on with its next step.
LEMMA NextStepFollows ==
    ASSUME InStep, NEW c \in Conn, StepRan(c),
           flow[c].next < Len(flow[c].steps)
    PROVE  FlowTyped' /\ OnlyFlow(c) /\ OnlyConn(c) /\ Follows(c)' /\ Brief(c)'
<1>1. Receives(c, "running", {"ran"})
  BY DEF StepRan
<1>2. /\ OnlyConn(c) /\ OnRun(c) /\ ~OnRun(c)' /\ ~Live(c)' /\ Brief(c)'
      /\ UNCHANGED <<said, did>>
      /\ flow[c].pc = "running" /\ flow[c].kind # "plan"
      /\ flow[c].next \in 1..Len(flow[c].steps)
      /\ Len(did[c]) = flow[c].next
  BY <1>1, ReceivesRun
<1>3. Follows(c) /\ flow[c] \in Flow /\ flow \in [Conn -> Flow] /\ did[c] \in Seq(AnyCall)
  BY DEF InStep, FlowTyped
<1>4. flow' = [flow EXCEPT ![c] = [flow[c] EXCEPT !.next = @ + 1, !.pc = "run"]]
  BY <1>3 DEF StepRan, Flow
<1>5. [flow[c] EXCEPT !.next = @ + 1, !.pc = "run"] \in Flow
  <2>1. flow[c].next + 1 \in Nat \ {0}
    BY <1>3 DEF Flow
  <2> QED
    BY <1>3, <2>1 DEF Flow, Pc
<1>6. /\ OnlyFlow(c)
      /\ flow'[c].kind = flow[c].kind /\ flow'[c].cautious = flow[c].cautious
      /\ flow'[c].attempt = flow[c].attempt /\ flow'[c].steps = flow[c].steps
      /\ flow'[c].next = flow[c].next + 1 /\ flow'[c].pc = "run"
      /\ flow'[c].approved = flow[c].approved /\ flow'[c].outcome = flow[c].outcome
  BY <1>3, <1>4, <1>5 DEF OnlyFlow, Flow
<1>7. FlowTyped'
  BY <1>2, <1>6 DEF InStep, FlowTyped, OnlyFlow
<1>8. flow[c].next + 1 \in 1..Len(flow[c].steps) /\ flow[c].next \in Nat
  BY <1>2, <1>3 DEF Flow
<1>9. Shape(flow'[c])
  BY <1>2, <1>3, <1>6, <1>8 DEF Follows, Shape
<1>10. Linked(c)'
  BY <1>2, <1>6 DEF Linked
<1>11. Counted(c)'
  BY <1>2, <1>3, <1>6, <1>8 DEF Follows, Counted, Shape
<1>12. Consented(c)'
  BY <1>2, <1>3, <1>6 DEF Follows, Consented, SaidYes
<1> QED
  BY <1>2, <1>6, <1>7, <1>9, <1>10, <1>11, <1>12 DEF Follows

\* The human is asked about the call that needs a confirmation.
LEMMA ConfirmFollows ==
    ASSUME InStep, NEW c \in Conn, StepNeedsConfirm(c),
           flow[c].kind # "do", ~flow[c].approved
    PROVE  FlowTyped' /\ OnlyFlow(c) /\ OnlyConn(c) /\ Follows(c)' /\ Brief(c)'
<1>1. Receives(c, "running", {"needs_confirm"})
  BY DEF StepNeedsConfirm
<1>2. /\ OnlyConn(c) /\ OnRun(c) /\ ~OnRun(c)' /\ ~Live(c)' /\ Brief(c)'
      /\ UNCHANGED <<said, did>>
      /\ flow[c].pc = "running" /\ flow[c].kind # "plan"
      /\ flow[c].next \in 1..Len(flow[c].steps)
      /\ did[c] = <<>>
  BY <1>1, ReceivesRun
<1>3. Follows(c) /\ flow[c] \in Flow
  BY DEF InStep, FlowTyped
<1>4. /\ OnlyFlow(c) /\ SameStep(c)
      /\ flow'[c].pc = "confirm" /\ flow'[c].outcome = flow[c].outcome
      /\ flow'[c].approved = flow[c].approved
  BY GoesEffect DEF InStep, StepNeedsConfirm, Pc
<1>5. FlowTyped'
  BY <1>2, <1>4 DEF InStep, FlowTyped, OnlyFlow
<1>6. flow[c].kind \in {"ask", "run"}
  BY <1>2, <1>3, ClientAssumption DEF Flow
<1>7. Shape(flow'[c])
  BY <1>2, <1>3, <1>4, <1>6 DEF Follows, Shape, SameStep
<1>8. Linked(c)'
  BY <1>2, <1>4 DEF Linked
<1>9. Counted(c)'
  BY <1>2, <1>3, <1>4 DEF Follows, Shape, Counted, SameStep
<1>10. Consented(c)'
  BY <1>2, <1>3, <1>4 DEF Follows, Consented, SaidYes, SameStep
<1> QED
  BY <1>2, <1>4, <1>5, <1>7, <1>8, <1>9, <1>10 DEF Follows

\* The model is asked again: the last attempt is forgotten, its approval with it.
LEMMA RetryFollows ==
    ASSUME InStep, NEW c \in Conn, Receives(c, "running", {"error"}),
           flow[c].kind = "ask", flow[c].attempt < MaxAttempts,
           flow' = [flow EXCEPT ![c].pc = "reason", ![c].attempt = @ + 1,
                                ![c].steps = <<>>, ![c].approved = FALSE]
    PROVE  FlowTyped' /\ OnlyFlow(c) /\ OnlyConn(c) /\ Follows(c)' /\ Brief(c)'
<1>1. /\ OnlyConn(c) /\ OnRun(c) /\ ~OnRun(c)' /\ ~Live(c)' /\ Brief(c)'
      /\ UNCHANGED <<said, did>>
      /\ flow[c].pc = "running" /\ did[c] = <<>>
  BY ReceivesRun
<1>2. Follows(c) /\ flow[c] \in Flow /\ flow \in [Conn -> Flow]
  BY DEF InStep, FlowTyped
<1> DEFINE g == [flow[c] EXCEPT !.pc = "reason", !.attempt = @ + 1,
                                !.steps = <<>>, !.approved = FALSE]
<1>3. flow' = [flow EXCEPT ![c] = g]
  BY <1>2 DEF Flow
<1>4. g \in Flow
  <2>1. <<>> \in Seq(ShownStep) /\ flow[c].attempt + 1 \in 1..MaxAttempts
    BY <1>2, ClientAssumption DEF Flow
  <2> QED
    BY <1>2, <2>1 DEF Flow, Pc
<1>5. /\ OnlyFlow(c)
      /\ flow'[c].kind = flow[c].kind /\ flow'[c].cautious = flow[c].cautious
      /\ flow'[c].steps = <<>> /\ flow'[c].next = flow[c].next
      /\ flow'[c].pc = "reason" /\ ~flow'[c].approved
      /\ flow'[c].outcome = flow[c].outcome
  BY <1>2, <1>3, <1>4 DEF OnlyFlow, Flow
<1> HIDE DEF g
<1>6. FlowTyped'
  BY <1>1, <1>5 DEF InStep, FlowTyped, OnlyFlow
<1>7. Len(flow'[c].steps) = 0 /\ Len(did'[c]) = 0
  BY <1>1, <1>5
<1>8. Shape(flow'[c])
  BY <1>1, <1>2, <1>5, <1>7 DEF Follows, Shape
<1>9. Linked(c)'
  BY <1>1, <1>5 DEF Linked
<1>10. Counted(c)'
  BY <1>1, <1>2, <1>5, <1>7 DEF Follows, Shape, Counted
<1>11. Consented(c)'
  BY <1>1, <1>5 DEF Consented
<1> QED
  BY <1>1, <1>5, <1>6, <1>8, <1>9, <1>10, <1>11 DEF Follows

\* Reasoning came to nothing.
LEMMA NothingFollows ==
    ASSUME InStep, NEW c \in Conn, ReasonedNothing(c)
    PROVE  FlowTyped' /\ OnlyFlow(c) /\ OnlyConn(c) /\ Follows(c)' /\ Brief(c)'
<1>1. Deliver(c) /\ flow[c].pc = "reasoning" /\ UNCHANGED <<said, did>>
  BY DEF ReasonedNothing, Receives
<1>2. OnlyConn(c) /\ actor' = actor /\ conn'[c].st = "idle" /\ Brief(c)'
  BY <1>1, Delivered
<1>3. did[c] = <<>>
  BY <1>1 DEF InStep, Follows, Counted
<1>4. PICK outcome \in {"stopped", "answered"} : Ends(c, outcome)
  BY DEF ReasonedNothing
<1> QED
  BY <1>1, <1>2, <1>3, <1>4, EndsFollows DEF Outcome

LEMMA AtMostOne == \A m, n \in Nat : m + n <= 1 => m <= 1
  OBVIOUS

LEMMA TheOnlyStep == \A n \in Nat : \A i \in 1..n : n <= 1 => i = 1 /\ n = 1
  OBVIOUS

\* The steps a command is shown are those of its plan, at most one for an ask.
LEMMA ShownSteps ==
    ASSUME InStep, NEW c \in Conn, Live(c), flow[c].pc = "reasoning",
           conn[c].plan # <<>>
    PROVE  /\ conn[c].plan \in Seq(ShownStep)
           /\ Len(conn[c].plan) \in Nat \ {0}
           /\ flow[c].kind = "ask" => Len(conn[c].plan) <= 1
<1>1. conn[c] \in ConnState
  BY DEF InStep, Truthful, Typed, TypeOK
<1>2. conn[c].plan \in Seq(Step) /\ conn[c].todo \in Seq(Call)
  BY <1>1 DEF ConnState
<1>3. Step \subseteq ShownStep
  BY DEF Step, ShownStep, Call, AnyCall
<1>4. conn[c].plan \in Seq(ShownStep) /\ Len(conn[c].plan) \in Nat \ {0}
  BY <1>2, <1>3
<1>5. Len(conn[c].plan) \in Nat /\ Len(conn[c].todo) \in Nat
  BY <1>2
<1>6. Linked(c) /\ Brief(c)
  BY DEF InStep, Follows
<1>7. flow[c].kind = "ask" => Len(conn[c].plan) + Len(conn[c].todo) <= 1
  BY <1>6 DEF Linked, Brief
<1>8. flow[c].kind = "ask" => Len(conn[c].plan) <= 1
  BY <1>5, <1>7, AtMostOne
<1> QED
  BY <1>4, <1>8

\* A command shows the steps it was answered, and goes where they send it.
LEMMA PreviewFollows ==
    ASSUME InStep, NEW c \in Conn, Preview(c)
    PROVE  FlowTyped' /\ OnlyFlow(c) /\ OnlyConn(c) /\ Follows(c)' /\ Brief(c)'
<1> DEFINE plan == conn[c].plan
           pc == AfterPreview(flow[c], plan)
           outcome == IF pc # "ended" THEN "none"
                      ELSE IF Blocked(plan) THEN "denied" ELSE "shown"
           g == [flow[c] EXCEPT !.steps = plan, !.next = 1, !.pc = pc,
                                !.outcome = outcome]
<1>1. /\ Deliver(c) /\ flow[c].pc = "reasoning" /\ UNCHANGED <<said, did>>
      /\ plan # <<>>
  BY DEF Preview, Receives
<1>2. /\ OnlyConn(c) /\ actor' = actor /\ Live(c)
      /\ ~Live(c)' /\ ~OnRun(c)' /\ Brief(c)'
  BY <1>1, Delivered
<1>3. Follows(c) /\ flow[c] \in Flow /\ flow \in [Conn -> Flow]
  BY DEF InStep, FlowTyped
<1>4. /\ flow[c].kind \in {"ask", "plan", "do"} /\ ~flow[c].approved
      /\ flow[c].cautious => flow[c].kind = "ask"
      /\ did[c] = <<>>
  BY <1>1, <1>3, ClientAssumption DEF Follows, Shape, Counted, Flow
<1>5. /\ plan \in Seq(ShownStep)
      /\ Len(plan) \in Nat \ {0}
      /\ flow[c].kind = "ask" => Len(plan) <= 1
  BY <1>1, <1>2, ShownSteps
<1>6. /\ pc \in {"ended", "caution", "run", "approve"}
      /\ pc = "caution" => flow[c].kind = "ask"
      /\ pc = "approve" => flow[c].kind = "do"
      /\ pc = "run" => flow[c].kind # "plan" /\ ~flow[c].cautious
      /\ (pc = "run" /\ flow[c].kind = "do") => ~NeedsConfirmation(plan)
  BY <1>4 DEF AfterPreview
<1>7. outcome \in {"none", "denied", "shown"} /\ (outcome = "none" <=> pc # "ended")
  OBVIOUS
<1>8. flow' = [flow EXCEPT ![c] = g]
  BY <1>3 DEF Preview, Flow
<1> HIDE DEF plan, pc, outcome
<1>9. g \in Flow
  <2>1. 1 \in Nat \ {0} /\ pc \in Pc /\ outcome \in Outcome
    BY <1>6, <1>7 DEF Pc, Outcome
  <2> QED
    BY <1>3, <1>5, <2>1 DEF Flow
<1>10. /\ OnlyFlow(c)
       /\ flow'[c].kind = flow[c].kind /\ flow'[c].cautious = flow[c].cautious
       /\ flow'[c].steps = plan /\ flow'[c].next = 1
       /\ flow'[c].pc = pc /\ ~flow'[c].approved
       /\ flow'[c].outcome = outcome
  BY <1>3, <1>4, <1>8, <1>9 DEF OnlyFlow, Flow
<1> HIDE DEF g
<1>11. FlowTyped'
  BY <1>1, <1>10 DEF InStep, FlowTyped, OnlyFlow
<1>12. Len(did'[c]) = 0 /\ did'[c] = <<>>
  BY <1>1, <1>4
<1>13. Shape(flow'[c])
  BY <1>4, <1>5, <1>6, <1>7, <1>10 DEF Shape
<1>14. Linked(c)'
  BY <1>2, <1>10 DEF Linked
<1>15. Counted(c)'
  BY <1>2, <1>5, <1>6, <1>7, <1>10, <1>12 DEF Counted
<1>16. Consented(c)'
  <2>1. pc = "run" /\ flow[c].kind = "do" =>
            \A i \in 1..Len(plan) : plan[i].decision = "allow"
    BY <1>5, <1>6 DEF NeedsConfirmation
  <2> QED
    BY <1>2, <1>6, <1>10, <2>1 DEF Consented
<1> QED
  BY <1>2, <1>10, <1>11, <1>13, <1>14, <1>15, <1>16 DEF Follows

\* A reply that a killed command leaves unread.
LEMMA DiscardFollows ==
    ASSUME InStep, NEW c \in Conn, Discard(c)
    PROVE  FlowTyped' /\ OnlyFlow(c) /\ OnlyConn(c) /\ Follows(c)' /\ Brief(c)'
<1>1. OnlyConn(c) /\ UNCHANGED <<flow, said, did>> /\ conn'[c] = Idle
  BY Delivered DEF Discard, Deliver, InStep, Truthful, Typed, TypeOK
<1>2. FlowTyped' /\ OnlyFlow(c)
  BY <1>1 DEF InStep, FlowTyped, OnlyFlow
<1> QED
  BY <1>1, <1>2, GoneFollows DEF InStep

-----------------------------------------------------------------------------
(* The human answers.                                                      *)

\* A yes is remembered, and no earlier one is forgotten.
LEMMA ApprovesEffect ==
    ASSUME FlowTyped, NEW c \in Conn, NEW question, NEW calls,
           Approves(c, question, calls), flow'[c].attempt = flow[c].attempt
    PROVE  /\ DOMAIN said' = Conn /\ (\A d \in Conn \ {c} : said'[d] = said[d])
           /\ \A q, call : SaidYes(c, q, call) => SaidYes(c, q, call)'
           /\ \A call \in calls : SaidYes(c, question, call)'
<1>1. said'[c] = said[c] \cup
         {[to |-> question, attempt |-> flow[c].attempt, call |-> call] :
              call \in calls}
  BY DEF Approves, FlowTyped
<1> QED
  BY <1>1 DEF Approves, FlowTyped, SaidYes

\* Yes to a cautious ask.
LEMMA CautionFollows ==
    ASSUME InStep, NEW c \in Conn, CautionYes(c)
    PROVE  FlowTyped' /\ OnlyFlow(c) /\ OnlyConn(c) /\ Follows(c)' /\ Brief(c)'
<1>1. /\ flow[c].pc = "caution" /\ conn' = conn /\ actor' = actor /\ did' = did
  BY DEF CautionYes, vars
<1>2. /\ OnlyFlow(c) /\ SameStep(c)
      /\ flow'[c].pc = "run" /\ flow'[c].outcome = flow[c].outcome
      /\ flow'[c].approved = flow[c].approved
  BY GoesEffect DEF InStep, CautionYes, Pc
<1>3. /\ DOMAIN said' = Conn
      /\ SaidYes(c, "caution", Current(c))'
  BY <1>2, ApprovesEffect DEF CautionYes, InStep, SameStep, Current
<1>4. FlowTyped' /\ OnlyConn(c) /\ Brief(c)'
  BY <1>1, <1>2, <1>3 DEF InStep, FlowTyped, OnlyFlow, OnlyConn, Truthful, Typed,
                          TypeOK, Brief, Live
<1>5. Follows(c) /\ flow[c] \in Flow
  BY DEF InStep, FlowTyped
<1>6. /\ flow[c].kind = "ask" /\ flow[c].next = 1 /\ ~flow[c].approved
      /\ Len(flow[c].steps) = 1
  <2>1. /\ flow[c].kind = "ask" /\ ~flow[c].approved
        /\ flow[c].next \in 1..Len(flow[c].steps) /\ Len(flow[c].steps) <= 1
    BY <1>1, <1>5 DEF Follows, Shape
  <2>2. Len(flow[c].steps) \in Nat
    BY <1>5 DEF Flow
  <2> QED
    BY <2>1, <2>2, TheOnlyStep
<1>7. ~Live(c)' /\ ~OnRun(c)'
  BY <1>1, <1>5 DEF Follows, Linked, Live, OnRun
<1>8. Shape(flow'[c])
  BY <1>1, <1>2, <1>5, <1>6 DEF Follows, Shape, SameStep
<1>9. Linked(c)'
  BY <1>2, <1>7 DEF Linked
<1>10. Counted(c)'
  <2>1. did[c] = <<>> /\ Len(did[c]) = 0
    BY <1>1, <1>5 DEF Follows, Counted
  <2> QED
    BY <1>1, <1>2, <1>5, <1>6, <1>7, <2>1 DEF Follows, Counted, SameStep
<1>11. Consented(c)'
  BY <1>2, <1>3, <1>6, <1>7 DEF Consented, SameStep, Current
<1> QED
  BY <1>2, <1>4, <1>8, <1>9, <1>10, <1>11 DEF Follows

\* Yes, on a confirmation or for a plan: the steps shown are approved.
LEMMA YesFollows ==
    ASSUME InStep, NEW c \in Conn, ConfirmYes(c) \/ PlanYes(c)
    PROVE  FlowTyped' /\ OnlyFlow(c) /\ OnlyConn(c) /\ Follows(c)' /\ Brief(c)'
<1>1. /\ flow[c].pc \in {"confirm", "approve"}
      /\ conn' = conn /\ actor' = actor /\ did' = did
  BY DEF ConfirmYes, PlanYes, vars
<1>2. Follows(c) /\ flow[c] \in Flow /\ flow \in [Conn -> Flow] /\ did[c] \in Seq(AnyCall)
  BY DEF InStep, FlowTyped
<1> DEFINE g == [flow[c] EXCEPT !.pc = "run", !.approved = TRUE]
<1>3. flow' = [flow EXCEPT ![c] = g] /\ g \in Flow
  BY <1>2 DEF ConfirmYes, PlanYes, Flow, Pc
<1>4. /\ OnlyFlow(c) /\ SameStep(c)
      /\ flow'[c].pc = "run" /\ flow'[c].outcome = flow[c].outcome
      /\ flow'[c].approved
  BY <1>2, <1>3 DEF OnlyFlow, SameStep, Flow
<1> HIDE DEF g
<1>5. flow[c].pc = "confirm" => flow[c].next = 1 /\ Len(flow[c].steps) = 1
  <2>1. flow[c].pc = "confirm" =>
           flow[c].next \in 1..Len(flow[c].steps) /\ Len(flow[c].steps) <= 1
    BY <1>2 DEF Follows, Shape
  <2>2. Len(flow[c].steps) \in Nat
    BY <1>2 DEF Flow
  <2> QED
    BY <2>1, <2>2, TheOnlyStep
<1>6. /\ DOMAIN said' = Conn
      /\ \A q, call : SaidYes(c, q, call) => SaidYes(c, q, call)'
      /\ \/ \A i \in 1..Len(flow[c].steps) :
               SaidYes(c, "plan", flow[c].steps[i].call)'
         \/ \A i \in 1..Len(flow[c].steps) :
               SaidYes(c, "confirm", flow[c].steps[i].call)'
  <2>1. ASSUME NEW q, NEW calls, Approves(c, q, calls)
        PROVE  /\ DOMAIN said' = Conn
               /\ \A r, call : SaidYes(c, r, call) => SaidYes(c, r, call)'
               /\ \A call \in calls : SaidYes(c, q, call)'
    BY <1>4, <2>1, ApprovesEffect DEF InStep, SameStep
  <2>2. CASE ConfirmYes(c)
    <3>1. flow[c].pc = "confirm" /\ Approves(c, "confirm", {Current(c)})
      BY <2>2 DEF ConfirmYes
    <3>2. SaidYes(c, "confirm", Current(c))'
      <4>1. Current(c)' = Current(c)
        BY <1>4 DEF Current, SameStep
      <4> QED
        BY <2>1, <3>1, <4>1 DEF SaidYes
    <3> QED
      BY <1>4, <1>5, <2>1, <3>1, <3>2 DEF SaidYes, Current, SameStep
  <2>3. CASE PlanYes(c)
    <3>1. Approves(c, "plan",
                   {flow[c].steps[i].call : i \in DOMAIN flow[c].steps})
      BY <2>3 DEF PlanYes
    <3>2. DOMAIN flow[c].steps = 1..Len(flow[c].steps)
      BY <1>2 DEF Flow
    <3> DEFINE calls == {flow[c].steps[i].call : i \in DOMAIN flow[c].steps}
    <3>3. \A i \in 1..Len(flow[c].steps) : flow[c].steps[i].call \in calls
      BY <3>2
    <3> HIDE DEF calls
    <3>4. /\ DOMAIN said' = Conn
          /\ \A r, call : SaidYes(c, r, call) => SaidYes(c, r, call)'
          /\ \A call \in calls : SaidYes(c, "plan", call)'
      BY <2>1, <3>1 DEF calls
    <3>5. \A i \in 1..Len(flow[c].steps) :
             SaidYes(c, "plan", flow[c].steps[i].call)'
      BY <1>4, <3>3, <3>4 DEF SaidYes, SameStep
    <3> QED
      BY <3>4, <3>5
  <2> QED
    BY <2>2, <2>3
<1>7. FlowTyped' /\ OnlyConn(c) /\ Brief(c)'
  BY <1>1, <1>4, <1>6 DEF InStep, FlowTyped, OnlyFlow, OnlyConn, Truthful, Typed,
                          TypeOK, Brief, Live
<1>8. ~Live(c)' /\ ~OnRun(c)'
  BY <1>1, <1>2 DEF Follows, Linked, Live, OnRun
<1>9. did[c] = <<>> /\ Len(did[c]) = 0
  BY <1>1, <1>2 DEF Follows, Counted
<1>10. /\ flow'[c].next \in 1..Len(flow'[c].steps) /\ flow'[c].next = 1
       /\ flow'[c].kind # "plan"
  <2>1. flow[c].next = 1 /\ Len(flow[c].steps) >= 1 /\ flow[c].kind # "plan"
    BY <1>1, <1>2, <1>5 DEF Follows, Shape
  <2>2. Len(flow[c].steps) \in Nat
    BY <1>2 DEF Flow
  <2>3. 1 \in 1..Len(flow[c].steps)
    BY <2>1, <2>2
  <2> QED
    BY <1>4, <2>1, <2>3 DEF SameStep
<1>11. Shape(flow'[c])
  BY <1>1, <1>2, <1>4, <1>10 DEF Follows, Shape, SameStep
<1>12. Linked(c)'
  BY <1>4, <1>8 DEF Linked
<1>13. Counted(c)'
  BY <1>1, <1>2, <1>4, <1>8, <1>9, <1>10 DEF Follows, Counted, SameStep
<1>14. Consented(c)'
  BY <1>1, <1>2, <1>4, <1>6, <1>8 DEF Follows, Shape, Consented, SameStep
<1> QED
  BY <1>4, <1>7, <1>11, <1>12, <1>13, <1>14 DEF Follows

-----------------------------------------------------------------------------
(* Every step, and the theorems.                                           *)

\* A command whose connection is not moved follows it.
LEMMA OthersFollow ==
    ASSUME NEW d \in Conn, Follows(d), Brief(d), conn'[d] = conn[d],
           flow'[d] = flow[d], said'[d] = said[d], did'[d] = did[d], actor' = actor
    PROVE  Follows(d)' /\ Brief(d)'
<1>1. /\ Live(d)' <=> Live(d)
      /\ OnRun(d)' <=> OnRun(d)
      /\ HasRun(d)' <=> HasRun(d)
  BY DEF Live, OnRun, HasRun
<1>2. Linked(d)' /\ Brief(d)'
  BY <1>1 DEF Follows, Linked, Brief, Sent, Current
<1>3. Counted(d)'
  BY <1>1 DEF Follows, Counted
<1>4. Consented(d)'
  BY <1>1 DEF Follows, Consented, SaidYes
<1> QED
  BY <1>2, <1>3, <1>4 DEF Follows

\* A step of a command: its own relation holds, and the others' are undisturbed.
LEMMA CommandFollows ==
    ASSUME InStep, NEW c \in Conn, Client(c) \/ Ask(c) \/ Quits(c)
    PROVE  FlowTyped' /\ \A d \in Conn : Follows(d)' /\ Brief(d)'
<1>1. FlowTyped' /\ OnlyFlow(c) /\ OnlyConn(c) /\ Follows(c)' /\ Brief(c)'
  <2>1. CASE Reason(c) \/ Run(c)
    BY <2>1, ReasonFollows, RunFollows
  <2>2. CASE Unreachable(c) \/ Quits(c) \/ SaysNo(c)
    BY <2>2, StopFollows
  <2>3. CASE ReasonedNothing(c) \/ Preview(c) \/ Discard(c)
    BY <2>3, NothingFollows, PreviewFollows, DiscardFollows
  <2>4. CASE CautionYes(c) \/ ConfirmYes(c) \/ PlanYes(c)
    BY <2>4, CautionFollows, YesFollows
  <2>5. CASE StepDenied(c)
    BY <2>5, LastReplyFollows
  <2>6. CASE StepRan(c)
    <3>1. flow[c].next \in Nat /\ Len(flow[c].steps) \in Nat
      BY DEF InStep, FlowTyped, Flow
    <3>2. flow[c].next < Len(flow[c].steps) \/ flow[c].next >= Len(flow[c].steps)
      BY <3>1
    <3> QED
      BY <2>6, <3>2, LastReplyFollows, NextStepFollows
  <2>7. CASE StepNeedsConfirm(c)
    BY <2>7, LastReplyFollows, ConfirmFollows
  <2>8. CASE StepFails(c)
    <3>1. CASE Ends(c, "stopped")
      BY <2>8, <3>1, LastReplyFollows
    <3>2. CASE ~Ends(c, "stopped")
      BY <2>8, <3>2, RetryFollows DEF StepFails
    <3> QED
      BY <3>1, <3>2
  <2> QED
    BY <2>1, <2>2, <2>3, <2>4, <2>5, <2>6, <2>7, <2>8 DEF Client, Ask
<1>2. actor' = actor
  BY DEF Client, Ask, Quits, Reason, Run, Unreachable, ReasonedNothing, Preview,
         StepRan, StepDenied, StepNeedsConfirm, StepFails, Discard, CautionYes,
         ConfirmYes, PlanYes, SaysNo, Receives, Deliver, ReceiveCommand,
         ReceiveReasoned, vars
<1>3. did' = did
  BY DEF Client, Ask, Quits, Reason, Run, Unreachable, ReasonedNothing, Preview,
         StepRan, StepDenied, StepNeedsConfirm, StepFails, Discard, CautionYes,
         ConfirmYes, PlanYes, SaysNo, Receives
<1>4. said' = said \/ \E v : said' = [said EXCEPT ![c] = v]
  BY DEF Client, Ask, Quits, Reason, Run, Unreachable, ReasonedNothing, Preview,
         StepRan, StepDenied, StepNeedsConfirm, StepFails, Discard, CautionYes,
         ConfirmYes, PlanYes, SaysNo, Receives, Approves
<1>5. ASSUME NEW d \in Conn, d # c PROVE Follows(d)' /\ Brief(d)'
  <2>1. /\ conn'[d] = conn[d] /\ flow'[d] = flow[d] /\ did'[d] = did[d]
        /\ said'[d] = said[d] /\ Follows(d) /\ Brief(d)
    BY <1>1, <1>3, <1>4, <1>5 DEF OnlyConn, OnlyFlow, InStep, FlowTyped
  <2> QED
    BY <1>2, <2>1, OthersFollow
<1> QED
  BY <1>1, <1>5

\* A step of the daemon.
LEMMA DaemonFollows ==
    ASSUME InStep, Daemon
    PROVE  FlowTyped' /\ \A d \in Conn : Follows(d)' /\ Brief(d)'
<1>1. CASE RunSucceeds /\ UNCHANGED <<flow, said>>
           /\ did' = [did EXCEPT ![actor.conn] =
                         Append(@, [cap |-> conn[actor.conn].req.cap,
                                    arg |-> conn[actor.conn].req.arg])]
  BY <1>1, SuccessFollows, SuccessServes DEF InStep
<1>2. CASE /\ UNCHANGED <<flow, said, did>>
           /\ \/ \E c \in Conn : Model(c) \/ BindNext(c) \/ Handle(c)
              \/ RunFails \/ FinishRun
              \/ TickPrune \/ Shutdown \/ Crash \/ Restart \/ Advance
  <2>1. \/ \A c \in Conn : Serves(c)
        \/ \A c \in Conn : conn'[c] = Idle
    BY <1>2, DaemonServes DEF InStep
  <2>2. FlowTyped'
    BY <1>2 DEF InStep, FlowTyped
  <2>3. CASE \A c \in Conn : Serves(c)
    BY <1>2, <2>2, <2>3, ServedFollows DEF InStep, Serves
  <2>4. CASE \A c \in Conn : conn'[c] = Idle
    BY <1>2, <2>2, <2>4, GoneFollows DEF InStep
  <2> QED
    BY <2>1, <2>3, <2>4
<1> QED
  BY <1>1, <1>2 DEF Daemon

\* A step of the composition is a step of the daemon or of its environment.
LEMMA ComposedNext == ClientNext => [Next]_vars
<1> SUFFICES ASSUME ClientNext PROVE [Next]_vars
  OBVIOUS
<1>1. CASE Daemon
  BY <1>1 DEF Daemon, Next
<1>2. ASSUME NEW c \in Conn, Client(c) \/ Ask(c) \/ Quits(c) PROVE [Next]_vars
  <2>1. \/ ReceiveCommand(c) \/ ReceiveReasoned(c) \/ Deliver(c)
        \/ UNCHANGED vars
    BY <1>2 DEF Client, Ask, Quits, Reason, Run, Unreachable, ReasonedNothing,
         Preview, StepRan, StepDenied, StepNeedsConfirm, StepFails, Discard,
         CautionYes, ConfirmYes, PlanYes, SaysNo, Receives
  <2> QED
    BY <2>1 DEF Next
<1> QED
  BY <1>1, <1>2 DEF ClientNext

LEMMA InStepNext == InStep /\ [ClientNext]_clientVars => InStep'
<1> SUFFICES ASSUME InStep, [ClientNext]_clientVars PROVE InStep'
  OBVIOUS
<1>1. CASE ClientNext
  <2>1. Truthful'
    BY <1>1, ComposedNext, TruthfulNext DEF InStep
  <2>2. FlowTyped' /\ \A d \in Conn : Follows(d)' /\ Brief(d)'
    BY <1>1, CommandFollows, DaemonFollows DEF ClientNext
  <2> QED
    BY <2>1, <2>2 DEF InStep
<1>2. CASE UNCHANGED clientVars
  <2>1. UNCHANGED <<conn, flow, said, did, actor>> /\ UNCHANGED vars
    BY <1>2 DEF clientVars, vars
  <2>2. Truthful'
    BY <2>1, TruthfulNext DEF InStep
  <2>3. FlowTyped' /\ \A d \in Conn : Follows(d)' /\ Brief(d)'
    BY <2>1, OthersFollow DEF InStep, FlowTyped
  <2> QED
    BY <2>2, <2>3 DEF InStep
<1> QED
  BY <1>1, <1>2

LEMMA InStepAlways == ClientSpec => []InStep
  BY InStepInit, InStepNext, PTL DEF ClientSpec

\* A sequence whose elements are the first of another is its prefix.
LEMMA PrefixOf ==
    ASSUME NEW S, NEW s \in Seq(S), NEW t \in Seq(S), Len(s) <= Len(t),
           \A i \in 1..Len(s) : s[i] = t[i]
    PROVE  IsPrefix(s, t)
<1>1. SubSeq(s, 1, Len(s)) = SubSeq(t, 1, Len(s))
  OBVIOUS
<1> QED
  BY <1>1 DEF IsPrefix

\* Whatever is lost, retried or interrupted, nothing takes effect twice and no
\* plan runs out of order: the successes of a command are the first of the
\* steps it showed, and it knows of all of them but the one it may wait for
\* (planAndExecuteViaDaemon's loop, RunViaDaemon, ctlAsk's retries).
THEOREM TakesStepsInOrder == ClientSpec => []StepsInOrder
<1>1. InStep => StepsInOrder
  <2> SUFFICES ASSUME InStep, NEW c \in Conn
               PROVE  /\ IsPrefix(did[c], [i \in DOMAIN flow[c].steps |->
                                                flow[c].steps[i].call])
                      /\ did[c] # <<>> =>
                             Len(did[c]) \in {flow[c].next - 1, flow[c].next}
    BY DEF StepsInOrder
  <2>1. Counted(c) /\ flow[c] \in Flow /\ did[c] \in Seq(AnyCall)
    BY DEF InStep, Follows, FlowTyped
  <2> DEFINE shown == [i \in DOMAIN flow[c].steps |-> flow[c].steps[i].call]
  <2>2. flow[c].steps \in Seq(ShownStep)
    BY <2>1 DEF Flow
  <2>3. \A i \in 1..Len(flow[c].steps) : flow[c].steps[i].call \in AnyCall
    <3>1. \A i \in 1..Len(flow[c].steps) : flow[c].steps[i] \in ShownStep
      BY <2>2
    <3> QED
      BY <3>1 DEF ShownStep
  <2>4. /\ shown \in Seq(AnyCall) /\ Len(shown) = Len(flow[c].steps)
        /\ \A i \in 1..Len(shown) : shown[i] = flow[c].steps[i].call
    <3>1. DOMAIN flow[c].steps = 1..Len(flow[c].steps) /\ Len(flow[c].steps) \in Nat
      BY <2>2
    <3>2. shown \in [1..Len(flow[c].steps) -> AnyCall]
      BY <2>3, <3>1
    <3>3. shown \in Seq(AnyCall) /\ Len(shown) = Len(flow[c].steps)
      BY <3>1, <3>2
    <3> QED
      BY <3>1, <3>3
  <2> HIDE DEF shown
  <2>5. IsPrefix(did[c], shown)
    <3>1. Len(did[c]) <= Len(shown) /\ Len(did[c]) \in Nat
      BY <2>1, <2>4 DEF Counted
    <3>2. \A i \in 1..Len(did[c]) : did[c][i] = shown[i]
      BY <2>1, <2>2, <2>4, <3>1 DEF Counted
    <3> QED
      BY <2>1, <2>4, <3>1, <3>2, PrefixOf
  <2> QED
    BY <2>1, <2>5 DEF Counted, shown
<1> QED
  BY <1>1, InStepAlways, PTL

\* The outcome reported is what happened: done means every step took effect; a
\* refusal, a no to the question or a preview, that nothing did.
THEOREM ReportsTheTruth == ClientSpec => []OutcomeTruthful
<1>1. InStep => OutcomeTruthful
  BY DEF InStep, Follows, Counted, OutcomeTruthful
<1> QED
  BY <1>1, InStepAlways, PTL

\* The human stays in the loop: what the daemon begins as approved was approved,
\* in this attempt, for this very call or for a plan that showed it; a step of a
\* plan that nobody approved was shown as allowed; a cautious command executes
\* nothing without a yes.
THEOREM KeepsHumanInLoop == ClientSpec => HumanInLoop
<1>1. ASSUME InStep, NEW c \in Conn, StartRun(c)
      PROVE  LET q == conn[c].req
                 call == [cap |-> q.cap, arg |-> q.arg]
                 f == flow[c]
             IN /\ q.approved => \/ SaidYes(c, "confirm", call)
                                 \/ SaidYes(c, "plan", call)
                /\ (f.kind = "do" /\ ~q.approved) =>
                       f.steps[f.next] = [call |-> call, decision |-> "allow"]
                /\ f.cautious => SaidYes(c, "caution", call)
  <2> DEFINE call == [cap |-> conn[c].req.cap, arg |-> conn[c].req.arg]
  <2>1. Takes(c) /\ conn[c].todo = <<>> /\ conn[c].req.op = "run"
    BY <1>1 DEF StartRun, Command
  <2>2. OnRun(c)
    BY <1>1, <2>1, TakesFacts DEF OnRun, Live, InStep, Truthful
  <2>3. Linked(c) /\ Consented(c) /\ flow[c] \in Flow
    BY <1>1 DEF InStep, Follows, FlowTyped
  <2>4. conn[c].req = Sent(c) /\ flow[c].next \in 1..Len(flow[c].steps)
    BY <2>2, <2>3 DEF Linked
  <2>5. flow[c].steps[flow[c].next] \in ShownStep
    <3>1. flow[c].steps \in Seq(ShownStep)
      BY <2>3 DEF Flow
    <3> QED
      BY <2>4, <3>1
  <2>6. Current(c) = call /\ conn[c].req.approved = flow[c].approved
    BY <2>4, <2>5 DEF Sent, Current, ShownStep, AnyCall
  <2>7. conn[c].req.approved => SaidYes(c, "confirm", call) \/ SaidYes(c, "plan", call)
    BY <2>3, <2>4, <2>6 DEF Consented, Current
  <2>8. (flow[c].kind = "do" /\ ~conn[c].req.approved) =>
            flow[c].steps[flow[c].next] = [call |-> call, decision |-> "allow"]
    <3>1. (flow[c].kind = "do" /\ ~conn[c].req.approved) =>
             flow[c].steps[flow[c].next].decision = "allow"
      BY <2>2, <2>3, <2>4, <2>6 DEF Consented
    <3> HIDE DEF call
    <3> QED
      BY <2>5, <2>6, <3>1 DEF Current, ShownStep
  <2>9. flow[c].cautious => SaidYes(c, "caution", call)
    BY <2>2, <2>3, <2>4, <2>6 DEF Consented, Current
  <2> QED
    BY <2>7, <2>8, <2>9
<1> DEFINE Body == \A c \in Conn :
               StartRun(c) =>
                  LET q == conn[c].req
                      call == [cap |-> q.cap, arg |-> q.arg]
                      f == flow[c]
                  IN /\ q.approved => \/ SaidYes(c, "confirm", call)
                                      \/ SaidYes(c, "plan", call)
                     /\ (f.kind = "do" /\ ~q.approved) =>
                            f.steps[f.next] = [call |-> call, decision |-> "allow"]
                     /\ f.cautious => SaidYes(c, "caution", call)
<1>2. InStep => Body
  BY <1>1
<1>3. HumanInLoop <=> [][Body]_clientVars
  BY DEF HumanInLoop
<1> HIDE DEF Body
<1> QED
  BY <1>2, <1>3, InStepAlways, PTL

=============================================================================
