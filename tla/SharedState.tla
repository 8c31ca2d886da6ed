----------------------------- MODULE SharedState -----------------------------
(***************************************************************************)
(* The two planes of the program over the files they share: one-shot CLI   *)
(* commands (cmd/hyprvalet: a gated call or recipe, "ask", "do", arm and   *)
(* disarm) and the resident daemon, over armed.json, session-allow.json    *)
(* and action-log.json of internal/adapters/policyfile.                    *)
(*                                                                         *)
(* Nothing locks the files.  A command reads each once, at its start, and  *)
(* writes what it holds in memory back; os.WriteFile truncates and then    *)
(* writes, and both steps are visible to the other processes.  The daemon  *)
(* reads the files when it starts and never again.  Each step of a process *)
(* between two file operations or prompts is one action.                   *)
(*                                                                         *)
(* A call carries no arguments here: a signature is a capability.          *)
(***************************************************************************)
EXTENDS PolicyFiles, Sequences

CONSTANTS
    Proc,      \* one-shot CLI processes, one command each at a time
    Kinds,     \* the commands given: subset of {"call", "ask", "do", "arm", "disarm"}
    Empty,     \* a file truncated and not written yet
    Garbled,   \* a file two writers wrote over each other
    MaxSteps,  \* the longest recipe or plan; the attempts of "ask"
    MaxCommands,  \* bound on commands (model checking)
    MaxRuns,   \* bound on executions (model checking)
    MaxNow     \* bound on the clock (model checking)

ASSUME SharedAssumption ==
    /\ Kinds \subseteq {"call", "ask", "do", "arm", "disarm"}
    /\ {MaxSteps, MaxCommands, MaxRuns, MaxNow} \subseteq Nat

VARIABLES
    now,       \* the clock
    file,      \* "arm", "allow" and "log": the contents of the three files
    cli,       \* the command each process runs
    daemon,    \* the daemon's memory
    given,     \* the arming windows ever given
    standing,  \* those not revoked by a later disarm
    always,    \* capabilities some human answered "always" for
    executed,  \* the capability executions so far
    overlap,   \* two writers were alive at once, or one was killed
    commands   \* number of commands given

vars == <<now, file, cli, daemon, given, standing, always, executed, overlap,
          commands>>

\* What the properties record and no line of the code reads.
ghosts == <<given, standing, always, executed, overlap>>

-----------------------------------------------------------------------------
(* Files.                                                                  *)

Unreadable == {Empty, Garbled}

NoGrants == [c \in {} |-> 0]

\* os.WriteFile opens with O_TRUNC ...
Truncated(f) == [file EXCEPT ![f] = Empty]

\* ... and writes from the start: over whatever a second writer put there.
Written(f, content) ==
    IF file[f] = Empty
    THEN {[file EXCEPT ![f] = content]}
    ELSE {[file EXCEPT ![f] = x] : x \in {content, Garbled}}

-----------------------------------------------------------------------------

Off == [pc |-> "off", id |-> 0, kind |-> "none", steps |-> <<>>, arm |-> NoGrants,
        session |-> {}, history |-> {}, at |-> 0, yes |-> FALSE]

Down == [phase |-> "down", arm |-> NoGrants, session |-> {}, history |-> {}, at |-> 0]

Init ==
    /\ now = 0
    /\ file = [arm |-> NoGrants, allow |-> {}, log |-> {}]
    /\ cli = [p \in Proc |-> Off]
    /\ daemon = Down
    /\ given = {}
    /\ standing = {}
    /\ always = {}
    /\ executed = {}
    /\ overlap = FALSE
    /\ commands = 0

Go(p, pc) == cli' = [cli EXCEPT ![p].pc = pc]

\* The process ends, or is killed between two of its steps.
Exits(p) == cli' = [cli EXCEPT ![p] = Off]

\* The capability the command is about to call.
Current(p) == Head(cli[p].steps)

\* The code's records of the log have no id: here it tells equal calls apart
\* and names the execution a record stands for.
NewRecord(c, t, id) == [sig |-> c, at |-> t, id |-> id]

CallId(p) == <<cli[p].id, Len(cli[p].steps)>>

DaemonCallId == <<0, Cardinality(executed)>>

-----------------------------------------------------------------------------
(* loadDecisionCtx, and the load of armCap and disarmCap.  A file that does *)
(* not parse ends the command: it fails closed.                            *)

Begin(p) ==
    /\ cli[p].pc = "off"
    /\ commands < MaxCommands
    /\ \E k \in Kinds, n \in 1..MaxSteps : \E s \in [1..n -> Cap] :
          /\ k \in {"arm", "disarm"} => n = 1
          /\ cli' = [cli EXCEPT ![p] = [Off EXCEPT
                 !.pc = "loadArm", !.id = commands + 1, !.kind = k, !.steps = s, !.at = now]]
    /\ overlap' = \/ overlap
                  \/ daemon.phase # "down"
                  \/ \E q \in Proc \ {p} : cli[q].pc # "off"
    /\ commands' = commands + 1
    /\ UNCHANGED <<now, file, daemon, given, standing, always, executed>>

LoadArm(p) ==
    /\ cli[p].pc = "loadArm"
    /\ IF file.arm \in Unreadable
       THEN Exits(p)
       ELSE cli' = [cli EXCEPT
                ![p].arm = PruneArm(file.arm, cli[p].at),
                ![p].pc = IF cli[p].kind \in {"arm", "disarm"}
                          THEN "truncateArm" ELSE "loadAllow"]
    /\ UNCHANGED <<now, file, daemon, ghosts, commands>>

LoadAllow(p) ==
    /\ cli[p].pc = "loadAllow"
    /\ IF file.allow \in Unreadable
       THEN Exits(p)
       ELSE cli' = [cli EXCEPT ![p].session = file.allow, ![p].pc = "loadLog"]
    /\ UNCHANGED <<now, file, daemon, ghosts, commands>>

LoadLog(p) ==
    /\ cli[p].pc = "loadLog"
    /\ IF file.log \in Unreadable
       THEN Exits(p)
       ELSE cli' = [cli EXCEPT
                ![p].history = PruneActions(file.log, cli[p].at),
                ![p].pc = IF cli[p].kind = "do" THEN "preview" ELSE "gate"]
    /\ UNCHANGED <<now, file, daemon, ghosts, commands>>

-----------------------------------------------------------------------------
(* armCap and disarmCap.                                                   *)

\* The grants the command saves.
Changed(p) ==
    IF cli[p].kind = "arm"
    THEN Arm(cli[p].arm, Current(p), cli[p].at, ArmFor(Current(p)))
    ELSE Disarm(cli[p].arm, Current(p))

TruncateArm(p) ==
    /\ cli[p].pc = "truncateArm"
    /\ file' = Truncated("arm")
    /\ Go(p, "writeArm")
    /\ UNCHANGED <<now, daemon, ghosts, commands>>

\* The grants are on file and the command says so.
WriteArm(p) ==
    /\ cli[p].pc = "writeArm"
    /\ file' \in Written("arm", SavedArm(Changed(p), cli[p].at))
    /\ LET c == Current(p)
           window == [cap |-> c, until |-> cli[p].at + ArmFor(c)]
       IN IF cli[p].kind = "arm"
          THEN /\ given' = given \cup {window}
               /\ standing' = standing \cup {window}
          ELSE /\ standing' = {w \in standing : w.cap # c}
               /\ UNCHANGED given
    /\ Exits(p)
    /\ UNCHANGED <<now, daemon, always, executed, overlap, commands>>

-----------------------------------------------------------------------------
(* gate, for a hand-typed call and for each step of a recipe.              *)

Verdict(p) == Decide(cli[p].arm, cli[p].session, Current(p), cli[p].at)

Loops(p) == IsDoomLoop(cli[p].history, Current(p), cli[p].at)

GateDenies(p) ==
    /\ cli[p].pc = "gate"
    /\ Verdict(p) = "deny"
    /\ Exits(p)
    /\ UNCHANGED <<now, file, daemon, ghosts, commands>>

GateAllows(p) ==
    /\ cli[p].pc = "gate"
    /\ Verdict(p) = "allow"
    /\ Go(p, "loop")
    /\ UNCHANGED <<now, file, daemon, ghosts, commands>>

\* Mutant of Declines: no answer is a yes.
DeclineProceeds(p) ==
    /\ cli[p].pc = "gate"
    /\ Verdict(p) = "ask"
    /\ Go(p, "loop")
    /\ UNCHANGED <<now, file, daemon, ghosts, commands>>

\* promptDecision: no answer is a no.
Declines(p) ==
    /\ cli[p].pc = "gate"
    /\ Verdict(p) = "ask"
    /\ Exits(p)
    /\ UNCHANGED <<now, file, daemon, ghosts, commands>>

AnswersOnce(p) ==
    /\ cli[p].pc = "gate"
    /\ Verdict(p) = "ask"
    /\ cli' = [cli EXCEPT ![p].pc = "loop", ![p].yes = TRUE]
    /\ UNCHANGED <<now, file, daemon, ghosts, commands>>

AnswersAlways(p) ==
    /\ cli[p].pc = "gate"
    /\ Verdict(p) = "ask"
    /\ cli' = [cli EXCEPT ![p].pc = "writeAllow", ![p].yes = TRUE,
                          ![p].session = @ \cup {Current(p)}]
    /\ file' = Truncated("allow")
    /\ always' = always \cup {Current(p)}
    /\ UNCHANGED <<now, daemon, given, standing, executed, overlap, commands>>

WriteAllow(p) ==
    /\ cli[p].pc = "writeAllow"
    /\ file' \in Written("allow", cli[p].session)
    /\ Go(p, "loop")
    /\ UNCHANGED <<now, daemon, ghosts, commands>>

\* The doom-loop question, and a no to it.
LoopDeclined(p) ==
    /\ cli[p].pc = "loop"
    /\ Loops(p)
    /\ Exits(p)
    /\ UNCHANGED <<now, file, daemon, ghosts, commands>>

\* Mutant of Recorded: the call is not appended.
RecordsNothing(p) == cli[p].history

\* What recordAction holds and saves: the call appended.
Recorded(p) == cli[p].history \cup {NewRecord(Current(p), cli[p].at, CallId(p))}

\* Not a loop, or a yes to the question: recordAction, whose save is begun.
PassesLoop(p) ==
    /\ cli[p].pc = "loop"
    /\ cli' = [cli EXCEPT ![p].pc = "writeLog", ![p].yes = @ \/ Loops(p),
                          ![p].history = Recorded(p)]
    /\ file' = Truncated("log")
    /\ UNCHANGED <<now, daemon, ghosts, commands>>

\* Mutant of WriteLog: gives up after the truncation.
WritesNoLog(p) ==
    /\ cli[p].pc = "writeLog"
    /\ Go(p, "exec")
    /\ UNCHANGED <<now, file, daemon, ghosts, commands>>

WriteLog(p) ==
    /\ cli[p].pc = "writeLog"
    /\ file' \in Written("log", Saved(cli[p].history))
    /\ Go(p, "exec")
    /\ UNCHANGED <<now, daemon, ghosts, commands>>

\* execCap begins; what it was decided on is kept for the properties.
Exec(p) ==
    /\ cli[p].pc = "exec"
    /\ Cardinality(executed) < MaxRuns
    /\ executed' = executed \cup
           {[kind |-> cli[p].kind, sig |-> Current(p), at |-> cli[p].at,
             id |-> CallId(p), yes |-> cli[p].yes]}
    /\ Go(p, "ran")
    /\ UNCHANGED <<now, file, daemon, given, standing, always, overlap, commands>>

\* Mutant of Reloaded: a corrected attempt does not read the log again.
StartsBlank(p) == [cli[p] EXCEPT !.pc = "gate", !.steps = Tail(@), !.at = now,
                                 !.yes = FALSE, !.history = {}]

\* The next attempt of "ask": a new intent that walks the full gate again.
Reloaded(p) ==
    [cli[p] EXCEPT !.pc = "loadArm", !.steps = Tail(@), !.at = now,
                   !.yes = FALSE, !.history = {}]

\* "ask": its capability rejects the model's arguments, which is corrected, or
\* it ends by success, by failure, or at its last attempt.
NextAttempt(p) ==
    /\ cli[p].pc = "ran" /\ cli[p].kind = "ask"
    /\ \/ Len(cli[p].steps) > 1 /\ cli' = [cli EXCEPT ![p] = Reloaded(p)]
       \/ Exits(p)
    /\ UNCHANGED <<now, file, daemon, ghosts, commands>>

\* It succeeded and another step follows; it failed, or was the last.
NextStep(p) ==
    /\ cli[p].pc = "ran" /\ cli[p].kind # "ask"
    /\ IF Len(cli[p].steps) > 1
       THEN \/ cli' = [cli EXCEPT
                   ![p].steps = Tail(@), ![p].yes = (cli[p].kind = "do"),
                   ![p].pc = IF cli[p].kind = "do" THEN "recheck" ELSE "gate"]
            \/ Exits(p)
       ELSE Exits(p)
    /\ UNCHANGED <<now, file, daemon, ghosts, commands>>

-----------------------------------------------------------------------------
(* planCmd with execute: one preview, one yes, a check before each step.   *)

\* A denied step refuses the plan, and so does the human.
PreviewRefused(p) ==
    /\ cli[p].pc = "preview"
    /\ Exits(p)
    /\ UNCHANGED <<now, file, daemon, ghosts, commands>>

PlanApproved(p) ==
    /\ cli[p].pc = "preview"
    /\ \A i \in DOMAIN cli[p].steps :
          Decide(cli[p].arm, cli[p].session, cli[p].steps[i], cli[p].at) # "deny"
    /\ cli' = [cli EXCEPT ![p].pc = "recheck", ![p].yes = TRUE]
    /\ UNCHANGED <<now, file, daemon, ghosts, commands>>

\* Decided again at the instant of the step, on the grants read at the start.
Recheck(p) ==
    /\ cli[p].pc = "recheck"
    /\ IF Decide(cli[p].arm, cli[p].session, Current(p), now) = "deny"
       THEN Exits(p)
       ELSE cli' = [cli EXCEPT ![p].pc = "exec", ![p].at = now]
    /\ UNCHANGED <<now, file, daemon, ghosts, commands>>

\* The process is killed.
Killed(p) ==
    /\ cli[p].pc # "off"
    /\ Exits(p)
    /\ overlap' = TRUE
    /\ UNCHANGED <<now, file, daemon, given, standing, always, executed, commands>>

-----------------------------------------------------------------------------
(* The daemon (module DaemonActor has its inside).                         *)

\* New ignores what it cannot read.
Readable(f, default) == IF file[f] \in Unreadable THEN default ELSE file[f]

\* New takes the instant and reads the grants ...
DaemonStarts ==
    /\ daemon.phase = "down"
    /\ daemon' = [Down EXCEPT !.phase = "loadAllow", !.at = now,
                              !.arm = PruneArm(Readable("arm", NoGrants), now)]
    /\ overlap' = (overlap \/ \E q \in Proc : cli[q].pc # "off")
    /\ UNCHANGED <<now, file, cli, given, standing, always, executed, commands>>

\* ... what is always allowed ...
DaemonLoadsAllow ==
    /\ daemon.phase = "loadAllow"
    /\ daemon' = [daemon EXCEPT !.phase = "loadLog", !.session = Readable("allow", {})]
    /\ UNCHANGED <<now, file, cli, ghosts, commands>>

\* ... and the log.
DaemonLoadsLog ==
    /\ daemon.phase = "loadLog"
    /\ daemon' = [daemon EXCEPT !.phase = "up", !.at = 0,
                                !.history = PruneActions(Readable("log", {}), daemon.at)]
    /\ UNCHANGED <<now, file, cli, ghosts, commands>>

DaemonLoads == DaemonStarts \/ DaemonLoadsAllow \/ DaemonLoadsLog

\* handleRun of an admitted call that succeeds, up to the save of the log.
DaemonRuns ==
    /\ daemon.phase = "up"
    /\ Cardinality(executed) < MaxRuns
    /\ \E c \in Cap, yes \in BOOLEAN :
          LET verdict == Decide(daemon.arm, daemon.session, c, now) IN
          /\ verdict # "deny"
          /\ yes \/ (verdict = "allow" /\ ~IsDoomLoop(daemon.history, c, now))
          /\ executed' = executed \cup
                 {[kind |-> "daemon", sig |-> c, at |-> now,
                   id |-> DaemonCallId, yes |-> yes]}
          /\ daemon' = [daemon EXCEPT
                 !.phase = "saving",
                 !.history = @ \cup {NewRecord(c, now, DaemonCallId)}]
    /\ file' = Truncated("log")
    /\ UNCHANGED <<now, cli, given, standing, always, overlap, commands>>

DaemonSaves ==
    /\ daemon.phase = "saving"
    /\ file' \in Written("log", Saved(daemon.history))
    /\ daemon' = [daemon EXCEPT !.phase = "up"]
    /\ UNCHANGED <<now, cli, ghosts, commands>>

DaemonTicks ==
    /\ daemon.phase = "up"
    /\ daemon' = [daemon EXCEPT !.arm = PruneArm(@, now),
                                !.history = PruneActions(@, now)]
    /\ UNCHANGED <<now, file, cli, ghosts, commands>>

DaemonStops ==
    /\ daemon.phase # "down"
    /\ daemon' = Down
    /\ overlap' = (overlap \/ daemon.phase = "saving")
    /\ UNCHANGED <<now, file, cli, given, standing, always, executed, commands>>

Advance ==
    /\ now < MaxNow
    /\ now' = now + 1
    /\ UNCHANGED <<file, cli, daemon, ghosts, commands>>

-----------------------------------------------------------------------------

Load(p) == LoadArm(p) \/ LoadAllow(p) \/ LoadLog(p)

Gate(p) ==
    \/ GateDenies(p) \/ GateAllows(p)
    \/ Declines(p) \/ AnswersOnce(p) \/ AnswersAlways(p) \/ WriteAllow(p)
    \/ LoopDeclined(p) \/ PassesLoop(p) \/ WriteLog(p)

DoPlan(p) == PreviewRefused(p) \/ PlanApproved(p) \/ Recheck(p)

Daemon == DaemonLoads \/ DaemonRuns \/ DaemonSaves \/ DaemonTicks \/ DaemonStops

Next ==
    \/ \E p \in Proc :
          \/ Begin(p)
          \/ Load(p)
          \/ TruncateArm(p)
          \/ WriteArm(p)
          \/ Gate(p)
          \/ DoPlan(p)
          \/ Exec(p)
          \/ NextStep(p)
          \/ NextAttempt(p)
          \/ Killed(p)
    \/ Daemon
    \/ Advance

Spec == Init /\ [][Next]_vars

-----------------------------------------------------------------------------
(* Properties.                                                             *)

\* A record of the log; its id is the command and what is left of its steps.
Record == [sig : Cap, at : Nat, id : Nat \X Nat]

\* Every variable has the type the code declares for it.
TypeOK ==
    /\ now \in Nat
    /\ file.arm \in Unreadable \/ IsArmState(file.arm)
    /\ file.allow \in Unreadable \/ file.allow \subseteq Cap
    /\ file.log \in Unreadable \/ file.log \subseteq Record
    /\ \A p \in Proc :
          /\ IsArmState(cli[p].arm)
          /\ cli[p].session \subseteq Cap
          /\ cli[p].history \subseteq Record
          /\ cli[p].steps \in Seq(Cap)
    /\ IsArmState(daemon.arm)
    /\ daemon.session \subseteq Cap
    /\ daemon.history \subseteq Record
    /\ standing \subseteq given
    /\ always \subseteq Cap
    /\ overlap \in BOOLEAN

\* Fails closed: whatever the processes lose, tear or write over each other,
\* an arming-gated capability is decided before the end of a window some arm
\* command gave it, never on a grant a race made up or prolonged, and one the
\* policy asks about runs only after a human's yes or "always".
RunsAuthorised ==
    \A e \in executed :
        /\ Resolve(e.sig).requiresArming =>
              \E w \in given : w.cap = e.sig /\ e.at < w.until
        /\ Resolve(e.sig).decision = "ask" => e.yes \/ e.sig \in always
        /\ Resolve(e.sig).decision # "deny"

Counted(e) ==
    {x \in executed : x.kind # "do" /\ x.sig = e.sig
                        /\ FileTime(x.at) > e.at - Window}

\* policyfile/actionlog.go: the log "survives across CLI invocations", and a
\* loop spread over many runs is still caught.  True while no two writers are
\* alive at once and none is killed: an execution nobody approved is at most
\* the second of its signature in the window, across commands and planes.
SerialLoopCut ==
    [][\A e \in executed' \ executed :
          (~overlap /\ Threshold >= 2 /\ e.kind # "do" /\ ~e.yes) =>
              1 + Cardinality(Counted(e)) < Threshold]_vars

\* Whatever other writers do to the log, the repetitions inside one command
\* (the steps of a recipe) are cut.
CommandLoopCut ==
    [][\A e \in executed' \ executed :
          (Threshold >= 2 /\ e.kind = "call" /\ ~e.yes) =>
              1 + Cardinality({x \in Counted(e) : x.id[1] = e.id[1]})
                  < Threshold]_vars

\* With one writer at a time no file stays unreadable: a writer between its
\* truncation and its write is the only reader's excuse.
SerialReadable ==
    ~overlap =>
        /\ file.arm \in Unreadable => \E p \in Proc : cli[p].pc = "writeArm"
        /\ file.allow \in Unreadable => \E p \in Proc : cli[p].pc = "writeAllow"
        /\ file.log \in Unreadable =>
              \/ daemon.phase = "saving"
              \/ \E p \in Proc : cli[p].pc = "writeLog"

\* daemon.go: "the two planes share one recent-action world": what either
\* plane executed inside the window is in the log whenever it can be read.
OneActionWorld ==
    file.log \notin Unreadable =>
        \A e \in executed :
            (e.kind # "do" /\ FileTime(e.at) > now - Window) =>
                \E r \in file.log : r.id = e.id

\* arming.go: "Disarm revokes id immediately": no arming-gated execution is
\* begun once its grant was disarmed and not given again.
DisarmIsImmediate ==
    [][\A e \in executed' \ executed :
          Resolve(e.sig).requiresArming => \E w \in standing : w.cap = e.sig]_vars

=============================================================================
