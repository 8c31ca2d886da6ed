# Verification of hyprvalet

hyprvalet turns spoken or typed requests into a fixed set of desktop actions
("capabilities").  A language model may only *choose* a capability; a permission
gate decides whether it runs, asks a human, or refuses.  These modules model that
gate, the resident daemon and the one-shot commands that use it, the files the
two share, the clients of the daemon, and the voice frontend from the microphone
to the coding agent it hands plans to.  TLC checks them on small instances; TLAPS
proves the safety properties of all of them for every value of the constants.

Paths below are relative to the repository; `daemon.go` is
`internal/daemon/daemon.go`, `main.go` is `cmd/hyprvalet/main.go`.
`PROJECT.json` maps every definition to the lines it models.

## Inventory

| Part | State | Operations | Talks to |
|---|---|---|---|
| Permission gate (`internal/core`) | arming windows, session grants, recent actions | Resolve, Evaluate, Decide, Arm, Disarm, Prune, IsDoomLoop | called by every plane |
| Policy files (`adapters/policyfile`) | `armed.json`, `session-allow.json`, `action-log.json` | load, save (truncate and write, no lock) | commands and daemon |
| Daemon actor (`daemon.go`) | the three above in memory, an unbuffered mailbox, audit | ping, list, run, evaluate, ask, plan, ticker, start, stop | connections, model, files |
| Realtime handler (`daemon.go`, `handleRealtime`) | generation, session flag, quarantine and drain instants, context (behind `realtimeMu`) | realtime request, StartRealtimeSession, RealtimeCancel | actor, other goroutines, capability goroutine |
| One-shot commands (`main.go`) | a copy of the files, the decision instant | call, recipe, do, ask, plan, arm, disarm | files, terminal, model |
| Client flows (`main.go` ctl*, `daemon/client.go`) | the pending approval, the attempt count | ctl ask, ctl plan, ctl run | daemon socket |
| Voice session (`main.go`) | turn state, planning draft, memory of the dialogue, watchers | listen, transcribe, interpret, confirm, speak, barge in, hand off | microphone, speech, daemon or gate |
| Realtime client (`adapters/realtime`) | connection state, generation, queues | Connect, AppendPCM, CreateResponse, Cancel, Close, read loop | a web socket |
| Fallback chains (`adapters/fallback`, `speech`, `stt`) | none, or the last error | try the next provider | providers |
| Microphone (`adapters/mic`) | recorder, reading goroutine, channel of frames, noise floor, detector, pre-roll | ListenOnce | a recorder process |
| Memory (`adapters/memory`) | a JSON-lines store or the Engram database | remember, recall, forget | file or external program |
| Hand-off (`main.go` runPlanning to waitForClaude, `adapters/prompt`, `terminal`, `project`) | rounds, attempts, polls, the last question answered | plan, open, wait, relay, watch, answer, report | the model, tmux, `terminal.send` behind the gate |
| Capabilities and providers | none | one external program or HTTP call each | - |

Hard behaviour, and what makes each part correct:

* *Gate*: an arming grant is honoured strictly before its end; deny wins over
  approvals; the third identical action in the window needs a human.
* *Daemon actor*: an approval arrives in a second request, after the decision
  it was given for, with ticks, expiries and other clients' runs in between; the
  actor executes capabilities itself, so every path must answer; a crash between
  running and saving leaves the log short or torn.
* *Realtime handler*: it reads four guarded variables in separate critical
  sections while barge-ins and session starts change them, and a `select` races
  a result, a cancellation and a deadline.
* *Commands and daemon together*: each holds a private copy of unlocked files,
  and writes it back over the other's.
* *Clients, realtime client*: retries, barge-in and stale answers.
* *Voice*: several processes share one microphone, and a barge-in captures from a
  goroutine while the speech it cuts unwinds; a yes must answer the question
  just asked.
* *Microphone*: a recorder may wedge at any frame; the onset of an utterance is
  only in the pre-roll when it triggers.
* *Memory*: appends and rewrites of several processes on an unlocked file, torn
  by kills and full disks.
* *Hand-off*: the screen of the coding agent moves while an answer to it is
  drafted, read aloud and approved.
* *Providers*: layers with limits of their own share one deadline.

`PROJECT.json` lists the hazards one by one with the line where each bites.

## Modules

| Module | Models | Composed with |
|---|---|---|
| `PermissionGate` | `core/policy.go`, `arming.go`, `session.go`, `doomloop.go` as operators | - |
| `PolicyFiles` | what a grant or record becomes when saved | extends `PermissionGate` |
| `DaemonActor` | `Run`, `serveConn`, `dispatch`, `handle*`, the reasoning goroutines, `New` | extends `PolicyFiles` |
| `GuardedRuns` | what the daemon promises about executions, abstractly | implemented by `DaemonActor` |
| `RealtimeSession` | `handleRealtime` and the methods behind `realtimeMu` | extends `PolicyFiles` |
| `RealtimeSession_proofs` | theorems about it | extends `RealtimeSession` |
| `SharedState` | commands and daemon over the files | extends `PolicyFiles` |
| `SharedState_proofs` | theorems about it | extends `SharedState` |
| `ClientFlows` | `ctlAsk`, `ctlPlan`, `ctlRun`, `daemon/client.go` | extends, and runs composed with, `DaemonActor` |
| `Daemon_proofs` | theorems about `DaemonActor`, that it implements `GuardedRuns`, and about `ClientFlows` | extends `ClientFlows` |
| `RealtimeClient` | `adapters/realtime/client.go`, `cancel.go`, against the sidecar | - |
| `RealtimeClient_proofs` | theorems about it | extends `RealtimeClient` |
| `Listening` | `adapters/mic/listen.go`, `vad.go`: one capture | - |
| `Listening_proofs` | a theorem about it | extends `Listening` |
| `VoiceSession` | `listenCmd`, `voiceCmd`, `bargeSpeaker`, `voiceConfirm`, `adapters/speech` | a capture ends as `Listening` shows |
| `VoiceSession_proofs` | theorems about it | extends `VoiceSession` |
| `Handoff` | `runPlanning`, `finishPlan`, `doHandoff`, `waitForClaude`, `watchClaude`, `adapters/terminal`, `project` | entered from a turn of `VoiceSession` |
| `Handoff_proofs` | theorems about it | extends `Handoff` |
| `MemoryStore` | `adapters/memory` | - |
| `Providers` | `reasonerChain`, `defaultReasoner`, `adapters/fallback`, `realtime/fallback.go`, `stt` | - |
| `Services_proofs` | theorems about both | extends `MemoryStore`, `Providers` |
| `MC*` | constants for TLC | extend the module they name |

**PermissionGate.**  The policy is `ByCapID`, `ByAccess`, `ByRisk`, `DefaultRule`
(constants), looked up in that order by `Resolve`.  Arming grants are a function
from the armed capabilities to instants, session grants a set, recent actions a
set of records (the code's slice is only ever counted and filtered; records carry
an id here so that equal ones stay apart).  A signature is opaque, since
`ActionSignature` only has to tell calls apart.

**DaemonActor.**  `conn[c]` is one connection goroutine: the request it holds,
where it waits, and the reply.  `mailbox` is the queue of senders blocked on the
unbuffered channel, served in the order they arrived; `actor` is the actor
goroutine, which is busy for as long as a capability runs (`StartRun`, then
`RunFails` or `RunSucceeds` and `FinishRun`).  `ask` and `plan` run on the
connection's goroutine: `Model` is the call of the model, `BindNext` one round
trip to the actor per plan step.  `TickPrune` is the ticker, `Crash`, `Shutdown`
and `Restart` the process.  The log file may be saved, unchanged or unreadable
after a run, as a write can fail or be torn.  `starts`, `runs` and `restored`
are history variables for the properties.

**GuardedRuns.**  One execution at a time, begun only if the policy and the grants
*on file* admit it against *everything* that ever succeeded in this process or was
remembered from before; a log that either says what an intact save of the window
says, or is what it was, or is unreadable.  It has no mailbox, no connection, no
reply, no pruned copies.  `DaemonActor` implements it under the mapping `Guarded`:
`running` is the record of the run the actor is busy with, `done` the successes,
`known` what was restored.

**RealtimeSession.**  `h` is the handler's program counter and local variables;
each action is the code between two acquisitions of `realtimeMu`.  A context is
its serial number, live while it is the current one.  Capability goroutines are
`tasks`: they may return any outcome, late, or never, and may take effect after
they were cancelled.  In the repository `StartRealtimeSession` and
`RealtimeCancel` are exported thread-safe methods that only tests call, so they
are taken at their word: any goroutine, any moment.

**SharedState.**  `file` holds the three contents, or `Empty` between the
truncation and the write of `os.WriteFile`, or `Garbled` when two writers
interleaved.  A process steps once per file operation or prompt.  `daemon` is
the daemon reduced to its copies: `New` reads grants, "always" rules and log one
after the other (`at` is the instant it prunes against), then an admitted run
and the save that follows it.
`given`, `standing`, `always`, `executed` and `overlap` are history variables.

**ClientFlows.**  `flow[c]` is the command that connection `c` serves: its kind, the
local variables of its function (attempt, steps, the step it is at, the approval)
and where it is; `said` and `did` are history variables, the yes answers and the
calls that succeeded.  A request is a command step and a daemon step at once
(`Run` is `ReceiveCommand` with the request the command sends, a reply is
`Deliver`), so a command meets the whole of `DaemonActor`: the mailbox, the
ticker, expiry, stops, crashes and restarts.  The human may answer either way or
interrupt; a lost reply is seen as a failed read.

**RealtimeClient.**  An action is the code between two acquisitions of the
mutex, or one operation on the socket or the channel.  `connector`, `loop` and
`sender` are the goroutines in `Connect`, in the read loop and in the send
methods.  One goroutine calls `Connect`, as the repository does.  The sidecar is
external: it stamps events with its generation, an earlier one or none (`Stamps`;
the loop forwards those without one, `client.go:369`), reports drift, and may go
away.  A `Close` that overlaps the dial is modelled, and shows that
`Dialled` records the connection after `closeOnce` has fired: such a connection
stays open, and `CloseStopsLoop` speaks of the client only once its connection
is gone.  Overlapping sends reach a socket library that allows one writer; the
outcome of that is the library's and is left out.

**Listening.**  `pc` is where `ListenOnce` stands; `recorder` is `pw-record`, `reader`
the goroutine and `frames` the channel between them.  A frame is its energy,
chosen when it is taken from the channel, so the channel, the pre-roll and the
utterance are counts.  The detector (`vad`) and the percentile of the
calibration are translated; energies are small numbers and the factors integers.

**VoiceSession.**  `unit` is the always-on watcher, `win` the windows (the one the watcher
opens and blocks on, `Managed`, and those of the keybinding), `talk` the speech of
each and `barge` the goroutine that captures while it speaks.  An utterance is a
serial number and its classes of words, which is enough to tell a yes from a
stale yes.  `served` and `owed` are history variables: the words a window served
last, and all those it took over its own voice and has not served, also the ones
that later words have replaced in `pending`.  People speak, interrupt and close windows at any step.

**Handoff.**  `screen` is what each tmux session shows and `active` the one tmux names;
Claude and the human act between any two steps of the assistant, as its model,
its speech and its confirmation take seconds to minutes.  `seen` is the last
capture, `lastQ` the code's variable of that name.  The code compares questions as
texts that its model writes anew at every poll, so a text here is a question (0:
one the model made up) in the words of the screen or in others (`Verbatim`,
`Rewordings`).  `Readings` lets the model take a screen for anything `ParseWatch`
lets through, a consent prompt for a design question and an old question for a
new one included.  `marks` is a history variable: the watch read a permission, or
the model `strayed` from the last question of the screen or from its words.

**MemoryStore.**  `disk` is the inodes, so that a process that opened the file before a
rename still writes to the old one; `path` and `tmp` are the two names.  A note is
a number with a topic and the note its text cites (Engram's output is searched
for `#n`).  `overlap` is set once a forget runs while another operation does.

**Providers.**  A request walks the chain; `spent` is the time of this layer, `clock`
that of the request.  A layer answers, fails, or says nothing until its limit or
the deadline.

## Runs

| Run | Instance | Shows |
|---|---|---|
| `DaemonGate` | 1 connection, 3 capabilities (allow, ask, arm), 3 requests, clock to the end of window and grant, crash and restart | `HistoryCoversWindow`, `StartsCovered`, `GrantsExact`, `RepliesTruthful`, `DoomLoopCut`, `ImplementsGuardedRuns` |
| `DaemonTraffic` | 2 connections, every operation, unknown names, plans of 2 steps | `NoCommandLost`; `CommandAnswered` without any assumption on the model; `ReasonedAnswered` if model calls end |
| `Realtime` | 2 requests, 3 contexts, 1 barge-in, two capabilities and an unknown one | `QuarantineEndsSession`, `LaunchInSession`, `LaunchCovered`, `RealtimeLoopCut`, `RepliesTruthful`, `CancelReleases`, `RealtimeAnswered` |
| `SharedRaces` | 2 processes, 2 commands of 2 steps, daemon, kills | `RunsAuthorised`, `CommandLoopCut` always; `SerialReadable`, `SerialLoopCut` until two writers first overlap |
| `SharedDisarm` | arm, start, disarm | violated: the daemon honours a disarmed grant |
| `Clients` | 1 connection, every kind of command, 3 attempts, plans of 2 steps, an expiring grant, a log with one record | `HumanInLoop`, `StepsInOrder`, `OutcomeTruthful`, `CommandEnds` |
| `RealtimeClient` | 2 dials, 1 sender, 3 messages, a channel of one event | `BargeInCuts`, `QuarantineHolds`, `OneReadLoop`, `CloseStopsLoop` |
| `Listening` | 3 energies, an ordinary or barge capture, with or without an idle time | `OnsetKept`, `ListenEnds` |
| `Voice` | the watcher, its window and one of the keybinding opened twice, 3 utterances, 2 backends | `OneCapture`, `WordsServedOnce`, `VoiceYes`, `BargeSilences`, `WatchResumes` |
| `Handoff` | the project's session and another, 2 questions verbatim or reworded, 3 polls, any reading of any screen | `RelayAnswersSeen`, `AnsweredOnce`, `HandoffEnds` |
| `Memory` | 2 processes, 3 notes, 2 forgets, either backend | `NotesSurvive`, `ForgottenStaysGone` |
| `ProvidersSilent` | the limits and deadlines of the code in units of 30 s | violated: two silent clouds spend the deadline before the local model is asked |

The two violated properties each state what a comment or the usage text of the
repository says; `PROJECT.json` quotes the lines.

**Bounds.**  The constants keep the code's order, not its size: the doom-loop
window (30 s in the code) is a few ticks, as long as a grant or longer, and the
threshold is 2 or 3; `DaemonGate` lets the whole window pass.  `Second` is the
resolution of the files, with at least one instant that is not a whole second
wherever truncation matters.  Two connections are enough for one to wait while
the other executes or reasons; two processes for a write to be overtaken; two
requests for one to be cut because of the other.  `Clients` runs one command:
other clients reach it only through the daemon's history, which starts with a
record, and through the clock; its `MaxRequests` is what three attempts can
send, so it never cuts a command short.  A channel of one event is full as soon
as a channel of 64 can be; a third message is then the one the loop holds.
The counts of frames keep the order the `ASSUME` of `Listening` names (the
trigger of an ordinary capture fits the pre-roll, that of a barge-in does not),
and all energies on both sides of every threshold occur.  A second opening by the
keybinding is enough for it to overlap the window of the watcher at any step; a
third utterance, for one to be said while two are pending.  One other session is
enough for the active one to change; two questions, for one to follow the other;
one rewording, for a question to come back in other words.
`MaxRequests`, `MaxCommands`, `MaxRuns`, `MaxGen`, `MaxContext`, `MaxSaid`,
`MaxOpens`, `MaxQuestions`, `MaxNotes`, `MaxForgets`, `MaxClock` and `MaxNow`
only stop TLC; the proofs hold without them taking any particular value.

**Fairness.**  `SchedSpec` (DaemonActor): the actor and the connection
goroutines between two sends are scheduled by the Go runtime, and an execution
is bounded by its 60 s context.  `handleRun` calls the capability on the actor
goroutine, so a capability that ignored its context would stop the daemon: the
guard of `Advance` states that none does, which holds for those of the
repository (they use `exec.CommandContext` or HTTP with the context).
`ReasonedAnswered` assumes in its own statement that model calls end (they run
under 90 s and 120 s contexts). `ActorSpec` (RealtimeSession): the actor is
scheduled; nothing is assumed of capabilities, sessions or clients.
`RealtimeAnswered` assumes in its own statement that the clock advances (its
deadlines are timers), `CancelReleases` does not: a barge-in must free the actor
without waiting for the deadline. `ClientSpec`: the daemon's goroutines and the
command's own process run, and model calls end; that the human answers is a
premise of `CommandEnds` itself.  `LoopSpec` (RealtimeClient): the read loop
alone.  `Listening`: the call, its goroutine and the kernel that kills a recorder
whose context is done; nothing is assumed of the recorder, and a capture is only
obliged to end by what `MustEnd` names.  `VoiceSession`: the processes run, a
goroutine's capture ends because its context is cancelled (`ListenEnds` of the run
`Listening` is what justifies it), and a window nobody speaks to reaches its idle
time (strong, because the human may begin to speak again and again).  `Handoff`:
the assistant goes on, as every wait of it has a timer or a counter; nothing is
assumed of Claude or the human.

Each module has a type invariant (`TypeOK`, `ChainTypeOK` in `Providers`).  It holds
in the instance of every run and is not listed among their properties, as it says
little about the code; those of the daemon, of the realtime plane, of the voice
frontend and of the memory are theorems (`TypeCorrect`), and what the others of
their modules rest on.

## Proofs

The theorems hold for every policy, every set of capabilities, connections,
processes, windows and arguments, every doom-loop window, threshold and
resolution, and any number of requests, ticks and crashes.  They assume the named
`ASSUME`s of the modules (the types of the constants, a finite initial log, a
`NoReply` that is no reply) and what their own statement names.

| Theorem | Statement | Module |
|---|---|---|
| `TypeCorrect` | `Spec => []TypeOK` | `Daemon_proofs` |
| `HistoryCovers` | `Spec => []HistoryCoversWindow` | |
| `CutsDoomLoop` | `Spec => DoomLoopCut` | |
| `CoversStarts` | `Spec => []StartsCovered` | |
| `GrantsStayExact` | `Spec => []GrantsExact` | |
| `Refines` | `Spec => ImplementsGuardedRuns` | |
| `TellsTheTruth` | `Spec => []RepliesTruthful` | |
| `LosesNoCommand` | `Spec => []NoCommandLost` | |
| `TakesStepsInOrder` | `ClientSpec => []StepsInOrder` | |
| `ReportsTheTruth` | `ClientSpec => []OutcomeTruthful` | |
| `KeepsHumanInLoop` | `ClientSpec => HumanInLoop` | |
| `TypeCorrect` | `Spec => []TypeOK` | `RealtimeSession_proofs` |
| `QuarantineClosesSession` | `Spec => []QuarantineEndsSession` | |
| `LaunchesInSession` | `Spec => LaunchInSession` | |
| `CoversLaunches` | `Spec => LaunchCovered` | |
| `TellsTheTruth` | `Spec => []RepliesTruthful` | |
| `CutsRealtimeLoop` | `Spec => RealtimeLoopCut` | |
| `FailsClosed` | `Spec => []RunsAuthorised` | `SharedState_proofs` |
| `RepetitionsCut` | `Spec => CommandLoopCut` | |
| `NoTornFile` | `Parsable => (Spec => []SerialReadable)` | |
| `LoopsCut` | `Parsable => (Spec => SerialLoopCut)` | |
| `CutsOff` | `Spec => []BargeInCuts` | `RealtimeClient_proofs` |
| `ReadsOnce` | `Spec => OneReadLoop` | |
| `QuarantinesInFull` | `Spec => QuarantineHolds` | |
| `TypeCorrect` | `Spec => []TypeOK` | `VoiceSession_proofs` |
| `YesAnswersTheQuestion` | `Spec => VoiceYes` | |
| `StaysSilent` | `Spec => BargeSilences` | |
| `OneOwnsTheMicrophone` | `OneWindow => (Spec => []OneCapture)` | |
| `ServesEachOnce` | `OneWindow => (Spec => WordsServedOnce)` | |
| `AnswersSeen` | `Spec => RelayAnswersSeen` | `Handoff_proofs` |
| `AnswersOnce` | `Spec => AnsweredOnce` | |
| `KeepsOnset` | `Spec => []OnsetKept` | `Listening_proofs` |
| `TypeCorrect` | `Spec => []TypeOK` (`MemoryStore`) | `Services_proofs` |
| `NotesKept` | `Spec => []NotesSurvive` | |
| `StaysForgotten` | `Spec => []ForgottenStaysGone` | |
| `LocalFallbackHolds` | `LimitsFit`, and limits that are numbers, imply `ChainSpec => []NeverSilent` | |

The induction for the daemon is in three layers, each an invariant by itself:

* `Typed = TypeOK /\ CommandOwners`.  The type of the connection the actor
  executes for depends on who may own a command: senders in the mailbox are
  waiting and distinct, and the connection being executed for waits for a `run`
  of a registered capability.
* `Remembered = Typed /\ HistoryCoversWindow /\ FiniteRecords`.  The ticker prunes
  with the window the breaker uses, so nothing the breaker may still count is
  dropped; finiteness makes the counts of `DoomLoopCut` comparable by subsets.
* `Authorised = Typed /\ Granted /\ StartsCovered`.  `Granted` says that the daemon's
  arming grants agree with those it was started from on every instant from now
  on.  This is what makes pruning invisible to the decision, and it is needed
  because `StartsCovered` speaks of the grants on file and the code of the pruned copy.

`DoomLoopCut` follows from `Remembered`: the records the breaker counts include
every success in the window.

`Refines` rests on all three layers and on `Numbered` (requests are numbered
within their bound, so a run's record has a number `GuardedRuns` knows).  Every
step maps to one step or to a stutter; the two that need an argument are the
start of a run (`StartCovered` gives the decision of the grants on file,
`RecentExact` the count: what the pruned history counts is what the complete one
counts) and its success (`HistoryCoversWindow` makes the saved history an intact
one).

`RepliesTruthful` is not inductive: it says nothing of a request still in service.
`Truthful` adds `OwnNumbers` (two requests in service never share a number, so no
execution is taken for another's) and `Accounted` (of a request in service
nothing is begun, or the actor is busy with it, or it has its answer).
`NoCommandLost` is `CommandOwners` (whoever owns a command waits) with its converse
`Waiting`; `OwnersCounted` turns the two into the equation of cardinalities.

`ClientFlows` composes commands with the daemon, and `ComposedNext` shows every step
of the composition to be one of the daemon or a stutter of it: `Truthful` holds of
it as it stands.  `InStep` adds what relates a command to the connection that
serves it.  `Linked`: a request in service is the one the command waits for, or was
left behind by a command that was killed.  `Counted`: the successes are the first
steps, and the command knows their number but for the one in service.
`Consented`: what was sent, or may still be sent without another question, has the
yes it needs.  The daemon and its clients meet in one lemma, `SuccessServes`: a
success belongs to the connection whose request is the command's current step.

`RealtimeSession_proofs` holds for any number of sessions, cancellations, requests
and generations, any limits, and capabilities that return at any time, or never.
Its induction has two halves:

* `Admitted = Typed /\ InSession /\ Cleared`.  `InSession` adds to
  `QuarantineEndsSession` that the session is open from the check of it to the
  start of the goroutine: other goroutines can only open one, so the flag the
  handler read under one lock is still good under a later one.  `Cleared` says the
  same of the gate's decision: history and request stand still in between.
* `Books` are the numbers.  `Unsaid`: of the request in service nothing is said or
  recorded.  `Followed`: the goroutine with its number is its own, and has returned
  if a result is known.  `Settled` adds to `RepliesTruthful` what makes it survive
  the goroutines that were abandoned: one whose event is on record has returned,
  and a refused request has none, so a late effect contradicts no answer.
  `Remembers`: the successes a client was told of are in the history as far as the
  breaker looks back.

`FailsClosed` holds for any number of processes and commands of any length.  The
argument is that grants only lose on their way: what a process read, whatever
became of the file since, is `Genuine` (no grant outlives a window that was given),
and pruning, disarming, saving (which cuts the instant to the second) and garbling
keep it so; only an arm command adds, and what it adds is a window.  `CliOK` carries
this through the memory of a command, with what its decision `Permitted`, from the
gate to the execution.

`RepetitionsCut` needs that executions are told apart (`Numbers`: each has a number
of its own, and those of a command come in the order of its steps) and that what a
command executed stands in its own memory (`Repeats`), which no other process can
reach.  `SerialLoopCut` and `SerialReadable` speak of the file instead: `Serial` says
that until two writers overlap either nobody works, every file is readable and
the log `Covers` all that the window reaches, or one process works and the file it
is writing is the only one it may have emptied.  Both assume `Parsable`: `Empty` and
`Garbled`, the marks of a torn file, are none of the contents a file may have.  The
runs make them model values, which equal nothing else; it is a hypothesis of the
theorems and no `ASSUME` because TLC can neither enumerate all logs nor decide
whether a model value is one.

`RealtimeClient_proofs` has one invariant for three theorems.  `OneLoop`: whoever is
in `Connect` finds no loop, and a client that has one is never idle again, which is
what the guard of `Connect` looks at.  `Ordered`: an event delivered is `Grounded` (a
barge-in is of a generation that began, a drift's quarantine is in force), and the
one the loop holds `MayFollow` those delivered, though generations begin while it
waits for room in the channel.  `CutsOff` speaks of events with a generation: of
the others the code keeps no order, and nothing is claimed.

`VoiceSession_proofs` has two inductions.  `Attending` holds for any number of
windows, as it speaks of one window at a time: a window that does not speak has no
goroutine (`Attends`), so nothing but its own capture can give it words; what it
holds was said, and what it heard last was said after the question it asked
(`Heard`).  `VoiceYes` and `BargeSilences` follow.  The microphone has one owner only
if there is one window of the keybinding (`OneWindow`; two of them do capture at
once, see below): `Alone` says that the watcher listens only while its window is
closed, and is off while a window of the keybinding runs.  `Serving` rests on it,
since the watcher's words must be later than those its last window served, and
adds `Ordered`: what a window holds and has not served is later than what it served,
and (`Settled`) all the words it owes are older than those it served last, or no
later than those that wait to be served or that the goroutine has just
understood.  So words are lost to later words only; that they are lost to those
is listed below.

`Handoff_proofs`: `Drafted` ties what is typed to the last capture and says that a
reading as a permission ends its watch.  Nothing is assumed of the model that reads
the screen; what the code takes from it unchecked is a condition in the properties
(`strayed`) or is not claimed at all.  `InOrder` says that while one session is
watched its questions only grow, on the screen and in the capture, and, as long as
the model has not strayed, among the answers.  `lastQ` is then the largest answered,
in the words of the screen.

`KeepsOnset` holds for any counts of frames whose order is the `ASSUME` of
`Listening` (`TriggerFrames <= PreRollFrames` is the fact it turns on) and any
energies and factors.  `OnsetKept` is not inductive: it says nothing of the wait.
The induction adds `Gathering` (while nothing is under way, the frames counted
towards the trigger are in the pre-roll or the pre-roll is full, and they are fewer
than the trigger) and `Underway` (in the loop, an utterance that has frames means
that the detector speaks).  It does not hold of a barge-in, whose trigger is longer
than the pre-roll: see below.

`LocalFallbackHolds` is conditional on `LimitsFit`, and the limits of the code do not
meet it; `ProvidersSilent` is the counterexample.  The induction is that the
clock of a live request is at most what the layers asked before may have spent,
plus what this one has.  The theorem says what the numbers have to satisfy (for
instance, cloud limits of 20 s) for the documented promise to be true.

`NotesKept` and `StaysForgotten` hold for any number of processes, notes and forgets,
on both backends, and rest on one invariant.  `Fresh` says that a note a process is
about to write is its own and nowhere yet: not in an inode, the database, a copy or
among what was forgotten; so nothing written late brings a forgotten note back.
`OnEngram` needs no more.  On the file, as long as nothing overlapped a forget
(`Undisturbed`), `Alone` says who forgets is the only one at work, `Named` that the
store is never the temporary file and that an append has the store open, `Copied`
that a forget holds the whole store but what it matched, and `Held` pays for each
lost note with a torn line: `NotesSurvive` itself is not inductive, because a line
just torn (`Due`) costs its note only with the next append.  `KeptLines` is the
lemma about the copy: sorted, and each line as often as it was read, so nothing is
missing from it; `MemoryStore` states the copy that way, by what the sort does.

Only model-checked: liveness, in every module (it needs fairness and `ENABLED`).  The
inductive invariants `InStep`, `Attending`, `Alone` and `Serving`, and those of
`MemoryStore`, were checked by TLC on the instances of the runs before they were
proved.

## Known divergences

Behaviour met while modelling that a comment, a test or a reader's expectation does
not match.  Those with a property are reproduced by putting it into the cfg of the
module named (as a `PROPERTY` or `INVARIANT`, alone).

* *Failing calls are not counted by the daemon* (`IdenticalCallsCut`, `DaemonActor`).
  `handleRun` records only after success (`daemon.go:559-564`), the CLI gate before
  running (`main.go:563`), although `core/doomloop.go:10-11` has both "cut a
  degenerate loop at the same point".
* *An overtaken realtime call can still be launched* (`StaleNeverRuns`,
  `RealtimeSession`): a barge-in between the stale check (`daemon.go:388`) and the
  read of the context (431) renews the context.
* *The daemon overwrites the commands' log* (`OneActionWorld`, `SharedState`):
  it reads the log once and saves its own memory (`daemon.go:567`).
* *A stale `SESSION_END` is discarded* (`SessionEndKept`, `RealtimeClient`):
  `client.go:369-373` before 376.
* *An event without a generation survives a barge-in* (`NothingUnstamped`,
  `RealtimeClient`): `client.go:369` discards only events that carry one.
* *Two speeches of a turn talked over* (`WordsReachTurn`, `VoiceSession`): the words
  over the outcome replace those over the preview (`main.go:1554`), although a barge
  "leaves the user's words in `pending` for the next turn" (1361-1362).
* *A barge-in's louder threshold lasts for the calibration only*
  (`BargeDemandsLouder`, `Listening`): `listen.go:195` follows the floor with the
  ordinary factor, the comment at 146-148 asks for more.  Its trigger of 12 frames
  is longer than the pre-roll of 10, so its first two frames are dropped.
* *Consent may be given* (`ConsentIsHumans`, `Handoff`), although the comment at
  `main.go:1819-1822` calls the line absolute.  `RelayAnswersSeen` is what does hold.
  - An answer, or the plan, is typed into whatever the active session shows by then,
    and the active session may by then be another project's.
  - `waitForClaude` holds the plan back from a trust prompt only: on a captured
    permission prompt, which another session may show, plan and Enter are typed
    (`main.go:1953-1966`).
  - A consent prompt that the model takes for a design question is answered: only
    the instructions in the prompt are against it (`watch.go:38-41`), `ParseWatch`
    lets any design turn that has an answer through (66-71).
* *A question may be answered twice* (`AnsweredOnce` names the condition, `Handoff`): the
  model writes the question anew at each poll and the code compares it word for
  word with the one answered last (`main.go:1845`), so one given back in other words,
  or an older one, is answered again.
* *A terminal that is closed leaves the watcher off* (`PausedForLifetime`,
  `VoiceSession`): SIGHUP ends `voiceCmd` without its deferred restart
  (`main.go:1352-1353`, 1420).  Two windows of the keybinding both capture: only
  the watcher is stopped (1350), hence the wording of `OneCapture`.
* *A plan's repeated steps are not cut*: the approval of a plan is sent with
  every step and `handleRun` skips the breaker for approved requests; `planCmd`
  decides its steps against the policy alone (`main.go:964`).  The comments at
  `main.go:2666` and 520-521 read otherwise.
* *Memory*: an operation that overlaps a forget may be lost or undone (no lock,
  one temporary name); a torn line also costs the note appended to it
  (`memory.go:115`); ids cited in a note's text are deleted with it
  (`engram.go:226`).  `NotesSurvive` and `ForgottenStaysGone` say what remains.
* *`Connect` overlapping `Close`* records a connection after `closeOnce` has fired.
* The comment of `askCmd` says "re-ask once" (`main.go:800-803`), the code makes up to
  `maxInterpretAttempts`.

## Not modelled

* The desktop capabilities, each one external program and any outcome to its
  caller; the bodies of the providers' requests, the retry of whisper on the
  CPU, and the synthesis of speech, which `Providers` and `VoiceSession` take as
  an answer, a failure or a wait.
* Parsing and formatting (configuration, recipe files, arguments, JSON framing,
  prompts, reports, wave display, resampling).  Line limits of the scanners of
  `memory.go` and `eventlog.go` are part of that.
* The quarantine of the realtime chain in `main.go` (`realtimeQuarantined`): no code
  sets it.  The quarantines of the daemon and of the client are modelled.
* A write error of the files in `SharedState` (it is modelled in `DaemonActor`);
  a second daemon on the same socket.
* Other users of the microphone, the tmux server and the Engram process as programs.

## Plan

1. `PermissionGate`, `PolicyFiles`, `DaemonActor` and the proofs: done.
2. `RealtimeSession`, `SharedState`: done.
3. `ClientFlows` over `DaemonActor`: done.
4. `RealtimeClient`: done.
5. `Listening`, `VoiceSession`, `Handoff`: done.
6. `MemoryStore`, `Providers`: done.
7. Proofs of `GuardedRuns` (refinement), of `OnsetKept` and of `NeverSilent` under
   `LimitsFit`: done.
8. Proofs of the safety properties of `RealtimeSession`, `RealtimeClient`, `Handoff`,
   `SharedState`, `ClientFlows`, `VoiceSession`, and of those of `DaemonActor` that
   were left, and of `MemoryStore`: done.
9. An abstract memory (a set of notes) that `MemoryStore` implements while no
   forget overlaps another operation.
