------------------------------- MODULE Handoff -------------------------------
(***************************************************************************)
(* Planning a project and handing it to Claude Code (runPlanning to        *)
(* waitForClaude in cmd/hyprvalet/main.go): the planning conversation, the *)
(* hand-over of the plan, the watch that relays answers to Claude's design *)
(* questions, and the report, with the gated capability terminal.send.     *)
(*                                                                         *)
(* Claude runs in tmux sessions, one per project; whatever reads or types  *)
(* takes the session that was active last.  Claude and the human, who has  *)
(* the same windows on the desktop, act between any two steps, while a     *)
(* model thinks or an answer is being approved.                            *)
(***************************************************************************)
EXTENDS Naturals, FiniteSets

CONSTANTS
    Own,           \* the session of the project handed over
    Others,        \* sessions of other projects
    Rounds,        \* maxPlanningRounds: 8
    Attempts,      \* attempts of waitForClaude: 25
    Grace,         \* attempts Claude is given to render: 3
    Polls,         \* watchPolls: 45
    MaxQuestions,  \* bound on what Claude asks (model checking)
    Verbatim,      \* a question in the words of the screen
    Rewordings     \* and in other words

Session == {Own} \cup Others
Wordings == {Verbatim} \cup Rewordings
None == "none"

ASSUME HandoffAssumption ==
    /\ Own \notin Others
    /\ None \notin Session \cup Wordings
    /\ Verbatim \notin Rewordings
    /\ {Rounds, Attempts, Grace, Polls, MaxQuestions} \subseteq Nat

VARIABLES
    screen,     \* what each session shows, and its last question
    active,     \* the session active last
    asked,      \* number of questions Claude asked
    pc,         \* where the assistant stands
    count,      \* rounds, attempts or polls
    lastQ,      \* the text of the question answered last
    seen,       \* the last capture: session, screen and question
    relayed,    \* the questions answered in this watch
    watched,    \* the sessions captured in this watch
    marks,      \* a reading of this watch was a permission, strayed
    cancelled   \* the context of the conversation is done

world == <<screen, active, asked>>
vars == <<world, pc, count, lastQ, seen, relayed, watched, marks, cancelled>>

Blank == [at |-> "none", q |-> 0]
Unseen == [session |-> None, at |-> "none", q |-> 0]

\* The text of a question, as the model gives it back: which one, in what words.
Text == [of : Nat, in : Wordings]
NoText == [of |-> 0, in |-> None]

\* A conversation plans a project, or takes up the watch of an earlier plan.
Init ==
    /\ pc \in {"plan", "watch"}
    /\ screen \in [Session -> {Blank, [at |-> "working", q |-> 0]}]
    /\ pc = "plan" => screen[Own] = Blank
    /\ active \in IF \A s \in Session : screen[s] = Blank THEN {None}
                  ELSE {s \in Session : screen[s] # Blank}
    /\ asked = 0
    /\ count = 0
    /\ lastQ = NoText
    /\ seen = Unseen
    /\ relayed = {}
    /\ watched = {}
    /\ marks = {}
    /\ cancelled = FALSE

-----------------------------------------------------------------------------
(* Claude and the human in the window (external).                          *)

Open == {s \in Session : screen[s].at \notin {"none", "opening"}}

Consent == {"trust", "permission"}

\* s shows at; its output makes it the active session, or is too recent to.
Shows(s, at, q) ==
    /\ screen' = [screen EXCEPT ![s] = [at |-> at, q |-> q]]
    /\ active' \in {s, IF active = None THEN s ELSE active}
    /\ UNCHANGED <<pc, count, lastQ, seen, relayed, watched, marks, cancelled>>

ClaudeStarts(s) ==
    /\ screen[s].at = "starting" /\ UNCHANGED asked
    /\ Shows(s, "trust", 0) \/ Shows(s, "ready", 0)

ClaudeAsks(s) ==
    /\ screen[s].at = "working" /\ asked < MaxQuestions
    /\ asked' = asked + 1
    /\ \E at \in {"design", "permission"} : Shows(s, at, asked')

ClaudeFinishes(s) ==
    /\ screen[s].at = "working" /\ UNCHANGED asked
    /\ Shows(s, "ready", screen[s].q)

\* The human approves, answers or gives Claude work.
HumanAnswers(s) ==
    /\ screen[s].at \in {"trust", "permission", "design", "ready"} /\ UNCHANGED asked
    /\ Shows(s, IF screen[s].at = "trust" THEN "ready" ELSE "working", screen[s].q)

HumanCloses(s) ==
    /\ s \in Open
    /\ screen' = [screen EXCEPT ![s] = Blank]
    /\ active' \in IF active # s THEN {active}
                   ELSE IF Open = {s} THEN {None} ELSE Open \ {s}
    /\ UNCHANGED <<asked, pc, count, lastQ, seen, relayed, watched, marks, cancelled>>

\* Ctrl+C, or the end of the session.
Cancels ==
    /\ ~cancelled /\ pc # "ended"
    /\ cancelled' = TRUE
    /\ UNCHANGED <<world, pc, count, lastQ, seen, relayed, watched, marks>>

-----------------------------------------------------------------------------
(* Planning.                                                               *)

Goes(next) == pc' = next
Keeps == UNCHANGED <<world, lastQ, seen, relayed, watched, marks, cancelled>>

\* The reasoner asks, has the plan, or fails; a plan is remembered.
Thinks ==
    /\ pc = "plan" /\ count < Rounds
    /\ \E next \in {"ask", "offer", "ended"} : Goes(next)
    /\ UNCHANGED count /\ Keeps

PlanningOver ==
    /\ pc = "plan" /\ count = Rounds
    /\ Goes("ended")
    /\ UNCHANGED count /\ Keeps

Answers ==
    /\ pc = "ask"
    /\ \/ Goes("plan") /\ count' = count + 1
       \/ Goes("ended") /\ UNCHANGED count
    /\ Keeps

\* The human takes, or leaves, the offer to hand the plan over.
Offered ==
    /\ pc = "offer"
    /\ \E next \in {"new", "ended"} : Goes(next)
    /\ UNCHANGED count /\ Keeps

-----------------------------------------------------------------------------
(* The hand-over.                                                          *)

\* project.new opens a terminal and does not wait for it; it refuses a folder
\* that exists, and may be declined.
NewProject ==
    /\ pc = "new"
    /\ \/ /\ screen[Own].at = "none"
          /\ Goes("wait")
          /\ screen' = [screen EXCEPT ![Own].at = "opening"]
       \/ Goes("ended") /\ UNCHANGED screen
    /\ count' = 0
    /\ UNCHANGED <<active, asked, lastQ, seen, relayed, watched, marks, cancelled>>

\* tmux has the session: the new one is the active one.
Opens ==
    /\ screen[Own].at = "opening" /\ UNCHANGED asked
    /\ Shows(Own, "starting", 0)

\* Capture: what the active session shows, nothing when there is none.
Captured == IF active = None THEN Unseen
            ELSE [session |-> active, at |-> screen[active].at, q |-> screen[active].q]

\* No trust prompt on the screen; a session that starts may show some text, and
\* the session captured may be another one, at a permission prompt.
Clear == seen'.at \notin {"none", "trust"}

WaitPolls ==
    /\ pc = "wait" /\ ~cancelled /\ count < Attempts
    /\ count' = count + 1
    /\ seen' = Captured
    /\ \/ Clear /\ count >= Grace /\ Goes("relay")
       \/ (~Clear \/ count < Grace \/ seen'.at = "starting") /\ UNCHANGED pc
    /\ UNCHANGED <<world, lastQ, relayed, watched, marks, cancelled>>

WaitOver ==
    /\ pc = "wait"
    /\ cancelled \/ count = Attempts
    /\ Goes("ended")
    /\ UNCHANGED count /\ Keeps

-----------------------------------------------------------------------------
(* terminal.send through the daemon: approved by the human, typed and      *)
(* entered into the session that is active by then.                        *)

\* What Enter does to the screen: at a consent prompt it accepts.
Entered(at) == CASE at \in {"design", "ready", "permission"} -> "working"
                 [] at = "trust" -> "ready"
                 [] at \in {"starting", "working"} -> at

Sends(answered, next) ==
    /\ active # None
    /\ screen' = [screen EXCEPT ![active].at = Entered(@)]
    /\ Goes(next)
    /\ relayed' = relayed \cup answered
    /\ UNCHANGED <<active, asked, count, lastQ, seen, watched, marks, cancelled>>

\* Declined, denied, a daemon out of reach, no session, a tmux that fails.
SendFails(next) == Goes(next) /\ UNCHANGED count /\ Keeps

RelaysPlan == pc = "relay" /\ (Sends({}, "stay") \/ SendFails("ended"))

\* The human has it stay and help, or not.
Stays ==
    /\ pc = "stay"
    /\ \E next \in {"watch", "ended"} : Goes(next)
    /\ count' = 0 /\ Keeps

-----------------------------------------------------------------------------
(* The watch.                                                              *)

\* Mutant of MayPoll: the watch has no end of its own.
PollsOn == TRUE

MayPoll == count < Polls

WatchCaptures ==
    /\ pc = "watch" /\ ~cancelled /\ MayPoll
    /\ seen' = Captured
    /\ watched' = watched \cup {seen'.session}
    /\ \/ Captured.at # "none" /\ Goes("read")
       \/ Captured.at \in {"none", "starting"} /\ Goes("ended")
    /\ count' = IF count < Polls THEN count + 1 ELSE count
    /\ UNCHANGED <<world, lastQ, relayed, marks, cancelled>>

WatchOver ==
    /\ pc = "watch"
    /\ cancelled \/ ~MayPoll
    /\ Goes("ended")
    /\ UNCHANGED count /\ Keeps

\* What ParseWatch makes of the model's reading.  The prompt asks that nothing but
\* a design question be called one; the program takes any state with any text: the
\* last question of the screen, an older one or none that was asked (0), in the
\* model's words of this poll.
Readings ==
    [state : {"working", "done"}, text : {NoText}]
    \cup [state : {"design", "permission"},
          text : [of : 0..seen.q, in : Wordings] \cup {NoText}]

\* Mutant of Relays: a permission is answered like a design question.
RelaysAny(turn) == turn.state \in {"design", "permission"} /\ turn.text # lastQ

\* Mutant of Relays: the question answered last is not looked at.
RelaysAgain(turn) == turn.state = "design"

Relays(turn) == turn.state = "design" /\ turn.text # lastQ

\* What is remembered of a reading (for the properties): it strays when its text
\* is not the last question of the screen in the words of the screen.
Marks(turn) ==
    {mark \in {"permission", "strayed"} :
        \/ mark = "permission" /\ turn.state = "permission"
        \/ /\ mark = "strayed" /\ Relays(turn)
           /\ turn.text # [of |-> seen.q, in |-> Verbatim]}

\* The model answers, or fails and the poll is skipped.
WatchReads ==
    /\ pc = "read"
    /\ \E turn \in Readings :
        /\ \/ Relays(turn) /\ Goes("answer") /\ lastQ' = turn.text
           \/ /\ ~Relays(turn)
              /\ Goes(CASE turn.state = "permission" -> "ended"
                        [] turn.state = "done" -> "report"
                        [] turn.state \in {"working", "design"} -> "watch")
              /\ UNCHANGED lastQ
        /\ marks' = marks \cup Marks(turn)
    /\ UNCHANGED <<world, count, seen, relayed, watched, cancelled>>

RelaysAnswer == pc = "answer" /\ (Sends({lastQ.of}, "watch") \/ SendFails("ended"))

\* The screen is read again and summed up; the report is remembered.
Reports ==
    /\ pc = "report"
    /\ Goes("ended")
    /\ UNCHANGED count /\ Keeps

-----------------------------------------------------------------------------
Window(s) == ClaudeStarts(s) \/ ClaudeAsks(s) \/ ClaudeFinishes(s)
                \/ HumanAnswers(s) \/ HumanCloses(s)

Planning == Thinks \/ PlanningOver \/ Answers \/ Offered
HandingOver == NewProject \/ WaitPolls \/ WaitOver \/ RelaysPlan \/ Stays
Watching == WatchCaptures \/ WatchOver \/ WatchReads \/ RelaysAnswer \/ Reports

Assistant == Planning \/ HandingOver \/ Watching

Next == Assistant \/ Opens \/ Cancels \/ \E s \in Session : Window(s)

Spec == Init /\ [][Next]_vars

\* The assistant goes on: every wait of it is bounded (the timers, the model,
\* the daemon), and a human who says nothing has said no.
FairSpec == Spec /\ WF_vars(Assistant)

-----------------------------------------------------------------------------
(* Properties.                                                             *)

\* The state is well formed.
TypeOK ==
    /\ screen \in [Session -> [at : {"none", "opening", "starting", "trust", "ready",
                                     "working", "design", "permission"}, q : Nat]]
    /\ active \in Session \cup {None}
    /\ asked \in 0..MaxQuestions
    /\ pc \in {"plan", "ask", "offer", "new", "wait", "relay", "stay", "watch",
               "read", "answer", "report", "ended"}
    /\ lastQ \in Text \cup {NoText} /\ lastQ.of <= MaxQuestions
    /\ seen.session \in Session \cup {None}
    /\ relayed \subseteq 0..MaxQuestions
    /\ marks \subseteq {"permission", "strayed"}
    /\ watched \subseteq Session \cup {None}
    /\ cancelled \in BOOLEAN

\* What is on the screen is what the assistant captured last.
Unmoved == active = seen.session /\ screen[active] = [at |-> seen.at, q |-> seen.q]

Relaying == pc \in {"relay", "answer"} /\ pc' \in {"stay", "watch"}

\* A capture that was read as a permission is answered by nothing that follows
\* in its watch; and on a screen that has not moved since it was captured, the
\* plan does not land on a trust prompt, nor an answer on another question than
\* the one that was read off it.  Nothing is said of a permission prompt of
\* another session that waitForClaude captured, nor of a prompt the model took
\* for a design question: the program holds back neither.
RelayAnswersSeen ==
    [][/\ pc = "answer" /\ pc' = "watch" => "permission" \notin marks
       /\ Relaying /\ Unmoved =>
             /\ pc = "relay" => seen.at # "trust"
             /\ pc = "answer" /\ "strayed" \notin marks => lastQ.of = seen.q]_vars

\* However long a question stays on the screen, before or after its answer, and
\* however often its poll is read, it gets one answer in a watch that followed
\* one session and in which the model gave back the last question of the screen, in
\* its words.  lastQ is the last text only, and it is compared word for word: an
\* older question, or one given back in other words, is answered again.
AnsweredOnce ==
    [][pc = "answer" /\ pc' = "watch" /\ watched = {active} /\ "strayed" \notin marks
            => lastQ.of \notin relayed]_vars

\* A conversation that plans, waits for Claude or watches it ends.
HandoffEnds == <>(pc = "ended")

\* main.go:1819-1822: "The safety line is absolute: a PERMISSION request ... the
\* assistant never answers it.  It converses on your behalf; it never consents
\* on your behalf."  Not so when the screen has moved since it was captured, or
\* when the model took the prompt for a design question.
ConsentIsHumans ==
    [][pc = "answer" /\ pc' = "watch" => screen[active].at \notin Consent]_vars

=============================================================================
