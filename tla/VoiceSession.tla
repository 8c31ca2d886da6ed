---------------------------- MODULE VoiceSession ----------------------------
(***************************************************************************)
(* The voice frontend (cmd/hyprvalet/main.go): the always-on watcher       *)
(* (listenCmd, a systemd unit), the conversation windows (voiceCmd), their *)
(* turns, the spoken confirmation, the speech chain, and the barge speaker *)
(* whose goroutine captures while the assistant speaks.                    *)
(*                                                                         *)
(* A capture ends as module Listening says: an utterance, idle, cancelled  *)
(* or failed.  An utterance is a number, in the order of speaking, and the *)
(* classes of words it holds.  Several processes share one microphone.     *)
(***************************************************************************)
EXTENDS Naturals, FiniteSets

CONSTANTS
    Standalone,  \* windows opened by a keybinding
    Managed,     \* the window the watcher opens
    Backends,    \* length of the speech chain
    MaxSaid,     \* bound on utterances (model checking)
    MaxOpens     \* bound on openings by the keybinding (model checking)

ASSUME VoiceAssumption ==
    /\ Managed \notin Standalone
    /\ Backends \in Nat \ {0}
    /\ {MaxSaid, MaxOpens} \subseteq Nat

Window == Standalone \cup {Managed}

VARIABLES
    bargeIn,  \* HYPRVALET_BARGE_IN
    unit,     \* the watcher: pc, stopping, what it heard
    win,      \* the windows: the locals of voiceCmd
    talk,     \* the speech under way in each window
    barge,    \* the goroutine of bargeSpeaker.Speak
    said,     \* number of utterances
    opens,    \* number of openings by the keybinding
    owed,     \* all the words each window took for a turn and did not serve
    served    \* the last words each window served

history == <<said, opens, owed, served>>
vars == <<bargeIn, unit, win, talk, barge, history>>

\* An utterance: yes, yes and no, a farewell, anything else.
Words == {{"yes"}, {"yes", "no"}, {"bye"}, {"other"}}
Nothing == [at |-> 0, words |-> {}]
NumberOf(text) == {text.at} \ {0}
Utterance(words) == [at |-> said + 1, words |-> words]

NewWindow == [pc |-> "closed", cancelled |-> FALSE, pending |-> Nothing,
              text |-> Nothing, asked |-> 0]
NewTalk == [via |-> "plain", backend |-> 1, cut |-> FALSE, next |-> "loop"]
NewBarge == [pc |-> "none", over |-> FALSE, words |-> Nothing]

Init ==
    /\ bargeIn \in BOOLEAN
    /\ unit = [pc |-> "listen", stopping |-> FALSE, text |-> Nothing]
    /\ win = [w \in Window |-> NewWindow]
    /\ talk = [w \in Window |-> NewTalk]
    /\ barge = [w \in Window |-> NewBarge]
    /\ said = 0
    /\ opens = 0
    /\ owed = [w \in Window |-> {}]
    /\ served = [w \in Window |-> 0]

Goes(w, pc) == win' = [win EXCEPT ![w].pc = pc]

-----------------------------------------------------------------------------
(* The watcher.                                                            *)

UnitOnly == UNCHANGED <<bargeIn, talk, barge, opens, owed, served>>

UnitHears(words) ==
    /\ unit.pc = "listen" /\ said < MaxSaid
    /\ unit' = [unit EXCEPT !.pc = "transcribe", !.text = Utterance(words)]
    /\ said' = said + 1
    /\ UNCHANGED win /\ UnitOnly

\* Not a transcription, or nothing that wakes the assistant.
UnitIgnores ==
    /\ unit.pc = "transcribe"
    /\ unit' = [unit EXCEPT !.pc = "listen", !.text = Nothing]
    /\ UNCHANGED <<win, said>> /\ UnitOnly

\* The wake word, alone or with a command: the window opens with the command.
UnitWakes(first) ==
    /\ unit.pc = "transcribe" /\ ~unit.stopping
    /\ win[Managed].pc = "closed"
    /\ unit' = [unit EXCEPT !.pc = "window", !.text = Nothing]
    /\ win' = [win EXCEPT ![Managed] = [NewWindow EXCEPT !.pc = "open",
                                                         !.pending = first]]
    /\ talk' = [talk EXCEPT ![Managed] = NewTalk]
    /\ barge' = [barge EXCEPT ![Managed] = NewBarge]
    /\ owed' = [owed EXCEPT ![Managed] = NumberOf(first)]
    /\ UNCHANGED <<bargeIn, said, opens, served>>

\* openConversation blocks until its window is closed.
WindowClosed == win[Managed].pc = "closed"

UnitResumes ==
    /\ unit.pc = "window" /\ WindowClosed
    /\ unit' = [unit EXCEPT !.pc = "listen"]
    /\ UNCHANGED <<win, said>> /\ UnitOnly

\* The context is cancelled: the capture, or the window, ends.
UnitEnds ==
    /\ unit.stopping /\ unit.pc \in {"listen", "window"}
    /\ unit' = [unit EXCEPT !.pc = "off"]
    /\ UNCHANGED <<win, said>> /\ UnitOnly

-----------------------------------------------------------------------------
(* A window opens and closes.                                              *)

\* No process of the unit is left: systemctl stop returns.
Stopped == unit.pc = "off" /\ win[Managed].pc = "closed"

\* systemctl stop: a SIGTERM to the watcher and to the window it opened; it
\* returns at once when the unit is off.
OpenStandalone(w) ==
    /\ w \in Standalone /\ win[w].pc = "closed" /\ opens < MaxOpens
    /\ opens' = opens + 1
    /\ unit' = [unit EXCEPT !.stopping = ~Stopped]
    /\ win' = [win EXCEPT ![w] = [NewWindow EXCEPT
                                    !.pc = IF Stopped THEN "open" ELSE "stop"],
                          ![Managed].cancelled = @ \/ win[Managed].pc # "closed"]
    /\ talk' = [talk EXCEPT ![w] = NewTalk]
    /\ barge' = [barge EXCEPT ![w] = NewBarge]
    /\ UNCHANGED <<bargeIn, said, owed, served>>

StopReturns(w) ==
    /\ win[w].pc = "stop" /\ Stopped
    /\ unit' = [unit EXCEPT !.stopping = FALSE]
    /\ Goes(w, "open")
    /\ UNCHANGED <<bargeIn, talk, barge, history>>

\* SIGINT or SIGTERM: only the context is cancelled.
Interrupted(w) ==
    /\ win[w].pc \notin {"closed", "killed"} /\ ~win[w].cancelled
    /\ win' = [win EXCEPT ![w].cancelled = TRUE]
    /\ UNCHANGED <<bargeIn, unit, talk, barge, history>>

\* The terminal is closed (SIGHUP) or the process killed: nothing deferred
\* runs.  It matters to a standalone window only.
HungUp(w) ==
    /\ win[w].pc \notin {"closed", "killed"}
    /\ win' = [win EXCEPT ![w] = [NewWindow EXCEPT !.pc =
                                    IF w = Managed THEN "closed" ELSE "killed"]]
    /\ talk' = [talk EXCEPT ![w] = NewTalk]
    /\ barge' = [barge EXCEPT ![w] = NewBarge]
    /\ UNCHANGED <<bargeIn, unit, history>>

\* Mutant of Resumed: the deferred systemctl start is forgotten.
StaysOff(w) == unit

\* The deferred systemctl start of a standalone window.
Resumed(w) ==
    IF w = Managed \/ unit.pc # "off" THEN unit ELSE [unit EXCEPT !.pc = "listen"]

Exit(w) ==
    /\ win[w].pc = "exit"
    /\ unit' = Resumed(w)
    /\ win' = [win EXCEPT ![w] = NewWindow]
    /\ UNCHANGED <<bargeIn, talk, barge, history>>

-----------------------------------------------------------------------------
(* Speech: say, the chain, the barge speaker.                              *)

Reply == IF bargeIn THEN "barge" ELSE "plain"

\* say(speaker, ...), after which the window goes on at pc next.
Says(w, via, next) ==
    /\ talk' = [talk EXCEPT ![w] = [NewTalk EXCEPT !.via = via, !.next = next]]
    /\ barge' = [barge EXCEPT ![w] =
                    [NewBarge EXCEPT !.pc = IF via = "barge" THEN "capturing"
                                                             ELSE "none"]]

\* The context of the speech is done.  A plain speech has a context of its
\* own; when its 30 s are over it ends as if it had been spoken.
SpeechCut(w) == talk[w].via = "barge" /\ (talk[w].cut \/ win[w].cancelled)

Spoken(w) ==
    /\ win[w].pc = "speak"
    /\ Goes(w, "spoken")
    /\ UNCHANGED <<bargeIn, unit, talk, barge, history>>

\* Mutant of MayTryNext: the chain takes an interruption for a failure.
TriesAnyway(w) == talk[w].backend < Backends

MayTryNext(w) == ~SpeechCut(w) /\ talk[w].backend < Backends

\* A backend fails: the next one, unless the speech was cut.
BackendFails(w) ==
    /\ win[w].pc = "speak" /\ MayTryNext(w)
    /\ talk' = [talk EXCEPT ![w].backend = @ + 1]
    /\ UNCHANGED <<bargeIn, unit, win, barge, history>>

SpeechEnds(w) ==
    /\ talk' = [talk EXCEPT ![w] = NewTalk]
    /\ barge' = [barge EXCEPT ![w] = IF @.pc = "done" THEN NewBarge ELSE @]

\* Speak looks whether it was cut, then waits for the words or gives up the
\* capture and waits for it to end.
AfterSpeech(w) ==
    /\ win[w].pc = "spoken"
    /\ IF talk[w].via = "plain" THEN SpeechEnds(w) /\ Goes(w, talk[w].next)
       ELSE /\ Goes(w, IF SpeechCut(w) THEN "heed" ELSE "cancelBarge")
            /\ UNCHANGED <<talk, barge>>
    /\ UNCHANGED <<bargeIn, unit, history>>

CancelBarge(w) ==
    /\ win[w].pc = "cancelBarge"
    /\ Goes(w, "drain")
    /\ UNCHANGED <<bargeIn, unit, talk, barge, history>>

\* Mutant of Captured: Speak does not wait for the goroutine.
WaitsForNobody(w) == TRUE

Captured(w) == barge[w].pc = "done"

Heeds(w) ==
    /\ win[w].pc = "heed" /\ Captured(w)
    /\ win' = [win EXCEPT ![w].pc = talk[w].next,
                          ![w].pending = IF barge[w].words = Nothing THEN @
                                         ELSE barge[w].words]
    /\ SpeechEnds(w)
    /\ UNCHANGED <<bargeIn, unit, history>>

Drains(w) ==
    /\ win[w].pc = "drain" /\ Captured(w)
    /\ Goes(w, talk[w].next)
    /\ SpeechEnds(w)
    /\ UNCHANGED <<bargeIn, unit, history>>

\* The goroutine.  Its capture hears a voice and cuts the speech.
BargeHears(w, words) ==
    /\ barge[w].pc = "capturing" /\ said < MaxSaid
    /\ win[w].pc \in {"speak", "spoken", "cancelBarge"} /\ ~win[w].cancelled
    /\ barge' = [barge EXCEPT ![w] = [pc |-> "hearing", words |-> Utterance(words),
                                      over |-> win[w].pc = "speak"]]
    /\ said' = said + 1
    /\ talk' = [talk EXCEPT ![w].cut = TRUE]
    /\ UNCHANGED <<bargeIn, unit, win, opens, owed, served>>

BargeCaptured(w) ==
    /\ barge[w].pc = "hearing" /\ win[w].pc # "drain"
    /\ barge' = [barge EXCEPT ![w].pc = "transcribing"]
    /\ UNCHANGED <<bargeIn, unit, win, talk, history>>

BargeTranscribed(w) ==
    /\ barge[w].pc = "transcribing"
    /\ barge' = [barge EXCEPT ![w].pc = "done"]
    /\ owed' = [owed EXCEPT ![w] = IF barge[w].over
                                   THEN @ \cup NumberOf(barge[w].words) ELSE @]
    /\ UNCHANGED <<bargeIn, unit, win, talk, said, opens, served>>

\* The capture fails or is cancelled, or the transcription fails.
BargeFails(w) ==
    /\ barge[w].pc \in {"capturing", "hearing", "transcribing"}
    /\ barge' = [barge EXCEPT ![w] = [NewBarge EXCEPT !.pc = "done"]]
    /\ UNCHANGED <<bargeIn, unit, win, talk, history>>

-----------------------------------------------------------------------------
(* The loop of a window.                                                   *)

\* A greeting when nothing was said with the wake word.
Begins(w) ==
    /\ win[w].pc = "open"
    /\ IF win[w].pending = Nothing
       THEN Goes(w, "speak") /\ Says(w, "plain", "loop")
       ELSE Goes(w, "loop") /\ UNCHANGED <<talk, barge>>
    /\ UNCHANGED <<bargeIn, unit, history>>

\* Mutant of Cleared: pending words are served and kept.
Kept(w) == win[w].pending

Cleared(w) == Nothing

\* Pending words are served without listening anew.
ServesPending(w) ==
    /\ win[w].pc = "loop" /\ win[w].pending # Nothing
    /\ win' = [win EXCEPT ![w].pc = "turn", ![w].text = win[w].pending,
                          ![w].pending = Cleared(w)]
    /\ served' = [served EXCEPT ![w] = win[w].pending.at]
    /\ owed' = [owed EXCEPT ![w] = @ \ NumberOf(win[w].pending)]
    /\ UNCHANGED <<bargeIn, unit, talk, barge, said, opens>>

Listens(w) ==
    /\ win[w].pc = "loop" /\ win[w].pending = Nothing
    /\ Goes(w, "listen")
    /\ UNCHANGED <<bargeIn, unit, talk, barge, history>>

\* listenAndTranscribe, for a turn, for an answer of a planning conversation
\* and for a confirmation.
Listening == {"listen", "answer", "confirm"}
Transcribing(pc) == CASE pc = "listen" -> "transcribe"
                      [] pc = "answer" -> "answered"
                      [] pc = "confirm" -> "confirmed"

Hears(w, words) ==
    /\ win[w].pc \in Listening /\ said < MaxSaid /\ ~win[w].cancelled
    /\ win' = [win EXCEPT ![w].pc = Transcribing(@), ![w].text = Utterance(words)]
    /\ said' = said + 1
    /\ UNCHANGED <<bargeIn, unit, talk, barge, opens, owed, served>>

\* Idle, cancelled, failed, for a turn.
HearsNothing(w) ==
    /\ win[w].pc = "listen"
    /\ IF win[w].cancelled
       THEN Goes(w, "exit") /\ UNCHANGED <<talk, barge>>
       ELSE Goes(w, "speak") /\ Says(w, "plain", "exit")
    /\ UNCHANGED <<bargeIn, unit, history>>

\* A failed capture or transcription never ends the session.
TurnFails(w) ==
    /\ \/ win[w].pc = "transcribe"
       \/ win[w].pc = "listen" /\ ~win[w].cancelled
    /\ Goes(w, "loop")
    /\ UNCHANGED <<bargeIn, unit, talk, barge, history>>

TurnHeard(w) ==
    /\ win[w].pc = "transcribe"
    /\ Goes(w, "turn")
    /\ served' = [served EXCEPT ![w] = win[w].text.at]
    /\ UNCHANGED <<bargeIn, unit, talk, barge, said, opens, owed>>

Farewell(w) == win[w].text.words = {"bye"}

TurnEnds(w) ==
    /\ win[w].pc = "turn" /\ Farewell(w)
    /\ Goes(w, "speak") /\ Says(w, "plain", "exit")
    /\ UNCHANGED <<bargeIn, unit, history>>

\* A turn speaks: a reply and no more, what it is about to do (to be confirmed
\* or allowed already), or a question of a planning conversation.
TurnRuns(w) ==
    /\ win[w].pc = "turn" /\ ~Farewell(w)
    /\ win' = [win EXCEPT ![w].pc = "speak", ![w].text = Nothing]
    /\ \/ \E next \in {"loop", "question", "act"} : Says(w, Reply, next)
       \/ Says(w, "plain", "answer")
    /\ UNCHANGED <<bargeIn, unit, history>>

\* An answer: another question, the end, or the offer to hand the plan over.
Answered(w) ==
    /\ win[w].pc \in {"answer", "answered"}
    /\ win' = [win EXCEPT ![w].pc = "speak", ![w].text = Nothing]
    /\ \E next \in IF win[w].pc = "answered" THEN {"answer", "question", "loop"}
                                              ELSE {"loop"} :
            Says(w, "plain", next)
    /\ UNCHANGED <<bargeIn, unit, history>>

\* voiceConfirm speaks through the plain speaker, then listens.
Asks(w) ==
    /\ win[w].pc = "question"
    /\ win' = [win EXCEPT ![w].pc = "speak", ![w].text = Nothing, ![w].asked = said]
    /\ Says(w, "plain", "confirm")
    /\ UNCHANGED <<bargeIn, unit, history>>

IsAffirmative(words) == "yes" \in words /\ "no" \notin words

\* Mutant of Answer: words that came in before the question are an answer.
PendingFirst(w) == IF win[w].pending = Nothing THEN win[w].text
                                               ELSE win[w].pending

Answer(w) == win[w].text

SaysYes(w) ==
    /\ win[w].pc = "confirmed" /\ IsAffirmative(Answer(w).words)
    /\ \E next \in {"act", "question"} :
            win' = [win EXCEPT ![w].pc = next, ![w].text = Answer(w)]
    /\ UNCHANGED <<bargeIn, unit, talk, barge, history>>

\* Anything else declines: other words, a failure, silence.
Declines(w) ==
    /\ \/ win[w].pc = "confirm"
       \/ win[w].pc = "confirmed"
    /\ win' = [win EXCEPT ![w].pc = "loop", ![w].text = Nothing, ![w].asked = 0]
    /\ UNCHANGED <<bargeIn, unit, talk, barge, history>>

\* The action runs through the daemon; its outcome is spoken.
Acts(w) ==
    /\ win[w].pc = "act"
    /\ win' = [win EXCEPT ![w].pc = "speak", ![w].text = Nothing, ![w].asked = 0]
    /\ Says(w, Reply, "loop")
    /\ UNCHANGED <<bargeIn, unit, history>>

-----------------------------------------------------------------------------
Watcher ==
    \/ UnitIgnores
    \/ \E first \in {Nothing, unit.text} : UnitWakes(first)
    \/ UnitResumes
    \/ UnitEnds

Goroutine(w) == BargeCaptured(w) \/ BargeTranscribed(w) \/ BargeFails(w)

Program(w) ==
    \/ StopReturns(w) \/ Begins(w) \/ Exit(w)
    \/ Spoken(w) \/ BackendFails(w) \/ AfterSpeech(w)
    \/ CancelBarge(w) \/ Heeds(w) \/ Drains(w)
    \/ ServesPending(w) \/ Listens(w)
    \/ HearsNothing(w) \/ TurnFails(w) \/ TurnHeard(w)
    \/ TurnEnds(w) \/ TurnRuns(w)
    \/ Answered(w) \/ Asks(w) \/ SaysYes(w) \/ Declines(w) \/ Acts(w)

People ==
    \/ \E words \in Words : UnitHears(words)
    \/ \E w \in Window, words \in Words : Hears(w, words) \/ BargeHears(w, words)
    \/ \E w \in Window : OpenStandalone(w) \/ Interrupted(w) \/ HungUp(w)

Next == Watcher \/ People \/ \E w \in Window : Program(w) \/ Goroutine(w)

Spec == Init /\ [][Next]_vars

\* The processes run; a capture nobody speaks to ends by its idle time; a
\* recorder or a transcription does not fail for ever.
FairSpec ==
    /\ Spec
    /\ WF_vars(Watcher)
    /\ \A w \in Window :
        /\ WF_vars(Program(w))
        /\ WF_vars(Goroutine(w))
        /\ SF_vars(HearsNothing(w))

-----------------------------------------------------------------------------
(* Properties.                                                             *)

TypeOK ==
    /\ bargeIn \in BOOLEAN
    /\ unit.pc \in {"listen", "transcribe", "window", "off"}
    /\ \A w \in Window :
        /\ win[w].pc \in {"closed", "stop", "open", "loop", "listen", "transcribe",
              "turn", "speak", "spoken", "heed", "cancelBarge", "drain", "answer",
              "answered", "question", "confirm", "confirmed", "act", "exit", "killed"}
        /\ talk[w].backend \in 1..Backends
        /\ barge[w].pc \in {"none", "capturing", "hearing", "transcribing", "done"}
        /\ owed[w] \subseteq 0..said /\ served[w] \in 0..said
    /\ said \in 0..MaxSaid /\ opens \in 0..MaxOpens

\* The captures under way: of the watcher, of a window, of a goroutine.
Captures ==
    (IF unit.pc = "listen" THEN {<<"unit", "main">>} ELSE {})
    \cup {<<w, "main">> : w \in {v \in Window : win[v].pc \in Listening}}
    \cup {<<w, "barge">> : w \in {v \in Window :
                                    barge[v].pc \in {"capturing", "hearing"}}}

\* Exactly one process may own the microphone: whatever the order in which the
\* watcher wakes, a window is opened from the keyboard or closed, and speech is
\* talked over, there is at most one capture.  It is claimed for one window of
\* the keybinding: nothing keeps two of them apart.
OneCapture == Cardinality(Captures) <= 1

\* Words said over the assistant's voice are served in the order they were
\* spoken, none twice, and are lost only to later ones: a window listens anew
\* when what it still owes is older than what it served last.  (Two speeches of
\* one turn may both be talked over; *b.pending = txt keeps the later words.)
WordsServedOnce ==
    [][\A w \in Window :
        /\ served'[w] # served[w] => served'[w] > served[w]
        /\ win[w].pc = "loop" /\ win'[w].pc = "turn" => served'[w] > served[w]
        /\ win[w].pc = "loop" /\ win'[w].pc = "listen" =>
               \A at \in owed[w] : at < served[w]]_vars

\* main.go:1361-1362: "a barge leaves the user's words in `pending` for the next
\* turn".  None is owed when a window listens anew.
WordsReachTurn ==
    [][\A w \in Window :
        win[w].pc = "loop" /\ win'[w].pc = "listen" => owed[w] = {}]_vars

\* What was asked about runs after a yes heard in the capture that followed the
\* question, and with no "no" in it; never on words said before the question.
VoiceYes ==
    [][\A w \in Window :
        win[w].pc = "confirmed" /\ win'[w].pc \in {"act", "question"} =>
            /\ "no" \notin win'[w].text.words
            /\ "yes" \in win'[w].text.words
            /\ win'[w].text.at > win[w].asked]_vars

\* A speech that was talked over is not taken up again by another backend.
BargeSilences ==
    [][\A w \in Window :
        win[w].pc = "speak" /\ talk[w].cut => talk'[w].backend <= talk[w].backend]_vars

Killed == \E w \in Standalone : win[w].pc = "killed"

\* The watcher listens again after a window was opened, by itself or from the
\* keyboard, unless a standalone window was killed.
WatchResumes == unit.pc \in {"off", "window"} ~> unit.pc = "listen" \/ Killed

\* main.go:1352-1353: a standalone window is to "pause the watcher for our
\* lifetime", and the window being closed is an end of it (main.go:1420).
PausedForLifetime == unit.pc = "off" ~> unit.pc = "listen"

=============================================================================
