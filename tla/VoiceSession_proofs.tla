------------------------- MODULE VoiceSession_proofs -------------------------
(***************************************************************************)
(* Proofs about VoiceSession.  What a window says and hears is its own;    *)
(* who may capture, and the order of what is served, rest on one window    *)
(* being opened from the keyboard at a time (OneWindow).                   *)
(***************************************************************************)
EXTENDS VoiceSession, FiniteSetTheorems, TLAPS

-----------------------------------------------------------------------------
(* The types of the variables.                                             *)

Spoke == [at : Nat, words : SUBSET {"yes", "no", "bye", "other"}]

Speaking == {"speak", "spoken", "heed", "cancelBarge", "drain"}

WindowPc == Speaking \cup
    {"closed", "stop", "open", "loop", "listen", "transcribe", "turn", "answer",
     "answered", "question", "confirm", "confirmed", "act", "exit", "killed"}

AfterSpeaking == {"loop", "question", "act", "answer", "exit", "confirm"}

WindowState == [pc : WindowPc, cancelled : BOOLEAN, pending : Spoke, text : Spoke,
                asked : Nat]

TalkState == [via : {"plain", "barge"}, backend : 1..Backends, cut : BOOLEAN,
              next : AfterSpeaking]

BargeState == [pc : {"none", "capturing", "hearing", "transcribing", "done"},
               over : BOOLEAN, words : Spoke]

Typed ==
    /\ bargeIn \in BOOLEAN
    /\ unit \in [pc : {"listen", "transcribe", "window", "off"},
                 stopping : BOOLEAN, text : Spoke]
    /\ win \in [Window -> WindowState]
    /\ talk \in [Window -> TalkState]
    /\ barge \in [Window -> BargeState]
    /\ owed \in [Window -> SUBSET Nat]
    /\ served \in [Window -> Nat]
    /\ said \in 0..MaxSaid
    /\ opens \in 0..MaxOpens

\* The speech of a window and the goroutine that captures over it: who speaks
\* plainly captures nothing, and words said over the voice have cut it.
Attends(w) ==
    /\ win[w].pc \notin Speaking => talk[w] = NewTalk /\ barge[w] = NewBarge
    /\ talk[w].via = "plain" => barge[w].pc = "none" /\ ~talk[w].cut
    /\ win[w].pc \in {"heed", "cancelBarge", "drain"} => talk[w].via = "barge"
    /\ barge[w].over => win[w].pc \in {"speak", "spoken", "heed"} /\ talk[w].cut
    /\ barge[w].pc \in {"none", "capturing"} =>
           barge[w].words = Nothing /\ ~barge[w].over
    /\ barge[w].pc \in {"hearing", "transcribing"} => barge[w].words # Nothing

\* What a window holds was said, and what it heard last was said after the
\* question it asked.
Heard(w) ==
    /\ win[w].pending.at <= said /\ win[w].text.at <= said
    /\ barge[w].words.at <= said
    /\ (\A at \in owed[w] : at <= said) /\ served[w] <= said
    /\ win[w].asked <= said
    /\ win[w].pc = "confirmed" => win[w].asked < win[w].text.at

Attending == Typed /\ unit.text.at <= said /\ \A w \in Window : Attends(w) /\ Heard(w)

-----------------------------------------------------------------------------
(* One window moves.                                                       *)

\* A window does not move; it may have been cancelled.
Stays(v) ==
    /\ win'[v].pc = win[v].pc /\ win'[v].pending = win[v].pending
    /\ win'[v].text = win[v].text /\ win'[v].asked = win[v].asked
    /\ talk'[v] = talk[v] /\ barge'[v] = barge[v]
    /\ owed'[v] = owed[v] /\ served'[v] = served[v]

OnlyWin(w) ==
    /\ \A v \in Window \ {w} : Stays(v)
    /\ win' \in [Window -> WindowState]
    /\ talk' \in [Window -> TalkState]
    /\ barge' \in [Window -> BargeState]
    /\ owed' \in [Window -> SUBSET Nat]
    /\ served' \in [Window -> Nat]

LEMMA NewStates ==
    /\ Nothing \in Spoke /\ Nothing.at = 0
    /\ NewWindow \in WindowState /\ NewTalk \in TalkState /\ NewBarge \in BargeState
<1>1. 1 \in 1..Backends
  BY VoiceAssumption
<1> QED
  BY <1>1 DEF Nothing, Spoke, NewWindow, WindowState, WindowPc, NewTalk, TalkState,
              AfterSpeaking, NewBarge, BargeState

LEMMA NumberOfType ==
    ASSUME NEW text \in Spoke
    PROVE  /\ NumberOf(text) \subseteq {text.at} /\ NumberOf(text) \subseteq Nat
           /\ NumberOf(Nothing) = {}
BY DEF NumberOf, Spoke, Nothing

LEMMA UtteranceType ==
    ASSUME Typed, said < MaxSaid, NEW words \in Words
    PROVE  /\ Utterance(words) \in Spoke /\ Utterance(words) # Nothing
           /\ Utterance(words).at = said + 1
           /\ said + 1 \in 0..MaxSaid /\ said \in Nat
<1>1. said \in Nat /\ said + 1 \in 0..MaxSaid /\ said + 1 # 0 /\ said + 1 \in Nat
  BY VoiceAssumption DEF Typed
<1> QED
  BY <1>1 DEF Utterance, Words, Spoke, Nothing

LEMMA AttendingInit == Init => Attending
<1> SUFFICES ASSUME Init PROVE Attending
  OBVIOUS
<1>1. Typed
  BY NewStates, VoiceAssumption DEF Init, Typed
<1>2. \A w \in Window : /\ win[w] = NewWindow /\ talk[w] = NewTalk
                        /\ barge[w] = NewBarge /\ owed[w] = {} /\ served[w] = 0
  BY DEF Init
<1>3. /\ NewWindow.pc = "closed" /\ NewWindow.asked = 0
      /\ NewWindow.pending = Nothing /\ NewWindow.text = Nothing
      /\ NewBarge.pc = "none" /\ NewBarge.words = Nothing /\ ~NewBarge.over
      /\ NewTalk.via = "plain" /\ ~NewTalk.cut
  BY DEF NewWindow, NewBarge, NewTalk
<1>4. \A w \in Window : Attends(w) /\ Heard(w)
  BY <1>2, <1>3, NewStates DEF Init, Attends, Heard, Speaking
<1> QED
  BY <1>1, <1>4, NewStates DEF Attending, Init

\* What Goes does to a window.
LEMMA GoesEffect ==
    ASSUME Typed, NEW w \in Window, NEW pc \in WindowPc, Goes(w, pc)
    PROVE  /\ win' \in [Window -> WindowState]
           /\ \A v \in Window \ {w} : win'[v] = win[v]
           /\ win'[w].pc = pc /\ win'[w].pending = win[w].pending
           /\ win'[w].text = win[w].text /\ win'[w].asked = win[w].asked
<1>1. win' = [win EXCEPT ![w] = [win[w] EXCEPT !.pc = pc]]
  BY DEF Goes, Typed, WindowState
<1>2. [win[w] EXCEPT !.pc = pc] \in WindowState
  BY DEF Typed, WindowState
<1> QED
  BY <1>1, <1>2 DEF Typed, WindowState

\* What say does to a window that goes on to speak.
LEMMA SaysEffect ==
    ASSUME Typed, NEW w \in Window, NEW via \in {"plain", "barge"},
           NEW next \in AfterSpeaking, Says(w, via, next)
    PROVE  /\ talk' \in [Window -> TalkState] /\ barge' \in [Window -> BargeState]
           /\ \A v \in Window \ {w} : talk'[v] = talk[v] /\ barge'[v] = barge[v]
           /\ talk'[w].via = via /\ talk'[w].next = next /\ ~talk'[w].cut
           /\ talk'[w].backend = 1
           /\ barge'[w].pc = (IF via = "barge" THEN "capturing" ELSE "none")
           /\ barge'[w].words = Nothing /\ ~barge'[w].over
<1>1. [NewTalk EXCEPT !.via = via, !.next = next] \in TalkState
  BY NewStates DEF TalkState
<1>2. [NewBarge EXCEPT !.pc = IF via = "barge" THEN "capturing" ELSE "none"]
         \in BargeState
  BY NewStates DEF BargeState
<1> QED
  BY <1>1, <1>2 DEF Says, Typed, NewTalk, NewBarge

\* A window says something: it is cut by nobody yet.
LEMMA StartsToSpeak ==
    ASSUME Attending, NEW w \in Window, NEW via \in {"plain", "barge"},
           NEW next \in AfterSpeaking, Says(w, via, next),
           win' \in [Window -> WindowState],
           \A v \in Window \ {w} : win'[v] = win[v],
           win'[w].pc = "speak", win'[w].pending.at <= said,
           win'[w].text.at <= said, win'[w].asked <= said,
           UNCHANGED <<owed, served, said>>
    PROVE  OnlyWin(w) /\ Attends(w)' /\ Heard(w)'
<1>1. Typed /\ (\A at \in owed[w] : at <= said) /\ served[w] <= said
  BY DEF Attending, Heard
<1>2. /\ talk' \in [Window -> TalkState] /\ barge' \in [Window -> BargeState]
      /\ \A v \in Window \ {w} : talk'[v] = talk[v] /\ barge'[v] = barge[v]
      /\ talk'[w].via = via /\ talk'[w].next = next /\ ~talk'[w].cut
      /\ talk'[w].backend = 1
      /\ barge'[w].pc = (IF via = "barge" THEN "capturing" ELSE "none")
      /\ barge'[w].words = Nothing /\ ~barge'[w].over
  BY <1>1, SaysEffect
<1>3. OnlyWin(w)
  BY <1>1, <1>2 DEF OnlyWin, Stays, Typed
<1>4. Attends(w)'
  BY <1>2 DEF Attends, Speaking
<1>5. said \in Nat
  BY <1>1, VoiceAssumption DEF Typed
<1>6. Heard(w)'
  BY <1>1, <1>2, <1>5, NewStates DEF Heard
<1> QED
  BY <1>3, <1>4, <1>6

\* A window that does not speak moves, and still does not.
LEMMA StaysQuiet ==
    ASSUME Attending, NEW w \in Window, win[w].pc \notin Speaking,
           UNCHANGED <<talk, barge>>,
           win' \in [Window -> WindowState],
           \A v \in Window \ {w} : win'[v] = win[v],
           owed' \in [Window -> SUBSET Nat], served' \in [Window -> Nat],
           \A v \in Window \ {w} : owed'[v] = owed[v] /\ served'[v] = served[v],
           win'[w].pc \notin Speaking, said' >= said, said' \in Nat,
           win'[w].pending.at <= said', win'[w].text.at <= said',
           \A at \in owed'[w] : at <= said',
           served'[w] <= said', win'[w].asked <= said',
           win'[w].pc = "confirmed" => win'[w].asked < win'[w].text.at
    PROVE  OnlyWin(w) /\ Attends(w)' /\ Heard(w)'
<1>1. OnlyWin(w)
  BY DEF OnlyWin, Stays, Attending, Typed
<1>2. talk'[w] = NewTalk /\ barge'[w] = NewBarge
  BY DEF Attending, Attends
<1>3. Attends(w)'
  BY <1>2 DEF Attends, NewTalk, NewBarge, Speaking
<1>4. barge'[w].words.at = 0
  BY <1>2, NewStates DEF NewBarge
<1>5. Heard(w)'
  BY <1>4 DEF Heard
<1> QED
  BY <1>1, <1>3, <1>5

\* A window is opened, or closed from outside.
LEMMA Resets ==
    ASSUME Attending, NEW w \in Window,
           talk' = [talk EXCEPT ![w] = NewTalk],
           barge' = [barge EXCEPT ![w] = NewBarge],
           win' \in [Window -> WindowState],
           \A v \in Window \ {w} :
               win'[v] \in {win[v], [win[v] EXCEPT !.cancelled = TRUE]},
           win'[w].pc \notin Speaking \cup {"confirmed"},
           owed' \in [Window -> SUBSET Nat], \A v \in Window \ {w} : owed'[v] = owed[v],
           UNCHANGED <<served, said>>,
           win'[w].pending.at <= said, win'[w].text.at <= said,
           (\A at \in owed'[w] : at <= said), win'[w].asked <= said
    PROVE  OnlyWin(w) /\ Attends(w)' /\ Heard(w)'
<1>1. Typed /\ served[w] <= said
  BY DEF Attending, Heard
<1>2. talk'[w] = NewTalk /\ barge'[w] = NewBarge
  BY <1>1 DEF Typed
<1>3. OnlyWin(w)
  <2>1. ASSUME NEW v \in Window \ {w} PROVE Stays(v)
    BY <1>1 DEF Stays, Typed, WindowState
  <2> QED
    BY <1>1, <2>1, NewStates DEF OnlyWin, Typed
<1>4. Attends(w)'
  BY <1>2 DEF Attends, NewTalk, NewBarge, Speaking
<1>5. barge'[w].words.at = 0 /\ said \in Nat
  BY <1>1, <1>2, NewStates, VoiceAssumption DEF NewBarge, Typed
<1>6. Heard(w)'
  BY <1>1, <1>5 DEF Heard
<1> QED
  BY <1>3, <1>4, <1>6

-----------------------------------------------------------------------------
(* The actions of a window.                                                *)

\* The window goes on, and says nothing.
LEMMA GoesQuietly ==
    ASSUME Attending, NEW w \in Window,
           \/ StopReturns(w) \/ Listens(w) \/ TurnFails(w) \/ TurnHeard(w)
           \/ HearsNothing(w) /\ win[w].cancelled
           \/ Begins(w) /\ win[w].pending # Nothing
    PROVE  OnlyWin(w) /\ Attends(w)' /\ Heard(w)'
<1>1. PICK pc \in {"open", "listen", "loop", "turn", "exit"} : Goes(w, pc)
  BY DEF StopReturns, Listens, TurnFails, TurnHeard, HearsNothing, Begins
<1>2. /\ Typed /\ Heard(w) /\ said \in Nat
      /\ pc \in WindowPc \ (Speaking \cup {"confirmed"})
  BY VoiceAssumption DEF Attending, Typed, WindowPc, Speaking
<1>3. /\ win' \in [Window -> WindowState]
      /\ \A v \in Window \ {w} : win'[v] = win[v]
      /\ win'[w].pc = pc /\ win'[w].pending = win[w].pending
      /\ win'[w].text = win[w].text /\ win'[w].asked = win[w].asked
  BY <1>1, <1>2, GoesEffect
<1>4. win[w].pc \notin Speaking /\ UNCHANGED <<talk, barge, said>>
  BY DEF StopReturns, Listens, TurnFails, TurnHeard, HearsNothing, Begins, Speaking,
         history
<1>5. /\ owed' \in [Window -> SUBSET Nat] /\ served' \in [Window -> Nat]
      /\ \A v \in Window \ {w} : owed'[v] = owed[v] /\ served'[v] = served[v]
      /\ (\A at \in owed'[w] : at <= said) /\ served'[w] <= said
  <2>1. win[w].text.at \in Nat
    BY <1>2 DEF Typed, WindowState, Spoke
  <2>2. CASE TurnHeard(w)
    BY <1>2, <2>1, <2>2 DEF TurnHeard, Typed, Heard
  <2>3. CASE UNCHANGED <<owed, served>>
    BY <1>2, <2>3 DEF Typed, Heard
  <2> QED
    BY <2>2, <2>3 DEF StopReturns, Listens, TurnFails, HearsNothing, Begins, history
<1> QED
  BY <1>2, <1>3, <1>4, <1>5, StaysQuiet DEF Heard

\* The words that were waiting are served.
LEMMA ServesQuietly ==
    ASSUME Attending, NEW w \in Window, ServesPending(w)
    PROVE  /\ OnlyWin(w) /\ Attends(w)' /\ Heard(w)'
           /\ win'[w].pc = "turn" /\ win'[w].pending = Nothing
           /\ served'[w] = win[w].pending.at /\ owed'[w] \subseteq owed[w]
<1>1. /\ Typed /\ Heard(w) /\ said \in Nat
  BY VoiceAssumption DEF Attending, Typed
<1> DEFINE g == [win[w] EXCEPT !.pc = "turn", !.text = win[w].pending,
                               !.pending = Nothing]
<1>2. win' = [win EXCEPT ![w] = g]
  BY <1>1 DEF ServesPending, Cleared, Typed, WindowState
<1>3. /\ g \in WindowState /\ g.pc = "turn" /\ g.text = win[w].pending
      /\ g.pending = Nothing /\ g.asked = win[w].asked
  BY <1>1, NewStates DEF Typed, WindowState, WindowPc
<1> HIDE DEF g
<1>4. /\ win' \in [Window -> WindowState] /\ win'[w] = g
      /\ \A v \in Window \ {w} : win'[v] = win[v]
  BY <1>1, <1>2, <1>3 DEF Typed
<1>5. win[w].pending.at \in Nat
  BY <1>1 DEF Typed, WindowState, Spoke
<1>6. /\ served' \in [Window -> Nat] /\ served'[w] = win[w].pending.at
      /\ owed' \in [Window -> SUBSET Nat] /\ owed'[w] \subseteq owed[w]
      /\ \A v \in Window \ {w} : served'[v] = served[v] /\ owed'[v] = owed[v]
      /\ UNCHANGED <<talk, barge, said>> /\ win[w].pc \notin Speaking
  BY <1>1, <1>5 DEF ServesPending, Typed, Speaking
<1>7. \A at \in owed'[w] : at <= said
  BY <1>1, <1>6 DEF Heard
<1>8. OnlyWin(w) /\ Attends(w)' /\ Heard(w)'
  BY <1>1, <1>3, <1>4, <1>6, <1>7, NewStates, StaysQuiet DEF Heard, Typed, Speaking
<1> QED
  BY <1>3, <1>4, <1>6, <1>8

\* The window hears an utterance: the latest.
LEMMA HearsQuietly ==
    ASSUME Attending, NEW w \in Window, NEW words \in Words, Hears(w, words)
    PROVE  /\ OnlyWin(w) /\ Attends(w)' /\ Heard(w)'
           /\ win'[w].text.at = said + 1 /\ win'[w].pending = win[w].pending
           /\ win'[w].pc \in {"transcribe", "answered", "confirmed"}
           /\ win'[w].pc = "transcribe" <=> win[w].pc = "listen"
<1>1. /\ Typed /\ Heard(w)
  BY DEF Attending
<1>2. /\ Utterance(words) \in Spoke /\ Utterance(words).at = said + 1
      /\ said \in Nat
  BY <1>1, UtteranceType DEF Hears
<1> DEFINE g == [win[w] EXCEPT !.pc = Transcribing(win[w].pc),
                               !.text = Utterance(words)]
<1>3. win' = [win EXCEPT ![w] = g]
  BY <1>1 DEF Hears, Typed, WindowState
<1>4. /\ Transcribing(win[w].pc) \in {"transcribe", "answered", "confirmed"}
      /\ Transcribing(win[w].pc) = "transcribe" <=> win[w].pc = "listen"
  BY DEF Hears, Listening, Transcribing
<1>5. /\ g \in WindowState /\ g.pc = Transcribing(win[w].pc)
      /\ g.text = Utterance(words)
      /\ g.pending = win[w].pending /\ g.asked = win[w].asked
  BY <1>1, <1>2, <1>4 DEF Typed, WindowState, WindowPc
<1> HIDE DEF g
<1>6. /\ win' \in [Window -> WindowState] /\ win'[w] = g
      /\ \A v \in Window \ {w} : win'[v] = win[v]
  BY <1>1, <1>3, <1>5 DEF Typed
<1>7. /\ UNCHANGED <<talk, barge, owed, served>> /\ said' = said + 1
      /\ win[w].pc \notin Speaking
  BY DEF Hears, Speaking, Listening
<1>8. /\ win'[w].pending.at \in Nat /\ win'[w].asked \in Nat
      /\ owed[w] \subseteq Nat /\ served[w] \in Nat
  BY <1>1, <1>6 DEF Typed, WindowState, Spoke
<1>9. /\ win'[w].pending.at <= said' /\ win'[w].text.at <= said'
      /\ (\A at \in owed'[w] : at <= said')
      /\ served'[w] <= said' /\ win'[w].asked <= said'
      /\ win'[w].asked < win'[w].text.at /\ said' \in Nat /\ said' >= said
  BY <1>1, <1>2, <1>5, <1>6, <1>7, <1>8 DEF Heard
<1>10. OnlyWin(w) /\ Attends(w)' /\ Heard(w)'
  BY <1>1, <1>4, <1>5, <1>6, <1>7, <1>9, StaysQuiet DEF Typed, Speaking
<1> QED
  BY <1>2, <1>4, <1>5, <1>6, <1>10

\* The human answered: yes, or anything else.
LEMMA AnswersQuietly ==
    ASSUME Attending, NEW w \in Window, SaysYes(w) \/ Declines(w)
    PROVE  OnlyWin(w) /\ Attends(w)' /\ Heard(w)' /\ win'[w].pending = win[w].pending
<1>1. /\ Typed /\ Heard(w) /\ said \in Nat
  BY VoiceAssumption DEF Attending, Typed
<1>2. PICK pc \in {"act", "question", "loop"}, text \in {win[w].text, Nothing},
           asked \in {win[w].asked, 0} :
         win' = [win EXCEPT ![w] = [win[w] EXCEPT !.pc = pc, !.text = text,
                                                  !.asked = asked]]
  <2>1. CASE SaysYes(w)
    <3>1. PICK next \in {"act", "question"} :
             win' = [win EXCEPT ![w].pc = next, ![w].text = win[w].text]
      BY <2>1 DEF SaysYes, Answer
    <3>2. win' = [win EXCEPT ![w] = [win[w] EXCEPT !.pc = next, !.text = win[w].text,
                                                   !.asked = win[w].asked]]
      BY <1>1, <3>1 DEF Typed, WindowState
    <3> QED
      BY <3>2
  <2>2. CASE Declines(w)
    <3>1. win' = [win EXCEPT ![w] = [win[w] EXCEPT !.pc = "loop", !.text = Nothing,
                                                   !.asked = 0]]
      BY <1>1, <2>2 DEF Declines, Typed, WindowState
    <3> QED
      BY <3>1
  <2> QED
    BY <2>1, <2>2
<1> DEFINE g == [win[w] EXCEPT !.pc = pc, !.text = text, !.asked = asked]
<1>3. /\ g \in WindowState /\ g.pc = pc /\ g.text = text
      /\ g.pending = win[w].pending /\ g.asked = asked
  <2>1. win[w] \in WindowState
    BY <1>1 DEF Typed
  <2>2. pc \in WindowPc /\ text \in Spoke /\ asked \in Nat
    BY <2>1, NewStates DEF WindowState, WindowPc
  <2> QED
    BY <2>1, <2>2 DEF WindowState
<1> HIDE DEF g
<1>4. /\ win' \in [Window -> WindowState] /\ win'[w] = g
      /\ \A v \in Window \ {w} : win'[v] = win[v]
  BY <1>1, <1>2, <1>3 DEF Typed, g
<1>5. UNCHANGED <<talk, barge, said, owed, served>> /\ win[w].pc \notin Speaking
  BY DEF SaysYes, Declines, Speaking, history
<1>6. text.at <= said /\ asked <= said
  BY <1>1, NewStates DEF Heard
<1>7. OnlyWin(w) /\ Attends(w)' /\ Heard(w)'
  BY <1>1, <1>3, <1>4, <1>5, <1>6, StaysQuiet DEF Heard, Typed, Speaking
<1> QED
  BY <1>3, <1>4, <1>7

\* The process of a window ends, or is killed.
LEMMA Closes ==
    ASSUME Attending, NEW w \in Window, HungUp(w) \/ Exit(w)
    PROVE  /\ OnlyWin(w) /\ Attends(w)' /\ Heard(w)'
           /\ win'[w].pending = Nothing
           /\ win'[w].pc = IF HungUp(w) /\ w # Managed THEN "killed" ELSE "closed"
<1>1. /\ Typed /\ Heard(w) /\ said \in Nat /\ Attends(w)
  BY VoiceAssumption DEF Attending, Typed
<1>2. PICK pc \in {"closed", "killed"} :
         /\ win' = [win EXCEPT ![w] = [NewWindow EXCEPT !.pc = pc]]
         /\ pc = IF HungUp(w) /\ w # Managed THEN "killed" ELSE "closed"
  <2>1. CASE HungUp(w)
    BY <2>1 DEF HungUp
  <2>2. CASE Exit(w) /\ ~HungUp(w)
    <3>1. NewWindow \in WindowState /\ NewWindow.pc = "closed"
      BY NewStates DEF NewWindow
    <3>2. NewWindow = [NewWindow EXCEPT !.pc = "closed"]
      BY <3>1 DEF WindowState
    <3> QED
      BY <2>2, <3>2 DEF Exit
  <2> QED
    BY <2>1, <2>2
<1> DEFINE g == [NewWindow EXCEPT !.pc = pc]
<1>3. g \in WindowState /\ g.pc = pc /\ g.pending = Nothing /\ g.text = Nothing
      /\ g.asked = 0
  BY <1>2, NewStates DEF WindowState, WindowPc, NewWindow
<1> HIDE DEF g
<1>4. /\ win' \in [Window -> WindowState] /\ win'[w] = g
      /\ \A v \in Window \ {w} : win'[v] = win[v]
  BY <1>1, <1>2, <1>3 DEF Typed, g
<1>5. UNCHANGED <<said, owed, served>>
  BY DEF HungUp, Exit, history
<1>6. talk' = [talk EXCEPT ![w] = NewTalk] /\ barge' = [barge EXCEPT ![w] = NewBarge]
  <2>1. CASE HungUp(w)
    BY <2>1 DEF HungUp
  <2>2. CASE Exit(w)
    BY <1>1, <2>2 DEF Exit, Attends, Speaking, Typed
  <2> QED
    BY <2>1, <2>2
<1>7. /\ win'[w].pc \notin Speaking \cup {"confirmed"}
      /\ win'[w].pending.at <= said /\ win'[w].text.at <= said /\ win'[w].asked <= said
      /\ (\A at \in owed'[w] : at <= said) /\ owed' \in [Window -> SUBSET Nat]
      /\ \A v \in Window \ {w} : owed'[v] = owed[v]
  BY <1>1, <1>3, <1>4, <1>5, NewStates DEF Heard, Typed, Speaking
<1>8. \A v \in Window \ {w} : win'[v] \in {win[v], [win[v] EXCEPT !.cancelled = TRUE]}
  BY <1>4
<1>9. OnlyWin(w) /\ Attends(w)' /\ Heard(w)'
  BY <1>4, <1>5, <1>6, <1>7, <1>8, Resets
<1> QED
  BY <1>2, <1>3, <1>4, <1>9

\* A window is opened from the keyboard.
LEMMA OpensFromKeyboard ==
    ASSUME Attending, NEW w \in Window, OpenStandalone(w)
    PROVE  /\ OnlyWin(w) /\ Attends(w)' /\ Heard(w)'
           /\ win'[w].pending = Nothing /\ w # Managed
           /\ win'[w].pc = IF Stopped THEN "open" ELSE "stop"
<1>1. /\ Typed /\ Heard(w) /\ said \in Nat /\ w # Managed
  BY VoiceAssumption DEF Attending, Typed, OpenStandalone
<1> DEFINE pc == IF Stopped THEN "open" ELSE "stop"
           g == [NewWindow EXCEPT !.pc = pc]
<1>2. /\ win' = [win EXCEPT ![w] = g,
                    ![Managed].cancelled = @ \/ win[Managed].pc # "closed"]
  BY DEF OpenStandalone
<1>3. pc \in {"open", "stop"}
  OBVIOUS
<1> HIDE DEF pc
<1>4. g \in WindowState /\ g.pc = pc /\ g.pending = Nothing /\ g.text = Nothing
      /\ g.asked = 0
  BY <1>3, NewStates DEF WindowState, WindowPc, NewWindow
<1> HIDE DEF g
<1>5. PICK b \in BOOLEAN :
         win' = [win EXCEPT ![w] = g, ![Managed] = [win[Managed] EXCEPT !.cancelled = b]]
  <2>1. Managed \in Window /\ Managed # w
    BY <1>1 DEF Window
  <2> QED
    BY <1>1, <1>2, <2>1 DEF Typed, WindowState
<1>6. /\ win' \in [Window -> WindowState] /\ win'[w] = g
      /\ \A v \in Window \ {w} :
            win'[v] \in {win[v], [win[v] EXCEPT !.cancelled = TRUE]}
  <2>1. Managed \in Window /\ win[Managed] \in WindowState
    BY <1>1 DEF Window, Typed
  <2>2. [win[Managed] EXCEPT !.cancelled = b] \in WindowState
    BY <2>1 DEF WindowState
  <2>3. b = TRUE \/ [win[Managed] EXCEPT !.cancelled = b] = win[Managed]
    BY <1>1, <1>2, <1>5, <2>1 DEF WindowState, Typed
  <2> QED
    BY <1>1, <1>4, <1>5, <2>1, <2>2, <2>3 DEF Typed
<1>7. /\ UNCHANGED <<said, owed, served>>
      /\ talk' = [talk EXCEPT ![w] = NewTalk] /\ barge' = [barge EXCEPT ![w] = NewBarge]
  BY DEF OpenStandalone
<1>8. /\ win'[w].pc \notin Speaking \cup {"confirmed"}
      /\ win'[w].pending.at <= said /\ win'[w].text.at <= said /\ win'[w].asked <= said
      /\ (\A at \in owed'[w] : at <= said) /\ owed' \in [Window -> SUBSET Nat]
      /\ \A v \in Window \ {w} : owed'[v] = owed[v]
  BY <1>1, <1>3, <1>4, <1>6, <1>7, NewStates DEF Heard, Typed, Speaking
<1>9. OnlyWin(w) /\ Attends(w)' /\ Heard(w)'
  BY <1>6, <1>7, <1>8, Resets
<1> QED
  BY <1>1, <1>4, <1>6, <1>9 DEF pc

\* The watcher opens its window.
LEMMA OpensFromWatcher ==
    ASSUME Attending, NEW first \in {Nothing, unit.text}, UnitWakes(first)
    PROVE  /\ OnlyWin(Managed) /\ Attends(Managed)' /\ Heard(Managed)'
           /\ win'[Managed].pending = first /\ win'[Managed].pc = "open"
           /\ owed'[Managed] = NumberOf(first)
<1>1. /\ Typed /\ said \in Nat /\ Managed \in Window
  BY VoiceAssumption DEF Attending, Typed, Window
<1>2. first \in Spoke /\ first.at <= said /\ first.at \in Nat
  BY <1>1, NewStates DEF Attending, Typed, Spoke
<1> DEFINE g == [NewWindow EXCEPT !.pc = "open", !.pending = first]
<1>3. g \in WindowState /\ g.pc = "open" /\ g.pending = first /\ g.text = Nothing
      /\ g.asked = 0
  BY <1>2, NewStates DEF WindowState, WindowPc, NewWindow
<1>4. win' = [win EXCEPT ![Managed] = g]
  BY DEF UnitWakes
<1> HIDE DEF g
<1>5. /\ win' \in [Window -> WindowState] /\ win'[Managed] = g
      /\ \A v \in Window \ {Managed} : win'[v] = win[v]
  BY <1>1, <1>3, <1>4 DEF Typed
<1>6. /\ talk' = [talk EXCEPT ![Managed] = NewTalk]
      /\ barge' = [barge EXCEPT ![Managed] = NewBarge]
      /\ UNCHANGED <<said, served>>
      /\ owed' \in [Window -> SUBSET Nat] /\ owed'[Managed] = NumberOf(first)
      /\ \A v \in Window \ {Managed} : owed'[v] = owed[v]
  BY <1>1, <1>2, NumberOfType DEF UnitWakes, Typed
<1>7. /\ win'[Managed].pc \notin Speaking \cup {"confirmed"}
      /\ win'[Managed].pending.at <= said /\ win'[Managed].text.at <= said
      /\ win'[Managed].asked <= said /\ (\A at \in owed'[Managed] : at <= said)
  BY <1>1, <1>2, <1>3, <1>5, <1>6, NewStates, NumberOfType DEF Speaking
<1>8. \A v \in Window \ {Managed} :
         win'[v] \in {win[v], [win[v] EXCEPT !.cancelled = TRUE]}
  BY <1>5
<1>9. OnlyWin(Managed) /\ Attends(Managed)' /\ Heard(Managed)'
  BY <1>1, <1>5, <1>6, <1>7, <1>8, Resets
<1> QED
  BY <1>3, <1>5, <1>6, <1>9

\* The window starts to speak; only a farewell, or a silence nobody broke, is
\* spoken on the way out.
LEMMA Speaks ==
    ASSUME Attending, NEW w \in Window,
           \/ Begins(w) /\ win[w].pending = Nothing
           \/ HearsNothing(w) /\ ~win[w].cancelled
           \/ TurnEnds(w) \/ TurnRuns(w) \/ Answered(w) \/ Asks(w) \/ Acts(w)
    PROVE  /\ OnlyWin(w) /\ Attends(w)' /\ Heard(w)'
           /\ win'[w].pc = "speak" /\ win'[w].pending = win[w].pending
           /\ talk'[w].next = "exit" =>
                  talk'[w].via = "plain" /\ win[w].pc \in {"listen", "turn"}
           /\ barge'[w].words = Nothing /\ ~barge'[w].over
<1>1. /\ Typed /\ Heard(w) /\ said \in Nat /\ win[w] \in WindowState
  BY VoiceAssumption DEF Attending, Typed
<1>2. PICK via \in {"plain", "barge"}, next \in AfterSpeaking,
           text \in {win[w].text, Nothing}, asked \in {win[w].asked, said, 0} :
         /\ win' = [win EXCEPT ![w] = [win[w] EXCEPT !.pc = "speak", !.text = text,
                                                     !.asked = asked]]
         /\ Says(w, via, next)
         /\ next = "exit" => via = "plain" /\ win[w].pc \in {"listen", "turn"}
  <2>1. CASE \/ Begins(w) /\ win[w].pending = Nothing
             \/ HearsNothing(w) /\ ~win[w].cancelled
             \/ TurnEnds(w)
    <3>1. PICK next \in {"loop", "exit"} :
             /\ Goes(w, "speak") /\ Says(w, "plain", next)
             /\ next = "exit" => win[w].pc \in {"listen", "turn"}
      BY <2>1 DEF Begins, HearsNothing, TurnEnds
    <3>2. win' = [win EXCEPT ![w] = [win[w] EXCEPT !.pc = "speak",
                                         !.text = win[w].text, !.asked = win[w].asked]]
      BY <1>1, <3>1 DEF Goes, Typed, WindowState
    <3> QED
      BY <3>1, <3>2 DEF AfterSpeaking
  <2>2. CASE TurnRuns(w) \/ Answered(w)
    <3>1. PICK via \in {"plain", "barge"}, next \in AfterSpeaking \ {"exit"} :
             Says(w, via, next)
      BY <2>2 DEF TurnRuns, Answered, Reply, AfterSpeaking
    <3>2. win' = [win EXCEPT ![w] = [win[w] EXCEPT !.pc = "speak",
                                         !.text = Nothing, !.asked = win[w].asked]]
      BY <1>1, <2>2 DEF TurnRuns, Answered, Typed, WindowState
    <3> QED
      BY <3>1, <3>2
  <2>3. CASE Asks(w)
    <3>1. win' = [win EXCEPT ![w] = [win[w] EXCEPT !.pc = "speak",
                                         !.text = Nothing, !.asked = said]]
      BY <1>1, <2>3 DEF Asks, Typed, WindowState
    <3> QED
      BY <2>3, <3>1 DEF Asks, AfterSpeaking
  <2>4. CASE Acts(w)
    <3>1. win' = [win EXCEPT ![w] = [win[w] EXCEPT !.pc = "speak",
                                         !.text = Nothing, !.asked = 0]]
      BY <1>1, <2>4 DEF Acts, Typed, WindowState
    <3> QED
      BY <2>4, <3>1 DEF Acts, Reply, AfterSpeaking
  <2> QED
    BY <2>1, <2>2, <2>3, <2>4
<1> DEFINE g == [win[w] EXCEPT !.pc = "speak", !.text = text, !.asked = asked]
<1>3. /\ g \in WindowState /\ g.pc = "speak" /\ g.text = text
      /\ g.pending = win[w].pending /\ g.asked = asked
  <2>1. text \in Spoke /\ asked \in Nat /\ "speak" \in WindowPc
    BY <1>1, NewStates DEF WindowState, WindowPc, Speaking
  <2> QED
    BY <1>1, <2>1 DEF WindowState
<1> HIDE DEF g
<1>4. /\ win' \in [Window -> WindowState] /\ win'[w] = g
      /\ \A v \in Window \ {w} : win'[v] = win[v]
  BY <1>1, <1>2, <1>3 DEF Typed, g
<1>5. UNCHANGED <<said, owed, served>>
  BY DEF Begins, HearsNothing, TurnEnds, TurnRuns, Answered, Asks, Acts, history
<1>6. /\ win'[w].pending.at <= said /\ win'[w].text.at <= said /\ win'[w].asked <= said
      /\ win'[w].pc = "speak"
  BY <1>1, <1>3, <1>4, NewStates DEF Heard
<1>7. OnlyWin(w) /\ Attends(w)' /\ Heard(w)'
  BY <1>2, <1>4, <1>5, <1>6, StartsToSpeak
<1>8. /\ talk'[w].via = via /\ talk'[w].next = next
      /\ barge'[w].words = Nothing /\ ~barge'[w].over
  BY <1>1, <1>2, SaysEffect
<1> QED
  BY <1>2, <1>3, <1>4, <1>7, <1>8

\* The speech goes on, or waits for the goroutine.
LEMMA GoesOnSpeaking ==
    ASSUME Attending, NEW w \in Window,
           \/ Spoken(w) \/ CancelBarge(w)
           \/ AfterSpeech(w) /\ talk[w].via # "plain"
    PROVE  /\ OnlyWin(w) /\ Attends(w)' /\ Heard(w)'
           /\ win'[w].pc \in Speaking /\ win'[w].pending = win[w].pending
           /\ talk' = talk /\ barge' = barge
<1>1. /\ Typed /\ Heard(w) /\ Attends(w) /\ said \in Nat
  BY VoiceAssumption DEF Attending, Typed
<1>2. PICK pc \in Speaking : Goes(w, pc) /\ pc # "speak"
  BY DEF Spoken, CancelBarge, AfterSpeech, Speaking
<1>3. pc \in WindowPc
  BY DEF WindowPc
<1>4. /\ win' \in [Window -> WindowState]
      /\ \A v \in Window \ {w} : win'[v] = win[v]
      /\ win'[w].pc = pc /\ win'[w].pending = win[w].pending
      /\ win'[w].text = win[w].text /\ win'[w].asked = win[w].asked
  BY <1>1, <1>2, <1>3, GoesEffect
<1>5. UNCHANGED <<talk, barge, said, owed, served>>
  BY DEF Spoken, CancelBarge, AfterSpeech, history
<1>6. OnlyWin(w)
  BY <1>1, <1>4, <1>5 DEF OnlyWin, Stays, Typed
<1>7. Heard(w)'
  BY <1>1, <1>2, <1>4, <1>5 DEF Heard, Speaking
<1>8. Attends(w)'
  <2>1. CASE Spoken(w)
    <3>1. win'[w].pc = "spoken"
      BY <1>1, <2>1 DEF Spoken, Goes, Typed, WindowState
    <3> QED
      BY <1>1, <1>5, <2>1, <3>1 DEF Attends, Speaking, Spoken
  <2>2. CASE CancelBarge(w)
    <3>1. win'[w].pc = "drain" /\ win[w].pc = "cancelBarge"
      BY <1>1, <2>2 DEF CancelBarge, Goes, Typed, WindowState
    <3> QED
      BY <1>1, <1>5, <3>1 DEF Attends, Speaking
  <2>3. CASE AfterSpeech(w) /\ talk[w].via # "plain"
    <3>1. talk[w].via = "barge"
      BY <1>1, <2>3 DEF Typed, TalkState
    <3>2. win'[w].pc = (IF SpeechCut(w) THEN "heed" ELSE "cancelBarge")
      BY <1>1, <2>3 DEF AfterSpeech, Goes, Typed, WindowState
    <3>3. barge[w].over => win'[w].pc = "heed"
      BY <1>1, <3>1, <3>2 DEF Attends, SpeechCut
    <3>4. win'[w].pc \in {"heed", "cancelBarge"} /\ win[w].pc = "spoken"
      BY <2>3, <3>2 DEF AfterSpeech
    <3> QED
      BY <1>1, <1>5, <3>1, <3>3, <3>4 DEF Attends, Speaking
  <2> QED
    BY <2>1, <2>2, <2>3
<1> QED
  BY <1>2, <1>4, <1>5, <1>6, <1>7, <1>8

\* The speech is over: its words, if they were waited for, become pending.
LEMMA SpeechOver ==
    ASSUME Attending, NEW w \in Window,
           \/ AfterSpeech(w) /\ talk[w].via = "plain"
           \/ Heeds(w) \/ Drains(w)
    PROVE  /\ OnlyWin(w) /\ Attends(w)' /\ Heard(w)'
           /\ win'[w].pc = talk[w].next
           /\ win'[w].pending = (IF Heeds(w) /\ barge[w].words # Nothing
                                 THEN barge[w].words ELSE win[w].pending)
           /\ talk'[w] = NewTalk /\ barge'[w] = NewBarge
           /\ barge[w].over => Heeds(w)
           /\ Heeds(w) => talk[w].via = "barge"
<1>1. /\ Typed /\ Heard(w) /\ Attends(w) /\ said \in Nat
      /\ win[w] \in WindowState /\ talk[w] \in TalkState /\ barge[w] \in BargeState
  BY VoiceAssumption DEF Attending, Typed
<1> DEFINE words == IF Heeds(w) /\ barge[w].words # Nothing
                    THEN barge[w].words ELSE win[w].pending
           g == [win[w] EXCEPT !.pc = talk[w].next, !.pending = words]
<1>2. win' = [win EXCEPT ![w] = g]
  <2>1. CASE Heeds(w)
    BY <1>1, <2>1 DEF Heeds, Typed, WindowState
  <2>2. CASE ~Heeds(w)
    <3>1. win' = [win EXCEPT ![w] = [win[w] EXCEPT !.pc = talk[w].next]]
      BY <1>1, <2>2 DEF AfterSpeech, Drains, Goes, Typed, WindowState
    <3>2. g = [win[w] EXCEPT !.pc = talk[w].next]
      BY <1>1, <2>2 DEF WindowState
    <3> QED
      BY <3>1, <3>2
  <2> QED
    BY <2>1, <2>2
<1>3. words \in Spoke /\ words.at <= said
  BY <1>1 DEF WindowState, BargeState, Heard
<1> HIDE DEF words
<1>4. /\ g \in WindowState /\ g.pc = talk[w].next /\ g.pending = words
      /\ g.text = win[w].text /\ g.asked = win[w].asked
  <2>1. talk[w].next \in AfterSpeaking /\ talk[w].next \in WindowPc
    BY <1>1 DEF TalkState, AfterSpeaking, WindowPc, Speaking
  <2> QED
    BY <1>1, <1>3, <2>1 DEF WindowState
<1> HIDE DEF g
<1>5. /\ win' \in [Window -> WindowState] /\ win'[w] = g
      /\ \A v \in Window \ {w} : win'[v] = win[v]
  BY <1>1, <1>2, <1>4 DEF Typed, g
<1>6. /\ SpeechEnds(w) /\ UNCHANGED <<said, owed, served>>
  BY DEF AfterSpeech, Heeds, Drains, history
<1>7. barge'[w] = NewBarge /\ barge' \in [Window -> BargeState]
      /\ \A v \in Window \ {w} : barge'[v] = barge[v]
  <2>1. CASE barge[w].pc = "done"
    BY <1>1, <1>6, <2>1, NewStates DEF SpeechEnds, Typed
  <2>2. CASE barge[w].pc # "done"
    <3>1. talk[w].via = "plain"
      BY <2>2 DEF Heeds, Drains, Captured
    <3>2. barge[w].pc = "none" /\ barge[w].words = Nothing /\ barge[w].over = FALSE
      BY <1>1, <3>1 DEF Attends, BargeState
    <3>3. barge[w] = NewBarge
      BY <1>1, <3>2 DEF BargeState, NewBarge
    <3> QED
      BY <1>1, <1>6, <2>2, <3>3 DEF SpeechEnds, Typed
  <2> QED
    BY <2>1, <2>2
<1>8. talk'[w] = NewTalk /\ talk' \in [Window -> TalkState]
      /\ \A v \in Window \ {w} : talk'[v] = talk[v]
  BY <1>1, <1>6, NewStates DEF SpeechEnds, Typed
<1>9. OnlyWin(w)
  BY <1>1, <1>5, <1>6, <1>7, <1>8 DEF OnlyWin, Stays, Typed
<1>10. win'[w].pc \in AfterSpeaking
  BY <1>1, <1>4, <1>5 DEF TalkState
<1>11. Attends(w)'
  BY <1>7, <1>8, <1>10 DEF Attends, NewTalk, NewBarge, AfterSpeaking
<1>12. barge'[w].words.at = 0
  BY <1>7, NewStates DEF NewBarge
<1>13. Heard(w)'
  BY <1>1, <1>3, <1>4, <1>5, <1>6, <1>10, <1>12 DEF Heard, AfterSpeaking
<1>14. /\ barge[w].over => Heeds(w)
       /\ Heeds(w) => talk[w].via = "barge"
  BY <1>1 DEF Attends, AfterSpeech, Heeds, Drains
<1> QED
  BY <1>4, <1>5, <1>7, <1>8, <1>9, <1>11, <1>13, <1>14 DEF words

\* What happens to the speech and to its goroutine while the window speaks.
LEMMA OverTheVoice ==
    ASSUME Attending, NEW w \in Window,
           \/ BackendFails(w) \/ Goroutine(w)
           \/ \E words \in Words : BargeHears(w, words)
    PROVE  OnlyWin(w) /\ Attends(w)' /\ Heard(w)' /\ win' = win /\ served' = served
<1>1. /\ Typed /\ Heard(w) /\ Attends(w) /\ said \in Nat
      /\ win[w] \in WindowState /\ talk[w] \in TalkState /\ barge[w] \in BargeState
      /\ owed[w] \subseteq Nat /\ served[w] \in Nat
  BY VoiceAssumption DEF Attending, Typed
<1>2. win' = win /\ served' = served
  BY DEF BackendFails, Goroutine, BargeHears, BargeCaptured, BargeTranscribed,
         BargeFails, history
<1>3. barge[w].words \in Spoke /\ barge[w].words.at \in Nat
  BY <1>1 DEF BargeState, Spoke
<1>4. CASE BackendFails(w)
  <2>1. talk[w].backend + 1 \in 1..Backends
    BY <1>1, <1>4, VoiceAssumption DEF BackendFails, MayTryNext, TalkState
  <2>2. talk' = [talk EXCEPT ![w] = [talk[w] EXCEPT !.backend = talk[w].backend + 1]]
    BY <1>1, <1>4 DEF BackendFails, Typed, TalkState
  <2>3. /\ [talk[w] EXCEPT !.backend = talk[w].backend + 1] \in TalkState
        /\ talk'[w].via = talk[w].via /\ talk'[w].cut = talk[w].cut
        /\ talk' \in [Window -> TalkState]
        /\ \A v \in Window \ {w} : talk'[v] = talk[v]
    BY <1>1, <2>1, <2>2 DEF Typed, TalkState
  <2>4. UNCHANGED <<barge, said, owed, served>> /\ win[w].pc = "speak"
    BY <1>4 DEF BackendFails, history
  <2>5. OnlyWin(w) /\ Heard(w)'
    BY <1>1, <1>2, <2>3, <2>4 DEF OnlyWin, Stays, Typed, Heard
  <2>6. Attends(w)'
    BY <1>1, <1>2, <2>3, <2>4 DEF Attends, Speaking
  <2> QED
    BY <1>2, <2>5, <2>6
<1>5. ASSUME NEW words \in Words, BargeHears(w, words)
      PROVE  OnlyWin(w) /\ Attends(w)' /\ Heard(w)'
  <2>1. /\ Utterance(words) \in Spoke /\ Utterance(words).at = said + 1
        /\ Utterance(words) # Nothing
    BY <1>1, <1>5, UtteranceType DEF BargeHears
  <2> DEFINE b == [pc |-> "hearing", words |-> Utterance(words),
                   over |-> win[w].pc = "speak"]
             t == [talk[w] EXCEPT !.cut = TRUE]
  <2>2. barge' = [barge EXCEPT ![w] = b] /\ talk' = [talk EXCEPT ![w] = t]
    BY <1>1, <1>5 DEF BargeHears, Typed, TalkState
  <2>3. /\ b \in BargeState /\ b.pc = "hearing" /\ b.words = Utterance(words)
        /\ b.over = (win[w].pc = "speak")
    BY <2>1 DEF BargeState
  <2>4. t \in TalkState /\ t.cut /\ t.via = talk[w].via
    BY <1>1 DEF TalkState
  <2> HIDE DEF b, t
  <2>5. /\ barge' \in [Window -> BargeState] /\ talk' \in [Window -> TalkState]
        /\ barge'[w] = b /\ talk'[w] = t
        /\ \A v \in Window \ {w} : barge'[v] = barge[v] /\ talk'[v] = talk[v]
    BY <1>1, <2>2, <2>3, <2>4 DEF Typed
  <2>6. /\ UNCHANGED <<owed, served>> /\ said' = said + 1
        /\ win[w].pc \in {"speak", "spoken", "cancelBarge"}
        /\ barge[w].pc = "capturing"
    BY <1>5 DEF BargeHears
  <2>7. OnlyWin(w)
    BY <1>1, <1>2, <2>5, <2>6 DEF OnlyWin, Stays, Typed
  <2>8. win[w].pending.at \in Nat /\ win[w].text.at \in Nat /\ win[w].asked \in Nat
    BY <1>1 DEF WindowState, Spoke
  <2>9. Heard(w)'
    BY <1>1, <1>2, <2>1, <2>3, <2>5, <2>6, <2>8 DEF Heard
  <2>10. talk[w].via = "barge"
    BY <1>1, <2>6 DEF Attends, TalkState
  <2>11. Attends(w)'
    BY <1>2, <2>1, <2>3, <2>4, <2>5, <2>6, <2>10 DEF Attends, Speaking
  <2> QED
    BY <2>7, <2>9, <2>11
<1>6. CASE Goroutine(w)
  <2>1. PICK b \in BargeState :
           /\ barge' = [barge EXCEPT ![w] = b]
           /\ b.pc \in {"transcribing", "done"}
           /\ b.words \in {Nothing, barge[w].words}
           /\ b.over = barge[w].over \/ ~b.over
           /\ b.pc = "transcribing" => b.words # Nothing
    <3>1. CASE BargeCaptured(w)
      <4>1. barge' = [barge EXCEPT ![w] = [barge[w] EXCEPT !.pc = "transcribing"]]
        BY <1>1, <3>1 DEF BargeCaptured, Typed, BargeState
      <4>2. [barge[w] EXCEPT !.pc = "transcribing"] \in BargeState
        BY <1>1 DEF BargeState
      <4>3. barge[w].words # Nothing
        BY <1>1, <3>1 DEF Attends, BargeCaptured
      <4> QED
        BY <1>1, <4>1, <4>2, <4>3 DEF BargeState
    <3>2. CASE BargeTranscribed(w)
      <4>1. barge' = [barge EXCEPT ![w] = [barge[w] EXCEPT !.pc = "done"]]
        BY <1>1, <3>2 DEF BargeTranscribed, Typed, BargeState
      <4>2. [barge[w] EXCEPT !.pc = "done"] \in BargeState
        BY <1>1 DEF BargeState
      <4> QED
        BY <1>1, <4>1, <4>2 DEF BargeState
    <3>3. CASE BargeFails(w)
      <4>1. barge' = [barge EXCEPT ![w] = [NewBarge EXCEPT !.pc = "done"]]
        BY <3>3 DEF BargeFails
      <4>2. [NewBarge EXCEPT !.pc = "done"] \in BargeState
        BY NewStates DEF BargeState
      <4> QED
        BY <4>1, <4>2 DEF NewBarge, BargeState
    <3> QED
      BY <1>6, <3>1, <3>2, <3>3 DEF Goroutine
  <2>2. /\ barge' \in [Window -> BargeState] /\ barge'[w] = b
        /\ \A v \in Window \ {w} : barge'[v] = barge[v]
    BY <1>1, <2>1 DEF Typed
  <2>3. /\ barge[w].pc \in {"capturing", "hearing", "transcribing"}
        /\ UNCHANGED <<talk, said>>
    BY <1>6 DEF Goroutine, BargeCaptured, BargeTranscribed, BargeFails, history
  <2>4. /\ owed' \in [Window -> SUBSET Nat]
        /\ \A at \in owed'[w] : at \in owed[w] \/ at = barge[w].words.at
        /\ \A v \in Window \ {w} : owed'[v] = owed[v]
    <3>1. /\ NumberOf(barge[w].words) \subseteq {barge[w].words.at}
          /\ NumberOf(barge[w].words) \subseteq Nat
      BY <1>1, NumberOfType DEF BargeState
    <3> QED
      BY <1>1, <1>3, <1>6, <3>1
         DEF Goroutine, BargeCaptured, BargeTranscribed, BargeFails, history, Typed
  <2>5. OnlyWin(w)
    BY <1>1, <1>2, <2>2, <2>3, <2>4 DEF OnlyWin, Stays, Typed
  <2>6. Heard(w)'
    BY <1>1, <1>2, <2>1, <2>2, <2>3, <2>4, NewStates DEF Heard
  <2>7. win[w].pc \in Speaking /\ talk[w].via = "barge"
    BY <1>1, <2>3 DEF Attends, NewBarge, TalkState
  <2>8. Attends(w)'
    BY <1>1, <1>2, <2>1, <2>2, <2>3, <2>7 DEF Attends
  <2> QED
    BY <1>2, <2>5, <2>6, <2>8
<1>7. CASE \E words \in Words : BargeHears(w, words)
  <2>1. PICK words \in Words : BargeHears(w, words)
    BY <1>7
  <2> QED
    BY <1>2, <1>5, <2>1
<1> QED
  BY <1>4, <1>6, <1>7

-----------------------------------------------------------------------------
(* Every step.                                                             *)

UnitState == [pc : {"listen", "transcribe", "window", "off"},
              stopping : BOOLEAN, text : Spoke]

\* The variables that belong to no window.
Around ==
    /\ bargeIn' = bargeIn
    /\ unit' \in UnitState /\ unit'.text.at <= said'
    /\ said' \in 0..MaxSaid /\ said' >= said
    /\ opens' \in 0..MaxOpens

LEMMA AroundStays ==
    ASSUME Attending, UNCHANGED <<bargeIn, unit, said, opens>>
    PROVE  Around
BY VoiceAssumption DEF Attending, Typed, Around, UnitState

\* What anybody does to a window.
Moves(w) ==
    \/ Program(w) \/ Goroutine(w) \/ HungUp(w) \/ OpenStandalone(w)
    \/ \E words \in Words : Hears(w, words) \/ BargeHears(w, words)

LEMMA MovesAround ==
    ASSUME Attending, NEW w \in Window, Moves(w)
    PROVE  Around
<1>1. /\ unit \in UnitState /\ unit.text.at <= said /\ unit.text.at \in Nat
      /\ said \in 0..MaxSaid /\ said \in Nat /\ opens \in 0..MaxOpens /\ opens \in Nat
      /\ MaxSaid \in Nat /\ MaxOpens \in Nat
  BY VoiceAssumption DEF Attending, Typed, UnitState, Spoke
<1>2. CASE OpenStandalone(w)
  <2>1. PICK b \in BOOLEAN : unit' = [unit EXCEPT !.stopping = b]
    BY <1>2 DEF OpenStandalone, Stopped
  <2>2. opens' = opens + 1 /\ opens < MaxOpens /\ UNCHANGED <<bargeIn, said>>
    BY <1>2 DEF OpenStandalone
  <2>3. unit' \in UnitState /\ unit'.text = unit.text
    BY <1>1, <2>1 DEF UnitState
  <2> QED
    BY <1>1, <2>2, <2>3 DEF Around
<1>3. CASE StopReturns(w)
  <2>1. unit' = [unit EXCEPT !.stopping = FALSE] /\ UNCHANGED <<bargeIn, said, opens>>
    BY <1>3 DEF StopReturns, history
  <2>2. unit' \in UnitState /\ unit'.text = unit.text
    BY <1>1, <2>1 DEF UnitState
  <2> QED
    BY <1>1, <2>1, <2>2 DEF Around
<1>4. CASE Exit(w)
  BY <1>1, <1>4 DEF Exit, Resumed, history, Around, UnitState
<1>5. CASE \E words \in Words : Hears(w, words) \/ BargeHears(w, words)
  BY <1>1, <1>5 DEF Hears, BargeHears, Around, UnitState
<1>6. CASE HungUp(w) \/ Goroutine(w)
  BY <1>6, AroundStays
     DEF HungUp, Goroutine, BargeCaptured, BargeTranscribed, BargeFails, history
<1>7. CASE \/ Begins(w) \/ Spoken(w) \/ BackendFails(w) \/ AfterSpeech(w)
           \/ CancelBarge(w) \/ Heeds(w) \/ Drains(w)
  BY <1>7, AroundStays DEF Begins, Spoken, BackendFails, AfterSpeech, CancelBarge, Heeds,
                           Drains, history
<1>8. CASE \/ ServesPending(w) \/ Listens(w) \/ HearsNothing(w) \/ TurnFails(w)
           \/ TurnHeard(w) \/ TurnEnds(w) \/ TurnRuns(w)
  BY <1>8, AroundStays DEF ServesPending, Listens, HearsNothing, TurnFails, TurnHeard,
                           TurnEnds, TurnRuns, history
<1>9. CASE Answered(w) \/ Asks(w) \/ SaysYes(w) \/ Declines(w) \/ Acts(w)
  BY <1>9, AroundStays DEF Answered, Asks, SaysYes, Declines, Acts, history
<1> QED
  BY <1>2, <1>3, <1>4, <1>5, <1>6, <1>7, <1>8, <1>9 DEF Moves, Program

\* Every move of a window is one of those above.
LEMMA MovesAttending ==
    ASSUME Attending, NEW w \in Window, Moves(w)
    PROVE  OnlyWin(w) /\ Attends(w)' /\ Heard(w)'
<1>1. CASE \/ StopReturns(w) \/ Listens(w) \/ TurnFails(w) \/ TurnHeard(w)
           \/ HearsNothing(w) /\ win[w].cancelled
           \/ Begins(w) /\ win[w].pending # Nothing
  BY <1>1, GoesQuietly
<1>2. CASE \/ Begins(w) /\ win[w].pending = Nothing
           \/ HearsNothing(w) /\ ~win[w].cancelled
           \/ TurnEnds(w) \/ TurnRuns(w) \/ Answered(w) \/ Asks(w) \/ Acts(w)
  BY <1>2, Speaks
<1>3. CASE \/ Spoken(w) \/ CancelBarge(w)
           \/ AfterSpeech(w) /\ talk[w].via # "plain"
  BY <1>3, GoesOnSpeaking
<1>4. CASE \/ AfterSpeech(w) /\ talk[w].via = "plain"
           \/ Heeds(w) \/ Drains(w)
  BY <1>4, SpeechOver
<1>5. CASE \/ BackendFails(w) \/ Goroutine(w)
           \/ \E words \in Words : BargeHears(w, words)
  BY <1>5, OverTheVoice
<1>6. CASE ServesPending(w)
  BY <1>6, ServesQuietly
<1>7. CASE \E words \in Words : Hears(w, words)
  BY <1>7, HearsQuietly
<1>8. CASE SaysYes(w) \/ Declines(w)
  BY <1>8, AnswersQuietly
<1>9. CASE HungUp(w) \/ Exit(w)
  BY <1>9, Closes
<1>10. CASE OpenStandalone(w)
  BY <1>10, OpensFromKeyboard
<1> QED
  BY <1>1, <1>2, <1>3, <1>4, <1>5, <1>6, <1>7, <1>8, <1>9, <1>10 DEF Moves, Program

\* A window that stays keeps what is said of it.
LEMMA StaysAttending ==
    ASSUME Attending, Around, NEW v \in Window, Stays(v)
    PROVE  Attends(v)' /\ Heard(v)'
<1>1. /\ Attends(v) /\ Heard(v) /\ win[v] \in WindowState /\ barge[v] \in BargeState
      /\ owed[v] \subseteq Nat /\ served[v] \in Nat
  BY DEF Attending, Typed
<1>2. /\ win[v].pending.at \in Nat /\ win[v].text.at \in Nat /\ win[v].asked \in Nat
      /\ barge[v].words.at \in Nat
  BY <1>1 DEF WindowState, BargeState, Spoke
<1>3. said \in Nat /\ said' \in Nat /\ said' >= said
  BY VoiceAssumption DEF Attending, Typed, Around
<1>4. Attends(v)'
  BY <1>1 DEF Stays, Attends
<1>5. Heard(v)'
  BY <1>1, <1>2, <1>3 DEF Stays, Heard
<1> QED
  BY <1>4, <1>5

\* The watcher by itself, and an interruption, move no window.
LEMMA UnitAttending ==
    ASSUME Attending,
           \/ \E words \in Words : UnitHears(words)
           \/ UnitIgnores \/ UnitResumes \/ UnitEnds
           \/ \E w \in Window : Interrupted(w)
    PROVE  /\ Around /\ \A v \in Window : Stays(v)
           /\ win' \in [Window -> WindowState]
           /\ UNCHANGED <<talk, barge, owed, served>>
<1>1. /\ unit \in UnitState /\ unit.text.at <= said /\ unit.text.at \in Nat
      /\ said \in 0..MaxSaid /\ said \in Nat /\ opens \in 0..MaxOpens
      /\ MaxSaid \in Nat /\ Typed
  BY VoiceAssumption DEF Attending, Typed, UnitState, Spoke
<1>2. CASE \E words \in Words : UnitHears(words)
  <2>1. PICK words \in Words : UnitHears(words)
    BY <1>2
  <2>2. Utterance(words) \in Spoke /\ Utterance(words).at = said + 1
    BY <1>1, <2>1, UtteranceType DEF UnitHears
  <2>3. /\ unit' = [unit EXCEPT !.pc = "transcribe", !.text = Utterance(words)]
        /\ said' = said + 1 /\ said < MaxSaid
        /\ UNCHANGED <<bargeIn, win, talk, barge, opens, owed, served>>
    BY <2>1 DEF UnitHears, UnitOnly
  <2> DEFINE text == Utterance(words)
  <2> HIDE DEF text
  <2>4. unit' = [unit EXCEPT !.pc = "transcribe", !.text = text]
    BY <2>3 DEF text
  <2>5. unit' \in UnitState /\ unit'.text = text
    BY <1>1, <2>2, <2>4 DEF UnitState, text
  <2>6. Around
    BY <1>1, <2>2, <2>3, <2>5 DEF Around, text
  <2> QED
    BY <1>1, <2>3, <2>6 DEF Stays, Typed
<1>3. CASE UnitIgnores \/ UnitResumes \/ UnitEnds
  <2>1. /\ unit' \in UnitState /\ unit'.text \in {unit.text, Nothing}
        /\ UNCHANGED <<bargeIn, win, said, talk, barge, opens, owed, served>>
    BY <1>1, <1>3, NewStates
       DEF UnitIgnores, UnitResumes, UnitEnds, UnitOnly, UnitState
  <2>2. unit'.text.at <= said
    BY <1>1, <2>1, NewStates
  <2>3. Around
    BY <1>1, <2>1, <2>2 DEF Around
  <2> QED
    BY <1>1, <2>1, <2>3 DEF Stays, Typed
<1>4. CASE \E w \in Window : Interrupted(w)
  <2>1. PICK w \in Window : Interrupted(w)
    BY <1>4
  <2>2. win' = [win EXCEPT ![w] = [win[w] EXCEPT !.cancelled = TRUE]]
    BY <1>1, <2>1 DEF Interrupted, Typed, WindowState
  <2>3. [win[w] EXCEPT !.cancelled = TRUE] \in WindowState
    BY <1>1 DEF Typed, WindowState
  <2>4. UNCHANGED <<bargeIn, unit, talk, barge, said, opens, owed, served>>
    BY <2>1 DEF Interrupted, history
  <2>5. Around
    BY <2>4, AroundStays
  <2>6. win' \in [Window -> WindowState]
    BY <1>1, <2>2, <2>3 DEF Typed
  <2>7. ASSUME NEW v \in Window PROVE Stays(v)
    BY <1>1, <2>2, <2>4 DEF Typed, WindowState, Stays
  <2> QED
    BY <2>4, <2>5, <2>6, <2>7
<1> QED
  BY <1>2, <1>3, <1>4

\* The steps of the system, by what they move.
LEMMA StepCases ==
    ASSUME Next
    PROVE  \/ \E w \in Window : Moves(w)
           \/ \E first \in {Nothing, unit.text} : UnitWakes(first)
           \/ \E words \in Words : UnitHears(words)
           \/ UnitIgnores \/ UnitResumes \/ UnitEnds
           \/ \E w \in Window : Interrupted(w)
BY DEF Next, Watcher, People, Moves

LEMMA WakesAround ==
    ASSUME Attending, NEW first \in {Nothing, unit.text}, UnitWakes(first)
    PROVE  Around
<1>1. /\ unit \in UnitState /\ said \in 0..MaxSaid /\ said \in Nat
      /\ opens \in 0..MaxOpens /\ 0 <= said
  BY VoiceAssumption DEF Attending, Typed, UnitState
<1>2. /\ unit' = [unit EXCEPT !.pc = "window", !.text = Nothing]
      /\ UNCHANGED <<bargeIn, said, opens>>
  BY DEF UnitWakes
<1>3. unit' \in UnitState /\ unit'.text = Nothing
  BY <1>1, <1>2, NewStates DEF UnitState
<1> QED
  BY <1>1, <1>2, <1>3, NewStates DEF Around

\* One window at most is moved by a step.
LEMMA StepMoves ==
    ASSUME Attending, [Next]_vars
    PROVE  /\ Around
           /\ \/ \E w \in Window : OnlyWin(w) /\ Attends(w)' /\ Heard(w)'
              \/ /\ \A v \in Window : Stays(v)
                 /\ win' \in [Window -> WindowState]
                 /\ UNCHANGED <<talk, barge, owed, served>>
<1>1. CASE \E w \in Window : Moves(w)
  BY <1>1, MovesAround, MovesAttending
<1>2. CASE \E first \in {Nothing, unit.text} : UnitWakes(first)
  BY <1>2, WakesAround, OpensFromWatcher DEF Window
<1>3. CASE \/ \E words \in Words : UnitHears(words)
           \/ UnitIgnores \/ UnitResumes \/ UnitEnds
           \/ \E w \in Window : Interrupted(w)
  BY <1>3, UnitAttending
<1>4. CASE UNCHANGED vars
  <2>1. UNCHANGED <<bargeIn, unit, win, talk, barge, said, opens, owed, served>>
    BY <1>4 DEF vars, history
  <2>2. win' \in [Window -> WindowState] /\ \A v \in Window : Stays(v)
    BY <2>1 DEF Attending, Typed, Stays
  <2> QED
    BY <2>1, <2>2, AroundStays
<1> QED
  BY <1>1, <1>2, <1>3, <1>4, StepCases

LEMMA AttendingNext == Attending /\ [Next]_vars => Attending'
<1> SUFFICES ASSUME Attending, [Next]_vars PROVE Attending'
  OBVIOUS
<1>1. Typed /\ Around
  BY StepMoves DEF Attending
<1>2. Typed'
  BY <1>1, StepMoves DEF Typed, Around, OnlyWin, UnitState
<1>3. ASSUME NEW v \in Window PROVE Attends(v)' /\ Heard(v)'
  <2>1. CASE Stays(v)
    BY <1>1, <2>1, StaysAttending
  <2>2. CASE ~Stays(v)
    BY <2>2, StepMoves DEF OnlyWin
  <2> QED
    BY <2>1, <2>2
<1> QED
  BY <1>1, <1>2, <1>3 DEF Attending, Around

LEMMA AlwaysAttending == Spec => []Attending
BY AttendingInit, AttendingNext, PTL DEF Spec

\* Every reachable state is well typed; no word is older than it is said to be.
THEOREM TypeCorrect == Spec => []TypeOK
<1>1. Attending => TypeOK
  <2> SUFFICES ASSUME Attending PROVE TypeOK
    OBVIOUS
  <2>1. Typed /\ said \in Nat
    BY VoiceAssumption DEF Attending, Typed
  <2>2. ASSUME NEW w \in Window
        PROVE  /\ win[w].pc \in WindowPc
               /\ talk[w].backend \in 1..Backends
               /\ barge[w].pc \in {"none", "capturing", "hearing", "transcribing", "done"}
               /\ owed[w] \subseteq 0..said /\ served[w] \in 0..said
    <3>1. /\ owed[w] \subseteq Nat /\ served[w] \in Nat
          /\ (\A at \in owed[w] : at <= said) /\ served[w] <= said
      BY <2>1 DEF Attending, Typed, Heard
    <3> QED
      BY <2>1, <3>1 DEF Typed, WindowState, TalkState, BargeState
  <2>3. unit.pc \in {"listen", "transcribe", "window", "off"}
    BY <2>1 DEF Typed
  <2> QED
    BY <2>1, <2>2, <2>3 DEF TypeOK, Typed, WindowPc, Speaking
<1> QED
  BY <1>1, AlwaysAttending, PTL

-----------------------------------------------------------------------------
(* The yes, and the voice that is cut.                                     *)

\* Who goes from the confirmation to the action said yes.
LEMMA OnlyYesActs ==
    ASSUME Attending, [Next]_vars, NEW w \in Window,
           win[w].pc = "confirmed", win'[w].pc \in {"act", "question"}
    PROVE  SaysYes(w)
<1>1. ~Stays(w)
  BY DEF Stays
<1>2. barge[w] = NewBarge /\ Typed
  BY DEF Attending, Attends, Speaking
<1>3. ~Goroutine(w)
  BY <1>2 DEF Goroutine, BargeCaptured, BargeTranscribed, BargeFails, NewBarge
<1>4. ~OpenStandalone(w) /\ ~\E words \in Words : Hears(w, words) \/ BargeHears(w, words)
  BY <1>2 DEF OpenStandalone, Hears, BargeHears, Listening
<1>5. ~HungUp(w)
  BY Closes
<1>6. ~Declines(w)
  BY <1>2 DEF Declines, Typed, WindowState
<1>7. Program(w) => SaysYes(w)
  BY <1>6 DEF Program, StopReturns, Begins, Exit, Spoken, BackendFails, AfterSpeech,
              CancelBarge, Heeds, Drains, ServesPending, Listens, HearsNothing,
              TurnFails, TurnHeard, TurnEnds, TurnRuns, Answered, Asks, Acts
<1>8. \A v \in Window : Moves(v) => v = w
  BY <1>1, MovesAttending DEF OnlyWin
<1>9. ~\E first \in {Nothing, unit.text} : UnitWakes(first)
  BY <1>1, OpensFromWatcher DEF OnlyWin, UnitWakes
<1>10. \E v \in Window : Moves(v)
  <2>1. ~UNCHANGED vars
    BY <1>1 DEF vars, history, Stays
  <2> QED
    BY <1>1, <1>9, <2>1, StepCases, UnitAttending
<1> QED
  BY <1>3, <1>4, <1>5, <1>7, <1>8, <1>10 DEF Moves

\* For any number of windows: what was asked about runs after a yes to the
\* question, heard after it, with no "no" among the words.
THEOREM YesAnswersTheQuestion == Spec => VoiceYes
<1>1. Attending /\ [Next]_vars =>
        \A w \in Window :
            win[w].pc = "confirmed" /\ win'[w].pc \in {"act", "question"} =>
                /\ "no" \notin win'[w].text.words
                /\ "yes" \in win'[w].text.words
                /\ win'[w].text.at > win[w].asked
  <2> SUFFICES ASSUME Attending, [Next]_vars, NEW w \in Window,
                      win[w].pc = "confirmed", win'[w].pc \in {"act", "question"}
               PROVE  /\ "no" \notin win'[w].text.words
                      /\ "yes" \in win'[w].text.words
                      /\ win'[w].text.at > win[w].asked
    OBVIOUS
  <2>1. SaysYes(w)
    BY OnlyYesActs
  <2>2. win[w] \in WindowState /\ win[w].asked < win[w].text.at
    BY DEF Attending, Typed, Heard
  <2>3. win'[w].text = win[w].text
    BY <2>1, <2>2 DEF SaysYes, Answer, Attending, Typed, WindowState
  <2>4. "yes" \in win[w].text.words /\ "no" \notin win[w].text.words
    BY <2>1 DEF SaysYes, Answer, IsAffirmative
  <2>5. win[w].asked \in Nat /\ win[w].text.at \in Nat
    BY <2>2 DEF WindowState, Spoke
  <2> QED
    BY <2>2, <2>3, <2>4, <2>5
<1> QED
  BY <1>1, AlwaysAttending, PTL DEF Spec, VoiceYes

\* For any number of windows and backends: who talked over the assistant does
\* not hear the same words from its next voice.
THEOREM StaysSilent == Spec => BargeSilences
<1>1. Attending /\ [Next]_vars =>
        \A w \in Window :
            win[w].pc = "speak" /\ talk[w].cut => talk'[w].backend <= talk[w].backend
  <2> SUFFICES ASSUME Attending, [Next]_vars, NEW w \in Window,
                      win[w].pc = "speak", talk[w].cut
               PROVE  talk'[w].backend <= talk[w].backend
    OBVIOUS
  <2>1. Typed /\ talk[w] \in TalkState /\ talk[w].backend \in Nat
    BY DEF Attending, Typed, TalkState
  <2>2. talk[w].via = "barge"
    BY <2>1 DEF Attending, Attends, TalkState
  <2>3. CASE Stays(w)
    BY <2>1, <2>3 DEF Stays
  <2>4. CASE Moves(w)
    <3>1. ~BackendFails(w)
      BY <2>2 DEF BackendFails, MayTryNext, SpeechCut
    <3>2. CASE HungUp(w)
      BY <2>1, <3>2, VoiceAssumption DEF HungUp, NewTalk, Typed, TalkState
    <3>3. CASE Goroutine(w) \/ Spoken(w)
      BY <2>1, <3>3 DEF Goroutine, BargeCaptured, BargeTranscribed, BargeFails, Spoken
    <3>4. CASE \E words \in Words : BargeHears(w, words)
      BY <2>1, <3>4 DEF BargeHears, Typed, TalkState
    <3>5. /\ ~OpenStandalone(w) /\ ~\E words \in Words : Hears(w, words)
          /\ Program(w) => Spoken(w)
      BY <3>1 DEF OpenStandalone, Hears, Listening, Program, StopReturns, Begins, Exit,
              AfterSpeech, CancelBarge, Heeds, Drains, ServesPending, Listens,
              HearsNothing, TurnFails, TurnHeard, TurnEnds, TurnRuns, Answered, Asks,
              SaysYes, Declines, Acts
    <3> QED
      BY <2>4, <3>2, <3>3, <3>4, <3>5 DEF Moves
  <2>5. CASE ~Stays(w) /\ ~Moves(w)
    <3>1. \A v \in Window : ~Moves(v)
      BY <2>5, MovesAttending DEF OnlyWin
    <3>2. ~\E first \in {Nothing, unit.text} : UnitWakes(first)
      BY <2>5, OpensFromWatcher DEF OnlyWin, UnitWakes
    <3>3. ~UNCHANGED vars
      BY <2>5 DEF vars, history, Stays
    <3> QED
      BY <2>5, <3>1, <3>2, <3>3, StepCases, UnitAttending
  <2> QED
    BY <2>3, <2>4, <2>5
<1> QED
  BY <1>1, AlwaysAttending, PTL DEF Spec, BargeSilences

-----------------------------------------------------------------------------
(* One window from the keyboard: who owns the microphone.                  *)

\* Nothing keeps two windows of the keybinding apart, neither in the code nor
\* here: what follows is claimed for one.
OneWindow == \A v, w \in Standalone : v = w

Active(w) == win[w].pc \notin {"closed", "stop", "killed"}

\* The watcher listens only while its window is closed, and it is off, its
\* window closed, while a window from the keyboard runs.
Alone ==
    /\ win[Managed].pc \notin {"stop", "killed"}
    /\ unit.pc \in {"listen", "transcribe"} => ~Active(Managed)
    /\ \A w \in Standalone : Active(w) => unit.pc = "off" /\ ~Active(Managed)

\* A window that neither opens nor closes is active before and after.
LEMMA RunsOn ==
    ASSUME Attending, NEW w \in Window, Moves(w),
           ~(StopReturns(w) \/ Exit(w) \/ HungUp(w) \/ OpenStandalone(w))
    PROVE  unit' = unit /\ Active(w) /\ Active(w)'
<1>1. Typed /\ Attends(w) /\ win[w] \in WindowState /\ talk[w] \in TalkState
  BY DEF Attending, Typed
<1>2. unit' = unit /\ Active(w) /\ win'[w].pc \notin {"closed", "stop", "killed"}
  <2>1. CASE \/ Begins(w) \/ Spoken(w) \/ BackendFails(w) \/ CancelBarge(w)
             \/ ServesPending(w) \/ Listens(w) \/ HearsNothing(w) \/ TurnFails(w)
             \/ TurnHeard(w) \/ TurnEnds(w)
    BY <1>1, <2>1
       DEF Begins, Spoken, BackendFails, CancelBarge, ServesPending, Listens,
           HearsNothing, TurnFails, TurnHeard, TurnEnds, Goes, Typed, WindowState, Active
  <2>2. CASE TurnRuns(w) \/ Answered(w) \/ Asks(w) \/ SaysYes(w) \/ Declines(w) \/ Acts(w)
    BY <1>1, <2>2
       DEF TurnRuns, Answered, Asks, SaysYes, Declines, Acts, Typed, WindowState, Active
  <2>3. CASE AfterSpeech(w) \/ Heeds(w) \/ Drains(w)
    <3>1. win'[w].pc \in AfterSpeaking \cup {"heed", "cancelBarge"}
      BY <1>1, <2>3 DEF AfterSpeech, Heeds, Drains, Goes, Typed, WindowState, TalkState
    <3> QED
      BY <2>3, <3>1 DEF AfterSpeech, Heeds, Drains, Active, AfterSpeaking
  <2>4. CASE Goroutine(w) \/ \E words \in Words : BargeHears(w, words)
    <3>1. barge[w].pc # "none" /\ win' = win /\ unit' = unit
      BY <2>4 DEF Goroutine, BargeCaptured, BargeTranscribed, BargeFails, BargeHears
    <3>2. win[w].pc \in Speaking
      BY <1>1, <3>1 DEF Attends, NewBarge
    <3> QED
      BY <3>1, <3>2 DEF Active, Speaking
  <2>5. CASE \E words \in Words : Hears(w, words)
    <3>1. win'[w].pc \in {"transcribe", "answered", "confirmed"}
      BY <2>5, HearsQuietly
    <3> QED
      BY <2>5, <3>1 DEF Hears, Listening, Active
  <2> QED
    BY <2>1, <2>2, <2>3, <2>4, <2>5 DEF Moves, Program
<1> QED
  BY <1>2 DEF Active

LEMMA AloneInit == Init => Alone
<1> SUFFICES ASSUME Init PROVE Alone
  OBVIOUS
<1>1. \A w \in Window : win[w] = NewWindow
  BY DEF Init
<1>2. NewWindow.pc = "closed"
  BY DEF NewWindow
<1> QED
  BY <1>1, <1>2 DEF Alone, Active, Window

LEMMA AloneNext == OneWindow /\ Attending /\ Alone /\ [Next]_vars => Alone'
<1> SUFFICES ASSUME OneWindow, Attending, Alone, [Next]_vars PROVE Alone'
  OBVIOUS
<1>1. /\ Managed \in Window /\ Managed \notin Standalone /\ Standalone \subseteq Window
      /\ \A w \in Window : w = Managed \/ w \in Standalone
      /\ unit \in UnitState /\ win \in [Window -> WindowState]
  BY VoiceAssumption DEF Window, Attending, Typed, UnitState
<1>2. ASSUME NEW w \in Window, Moves(w) PROVE Alone'
  <2>1. \A v \in Window \ {w} : win'[v].pc = win[v].pc
    BY <1>2, MovesAttending DEF OnlyWin, Stays
  <2>2. CASE Exit(w)
    <3>1. win'[w].pc = "closed"
      BY <1>1, <2>2 DEF Exit, NewWindow
    <3>2. Active(w) /\ (unit' = unit \/ (w # Managed /\ unit'.pc = "listen"))
      BY <1>1, <2>2 DEF Exit, Resumed, Active, UnitState
    <3>3. CASE w = Managed
      BY <1>1, <2>1, <3>1, <3>2, <3>3 DEF Alone, Active
    <3>4. CASE w # Managed
      BY <1>1, <2>1, <3>1, <3>2, <3>4 DEF Alone, Active, OneWindow
    <3> QED
      BY <3>3, <3>4
  <2>3. CASE HungUp(w)
    <3>1. win'[w].pc = (IF w # Managed THEN "killed" ELSE "closed") /\ unit' = unit
      BY <2>3, Closes DEF HungUp
    <3> QED
      BY <1>1, <2>1, <3>1 DEF Alone, Active
  <2>4. CASE OpenStandalone(w)
    <3>1. win'[w].pc = (IF Stopped THEN "open" ELSE "stop") /\ w # Managed
      BY <2>4, OpensFromKeyboard
    <3>2. unit'.pc = unit.pc
      BY <1>1, <2>4 DEF OpenStandalone, UnitState
    <3>3. win'[Managed].pc = win[Managed].pc
      BY <1>1, <2>1, <3>1
    <3>4. Stopped => unit.pc = "off" /\ win[Managed].pc = "closed"
      BY DEF Stopped
    <3> QED
      BY <1>1, <2>1, <3>1, <3>2, <3>3, <3>4 DEF Alone, Active
  <2>5. CASE StopReturns(w)
    <3>1. unit.pc = "off" /\ win[Managed].pc = "closed" /\ w # Managed
      BY <2>5 DEF StopReturns, Stopped
    <3>2. unit'.pc = unit.pc /\ win'[Managed].pc = "closed"
      BY <1>1, <2>1, <2>5, <3>1 DEF StopReturns, UnitState
    <3> QED
      BY <1>1, <3>1, <3>2 DEF Alone, Active
  <2>6. CASE ~(StopReturns(w) \/ Exit(w) \/ HungUp(w) \/ OpenStandalone(w))
    <3>1. unit' = unit /\ Active(w) /\ Active(w)'
      BY <1>2, <2>6, RunsOn
    <3> QED
      BY <1>1, <2>1, <3>1 DEF Alone, Active
  <2> QED
    BY <2>2, <2>3, <2>4, <2>5, <2>6
<1>3. ASSUME NEW first \in {Nothing, unit.text}, UnitWakes(first) PROVE Alone'
  <2>1. /\ unit.pc = "transcribe" /\ unit'.pc = "window"
        /\ win'[Managed].pc = "open"
        /\ \A v \in Window \ {Managed} : win'[v].pc = win[v].pc
    BY <1>1, <1>3, OpensFromWatcher DEF UnitWakes, UnitState, OnlyWin, Stays
  <2> QED
    BY <1>1, <2>1 DEF Alone, Active
<1>4. CASE \/ \E words \in Words : UnitHears(words)
           \/ UnitIgnores \/ UnitResumes \/ UnitEnds
           \/ \E w \in Window : Interrupted(w)
  <2>1. \A v \in Window : win'[v].pc = win[v].pc
    BY <1>4, UnitAttending DEF Stays
  <2>2. \/ unit'.pc = unit.pc
        \/ unit.pc = "listen" /\ unit'.pc = "transcribe"
        \/ unit.pc = "transcribe" /\ unit'.pc = "listen"
        \/ unit'.pc = "listen" /\ win[Managed].pc = "closed" /\ unit.pc = "window"
        \/ unit'.pc = "off"
    BY <1>1, <1>4
       DEF UnitHears, UnitIgnores, UnitResumes, UnitEnds, Interrupted, UnitState,
           WindowClosed
  <2> QED
    BY <1>1, <2>1, <2>2 DEF Alone, Active
<1>5. CASE UNCHANGED vars
  BY <1>5 DEF vars, history, Alone, Active
<1> QED
  BY <1>2, <1>3, <1>4, <1>5, StepCases

\* Two captures of one state are the same.
LEMMA OneOwner ==
    ASSUME OneWindow, Attending, Alone, NEW x \in Captures, NEW y \in Captures
    PROVE  x = y
<1>1. Managed \in Window /\ \A w \in Window : w = Managed \/ w \in Standalone
  BY DEF Window
<1>2. ASSUME NEW w \in Window PROVE
        /\ barge[w].pc \in {"capturing", "hearing"} => win[w].pc \in Speaking
        /\ win[w].pc \in Speaking \cup Listening => Active(w)
        /\ Listening \cap Speaking = {}
  BY DEF Attending, Attends, NewBarge, Active, Speaking, Listening
<1>3. \A v, w \in Window : Active(v) /\ Active(w) => v = w
  BY <1>1 DEF Alone, OneWindow
<1>4. \A w \in Window : Active(w) => unit.pc # "listen"
  BY <1>1 DEF Alone
<1>5. ASSUME NEW c \in Captures
      PROVE  \/ c = <<"unit", "main">> /\ unit.pc = "listen"
             \/ \E w \in Window : c = <<w, "main">> /\ win[w].pc \in Listening
             \/ \E w \in Window : c = <<w, "barge">> /\ win[w].pc \in Speaking
  BY <1>2 DEF Captures
<1> QED
  BY <1>2, <1>3, <1>4, <1>5

\* With one window from the keyboard, whatever order it is opened, closed and
\* killed in while the watcher wakes and speech is talked over, the microphone
\* has at most one owner.
THEOREM OneOwnsTheMicrophone == OneWindow => (Spec => []OneCapture)
<1> SUFFICES ASSUME OneWindow PROVE Spec => []OneCapture
  OBVIOUS
<1>1. Attending /\ Alone => OneCapture
  <2> SUFFICES ASSUME Attending, Alone PROVE Cardinality(Captures) <= 1
    BY DEF OneCapture
  <2>1. CASE Captures = {}
    BY <2>1, FS_EmptySet
  <2>2. CASE Captures # {}
    <3>1. PICK x \in Captures : Captures = {x}
      BY <2>2, OneOwner
    <3> QED
      BY <3>1, FS_Singleton
  <2> QED
    BY <2>1, <2>2
<1>2. Attending /\ Alone /\ [Next]_vars => (Attending /\ Alone)'
  BY AttendingNext, AloneNext
<1>3. Init => Attending /\ Alone
  BY AttendingInit, AloneInit
<1> QED
  BY <1>1, <1>2, <1>3, PTL DEF Spec

-----------------------------------------------------------------------------
(* The order in which words are served.                                    *)

\* All the words a window owes are older than those it served last, or no later
\* than those that wait to be served or that the goroutine has just understood.
Settled(w) ==
    \/ \A at \in owed[w] : at < served[w]
    \/ win[w].pending # Nothing /\ \A at \in owed[w] : at <= win[w].pending.at
    \/ /\ barge[w].over /\ barge[w].pc = "done"
       /\ \A at \in owed[w] : at <= barge[w].words.at

\* What a window holds and has not served is later than what it served, and it
\* holds nothing when it listens for a turn or ends.
Ordered(w) ==
    /\ barge[w].words # Nothing =>
           /\ served[w] < barge[w].words.at
           /\ \A at \in owed[w] : at <= barge[w].words.at
    /\ barge[w].over => barge[w].words # Nothing
    /\ win[w].pending # Nothing => served[w] < win[w].pending.at
    /\ win[w].pc \in {"closed", "listen", "transcribe", "turn", "exit"} =>
           win[w].pending = Nothing
    /\ talk[w].next = "exit" => talk[w].via = "plain" /\ win[w].pending = Nothing
    /\ win[w].pc = "transcribe" => served[w] < win[w].text.at
    /\ \/ win[w].pc = "killed"
       \/ w = Managed /\ win[w].pc = "closed"
       \/ Settled(w)

\* The words of the watcher, too, are later than what its window served.
Wakes == unit.pc = "transcribe" => served[Managed] < unit.text.at

Serving == Attending /\ Alone /\ Wakes /\ \A w \in Window : Ordered(w)

LEMMA ServingInit == Init => Serving
<1> SUFFICES ASSUME Init PROVE Serving
  OBVIOUS
<1>1. \A w \in Window : /\ win[w] = NewWindow /\ talk[w] = NewTalk
                        /\ barge[w] = NewBarge /\ owed[w] = {} /\ served[w] = 0
  BY DEF Init
<1>2. \A w \in Window : Ordered(w)
  BY <1>1 DEF Ordered, Settled, NewWindow, NewTalk, NewBarge
<1> QED
  BY <1>2, AttendingInit, AloneInit DEF Serving, Wakes, Init

\* A window that is not speaking, before and after.
LEMMA OrderedQuietly ==
    ASSUME Attending, NEW w \in Window, Attends(w)',
           win'[w].pc \notin Speaking,
           win'[w].pending # Nothing => served'[w] < win'[w].pending.at,
           win'[w].pc \in {"closed", "listen", "transcribe", "turn", "exit"} =>
               win'[w].pending = Nothing,
           win'[w].pc = "transcribe" => served'[w] < win'[w].text.at,
           \/ win'[w].pc = "killed"
           \/ w = Managed /\ win'[w].pc = "closed"
           \/ (\A at \in owed'[w] : at < served'[w])
           \/ win'[w].pending # Nothing /\ (\A at \in owed'[w] : at <= win'[w].pending.at)
    PROVE  Ordered(w)'
<1>1. talk'[w] = NewTalk /\ barge'[w] = NewBarge
  BY DEF Attends
<1> QED
  BY <1>1 DEF Ordered, Settled, NewTalk, NewBarge

LEMMA SettledQuietly ==
    ASSUME Attending, NEW w \in Window, Ordered(w), win[w].pc \notin Speaking
    PROVE  \/ win[w].pc = "killed"
           \/ w = Managed /\ win[w].pc = "closed"
           \/ (\A at \in owed[w] : at < served[w])
           \/ win[w].pending # Nothing /\ (\A at \in owed[w] : at <= win[w].pending.at)
<1>1. barge[w] = NewBarge
  BY DEF Attending, Attends
<1> QED
  BY <1>1 DEF Ordered, Settled, NewBarge

\* Nothing is served but by a turn.
LEMMA ServesInTurn ==
    ASSUME Attending, NEW w \in Window, Moves(w), ~ServesPending(w), ~TurnHeard(w)
    PROVE  served' = served
<1>1. CASE \/ Begins(w) \/ Spoken(w) \/ BackendFails(w) \/ CancelBarge(w)
           \/ Listens(w) \/ HearsNothing(w) \/ TurnFails(w) \/ TurnEnds(w)
           \/ AfterSpeech(w) \/ Heeds(w) \/ Drains(w)
  BY <1>1 DEF Begins, Spoken, BackendFails, CancelBarge, Listens, HearsNothing,
              TurnFails, TurnEnds, AfterSpeech, Heeds, Drains, history
<1>2. CASE \/ TurnRuns(w) \/ Answered(w) \/ Asks(w) \/ SaysYes(w) \/ Declines(w)
           \/ Acts(w) \/ StopReturns(w) \/ Exit(w) \/ HungUp(w) \/ OpenStandalone(w)
  BY <1>2 DEF TurnRuns, Answered, Asks, SaysYes, Declines, Acts, StopReturns, Exit,
              HungUp, OpenStandalone, history
<1>3. CASE Goroutine(w) \/ \E words \in Words : Hears(w, words) \/ BargeHears(w, words)
  BY <1>3 DEF Goroutine, BargeCaptured, BargeTranscribed, BargeFails, Hears, BargeHears,
              history
<1> QED
  BY <1>1, <1>2, <1>3 DEF Moves, Program

\* The words owed change by a turn served and by the goroutine's words.
LEMMA OwesInTurn ==
    ASSUME Attending, NEW w \in Window, Moves(w), ~ServesPending(w), ~BargeTranscribed(w)
    PROVE  owed' = owed
<1>1. CASE \/ Begins(w) \/ Spoken(w) \/ BackendFails(w) \/ CancelBarge(w)
           \/ Listens(w) \/ HearsNothing(w) \/ TurnFails(w) \/ TurnEnds(w)
           \/ AfterSpeech(w) \/ Heeds(w) \/ Drains(w) \/ TurnHeard(w)
  BY <1>1 DEF Begins, Spoken, BackendFails, CancelBarge, Listens, HearsNothing,
              TurnFails, TurnEnds, AfterSpeech, Heeds, Drains, TurnHeard, history
<1>2. CASE \/ TurnRuns(w) \/ Answered(w) \/ Asks(w) \/ SaysYes(w) \/ Declines(w)
           \/ Acts(w) \/ StopReturns(w) \/ Exit(w) \/ HungUp(w) \/ OpenStandalone(w)
  BY <1>2 DEF TurnRuns, Answered, Asks, SaysYes, Declines, Acts, StopReturns, Exit,
              HungUp, OpenStandalone, history
<1>3. CASE Goroutine(w) \/ \E words \in Words : Hears(w, words) \/ BargeHears(w, words)
  BY <1>3 DEF Goroutine, BargeCaptured, BargeFails, Hears, BargeHears, history
<1> QED
  BY <1>1, <1>2, <1>3 DEF Moves, Program

\* The loop, and a turn or an answer heard.
LEMMA OrderedTurns ==
    ASSUME Attending, NEW w \in Window, Moves(w), Ordered(w),
           \/ StopReturns(w) \/ Listens(w) \/ TurnFails(w) \/ TurnHeard(w)
           \/ HearsNothing(w) /\ win[w].cancelled
           \/ Begins(w) /\ win[w].pending # Nothing
    PROVE  Ordered(w)'
<1>1. Typed /\ Heard(w) /\ win[w] \in WindowState /\ Attends(w)'
  BY MovesAttending DEF Attending, Typed
<1>2. /\ win'[w].pending = win[w].pending
      /\ win'[w].pc \in {"open", "loop", "listen", "turn", "exit"}
      /\ win[w].pc \notin Speaking \cup {"killed", "closed"}
      /\ win'[w].pc \in {"listen", "turn", "exit"} => win[w].pending = Nothing
  <2>1. CASE StopReturns(w) \/ Listens(w)
    BY <1>1, <2>1 DEF StopReturns, Listens, Goes, Typed, WindowState, Speaking
  <2>2. CASE TurnFails(w) \/ TurnHeard(w)
    BY <1>1, <2>2 DEF TurnFails, TurnHeard, Goes, Typed, WindowState, Speaking, Ordered
  <2>3. CASE \/ HearsNothing(w) /\ win[w].cancelled
             \/ Begins(w) /\ win[w].pending # Nothing
    BY <1>1, <2>3 DEF HearsNothing, Begins, Goes, Typed, WindowState, Speaking, Ordered
  <2> QED
    BY <2>1, <2>2, <2>3
<1>3. CASE TurnHeard(w)
  <2>1. /\ served'[w] = win[w].text.at /\ owed'[w] = owed[w]
        /\ win'[w].pending = Nothing /\ win[w].text.at \in Nat
        /\ win'[w].pc = "turn"
    BY <1>1, <1>2, <1>3 DEF TurnHeard, Goes, Typed, WindowState, Spoke, Ordered
  <2>2. served[w] < win[w].text.at /\ win[w].pc = "transcribe"
    BY <1>3 DEF TurnHeard, Ordered
  <2>3. \A at \in owed[w] : at < served[w]
    BY <1>2, <2>1, <2>2, SettledQuietly
  <2>4. \A at \in owed'[w] : at < served'[w]
    BY <1>1, <2>1, <2>2, <2>3 DEF Typed
  <2> QED
    BY <1>1, <1>2, <2>1, <2>4, OrderedQuietly DEF Speaking
<1>4. CASE ~TurnHeard(w)
  <2>1. ~ServesPending(w) /\ ~BargeTranscribed(w)
    <3>1. ~ServesPending(w)
      BY <1>1, <1>2, <1>4 DEF ServesPending, StopReturns, Listens, TurnFails, HearsNothing,
                        Begins
    <3>2. barge[w].pc = "none"
      BY <1>2 DEF Attending, Attends, NewBarge
    <3> QED
      BY <3>1, <3>2 DEF BargeTranscribed
  <2>2. UNCHANGED <<served, owed>>
    BY <1>4, <2>1, ServesInTurn, OwesInTurn
  <2>3. \/ (\A at \in owed[w] : at < served[w])
        \/ win[w].pending # Nothing /\ (\A at \in owed[w] : at <= win[w].pending.at)
    BY <1>2, SettledQuietly
  <2>4. win'[w].pending # Nothing => served'[w] < win'[w].pending.at
    BY <1>2, <2>2 DEF Ordered
  <2> QED
    BY <1>1, <1>2, <2>2, <2>3, <2>4, OrderedQuietly DEF Speaking
<1> QED
  BY <1>3, <1>4

\* Pending words served, an utterance heard, an answer taken.
LEMMA OrderedWords ==
    ASSUME Attending, NEW w \in Window, Moves(w), Ordered(w),
           \/ ServesPending(w) \/ \E words \in Words : Hears(w, words)
           \/ SaysYes(w) \/ Declines(w)
    PROVE  Ordered(w)'
<1>1. /\ Typed /\ Heard(w) /\ win[w] \in WindowState /\ Attends(w)'
      /\ owed[w] \subseteq Nat /\ served[w] \in Nat /\ said \in Nat
  BY MovesAttending, VoiceAssumption DEF Attending, Typed
<1>2. win[w].pc \notin Speaking \cup {"killed", "closed"}
  BY DEF ServesPending, Hears, SaysYes, Declines, Speaking, Listening
<1>3. barge[w].pc = "none"
  BY <1>2 DEF Attending, Attends, NewBarge
<1>4. ~ServesPending(w) => owed' = owed
  BY <1>3, OwesInTurn DEF BargeTranscribed
<1>5. \/ (\A at \in owed[w] : at < served[w])
      \/ win[w].pending # Nothing /\ (\A at \in owed[w] : at <= win[w].pending.at)
  BY <1>2, SettledQuietly
<1>6. CASE ServesPending(w)
  <2>1. /\ win'[w].pc = "turn" /\ win'[w].pending = Nothing
        /\ served'[w] = win[w].pending.at
        /\ owed'[w] = owed[w] \ NumberOf(win[w].pending)
    BY <1>1, <1>6, ServesQuietly DEF ServesPending, Typed
  <2>2. win[w].pending.at \in Nat /\ served[w] < win[w].pending.at
    BY <1>1, <1>6 DEF WindowState, Spoke, ServesPending, Ordered
  <2>3. \A at \in owed'[w] : at # win[w].pending.at
    BY <2>1, <2>2, <1>1 DEF NumberOf
  <2>4. \A at \in owed'[w] : at < served'[w]
    BY <1>1, <1>5, <2>1, <2>2, <2>3
  <2> QED
    BY <1>1, <2>1, <2>4, OrderedQuietly DEF Speaking
<1>7. ASSUME NEW words \in Words, Hears(w, words) PROVE Ordered(w)'
  <2>1. /\ win'[w].text.at = said + 1 /\ win'[w].pending = win[w].pending
        /\ win'[w].pc \in {"transcribe", "answered", "confirmed"}
        /\ win'[w].pc = "transcribe" <=> win[w].pc = "listen"
        /\ served' = served
    BY <1>7, HearsQuietly DEF Hears
  <2>2. win[w].pc = "listen" => win[w].pending = Nothing
    BY DEF Ordered
  <2>3. served[w] < said + 1
    BY <1>1 DEF Heard
  <2>4. win'[w].pending # Nothing => served'[w] < win'[w].pending.at
    BY <2>1 DEF Ordered
  <2> QED
    BY <1>1, <1>4, <1>5, <1>7, <2>1, <2>2, <2>3, <2>4, OrderedQuietly
       DEF Speaking, Hears, ServesPending, Listening
<1>8. CASE SaysYes(w) \/ Declines(w)
  <2>1. /\ win'[w].pending = win[w].pending /\ served' = served
        /\ win'[w].pc \in {"act", "question", "loop"}
    <3>1. win'[w].pc \in {"act", "question", "loop"}
      BY <1>1, <1>8 DEF SaysYes, Declines, Typed, WindowState
    <3> QED
      BY <1>8, <3>1, AnswersQuietly DEF SaysYes, Declines, history
  <2>2. win'[w].pending # Nothing => served'[w] < win'[w].pending.at
    BY <2>1 DEF Ordered
  <2> QED
    BY <1>1, <1>4, <1>5, <1>8, <2>1, <2>2, OrderedQuietly
       DEF Speaking, SaysYes, Declines, ServesPending
<1> QED
  BY <1>6, <1>7, <1>8

\* A window closes, or is opened from the keyboard.
LEMMA OrderedDoors ==
    ASSUME Attending, NEW w \in Window, Moves(w), Ordered(w),
           HungUp(w) \/ Exit(w) \/ OpenStandalone(w)
    PROVE  Ordered(w)'
<1>1. Attends(w)' /\ win'[w].pending = Nothing /\ UNCHANGED <<owed, served>>
  BY MovesAttending, Closes, OpensFromKeyboard
     DEF HungUp, Exit, OpenStandalone, history
<1>2. CASE HungUp(w)
  <2>1. win'[w].pc = (IF w # Managed THEN "killed" ELSE "closed")
    BY <1>2, Closes
  <2>2. \/ win'[w].pc = "killed"
        \/ w = Managed /\ win'[w].pc = "closed"
    BY <2>1
  <2>3. win'[w].pc \notin Speaking /\ win'[w].pc # "transcribe"
    BY <2>2 DEF Speaking
  <2> QED
    BY <1>1, <2>2, <2>3, OrderedQuietly
<1>3. CASE Exit(w) /\ ~HungUp(w)
  <2>1. win'[w].pc = "closed"
    BY <1>3, Closes
  <2>2. (\A at \in owed[w] : at < served[w])
    <3>1. win[w].pc = "exit" /\ win[w].pending = Nothing
      BY <1>3 DEF Exit, Ordered
    <3> QED
      BY <3>1, SettledQuietly DEF Speaking
  <2> QED
    BY <1>1, <2>1, <2>2, OrderedQuietly DEF Speaking
<1>4. CASE OpenStandalone(w)
  <2>1. win'[w].pc \in {"open", "stop"} /\ w # Managed
    BY <1>4, OpensFromKeyboard
  <2>2. (\A at \in owed[w] : at < served[w])
    <3>1. win[w].pc = "closed" /\ win[w].pending = Nothing
      BY <1>4 DEF OpenStandalone, Ordered
    <3> QED
      BY <2>1, <3>1, SettledQuietly DEF Speaking
  <2> QED
    BY <1>1, <2>1, <2>2, OrderedQuietly DEF Speaking
<1> QED
  BY <1>2, <1>3, <1>4

\* The watcher's words are the first of its window.
LEMMA OrderedWakes ==
    ASSUME Attending, Wakes, NEW first \in {Nothing, unit.text}, UnitWakes(first)
    PROVE  Ordered(Managed)' /\ served' = served
<1>1. /\ Attends(Managed)' /\ win'[Managed].pending = first
      /\ win'[Managed].pc = "open" /\ owed'[Managed] = NumberOf(first)
  BY OpensFromWatcher
<1>2. /\ served' = served /\ unit.pc = "transcribe" /\ Managed \in Window
      /\ served[Managed] \in Nat /\ first.at \in Nat
  BY NewStates DEF UnitWakes, Attending, Typed, Window, Spoke
<1>3. first # Nothing => served[Managed] < first.at
  BY <1>2 DEF Wakes
<1>4. first = Nothing => (\A at \in owed'[Managed] : at < served'[Managed])
  BY <1>1, <1>2, NewStates, NumberOfType
<1>5. first # Nothing => \A at \in owed'[Managed] : at <= first.at
  BY <1>1, <1>2 DEF NumberOf
<1> QED
  BY <1>1, <1>2, <1>3, <1>4, <1>5, OrderedQuietly DEF Speaking

\* A window starts to speak.
LEMMA OrderedSpeaks ==
    ASSUME Attending, NEW w \in Window, Moves(w), Ordered(w),
           \/ Begins(w) /\ win[w].pending = Nothing
           \/ HearsNothing(w) /\ ~win[w].cancelled
           \/ TurnEnds(w) \/ TurnRuns(w) \/ Answered(w) \/ Asks(w) \/ Acts(w)
    PROVE  Ordered(w)'
<1>1. /\ win'[w].pc = "speak" /\ win'[w].pending = win[w].pending
      /\ talk'[w].next = "exit" =>
             talk'[w].via = "plain" /\ win[w].pc \in {"listen", "turn"}
      /\ barge'[w].words = Nothing /\ ~barge'[w].over
  BY Speaks
<1>2. /\ UNCHANGED <<owed, served>>
      /\ win[w].pc \notin Speaking \cup {"killed", "closed"}
  BY DEF Begins, HearsNothing, TurnEnds, TurnRuns, Answered, Asks, Acts, history, Speaking
<1>3. \/ (\A at \in owed[w] : at < served[w])
      \/ win[w].pending # Nothing /\ (\A at \in owed[w] : at <= win[w].pending.at)
  BY <1>2, SettledQuietly
<1>4. win[w].pc \in {"listen", "turn"} => win[w].pending = Nothing
  BY DEF Ordered
<1>5. win[w].pending # Nothing => served[w] < win[w].pending.at
  BY DEF Ordered
<1>6. Settled(w)'
  BY <1>1, <1>2, <1>3 DEF Settled
<1> QED
  BY <1>1, <1>2, <1>4, <1>5, <1>6 DEF Ordered

\* The speech goes on, or is over.
LEMMA OrderedSpeech ==
    ASSUME Attending, NEW w \in Window, Moves(w), Ordered(w),
           \/ Spoken(w) \/ CancelBarge(w) \/ AfterSpeech(w)
           \/ Heeds(w) \/ Drains(w)
    PROVE  Ordered(w)'
<1>1. UNCHANGED <<owed, served>> /\ win[w].pc \in Speaking
  BY DEF Spoken, CancelBarge, AfterSpeech, Heeds, Drains, history, Speaking
<1>2. Settled(w)
  BY <1>1 DEF Ordered, Speaking
<1>3. CASE \/ Spoken(w) \/ CancelBarge(w)
           \/ AfterSpeech(w) /\ talk[w].via # "plain"
  <2>1. /\ win'[w].pc \in Speaking /\ win'[w].pending = win[w].pending
        /\ talk' = talk /\ barge' = barge
    BY <1>3, GoesOnSpeaking
  <2>2. Settled(w)'
    BY <1>1, <1>2, <2>1 DEF Settled
  <2> QED
    BY <1>1, <2>1, <2>2 DEF Ordered, Speaking
<1>4. CASE \/ AfterSpeech(w) /\ talk[w].via = "plain"
           \/ Heeds(w) \/ Drains(w)
  <2>1. /\ Attends(w)' /\ win'[w].pc = talk[w].next
        /\ win'[w].pending = (IF Heeds(w) /\ barge[w].words # Nothing
                              THEN barge[w].words ELSE win[w].pending)
        /\ barge[w].over => Heeds(w)
        /\ Heeds(w) => talk[w].via = "barge"
    BY <1>4, SpeechOver
  <2>2. talk[w].next \in AfterSpeaking
    BY DEF Attending, Typed, TalkState
  <2>3. win'[w].pending # Nothing => served'[w] < win'[w].pending.at
    BY <1>1, <2>1 DEF Ordered
  <2>4. talk[w].next = "exit" => win'[w].pending = Nothing
    BY <2>1 DEF Ordered
  <2>5. \/ (\A at \in owed[w] : at < served[w])
        \/ win'[w].pending # Nothing /\ (\A at \in owed[w] : at <= win'[w].pending.at)
    BY <1>2, <2>1 DEF Ordered, Settled
  <2>6. /\ win'[w].pc \notin Speaking /\ win'[w].pc # "transcribe"
        /\ win'[w].pc \in {"closed", "listen", "transcribe", "turn", "exit"} =>
               win'[w].pending = Nothing
    BY <2>1, <2>2, <2>4 DEF AfterSpeaking, Speaking
  <2>7. \/ (\A at \in owed'[w] : at < served'[w])
        \/ win'[w].pending # Nothing /\ (\A at \in owed'[w] : at <= win'[w].pending.at)
    BY <1>1, <2>5
  <2> QED
    BY <2>1, <2>3, <2>6, <2>7, OrderedQuietly
<1> QED
  BY <1>3, <1>4

\* What happens to the speech and its goroutine.
LEMMA OrderedOverTheVoice ==
    ASSUME Attending, NEW w \in Window, Moves(w), Ordered(w),
           \/ BackendFails(w) \/ Goroutine(w)
           \/ \E words \in Words : BargeHears(w, words)
    PROVE  Ordered(w)'
<1>1. /\ Typed /\ Heard(w) /\ Attends(w) /\ talk[w] \in TalkState
      /\ barge[w] \in BargeState /\ owed[w] \subseteq Nat /\ served[w] \in Nat
      /\ said \in Nat /\ win' = win /\ served' = served
  BY OverTheVoice, VoiceAssumption DEF Attending, Typed
<1>2. win[w].pc \in Speaking
  <2>1. BackendFails(w) => win[w].pc = "speak"
    BY DEF BackendFails
  <2>2. ~BackendFails(w) => barge[w].pc # "none"
    BY DEF Goroutine, BargeCaptured, BargeTranscribed, BargeFails, BargeHears
  <2> QED
    BY <1>1, <2>1, <2>2 DEF Attends, NewBarge, Speaking
<1>3. Settled(w)
  BY <1>2 DEF Ordered, Speaking
<1>4. CASE BackendFails(w)
  <2>1. /\ UNCHANGED <<barge, owed>>
        /\ talk'[w].next = talk[w].next /\ talk'[w].via = talk[w].via
    BY <1>1, <1>4 DEF BackendFails, history, Typed, TalkState
  <2> QED
    BY <1>1, <1>3, <2>1 DEF Ordered, Settled
<1>5. ASSUME NEW words \in Words, BargeHears(w, words) PROVE Ordered(w)'
  <2>1. /\ Utterance(words).at = said + 1 /\ Utterance(words) # Nothing
    BY <1>1, <1>5, UtteranceType DEF BargeHears
  <2>2. /\ barge'[w].pc = "hearing" /\ barge'[w].words = Utterance(words)
        /\ barge[w].pc = "capturing" /\ owed' = owed
        /\ talk'[w].next = talk[w].next /\ talk'[w].via = talk[w].via
    BY <1>1, <1>5 DEF BargeHears, Typed, TalkState
  <2>3. served[w] < said + 1 /\ (\A at \in owed[w] : at <= said + 1)
    BY <1>1 DEF Heard
  <2>4. Settled(w)'
    BY <1>1, <1>3, <2>2 DEF Settled
  <2> QED
    BY <1>1, <1>2, <2>1, <2>2, <2>3, <2>4 DEF Ordered, Speaking
<1>6. CASE BargeCaptured(w)
  <2>1. /\ barge'[w].pc = "transcribing" /\ barge'[w].words = barge[w].words
        /\ barge'[w].over = barge[w].over /\ barge[w].pc = "hearing"
        /\ UNCHANGED <<talk, owed>>
    BY <1>1, <1>6 DEF BargeCaptured, history, Typed, BargeState
  <2>2. Settled(w)'
    BY <1>1, <1>3, <2>1 DEF Settled
  <2> QED
    BY <1>1, <1>2, <2>1, <2>2 DEF Ordered, Speaking
<1>7. CASE BargeTranscribed(w)
  <2>1. /\ barge'[w].pc = "done" /\ barge'[w].words = barge[w].words
        /\ barge'[w].over = barge[w].over /\ barge[w].pc = "transcribing"
        /\ owed'[w] = (IF barge[w].over THEN owed[w] \cup NumberOf(barge[w].words)
                     ELSE owed[w])
        /\ talk' = talk
    BY <1>1, <1>7 DEF BargeTranscribed, Typed, BargeState
  <2>2. barge[w].words.at \in Nat
    BY <1>1 DEF BargeState, Spoke
  <2>3. /\ barge[w].words # Nothing /\ served[w] < barge[w].words.at
        /\ \A at \in owed[w] : at <= barge[w].words.at
    BY <1>1, <2>1 DEF Attends, Ordered
  <2>4. \A at \in owed'[w] : at <= barge[w].words.at
    BY <2>1, <2>2, <2>3 DEF NumberOf
  <2>5. Settled(w)'
    BY <1>1, <1>3, <2>1, <2>4 DEF Settled
  <2> QED
    BY <1>1, <1>2, <2>1, <2>3, <2>4, <2>5 DEF Ordered, Speaking
<1>8. CASE BargeFails(w)
  <2>1. /\ barge'[w].words = Nothing /\ ~barge'[w].over
        /\ barge[w].pc # "done" /\ UNCHANGED <<talk, owed>>
    BY <1>1, <1>8 DEF BargeFails, history, Typed, NewBarge
  <2>2. Settled(w)'
    BY <1>1, <1>3, <2>1 DEF Settled
  <2> QED
    BY <1>1, <1>2, <2>1, <2>2 DEF Ordered, Speaking
<1> QED
  BY <1>4, <1>5, <1>6, <1>7, <1>8 DEF Goroutine

LEMMA MovesOrdered ==
    ASSUME Attending, NEW w \in Window, Moves(w), Ordered(w)
    PROVE  Ordered(w)'
<1>1. CASE \/ StopReturns(w) \/ Listens(w) \/ TurnFails(w) \/ TurnHeard(w)
           \/ HearsNothing(w) /\ win[w].cancelled
           \/ Begins(w) /\ win[w].pending # Nothing
  BY <1>1, OrderedTurns
<1>2. CASE \/ ServesPending(w) \/ \E words \in Words : Hears(w, words)
           \/ SaysYes(w) \/ Declines(w)
  BY <1>2, OrderedWords
<1>3. CASE HungUp(w) \/ Exit(w) \/ OpenStandalone(w)
  BY <1>3, OrderedDoors
<1>4. CASE \/ Begins(w) /\ win[w].pending = Nothing
           \/ HearsNothing(w) /\ ~win[w].cancelled
           \/ TurnEnds(w) \/ TurnRuns(w) \/ Answered(w) \/ Asks(w) \/ Acts(w)
  BY <1>4, OrderedSpeaks
<1>5. CASE \/ Spoken(w) \/ CancelBarge(w) \/ AfterSpeech(w)
           \/ Heeds(w) \/ Drains(w)
  BY <1>5, OrderedSpeech
<1>6. CASE \/ BackendFails(w) \/ Goroutine(w)
           \/ \E words \in Words : BargeHears(w, words)
  BY <1>6, OrderedOverTheVoice
<1> QED
  BY <1>1, <1>2, <1>3, <1>4, <1>5, <1>6 DEF Moves, Program

LEMMA StaysOrdered ==
    ASSUME NEW v \in Window, Ordered(v), Stays(v)
    PROVE  Ordered(v)'
BY DEF Ordered, Settled, Stays

LEMMA ServingNext == OneWindow /\ Serving /\ [Next]_vars => Serving'
<1> SUFFICES ASSUME OneWindow, Serving, [Next]_vars PROVE Serving'
  OBVIOUS
<1>1. Attending' /\ Alone'
  BY AttendingNext, AloneNext DEF Serving
<1>2. ASSUME NEW v \in Window PROVE Ordered(v)'
  <2>1. CASE Stays(v)
    BY <2>1, StaysOrdered DEF Serving
  <2>2. CASE Moves(v)
    BY <2>2, MovesOrdered DEF Serving
  <2>3. CASE ~Stays(v) /\ ~Moves(v)
    <3>1. \A w \in Window : ~Moves(w)
      BY <2>3, MovesAttending DEF OnlyWin, Serving
    <3>2. ~UNCHANGED vars
      BY <2>3 DEF vars, history, Stays
    <3>3. PICK first \in {Nothing, unit.text} : UnitWakes(first)
      BY <2>3, <3>1, <3>2, StepCases, UnitAttending DEF Serving
    <3>4. v = Managed
      BY <2>3, <3>3, OpensFromWatcher DEF OnlyWin, Serving
    <3> QED
      BY <3>3, <3>4, OrderedWakes DEF Serving
  <2> QED
    BY <2>1, <2>2, <2>3
<1>3. Wakes'
  <2>1. /\ Managed \in Window /\ served[Managed] \in Nat /\ served[Managed] <= said
        /\ said \in Nat /\ unit \in UnitState /\ Attending /\ Typed
    BY VoiceAssumption DEF Serving, Attending, Typed, Heard, Window, UnitState
  <2>2. CASE \E w \in Window : Moves(w)
    <3>1. PICK w \in Window : Moves(w)
      BY <2>2
    <3>2. unit'.pc = "transcribe" => unit.pc = "transcribe" /\ unit'.text = unit.text
      <4>1. CASE StopReturns(w) \/ OpenStandalone(w)
        <5>1. PICK b : unit' = [unit EXCEPT !.stopping = b]
          BY <4>1 DEF StopReturns, OpenStandalone
        <5> QED
          BY <2>1, <5>1 DEF UnitState
      <4>2. CASE Exit(w)
        BY <2>1, <4>2 DEF Exit, Resumed, UnitState
      <4>3. CASE HungUp(w)
        BY <4>3 DEF HungUp
      <4>4. CASE ~(StopReturns(w) \/ Exit(w) \/ HungUp(w) \/ OpenStandalone(w))
        BY <2>1, <3>1, <4>4, RunsOn
      <4> QED
        BY <4>1, <4>2, <4>3, <4>4
    <3>3. unit.pc = "transcribe" => served'[Managed] = served[Managed]
      <4>1. CASE w # Managed
        BY <2>1, <3>1, <4>1, MovesAttending DEF OnlyWin, Stays
      <4>2. CASE w = Managed
        <5>1. ServesPending(w) \/ TurnHeard(w) => Active(w)
          BY DEF ServesPending, TurnHeard, Active
        <5> QED
          BY <2>1, <3>1, <4>2, <5>1, ServesInTurn DEF Serving, Alone
      <4> QED
        BY <4>1, <4>2
    <3> QED
      BY <3>2, <3>3 DEF Wakes, Serving
  <2>3. CASE \E first \in {Nothing, unit.text} : UnitWakes(first)
    BY <2>1, <2>3 DEF UnitWakes, Wakes, UnitState
  <2>4. CASE \E words \in Words : UnitHears(words)
    <3>1. PICK words \in Words : UnitHears(words)
      BY <2>4
    <3>2. said < MaxSaid /\ unit'.text = Utterance(words) /\ served' = served
      BY <2>1, <3>1 DEF UnitHears, UnitOnly, UnitState
    <3>3. Utterance(words).at = said + 1
      BY DEF Utterance
    <3>4. unit'.text.at = said + 1
      BY <3>2, <3>3
    <3> QED
      BY <2>1, <3>2, <3>4 DEF Wakes
  <2>5. CASE UnitIgnores \/ UnitResumes \/ UnitEnds
    BY <2>1, <2>5 DEF UnitIgnores, UnitResumes, UnitEnds, UnitState, Wakes
  <2>6. CASE (\E w \in Window : Interrupted(w)) \/ UNCHANGED vars
    <3>1. UNCHANGED <<unit, served>>
      BY <2>6 DEF Interrupted, vars, history
    <3> QED
      BY <3>1 DEF Wakes, Serving
  <2> QED
    BY <2>2, <2>3, <2>4, <2>5, <2>6, StepCases
<1> QED
  BY <1>1, <1>2, <1>3 DEF Serving

\* A turn, and a window that listens for one, begin as they should.
LEMMA ServesInOrder ==
    ASSUME Serving, NEW w \in Window, Moves(w)
    PROVE  /\ served'[w] # served[w] => served'[w] > served[w]
           /\ win[w].pc = "loop" /\ win'[w].pc = "turn" => served'[w] > served[w]
           /\ win[w].pc = "loop" /\ win'[w].pc = "listen" =>
                  \A at \in owed[w] : at < served[w]
<1>1. /\ Attending /\ Typed /\ Ordered(w) /\ win[w] \in WindowState
      /\ served[w] \in Nat /\ owed[w] \subseteq Nat
  BY DEF Serving, Attending, Typed
<1>2. win[w].pending.at \in Nat /\ win[w].text.at \in Nat
  BY <1>1 DEF WindowState, Spoke
<1>3. ServesPending(w) => served'[w] > served[w]
  <2>1. ServesPending(w) => served'[w] = win[w].pending.at /\ win[w].pending # Nothing
    BY <1>1 DEF ServesPending, Typed
  <2> QED
    BY <1>1, <1>2, <2>1 DEF Ordered
<1>4. TurnHeard(w) => served'[w] > served[w] /\ win[w].pc # "loop"
  <2>1. TurnHeard(w) => served'[w] = win[w].text.at /\ win[w].pc = "transcribe"
    BY <1>1 DEF TurnHeard, Typed
  <2> QED
    BY <1>1, <1>2, <2>1 DEF Ordered
<1>5. CASE win[w].pc = "loop"
  <2>1. ~Goroutine(w)
    BY <1>1, <1>5 DEF Attending, Attends, Speaking, NewBarge, Goroutine, BargeCaptured,
                      BargeTranscribed, BargeFails
  <2>2. ServesPending(w) \/ Listens(w) \/ HungUp(w)
    BY <1>5, <2>1
       DEF Moves, Program, OpenStandalone, Hears, BargeHears, Listening, StopReturns,
           Begins, Exit, Spoken, BackendFails, AfterSpeech, CancelBarge, Heeds, Drains,
           HearsNothing, TurnFails, TurnHeard, TurnEnds, TurnRuns, Answered, Asks,
           SaysYes, Declines, Acts
  <2>3. HungUp(w) => win'[w].pc \in {"closed", "killed"} /\ served' = served
    BY <1>1, Closes DEF HungUp, history
  <2>4. Listens(w) => /\ win'[w].pc = "listen" /\ served' = served
                      /\ win[w].pending = Nothing
    BY <1>1 DEF Listens, Goes, history, Typed, WindowState
  <2>5. ServesPending(w) => win'[w].pc = "turn"
    BY <1>1, ServesQuietly
  <2>6. win[w].pending = Nothing => \A at \in owed[w] : at < served[w]
    BY <1>1, <1>5, SettledQuietly DEF Speaking
  <2> QED
    BY <1>3, <2>2, <2>3, <2>4, <2>5, <2>6
<1>6. CASE win[w].pc # "loop"
  <2>1. served'[w] # served[w] => served'[w] > served[w]
    BY <1>1, <1>3, <1>4, ServesInTurn
  <2> QED
    BY <1>6, <2>1
<1> QED
  BY <1>5, <1>6

\* With one window from the keyboard: what is said over the voice, before the
\* window opens or while it waits is served at most once and in the order it was
\* said, and what a window still owes when it listens anew is older than what it
\* served last: words are lost only to later ones.
THEOREM ServesEachOnce == OneWindow => (Spec => WordsServedOnce)
<1> SUFFICES ASSUME OneWindow PROVE Spec => WordsServedOnce
  OBVIOUS
<1>1. Serving /\ [Next]_vars =>
        \A w \in Window :
            /\ served'[w] # served[w] => served'[w] > served[w]
            /\ win[w].pc = "loop" /\ win'[w].pc = "turn" => served'[w] > served[w]
            /\ win[w].pc = "loop" /\ win'[w].pc = "listen" =>
                   \A at \in owed[w] : at < served[w]
  <2> SUFFICES ASSUME Serving, [Next]_vars, NEW w \in Window
               PROVE  /\ served'[w] # served[w] => served'[w] > served[w]
                      /\ win[w].pc = "loop" /\ win'[w].pc = "turn" =>
                             served'[w] > served[w]
                      /\ win[w].pc = "loop" /\ win'[w].pc = "listen" =>
                             (\A at \in owed[w] : at < served[w])
    OBVIOUS
  <2>1. CASE Stays(w)
    BY <2>1 DEF Stays
  <2>2. CASE Moves(w)
    BY <2>2, ServesInOrder
  <2>3. CASE ~Stays(w) /\ ~Moves(w)
    <3>1. \A v \in Window : ~Moves(v)
      BY <2>3, MovesAttending DEF OnlyWin, Serving
    <3>2. ~UNCHANGED vars
      BY <2>3 DEF vars, history, Stays
    <3>3. PICK first \in {Nothing, unit.text} : UnitWakes(first)
      BY <2>3, <3>1, <3>2, StepCases, UnitAttending DEF Serving
    <3>4. w = Managed
      BY <2>3, <3>3, OpensFromWatcher DEF OnlyWin, Serving
    <3> QED
      BY <3>3, <3>4 DEF UnitWakes
  <2> QED
    BY <2>1, <2>2, <2>3
<1>2. Serving /\ [Next]_vars => Serving'
  BY ServingNext
<1> QED
  BY <1>1, <1>2, ServingInit, PTL DEF Spec, WordsServedOnce

=============================================================================
