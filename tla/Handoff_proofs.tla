--------------------------- MODULE Handoff_proofs ----------------------------
(***************************************************************************)
(* What the assistant types into Claude's sessions, for any number of      *)
(* sessions, questions and wordings and any limits: it answers nothing in  *)
(* a watch that saw a permission, answers what it read, and answers it     *)
(* once as long as questions are given back in the words of the screen.    *)
(***************************************************************************)
EXTENDS Handoff, TLAPS

Shown == {"starting", "trust", "ready", "working", "design", "permission"}

Screen == [at : Shown \cup {"none", "opening"}, q : Nat]

Shaped ==
    /\ screen \in [Session -> Screen]
    /\ active \in Session \cup {None}
    /\ asked \in Nat /\ lastQ \in Text \cup {NoText} /\ relayed \subseteq Nat
    /\ seen \in [session : Session \cup {None}, at : Shown \cup {"none"}, q : Nat]

\* The session that is active is open; one that is not, or has not shown
\* anything yet, has no question.
Numbered ==
    /\ active # None => screen[active].at \in Shown
    /\ \A s \in Session :
          /\ screen[s].q <= asked
          /\ screen[s].at \in {"none", "opening", "starting"} => screen[s].q = 0

\* What was read off the capture is what the assistant acts on; a permission
\* ends its watch.
Drafted ==
    /\ pc = "relay" => seen.at # "trust"
    /\ pc = "read" => seen.at \in Shown
    /\ "permission" \in marks => pc = "ended"
    /\ pc = "answer" /\ "strayed" \notin marks =>
           lastQ = [of |-> seen.q, in |-> Verbatim]

Before == {"plan", "ask", "offer", "new", "wait", "relay", "stay"}

\* While s is the only session watched its questions come in order, on the
\* screen and in the capture, and, given back word for word, among the answers.
Follows(s) ==
    /\ screen[s].at # "opening"
    /\ \/ screen[s].at = "none"
       \/ screen[s].q >= lastQ.of /\ (pc = "read" => screen[s].q >= seen.q)
    /\ pc = "read" => seen.q >= lastQ.of
    /\ "strayed" \notin marks =>
          /\ lastQ.in = Verbatim \/ relayed = {}
          /\ \A q \in relayed : q <= lastQ.of /\ (pc = "answer" => q < lastQ.of)

InOrder ==
    /\ pc \in Before => watched = {}
    /\ pc \in {"read", "answer"} => watched # {}
    /\ watched = {} => relayed = {} /\ lastQ.of = 0
    /\ \A s \in Session : watched = {s} => Follows(s)

IInv == Shaped /\ Numbered /\ Drafted /\ InOrder

-----------------------------------------------------------------------------
LEMMA TextType ==
    /\ NoText.of = 0 /\ NoText.in # Verbatim
    /\ \A text \in Text \cup {NoText} : text.of \in Nat
BY HandoffAssumption DEF Text, NoText, Wordings

LEMMA IInvInit == Init => IInv
<1> SUFFICES ASSUME Init PROVE IInv
  OBVIOUS
<1>1. \A s \in Session : screen[s] \in {Blank, [at |-> "working", q |-> 0]}
  BY DEF Init
<1>2. /\ Blank \in Screen /\ Blank.at = "none" /\ Blank.q = 0
      /\ [at |-> "working", q |-> 0] \in Screen
  BY DEF Blank, Screen, Shown
<1>3. active \in Session \cup {None} /\ (active # None => screen[active] # Blank)
  <2>1. CASE \A s \in Session : screen[s] = Blank
    BY <2>1 DEF Init
  <2>2. CASE ~(\A s \in Session : screen[s] = Blank)
    BY <2>2 DEF Init
  <2> QED
    BY <2>1, <2>2
<1>4. screen \in [Session -> Screen]
  BY <1>1, <1>2 DEF Init
<1>5. Unseen \in [session : Session \cup {None}, at : Shown \cup {"none"}, q : Nat]
  BY DEF Unseen
<1>6. Shaped
  BY <1>3, <1>4, <1>5 DEF Init, Shaped
<1>7. Numbered
  BY <1>1, <1>2, <1>3 DEF Init, Numbered, Shown
<1>8. Drafted /\ InOrder
  BY TextType DEF Init, Drafted, InOrder
<1> QED
  BY <1>6, <1>7, <1>8 DEF IInv

\* A step of the assistant that only moves on.
LEMMA MovesOn ==
    ASSUME IInv, pc' \notin {"relay", "read", "answer"},
           pc' \in Before => pc \in Before,
           UNCHANGED <<screen, active, asked, lastQ, seen, relayed, watched>>,
           marks' \cap {"strayed"} = marks \cap {"strayed"},
           "permission" \in marks' => pc' = "ended"
    PROVE  IInv'
<1>1. Shaped' /\ Numbered' /\ Drafted'
  BY DEF IInv, Shaped, Numbered, Drafted
<1>2. InOrder'
  BY DEF IInv, InOrder, Follows
<1> QED
  BY <1>1, <1>2 DEF IInv

LEMMA MovesOnUnmarked ==
    ASSUME IInv, pc # "ended", pc' \notin {"relay", "read", "answer"},
           pc' \in Before => pc \in Before,
           UNCHANGED <<screen, active, asked, lastQ, seen, relayed, watched, marks>>
    PROVE  IInv'
BY MovesOn DEF IInv, Drafted

\* A session shows something new: the text of a screen may be lost, a question
\* on it is not taken back while it is open.
LEMMA ShowsStep ==
    ASSUME IInv, NEW s \in Session, NEW at \in Shown, NEW q \in Nat,
           Shows(s, at, q), screen[s].at # "none",
           q >= screen[s].q, q <= asked', asked' \in Nat, asked' >= asked,
           at = "starting" => q = 0,
           screen[s].at = "opening" => pc \in Before \/ watched # {s}
    PROVE  IInv'
<1>1. /\ screen' = [screen EXCEPT ![s] = [at |-> at, q |-> q]]
      /\ active' \in {s, active}
      /\ UNCHANGED <<pc, lastQ, seen, relayed, watched, marks>>
  BY DEF Shows
<1>2. \A x \in Session : screen'[x] = IF x = s THEN [at |-> at, q |-> q] ELSE screen[x]
  BY <1>1 DEF IInv, Shaped
<1>3. screen' \in [Session -> Screen]
  BY <1>1 DEF IInv, Shaped, Screen
<1>4. Shaped'
  BY <1>1, <1>3 DEF IInv, Shaped
<1>5. Numbered'
  BY <1>1, <1>2, HandoffAssumption DEF IInv, Shaped, Screen, Numbered, Shown
<1>6. Drafted'
  BY <1>1 DEF IInv, Drafted
<1>7. InOrder'
  <2>1. ASSUME NEW x \in Session, watched = {x} PROVE Follows(x)'
    <3>1. Follows(x)
      BY <2>1 DEF IInv, InOrder
    <3>2. CASE x # s
      BY <1>1, <1>2, <3>1, <3>2 DEF Follows
    <3>3. CASE x = s
      <4>1. screen'[x].at = at /\ screen'[x].q = q /\ screen[x].q \in Nat
        BY <1>2, <3>3 DEF IInv, Shaped, Screen
      <4>2. at \notin {"none", "opening"}
        BY DEF Shown
      <4>3. lastQ.of \in Nat /\ seen.q \in Nat
        BY TextType DEF IInv, Shaped
      <4> QED
        BY <1>1, <3>1, <3>3, <4>1, <4>2, <4>3 DEF Follows
    <3> QED
      BY <3>2, <3>3
  <2> QED
    BY <1>1, <2>1 DEF IInv, InOrder
<1> QED
  BY <1>4, <1>5, <1>6, <1>7 DEF IInv

LEMMA WindowStep == ASSUME IInv, NEW s \in Session, Window(s) PROVE IInv'
<1>1. screen[s] \in Screen /\ asked \in Nat /\ screen[s].q <= asked
  BY DEF IInv, Shaped, Numbered
<1>2. CASE ClaudeStarts(s)
  <2>1. screen[s].q = 0
    BY <1>2 DEF ClaudeStarts, IInv, Numbered
  <2> QED
    BY <1>1, <1>2, <2>1, ShowsStep DEF ClaudeStarts, Shown
<1>3. CASE ClaudeAsks(s)
  <2>1. PICK at \in {"design", "permission"} : Shows(s, at, asked + 1)
    BY <1>3 DEF ClaudeAsks
  <2> QED
    BY <1>1, <1>3, <2>1, ShowsStep DEF ClaudeAsks, Shown, Screen
<1>4. CASE ClaudeFinishes(s)
  BY <1>1, <1>4, ShowsStep DEF ClaudeFinishes, Shown, Screen
<1>5. CASE HumanAnswers(s)
  <2>1. CASE screen[s].at = "trust"
    BY <1>1, <1>5, <2>1, ShowsStep DEF HumanAnswers, Shown, Screen
  <2>2. CASE screen[s].at # "trust"
    BY <1>1, <1>5, <2>2, ShowsStep DEF HumanAnswers, Shown, Screen
  <2> QED
    BY <2>1, <2>2
<1>6. CASE HumanCloses(s)
  <2>1. /\ screen' = [screen EXCEPT ![s] = Blank]
        /\ UNCHANGED <<asked, pc, lastQ, seen, relayed, watched, marks>>
    BY <1>6 DEF HumanCloses
  <2>2. \A x \in Session : screen'[x] = IF x = s THEN Blank ELSE screen[x]
    BY <2>1 DEF IInv, Shaped
  <2>3. Blank \in Screen /\ Blank.at = "none" /\ Blank.q = 0
    BY DEF Blank, Screen
  <2>4. active' \in (Open \ {s}) \cup {None}
        \/ (active' = active /\ active # s)
    <3>1. CASE active # s
      BY <1>6, <3>1 DEF HumanCloses
    <3>2. CASE active = s
      BY <1>6, <3>2 DEF HumanCloses
    <3> QED
      BY <3>1, <3>2
  <2>5. \A x \in Open : x \in Session /\ screen[x].at \in Shown
    BY DEF Open, IInv, Shaped, Screen
  <2>6. Shaped'
    BY <2>1, <2>3, <2>4, <2>5 DEF IInv, Shaped
  <2>7. Numbered'
    <3>1. active' # None => active' \in Session /\ screen'[active'].at \in Shown
      BY <2>2, <2>4, <2>5 DEF IInv, Shaped, Numbered
    <3>2. \A x \in Session :
             /\ screen'[x].q <= asked'
             /\ screen'[x].at \in {"none", "opening", "starting"} => screen'[x].q = 0
      BY <1>1, <2>1, <2>2, <2>3 DEF IInv, Numbered
    <3> QED
      BY <3>1, <3>2 DEF Numbered
  <2>8. Drafted'
    BY <2>1 DEF IInv, Drafted
  <2>9. InOrder'
    BY <2>1, <2>2, <2>3 DEF IInv, InOrder, Follows
  <2> QED
    BY <2>6, <2>7, <2>8, <2>9 DEF IInv
<1> QED
  BY <1>2, <1>3, <1>4, <1>5, <1>6 DEF Window

LEMMA CapturedType ==
    ASSUME Shaped, Numbered
    PROVE  /\ Captured \in [session : Session \cup {None}, at : Shown \cup {"none"}, q : Nat]
           /\ Captured.session = active
           /\ Captured.at # "none" => /\ active \in Session
                                      /\ Captured.at = screen[active].at
                                      /\ Captured.q = screen[active].q
                                      /\ Captured.at \in Shown
<1>1. CASE active = None
  BY <1>1 DEF Captured, Unseen
<1>2. CASE active # None
  BY <1>2 DEF Captured, Shaped, Numbered, Screen
<1> QED
  BY <1>1, <1>2

LEMMA WaitPollsStep == IInv /\ WaitPolls => IInv'
<1> SUFFICES ASSUME IInv, WaitPolls PROVE IInv'
  OBVIOUS
<1>1. /\ pc = "wait" /\ pc' \in {"wait", "relay"}
      /\ seen' = Captured
      /\ pc' = "relay" => seen'.at # "trust"
      /\ UNCHANGED <<screen, active, asked, lastQ, relayed, watched, marks>>
  BY DEF WaitPolls, Goes, Clear, world
<1>2. Shaped'
  BY <1>1, CapturedType DEF IInv, Shaped
<1>3. Numbered' /\ Drafted'
  BY <1>1 DEF IInv, Numbered, Drafted
<1>4. InOrder'
  BY <1>1 DEF IInv, InOrder, Before
<1> QED
  BY <1>2, <1>3, <1>4 DEF IInv

LEMMA WatchCapturesStep == IInv /\ WatchCaptures => IInv'
<1> SUFFICES ASSUME IInv, WatchCaptures PROVE IInv'
  OBVIOUS
<1>1. /\ pc = "watch" /\ pc' \in {"read", "ended"}
      /\ seen' = Captured
      /\ watched' = watched \cup {Captured.session}
      /\ pc' = "read" => Captured.at # "none"
      /\ UNCHANGED <<screen, active, asked, lastQ, relayed, marks>>
  BY DEF WatchCaptures, Goes, world
<1>2. Shaped'
  BY <1>1, CapturedType DEF IInv, Shaped
<1>3. Numbered'
  BY <1>1 DEF IInv, Numbered
<1>4. Drafted'
  BY <1>1, CapturedType DEF IInv, Drafted
<1>5. InOrder'
  <2>1. watched' # {} /\ pc' \notin Before
    BY <1>1 DEF Before
  <2>2. ASSUME NEW s \in Session, watched' = {s} PROVE Follows(s)'
    <3>1. (watched = {} \/ watched = {s}) /\ active = s
      BY <1>1, <2>2, CapturedType DEF IInv
    <3>2. screen[s].at \in Shown /\ screen[s].q \in Nat
      BY <3>1, HandoffAssumption DEF IInv, Shaped, Screen, Numbered
    <3>3. /\ screen[s].q >= lastQ.of
          /\ "strayed" \notin marks =>
                /\ lastQ.in = Verbatim \/ relayed = {}
                /\ \A q \in relayed : q <= lastQ.of
      BY <3>1, <3>2 DEF IInv, InOrder, Follows, Shown
    <3>4. pc' = "read" => seen'.q = screen[s].q
      BY <1>1, <3>1, CapturedType DEF IInv
    <3> QED
      BY <1>1, <3>2, <3>3, <3>4 DEF Follows, Shown
  <2> QED
    BY <2>1, <2>2 DEF InOrder
<1> QED
  BY <1>2, <1>3, <1>4, <1>5 DEF IInv

\* Whatever the model takes the capture for, its text is of no later question.
LEMMA ReadingType ==
    ASSUME seen.q \in Nat, NEW turn \in Readings
    PROVE  /\ turn.state \in {"working", "done", "design", "permission"}
           /\ turn.text \in Text \cup {NoText} /\ turn.text.of <= seen.q
           /\ Marks(turn) \subseteq {"permission", "strayed"}
           /\ "permission" \in Marks(turn) <=> turn.state = "permission"
           /\ "strayed" \in Marks(turn) <=>
                 Relays(turn) /\ turn.text # [of |-> seen.q, in |-> Verbatim]
<1>1. \A text \in [of : 0..seen.q, in : Wordings] : text \in Text /\ text.of <= seen.q
  BY DEF Text
<1>2. turn.text \in [of : 0..seen.q, in : Wordings] \cup {NoText}
  BY DEF Readings
<1>3. turn.state \in {"working", "done", "design", "permission"}
  BY DEF Readings
<1> QED
  BY <1>1, <1>2, <1>3, TextType DEF Marks

LEMMA WatchReadsStep == IInv /\ WatchReads => IInv'
<1> SUFFICES ASSUME IInv, WatchReads PROVE IInv'
  OBVIOUS
<1>1. /\ pc = "read" /\ seen.at \in Shown /\ seen.q \in Nat /\ "permission" \notin marks
      /\ lastQ \in Text \cup {NoText} /\ lastQ.of \in Nat
      /\ UNCHANGED <<screen, active, asked, seen, relayed, watched>>
  BY TextType DEF WatchReads, IInv, Drafted, Shaped, world
<1>2. PICK turn \in Readings :
        /\ \/ Relays(turn) /\ Goes("answer") /\ lastQ' = turn.text
           \/ /\ ~Relays(turn)
              /\ Goes(CASE turn.state = "permission" -> "ended"
                        [] turn.state = "done" -> "report"
                        [] turn.state \in {"working", "design"} -> "watch")
              /\ UNCHANGED lastQ
        /\ marks' = marks \cup Marks(turn)
  BY DEF WatchReads
<1>3. CASE Relays(turn)
  <2>1. /\ pc' = "answer" /\ lastQ' = turn.text /\ turn.text # lastQ
        /\ turn.text \in Text \cup {NoText} /\ turn.text.of \in Nat
        /\ turn.text.of <= seen.q /\ "permission" \notin marks'
        /\ "strayed" \notin marks' =>
              "strayed" \notin marks /\ turn.text = [of |-> seen.q, in |-> Verbatim]
    BY <1>1, <1>2, <1>3, ReadingType, TextType DEF Relays, Goes
  <2>2. Shaped' /\ Numbered' /\ Drafted'
    BY <1>1, <2>1 DEF IInv, Shaped, Numbered, Drafted
  <2>3. InOrder'
    <3>1. watched # {}
      BY <1>1 DEF IInv, InOrder
    <3>2. ASSUME NEW s \in Session, watched = {s} PROVE Follows(s)'
      <4>1. Follows(s) /\ screen[s].q \in Nat
        BY <3>2 DEF IInv, InOrder, Shaped, Screen
      <4>2. screen[s].at = "none" \/ screen[s].q >= turn.text.of
        BY <1>1, <2>1, <4>1 DEF Follows
      <4>3. ASSUME "strayed" \notin marks', NEW q \in relayed PROVE q < turn.text.of
        <5>1. /\ turn.text = [of |-> seen.q, in |-> Verbatim] /\ lastQ.in = Verbatim
              /\ q <= lastQ.of /\ lastQ.of <= seen.q /\ q \in Nat
          BY <1>1, <2>1, <4>1, <4>3 DEF Follows, IInv, Shaped
        <5>2. lastQ.of # seen.q
          <6>1. lastQ \in Text
            BY <1>1, <5>1, TextType
          <6> QED
            BY <2>1, <5>1, <6>1 DEF Text
        <5> QED
          BY <1>1, <5>1, <5>2
      <4>4. "strayed" \notin marks' => turn.text.in = Verbatim
        BY <2>1
      <4> QED
        BY <1>1, <2>1, <4>1, <4>2, <4>3, <4>4 DEF Follows, IInv, Shaped
    <3> QED
      BY <1>1, <2>1, <3>1, <3>2 DEF InOrder, Before
  <2> QED
    BY <2>2, <2>3 DEF IInv
<1>4. CASE ~Relays(turn)
  <2>1. /\ turn.state \in {"working", "permission", "design", "done"}
        /\ "strayed" \notin Marks(turn)
        /\ "permission" \in Marks(turn) <=> turn.state = "permission"
    BY <1>1, <1>4, ReadingType
  <2>2. /\ lastQ' = lastQ /\ pc' \in {"ended", "report", "watch"}
        /\ turn.state = "permission" => pc' = "ended"
    BY <1>2, <1>4, <2>1 DEF Goes
  <2>3. /\ marks' \cap {"strayed"} = marks \cap {"strayed"}
        /\ "permission" \in marks' => pc' = "ended"
    BY <1>1, <1>2, <2>1, <2>2
  <2> QED
    BY <1>1, <2>2, <2>3, MovesOn DEF Before
<1> QED
  BY <1>3, <1>4

\* Text is typed into the active session.
LEMMA SendsStep ==
    ASSUME IInv, NEW answered, NEW next, Sends(answered, next),
           \/ pc = "relay" /\ next = "stay" /\ answered = {}
           \/ pc = "answer" /\ next = "watch" /\ answered = {lastQ.of}
    PROVE  IInv'
<1>1. /\ active \in Session /\ screen[active].at \in Shown /\ pc' = next
      /\ screen' = [screen EXCEPT ![active].at = Entered(@)]
      /\ UNCHANGED <<active, asked, lastQ, seen, watched, marks>>
      /\ relayed' = relayed \cup answered /\ relayed' \subseteq Nat
      /\ lastQ.of \in Nat
  BY TextType DEF Sends, Goes, IInv, Shaped, Numbered
<1>2. Entered(screen[active].at) \in Shown
  BY <1>1 DEF Entered, Shown
<1>3. Entered(screen[active].at) = "starting" => screen[active].at = "starting"
  BY <1>1 DEF Entered, Shown
<1>4. \A x \in Session :
        /\ screen'[x].q = screen[x].q
        /\ x # active => screen'[x] = screen[x]
        /\ x = active => screen'[x].at = Entered(screen[x].at)
  BY <1>1 DEF IInv, Shaped, Screen
<1>5. screen' \in [Session -> Screen]
  BY <1>1, <1>2 DEF IInv, Shaped, Screen
<1>6. Shaped'
  BY <1>1, <1>5 DEF IInv, Shaped
<1>7. Numbered'
  <2>1. ASSUME NEW x \in Session
        PROVE  /\ screen'[x].q <= asked'
               /\ screen'[x].at \in {"none", "opening", "starting"} => screen'[x].q = 0
    BY <1>1, <1>2, <1>3, <1>4 DEF IInv, Numbered, Shown
  <2> QED
    BY <1>1, <1>2, <1>4, <2>1 DEF Numbered
<1>8. Drafted'
  BY <1>1 DEF IInv, Drafted
<1>9. InOrder'
  <2>1. CASE pc = "relay"
    <3>1. watched' = {} /\ relayed' = {} /\ lastQ'.of = 0
      BY <1>1, <2>1 DEF IInv, InOrder, Before
    <3>2. pc' = "stay"
      BY <1>1, <2>1
    <3> QED
      BY <3>1, <3>2 DEF InOrder
  <2>2. CASE pc = "answer"
    <3>1. pc' = "watch"
      BY <1>1, <2>2
    <3>2. watched' # {}
      BY <1>1, <2>2 DEF IInv, InOrder
    <3>3. ASSUME NEW s \in Session, watched = {s} PROVE Follows(s)'
      <4>1. Follows(s)
        BY <3>3 DEF IInv, InOrder
      <4>2. /\ screen'[s].at # "opening"
            /\ screen'[s].at = "none" \/ screen'[s].q >= lastQ.of
        BY <1>1, <1>2, <1>4, <4>1 DEF Follows, Shown
      <4>3. "strayed" \notin marks =>
              /\ lastQ.in = Verbatim
              /\ \A q \in relayed' : q <= lastQ.of
        BY <1>1, <2>2, <4>1 DEF Follows, IInv, Drafted
      <4> QED
        BY <1>1, <3>1, <4>2, <4>3 DEF Follows
    <3> QED
      BY <1>1, <3>1, <3>2, <3>3 DEF InOrder, Before
  <2> QED
    BY <2>1, <2>2
<1> QED
  BY <1>6, <1>7, <1>8, <1>9 DEF IInv

LEMMA NewProjectStep == IInv /\ NewProject => IInv'
<1> SUFFICES ASSUME IInv, NewProject PROVE IInv'
  OBVIOUS
<1>1. CASE Goes("ended") /\ UNCHANGED screen
  BY <1>1, MovesOn DEF NewProject, Goes, Before
<1>2. CASE /\ screen[Own].at = "none" /\ Goes("wait")
           /\ screen' = [screen EXCEPT ![Own].at = "opening"]
  <2>1. /\ pc = "new" /\ pc' = "wait"
        /\ UNCHANGED <<active, asked, lastQ, seen, relayed, watched, marks>>
    BY <1>2 DEF NewProject, Goes
  <2>2. Own \in Session
    BY DEF Session
  <2>3. \A x \in Session :
          /\ screen'[x].q = screen[x].q
          /\ x # Own => screen'[x] = screen[x]
          /\ x = Own => screen'[x].at = "opening"
    BY <1>2, <2>2 DEF IInv, Shaped, Screen
  <2>4. screen' \in [Session -> Screen]
    BY <1>2, <2>2 DEF IInv, Shaped, Screen
  <2>5. Shaped'
    BY <2>1, <2>4 DEF IInv, Shaped
  <2>6. active # Own
    BY <1>2, <2>2, HandoffAssumption DEF IInv, Numbered, Shown
  <2>7. Numbered'
    BY <1>2, <2>1, <2>2, <2>3, <2>6 DEF IInv, Shaped, Numbered, Shown
  <2>8. Drafted' /\ InOrder'
    BY <2>1 DEF IInv, Drafted, InOrder, Before
  <2> QED
    BY <2>5, <2>7, <2>8 DEF IInv
<1> QED
  BY <1>1, <1>2 DEF NewProject

LEMMA OpensStep == IInv /\ Opens => IInv'
<1> SUFFICES ASSUME IInv, Opens PROVE IInv'
  OBVIOUS
<1>1. Own \in Session /\ screen[Own].at = "opening" /\ asked' = asked
  BY DEF Opens, Session
<1>2. screen[Own].q = 0 /\ asked \in Nat
  BY <1>1 DEF IInv, Numbered, Shaped
<1>3. watched # {Own}
  BY <1>1 DEF IInv, InOrder, Follows
<1> QED
  BY <1>1, <1>2, <1>3, ShowsStep DEF Opens, Shown

LEMMA IInvNext == IInv /\ [Next]_vars => IInv'
<1> SUFFICES ASSUME IInv, [Next]_vars PROVE IInv'
  OBVIOUS
<1> USE DEF world
<1>1. CASE Planning
  BY <1>1, MovesOnUnmarked
     DEF Planning, Thinks, PlanningOver, Answers, Offered, Goes, Keeps, Before
<1>2. CASE WaitOver \/ Stays \/ WatchOver \/ Reports
  BY <1>2, MovesOnUnmarked
     DEF WaitOver, Stays, WatchOver, Reports, Goes, Keeps, Before
<1>3. CASE RelaysPlan
  <2>1. CASE SendFails("ended")
    BY <2>1, MovesOn DEF SendFails, Goes, Keeps, Before
  <2> QED
    BY <1>3, <2>1, SendsStep DEF RelaysPlan
<1>4. CASE RelaysAnswer
  <2>1. CASE SendFails("ended")
    BY <2>1, MovesOn DEF SendFails, Goes, Keeps, Before
  <2> QED
    BY <1>4, <2>1, SendsStep DEF RelaysAnswer
<1>5. CASE Cancels \/ UNCHANGED vars
  <2>1. UNCHANGED <<screen, active, asked, pc, lastQ, seen, relayed, watched, marks>>
    BY <1>5 DEF Cancels, vars
  <2> QED
    BY <2>1 DEF IInv, Shaped, Numbered, Drafted, InOrder, Follows
<1> QED
  BY <1>1, <1>2, <1>3, <1>4, <1>5, NewProjectStep, WaitPollsStep, WatchCapturesStep,
     WatchReadsStep, OpensStep, WindowStep
     DEF Next, Assistant, HandingOver, Watching

-----------------------------------------------------------------------------
\* A permission the watch was given ends it with nothing answered after it; the
\* plan is not typed at a trust prompt that was captured, and on a screen that
\* has not moved an answer is for the question that was read off it.  What the
\* model mistakes is not excluded (waitForClaude, watchClaude).
THEOREM AnswersSeen == Spec => RelayAnswersSeen
<1>1. IInv /\ [Next]_vars =>
          [/\ pc = "answer" /\ pc' = "watch" => "permission" \notin marks
           /\ Relaying /\ Unmoved =>
                 /\ pc = "relay" => seen.at # "trust"
                 /\ pc = "answer" /\ "strayed" \notin marks => lastQ.of = seen.q]_vars
  BY DEF IInv, Drafted
<1> QED
  BY <1>1, IInvInit, IInvNext, PTL DEF Spec, RelayAnswersSeen

\* lastQ, the one text that is remembered, is enough for a watch that followed
\* one session, provided the model gives back the last question of the screen in
\* its words: no question gets two answers (watchClaude).
THEOREM AnswersOnce == Spec => AnsweredOnce
<1>1. ASSUME IInv, [Next]_vars, pc = "answer", pc' = "watch", watched = {active},
             "strayed" \notin marks
      PROVE  lastQ.of \notin relayed
  <2>1. active \in Session
    <3>1. active # None
      BY <1>1 DEF Next, Assistant, Planning, HandingOver, Watching, Thinks, PlanningOver,
           Answers, Offered, NewProject, WaitPolls, WaitOver, RelaysPlan, Stays,
           WatchCaptures, WatchOver, WatchReads, RelaysAnswer, Reports, Opens, Cancels,
           Window, ClaudeStarts, ClaudeAsks, ClaudeFinishes, HumanAnswers, HumanCloses,
           Shows, Sends, SendFails, Goes, vars
    <3> QED
      BY <1>1, <3>1 DEF IInv, Shaped
  <2>2. \A q \in relayed : q < lastQ.of /\ q \in Nat
    BY <1>1, <2>1 DEF IInv, InOrder, Follows, Shaped
  <2>3. lastQ.of \in Nat
    BY <1>1, TextType DEF IInv, Shaped
  <2> QED
    BY <2>2, <2>3
<1>2. IInv /\ [Next]_vars =>
          [pc = "answer" /\ pc' = "watch" /\ watched = {active} /\ "strayed" \notin marks
               => lastQ.of \notin relayed]_vars
  BY <1>1
<1> QED
  BY <1>2, IInvInit, IInvNext, PTL DEF Spec, AnsweredOnce

=============================================================================
