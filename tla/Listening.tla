----------------------------- MODULE Listening ------------------------------
(***************************************************************************)
(* One microphone capture (internal/adapters/mic: ListenOnce of listen.go, *)
(* the voice activity detector of vad.go): pw-record, the goroutine that   *)
(* reads its frames, the channel between that goroutine and the call, and  *)
(* the loop that finds the beginning and the end of an utterance.          *)
(*                                                                         *)
(* A frame is its energy, chosen when the loop takes it from the channel,  *)
(* so the channel is the number of frames in it; the pre-roll and the      *)
(* utterance are numbers of frames too.  The real counts are constants.    *)
(***************************************************************************)
EXTENDS Naturals, Sequences, FiniteSets, FiniteSetsExt, Functions

CONSTANTS
    Level,            \* energies (RMS) a frame can have
    Factor,           \* thresholdFactor: 3.5
    BargeFactor,      \* bargeThresholdFactor: 7
    ThresholdMin,     \* thresholdMin: 260
    CalibrateFrames,  \* 25
    PreRollFrames,    \* 10
    TriggerFrames,    \* 3
    BargeTrigger,     \* bargeTriggerFrames: 12
    EndSilence,       \* endSilenceOf: 16
    MaxUtterance,     \* 660
    FloorFrames,      \* 33
    IdleFrames,       \* Params.Idle, in frames
    QueueCap          \* capacity of the channel of frames: 4

\* The order of the counts is the code's.
ASSUME ListeningAssumption ==
    /\ IsFiniteSet(Level) /\ Level \subseteq Nat
    /\ {Factor, BargeFactor, ThresholdMin} \subseteq Nat
    /\ {CalibrateFrames, PreRollFrames, TriggerFrames, BargeTrigger,
        EndSilence, MaxUtterance, FloorFrames, IdleFrames, QueueCap}
            \subseteq Nat \ {0}
    /\ TriggerFrames <= PreRollFrames /\ PreRollFrames < BargeTrigger
    /\ BargeTrigger < MaxUtterance
    /\ CalibrateFrames < FloorFrames

VARIABLES
    call,       \* Params: barge, and whether an idle time is set
    pc,         \* where ListenOnce stands
    result,     \* what it returned
    cancelled,  \* its context is done
    recorder,   \* pw-record: up, wedged (delivers nothing), gone
    reader,     \* the goroutine that reads frames
    frames,     \* the channel of frames: how many it holds
    readErr,    \* the channel of the reader's error holds one
    floor,      \* the ring of recent energies (levels while calibrating)
    vad,        \* the detector
    preRoll,    \* frames kept from before the trigger
    utterance,  \* frames of the utterance
    elapsed     \* frames of silence counted against the idle time

source == <<recorder, reader, frames, readErr>>
hearing == <<floor, vad, preRoll, utterance, elapsed>>
vars == <<call, pc, result, cancelled, source, hearing>>

Init ==
    /\ call \in [barge : BOOLEAN, idle : BOOLEAN]
    /\ pc = "start"
    /\ result = "none"
    /\ cancelled = FALSE
    /\ recorder = "none"
    /\ reader = "none"
    /\ frames = 0
    /\ readErr = FALSE
    /\ floor = <<>>
    /\ vad = [threshold |-> 0, voiced |-> 0, silent |-> 0, speaking |-> FALSE,
              length |-> 0]
    /\ preRoll = 0
    /\ utterance = 0
    /\ elapsed = 0

-----------------------------------------------------------------------------
(* The detector and the noise floor.                                       *)

AtLeast(a, b) == IF a >= b THEN a ELSE b

\* ring.push on a window of FloorFrames energies.
Pushed(ring, level) ==
    IF Len(ring) < FloorFrames THEN Append(ring, level)
                               ELSE Append(Tail(ring), level)

RingMin(ring) == Min(Range(ring))

\* percentile(levels, 0.25): the value at that place of the sorted levels.
Percentile(levels) ==
    LET place == (Len(levels) - 1) \div 4
        Below(v) == Cardinality({i \in DOMAIN levels : levels[i] < v})
        UpTo(v) == Cardinality({i \in DOMAIN levels : levels[i] <= v})
    IN  CHOOSE v \in Range(levels) : Below(v) <= place /\ place < UpTo(v)

Trigger == IF call.barge THEN BargeTrigger ELSE TriggerFrames

\* The threshold the calibration sets.
Calibrated(levels) ==
    AtLeast(Percentile(levels) * (IF call.barge THEN BargeFactor ELSE Factor),
            ThresholdMin)

\* The threshold that follows the floor while no utterance is under way.
Follows(ring) == AtLeast(RingMin(ring) * Factor, ThresholdMin)

\* The detector after frame, and what it reports: none, start, end.
Silence == [threshold |-> vad.threshold, voiced |-> 0, silent |-> 0,
            speaking |-> FALSE, length |-> 0]

Capped(v) == v.length + 1 >= MaxUtterance

FeedWaiting(v, level) ==
    IF level < v.threshold THEN [event |-> "none", vad |-> [v EXCEPT !.voiced = 0]]
    ELSE IF v.voiced + 1 < Trigger
    THEN [event |-> "none", vad |-> [v EXCEPT !.voiced = @ + 1]]
    ELSE [event |-> "start",
          vad |-> [v EXCEPT !.voiced = @ + 1, !.silent = 0, !.speaking = TRUE,
                            !.length = v.voiced + 1]]

FeedSpeaking(v, level) ==
    LET silent == IF level >= v.threshold THEN 0 ELSE v.silent + 1
    IN  IF Capped(v) \/ silent >= EndSilence
        THEN [event |-> "end", vad |-> Silence]
        ELSE [event |-> "none", vad |-> [v EXCEPT !.length = @ + 1,
                                                  !.silent = silent]]

Feed(v, level) == IF v.speaking THEN FeedSpeaking(v, level)
                                ELSE FeedWaiting(v, level)

-----------------------------------------------------------------------------
(* The recorder and the reader.                                            *)

\* pw-record stops delivering without closing its pipe, or ends.
RecorderWedges ==
    /\ recorder = "up"
    /\ recorder' = "wedged"
    /\ UNCHANGED <<call, pc, result, cancelled, reader, frames, readErr, hearing>>

RecorderEnds ==
    /\ recorder \in {"up", "wedged"}
    /\ recorder' = "gone"
    /\ UNCHANGED <<call, pc, result, cancelled, reader, frames, readErr, hearing>>

\* exec.CommandContext kills the recorder once the context is done.
RecorderKilled == cancelled /\ RecorderEnds

CallerCancels ==
    /\ ~cancelled /\ pc # "returned"
    /\ cancelled' = TRUE
    /\ UNCHANGED <<call, pc, result, source, hearing>>

ReaderReads ==
    /\ reader = "reading" /\ recorder = "up"
    /\ reader' = "sending"
    /\ UNCHANGED <<call, pc, result, cancelled, recorder, frames, readErr, hearing>>

ReaderFails ==
    /\ reader = "reading" /\ recorder = "gone"
    /\ reader' = "ended"
    /\ readErr' = TRUE
    /\ UNCHANGED <<call, pc, result, cancelled, recorder, frames, hearing>>

ReaderSends ==
    /\ reader = "sending" /\ frames < QueueCap
    /\ frames' = frames + 1
    /\ reader' = "reading"
    /\ UNCHANGED <<call, pc, result, cancelled, recorder, readErr, hearing>>

ReaderCancelled ==
    /\ reader = "sending" /\ cancelled
    /\ reader' = "ended"
    /\ UNCHANGED <<call, pc, result, cancelled, recorder, frames, readErr, hearing>>

-----------------------------------------------------------------------------
(* ListenOnce.                                                             *)

\* The call returns: the deferred Kill and Wait end the recorder.
Return(r) ==
    /\ pc' = "returned"
    /\ result' = r
    /\ recorder' = "gone"

Starts ==
    /\ pc = "start" /\ ~cancelled
    /\ recorder' = "up"
    /\ pc' = "header"
    /\ UNCHANGED <<call, result, cancelled, reader, frames, readErr, hearing>>

StartFails ==
    /\ pc = "start"
    /\ Return("failed")
    /\ UNCHANGED <<call, cancelled, reader, frames, readErr, hearing>>

\* The header is read by a bare io.ReadFull: no watchdog, no context.
HeaderRead ==
    /\ pc = "header" /\ recorder = "up"
    /\ pc' = "calibrate"
    /\ reader' = "reading"
    /\ UNCHANGED <<call, result, cancelled, recorder, frames, readErr, hearing>>

HeaderFails ==
    /\ pc = "header" /\ recorder = "gone"
    /\ Return("failed")
    /\ UNCHANGED <<call, cancelled, reader, frames, readErr, hearing>>

\* readFrame returns an error: the reader's, the context's or the watchdog's.
Reading == pc \in {"calibrate", "listen"}

ReadFails ==
    /\ Reading /\ readErr
    /\ Return(IF cancelled THEN "cancelled" ELSE "failed")
    /\ readErr' = FALSE
    /\ UNCHANGED <<call, cancelled, reader, frames, hearing>>

ReadCancelled ==
    /\ Reading /\ cancelled
    /\ Return("cancelled")
    /\ UNCHANGED <<call, cancelled, reader, frames, readErr, hearing>>

\* Mutant of Stalled: nothing watches for a recorder that wedges.
NoWatchdog == FALSE

Stalled == recorder = "wedged" /\ reader = "reading" /\ frames = 0

ReadStalls ==
    /\ Reading /\ Stalled
    /\ Return("failed")
    /\ UNCHANGED <<call, cancelled, reader, frames, readErr, hearing>>

Takes ==
    /\ frames > 0
    /\ frames' = frames - 1
    /\ UNCHANGED <<call, cancelled, reader, readErr>>

Calibrates(level) ==
    /\ pc = "calibrate" /\ Takes
    /\ floor' = Append(floor, level)
    /\ IF Len(floor') < CalibrateFrames THEN UNCHANGED <<pc, vad>>
       ELSE /\ pc' = "listen"
            /\ vad' = [vad EXCEPT !.threshold = Calibrated(floor')]
    /\ UNCHANGED <<result, recorder, preRoll, utterance, elapsed>>

\* While no utterance is under way the frame moves the floor, the threshold
\* follows it, and the idle time runs; then the detector is fed.
Waiting == utterance = 0
Floor(level) == IF Waiting THEN Pushed(floor, level) ELSE floor
Tuned(level) ==
    IF Waiting THEN [vad EXCEPT !.threshold = Follows(Floor(level))] ELSE vad
Spent == IF Waiting /\ call.idle THEN elapsed + 1 ELSE elapsed
IdleOver == Waiting /\ call.idle /\ Spent >= IdleFrames
Fed(level) == Feed(Tuned(level), level)

Hears(level) ==
    /\ pc = "listen" /\ Takes
    /\ floor' = Floor(level)
    /\ elapsed' = Spent

HearsIdle(level) ==
    /\ IdleOver
    /\ Hears(level)
    /\ vad' = Tuned(level)
    /\ Return("idle")
    /\ UNCHANGED <<preRoll, utterance>>

\* Mutant of Onset: the utterance begins with the frame that triggered it.
OnsetWithoutPreRoll == 1

Onset == preRoll + 1

HearsStart(level) ==
    /\ ~IdleOver /\ Fed(level).event = "start"
    /\ Hears(level)
    /\ vad' = Fed(level).vad
    /\ utterance' = Onset
    /\ preRoll' = 0
    /\ UNCHANGED <<pc, result, recorder>>

HearsEnd(level) ==
    /\ ~IdleOver /\ Fed(level).event = "end"
    /\ Hears(level)
    /\ vad' = Fed(level).vad
    /\ \E r \in {"wav", "failed"} : Return(r)
    /\ UNCHANGED <<preRoll, utterance>>

HearsNone(level) ==
    /\ ~IdleOver /\ Fed(level).event = "none"
    /\ Hears(level)
    /\ vad' = Fed(level).vad
    /\ utterance' = IF Waiting THEN 0 ELSE utterance + 1
    /\ preRoll' = IF Waiting /\ preRoll < PreRollFrames THEN preRoll + 1
                                                         ELSE preRoll
    /\ UNCHANGED <<pc, result, recorder>>

Frame ==
    \E level \in Level :
        \/ Calibrates(level)
        \/ HearsIdle(level)
        \/ HearsStart(level)
        \/ HearsEnd(level)
        \/ HearsNone(level)

Loop == Frame \/ ReadFails \/ ReadCancelled \/ ReadStalls

Next ==
    \/ RecorderWedges
    \/ RecorderEnds
    \/ CallerCancels
    \/ ReaderReads
    \/ ReaderFails
    \/ ReaderSends
    \/ ReaderCancelled
    \/ Starts
    \/ StartFails
    \/ HeaderRead
    \/ HeaderFails
    \/ Loop

Spec == Init /\ [][Next]_vars

\* The goroutines run, a recorder that is up delivers, the kernel kills.
FairSpec ==
    /\ Spec
    /\ WF_vars(Starts \/ StartFails)
    /\ WF_vars(HeaderRead \/ HeaderFails)
    /\ WF_vars(Loop)
    /\ WF_vars(ReadCancelled)
    /\ WF_vars(ReaderReads \/ ReaderFails \/ ReaderSends)
    /\ WF_vars(RecorderKilled)

-----------------------------------------------------------------------------
(* Properties.                                                             *)

\* The state is well formed.
TypeOK ==
    /\ call \in [barge : BOOLEAN, idle : BOOLEAN]
    /\ pc \in {"start", "header", "calibrate", "listen", "returned"}
    /\ result \in {"none", "wav", "idle", "cancelled", "failed"}
    /\ cancelled \in BOOLEAN
    /\ recorder \in {"none", "up", "wedged", "gone"}
    /\ reader \in {"none", "reading", "sending", "ended"}
    /\ frames \in 0..QueueCap
    /\ readErr \in BOOLEAN
    /\ floor \in Seq(Level) /\ Len(floor) <= FloorFrames
    /\ vad \in [threshold : Nat, voiced : Nat, silent : Nat,
                speaking : BOOLEAN, length : Nat]
    /\ preRoll \in 0..PreRollFrames
    /\ utterance \in Nat
    /\ elapsed \in Nat

\* No clipped first syllable: from its onset on, the utterance of an ordinary
\* capture holds every frame the detector counted as speech (the frames that
\* triggered it included) and at most a pre-roll before them, and a capture
\* that takes the shortcut of idling never drops an utterance under way.
OnsetKept ==
    /\ utterance > 0 /\ vad.speaking /\ ~call.barge =>
            /\ vad.length <= utterance
            /\ utterance <= vad.length + PreRollFrames
    /\ result = "idle" => utterance = 0

\* What obliges a capture to end: its context is done, an utterance is under
\* way (it ends by silence or by the cap), the recorder stopped delivering, or
\* an idle time runs, once the header of the stream was read.
MustEnd ==
    \/ cancelled
    \/ Reading /\ (utterance > 0 \/ recorder # "up" \/ call.idle)

\* A capture that must end does: no noise, silence, stall or death of the
\* recorder keeps the turn from ending.
ListenEnds == MustEnd ~> pc = "returned"

\* listen.go:146-148: barge-in must "demand louder, longer, sustained speech
\* before it counts as the user talking over the reply".
BargeDemandsLouder ==
    [][call.barge /\ utterance = 0 /\ utterance' > 0 =>
            vad'.threshold >= AtLeast(RingMin(floor') * BargeFactor,
                                      ThresholdMin)]_vars

=============================================================================
