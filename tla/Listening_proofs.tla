-------------------------- MODULE Listening_proofs ---------------------------
(***************************************************************************)
(* No clipped first syllable: OnsetKept of module Listening, for every     *)
(* number of frames the detector, the pre-roll and the cap may be given.   *)
(***************************************************************************)
EXTENDS Listening, TLAPS

\* The detector's fields.
Field == {"threshold", "voiced", "silent", "speaking", "length"}

Shaped ==
    /\ DOMAIN vad = Field
    /\ vad.voiced \in Nat /\ vad.length \in Nat
    /\ utterance \in Nat /\ preRoll \in 0..PreRollFrames

Flagged == vad.speaking \in BOOLEAN

\* Before an utterance the frames counted towards the trigger are in the
\* pre-roll, or the pre-roll is full of them; they are fewer than the trigger.
Gathering ==
    utterance = 0 =>
        /\ ~vad.speaking
        /\ vad.voiced <= preRoll \/ preRoll = PreRollFrames
        /\ vad.voiced < Trigger

\* There are no frames before the loop, and in it the detector has triggered
\* once there are.
Underway ==
    /\ pc \in {"start", "header", "calibrate"} => utterance = 0
    /\ pc = "listen" /\ utterance > 0 => vad.speaking

Measured ==
    vad.speaking /\ ~call.barge =>
        vad.length <= utterance /\ utterance <= vad.length + PreRollFrames

IdleEmpty ==
    /\ pc # "returned" => result = "none"
    /\ result = "idle" => utterance = 0

IInv == Shaped /\ Flagged /\ Gathering /\ Underway /\ Measured /\ IdleEmpty

-----------------------------------------------------------------------------
\* Following the floor moves the threshold only.
LEMMA TunedFields ==
    ASSUME Shaped, NEW level
    PROVE  LET v == Tuned(level) IN
           /\ DOMAIN v = Field
           /\ v.voiced = vad.voiced /\ v.length = vad.length
           /\ v.speaking = vad.speaking
BY DEF Tuned, Shaped, Field

\* What the detector makes of a frame, said of its fields.
LEMMA FedWaiting ==
    ASSUME Shaped, Flagged, NEW level, ~vad.speaking
    PROVE  LET f == Fed(level) IN
           /\ f.event \in {"none", "start"}
           /\ DOMAIN f.vad = Field
           /\ f.event = "none" =>
                /\ f.vad.speaking = FALSE
                /\ f.vad.length = vad.length
                /\ f.vad.voiced # 0 =>
                    f.vad.voiced = vad.voiced + 1 /\ vad.voiced + 1 < Trigger
           /\ f.event = "start" =>
                /\ f.vad.speaking = TRUE
                /\ f.vad.voiced = vad.voiced + 1
                /\ f.vad.length = vad.voiced + 1
<1> DEFINE v == Tuned(level)
<1>1. /\ DOMAIN v = Field
      /\ v.voiced = vad.voiced /\ v.length = vad.length
      /\ v.speaking = FALSE
    BY TunedFields DEF Flagged
<1>2. Fed(level) = FeedWaiting(v, level)
    BY <1>1 DEF Fed, Feed
<1> HIDE DEF v
<1>3. CASE level < v.threshold
    <2>1. Fed(level) = [event |-> "none", vad |-> [v EXCEPT !.voiced = 0]]
        BY <1>2, <1>3 DEF FeedWaiting
    <2> DEFINE w == [v EXCEPT !.voiced = 0]
    <2>2. /\ DOMAIN w = Field
          /\ w.voiced = 0 /\ w.length = vad.length /\ w.speaking = FALSE
        BY <1>1 DEF Field
    <2>3. Fed(level).event = "none" /\ Fed(level).vad = w
        BY <2>1
    <2> HIDE DEF w
    <2>4. Fed(level).event \in {"none", "start"} /\ Fed(level).event # "start"
        BY <2>3
    <2>5. DOMAIN Fed(level).vad = Field
        BY <2>2, <2>3
    <2>6. /\ Fed(level).vad.speaking = FALSE
          /\ Fed(level).vad.length = vad.length
          /\ Fed(level).vad.voiced = 0
        BY <2>2, <2>3
    <2> QED BY <2>4, <2>5, <2>6, Zenon
<1>4. CASE ~(level < v.threshold) /\ v.voiced + 1 < Trigger
    <2>1. Fed(level) = [event |-> "none", vad |-> [v EXCEPT !.voiced = @ + 1]]
        BY <1>2, <1>4 DEF FeedWaiting
    <2> QED BY <1>1, <1>4, <2>1 DEF Field
<1>5. CASE ~(level < v.threshold) /\ ~(v.voiced + 1 < Trigger)
    <2>1. Fed(level) = [event |-> "start",
              vad |-> [v EXCEPT !.voiced = @ + 1, !.silent = 0, !.speaking = TRUE,
                                !.length = v.voiced + 1]]
        BY <1>2, <1>5 DEF FeedWaiting
    <2> DEFINE w == [v EXCEPT !.voiced = @ + 1, !.silent = 0, !.speaking = TRUE,
                              !.length = v.voiced + 1]
    <2>2. DOMAIN w = Field /\ w.voiced = vad.voiced + 1 /\ w.length = vad.voiced + 1
        BY <1>1 DEF Field
    <2>3. w.speaking = TRUE
        BY <1>1, Zenon DEF Field
    <2>4. Fed(level).event = "start" /\ Fed(level).vad = w
        BY <2>1
    <2> HIDE DEF w
    <2> QED BY <2>2, <2>3, <2>4
<1> QED BY <1>3, <1>4, <1>5

LEMMA FedSpeaking ==
    ASSUME Shaped, Flagged, NEW level, vad.speaking
    PROVE  LET f == Fed(level) IN
           /\ f.event \in {"none", "end"}
           /\ DOMAIN f.vad = Field
           /\ f.event = "none" => /\ f.vad.speaking = TRUE
                                  /\ f.vad.voiced = vad.voiced
                                  /\ f.vad.length = vad.length + 1
           /\ f.event = "end" => /\ f.vad.speaking = FALSE
                                 /\ f.vad.voiced = 0 /\ f.vad.length = 0
<1> DEFINE v == Tuned(level)
           silent == IF level >= v.threshold THEN 0 ELSE v.silent + 1
<1>1. /\ DOMAIN v = Field
      /\ v.voiced = vad.voiced /\ v.length = vad.length
      /\ v.speaking = TRUE
    BY TunedFields DEF Flagged
<1>2. Fed(level) = FeedSpeaking(v, level)
    BY <1>1 DEF Fed, Feed
<1>3. CASE Capped(v) \/ silent >= EndSilence
    <2>1. Fed(level) = [event |-> "end", vad |-> Silence]
        BY <1>2, <1>3 DEF FeedSpeaking
    <2> QED BY <2>1 DEF Silence, Field
<1>4. CASE ~(Capped(v) \/ silent >= EndSilence)
    <2>1. Fed(level) = [event |-> "none",
                        vad |-> [v EXCEPT !.length = @ + 1, !.silent = silent]]
        BY <1>2, <1>4 DEF FeedSpeaking
    <2> HIDE DEF v, silent
    <2> DEFINE w == [v EXCEPT !.length = @ + 1, !.silent = silent]
    <2>2. DOMAIN w = Field /\ w.voiced = vad.voiced /\ w.length = vad.length + 1
        BY <1>1 DEF Field
    <2>3. w.speaking = TRUE
        BY <1>1, Zenon DEF Field
    <2>4. Fed(level).event = "none" /\ Fed(level).vad = w
        BY <2>1
    <2> HIDE DEF w
    <2> QED BY <2>2, <2>3, <2>4
<1> QED BY <1>3, <1>4

-----------------------------------------------------------------------------
LEMMA InitInvariant == Init => IInv
<1> SUFFICES ASSUME Init PROVE IInv
    OBVIOUS
<1>1. vad = [threshold |-> 0, voiced |-> 0, silent |-> 0, speaking |-> FALSE, length |-> 0]
    BY DEF Init
<1>2. PreRollFrames \in Nat /\ Trigger \in Nat \ {0}
    BY ListeningAssumption DEF Trigger
<1>3. utterance = 0 /\ preRoll = 0 /\ pc = "start" /\ result = "none"
    BY DEF Init
<1>4. DOMAIN vad = Field
    BY <1>1 DEF Field
<1> QED BY <1>1, <1>2, <1>3, <1>4
        DEF IInv, Shaped, Flagged, Gathering, Underway, Measured, IdleEmpty

\* What the call does before the loop, and the recorder and the reader at any
\* time, leaves what was heard alone.
LEMMA DeafStep ==
    ASSUME IInv, UNCHANGED <<call, vad, preRoll, utterance>>,
           \/ UNCHANGED <<pc, result>>
           \/ pc' = "returned" /\ result' # "idle"
           \/ /\ pc \in {"start", "header"} /\ pc' \in {"header", "calibrate"}
              /\ UNCHANGED result
    PROVE  IInv'
BY DEF IInv, Shaped, Flagged, Gathering, Underway, Measured, IdleEmpty, Trigger

\* Calibration sets the threshold and nothing else.
LEMMA CalibrationStep ==
    ASSUME IInv, NEW level, Calibrates(level)
    PROVE  IInv'
<1>1. /\ UNCHANGED <<call, result, preRoll, utterance>>
      /\ pc = "calibrate" /\ pc' \in {"calibrate", "listen"}
    BY DEF Calibrates, Takes
<1>2. vad' = vad \/ vad' = [vad EXCEPT !.threshold = Calibrated(floor')]
    BY DEF Calibrates
<1>3. /\ DOMAIN vad' = Field
      /\ UNCHANGED <<vad.voiced, vad.length, vad.speaking>>
    BY <1>2 DEF IInv, Shaped, Field
<1> QED BY <1>1, <1>3 DEF IInv, Shaped, Flagged, Gathering, Underway, Measured, IdleEmpty, Trigger

\* A frame that ends the wait by the idle time.
LEMMA IdleStep ==
    ASSUME IInv, NEW level, HearsIdle(level)
    PROVE  IInv'
<1>1. /\ UNCHANGED <<call, preRoll, utterance>> /\ utterance = 0
      /\ pc' = "returned" /\ result' = "idle" /\ vad' = Tuned(level)
    BY DEF HearsIdle, Hears, Takes, Return, IdleOver, Waiting
<1>2. /\ DOMAIN vad' = Field
      /\ UNCHANGED <<vad.voiced, vad.length, vad.speaking>>
    BY <1>1, TunedFields DEF IInv
<1> QED BY <1>1, <1>2 DEF IInv, Shaped, Flagged, Gathering, Underway, Measured, IdleEmpty, Trigger

\* The frame that triggers: the pre-roll holds the others.
LEMMA StartStep ==
    ASSUME IInv, NEW level, HearsStart(level)
    PROVE  IInv'
<1>1. /\ UNCHANGED <<call, pc, result>> /\ pc = "listen"
      /\ utterance' = preRoll + 1 /\ preRoll' = 0 /\ vad' = Fed(level).vad
      /\ Fed(level).event = "start"
    BY DEF HearsStart, Hears, Takes, Onset
<1>2. ~vad.speaking
    BY <1>1, FedSpeaking DEF IInv
<1>3. utterance = 0
    BY <1>1, <1>2 DEF IInv, Underway, Shaped
<1>4. /\ DOMAIN vad' = Field
      /\ vad'.speaking = TRUE /\ vad'.voiced = vad.voiced + 1
      /\ vad'.length = vad.voiced + 1
    BY <1>1, <1>2, FedWaiting DEF IInv
<1>5. /\ PreRollFrames \in Nat /\ TriggerFrames \in Nat
      /\ TriggerFrames <= PreRollFrames
    BY ListeningAssumption
<1>6. vad.voiced < Trigger /\ (vad.voiced <= preRoll \/ preRoll = PreRollFrames)
    BY <1>3 DEF IInv, Gathering
<1>7. vad.voiced \in Nat /\ preRoll \in 0..PreRollFrames
    BY DEF IInv, Shaped
<1>8. Measured'
    <2>1. ASSUME ~call.barge PROVE vad.voiced < TriggerFrames
        BY <1>6, <2>1 DEF Trigger
    <2> QED BY <1>1, <1>4, <1>5, <1>6, <1>7, <2>1 DEF Measured
<1>9. Shaped' /\ Flagged'
    <2>1. Shaped'
        BY <1>1, <1>4, <1>5, <1>7 DEF Shaped
    <2>2. Flagged'
        BY <1>4 DEF Flagged
    <2> QED BY <2>1, <2>2
<1>10. Gathering' /\ Underway' /\ IdleEmpty'
    BY <1>1, <1>4, <1>7 DEF Gathering, Underway, IdleEmpty, IInv
<1> QED BY <1>8, <1>9, <1>10 DEF IInv

\* The frame that ends the utterance.
LEMMA EndStep ==
    ASSUME IInv, NEW level, HearsEnd(level)
    PROVE  IInv'
<1>1. /\ UNCHANGED <<call, preRoll, utterance>> /\ pc = "listen"
      /\ pc' = "returned" /\ result' # "idle" /\ vad' = Fed(level).vad
      /\ Fed(level).event = "end"
    BY DEF HearsEnd, Hears, Takes, Return
<1>2. vad.speaking
    BY <1>1, FedWaiting DEF IInv
<1>3. /\ DOMAIN vad' = Field
      /\ vad'.speaking = FALSE /\ vad'.voiced = 0 /\ vad'.length = 0
    BY <1>1, <1>2, FedSpeaking DEF IInv
<1>4. utterance # 0
    BY <1>2 DEF IInv, Gathering
<1>5. Flagged'
    BY <1>3 DEF Flagged
<1>6. Shaped'
    BY <1>1, <1>3 DEF IInv, Shaped
<1>7. Gathering' /\ Underway' /\ Measured' /\ IdleEmpty'
    BY <1>1, <1>3, <1>4 DEF Gathering, Underway, Measured, IdleEmpty
<1> QED BY <1>5, <1>6, <1>7 DEF IInv

\* A frame that goes to the utterance, or to the pre-roll.
LEMMA NoneStep ==
    ASSUME IInv, NEW level, HearsNone(level)
    PROVE  IInv'
<1>1. /\ UNCHANGED <<call, pc, result>> /\ pc = "listen"
      /\ utterance' = IF Waiting THEN 0 ELSE utterance + 1
      /\ preRoll' = IF Waiting /\ preRoll < PreRollFrames THEN preRoll + 1 ELSE preRoll
      /\ vad' = Fed(level).vad /\ Fed(level).event = "none"
    BY DEF HearsNone, Hears, Takes
<1>2. PreRollFrames \in Nat /\ preRoll \in 0..PreRollFrames /\ utterance \in Nat
    BY ListeningAssumption DEF IInv, Shaped
<1>3. Trigger \in Nat \ {0}
    BY ListeningAssumption DEF Trigger
<1>4. CASE utterance = 0
    <2>1. ~vad.speaking
        BY <1>4 DEF IInv, Gathering
    <2>2. /\ DOMAIN vad' = Field
          /\ vad'.speaking = FALSE /\ vad'.length = vad.length
          /\ vad'.voiced # 0 =>
              vad'.voiced = vad.voiced + 1 /\ vad.voiced + 1 < Trigger
        BY <1>1, <2>1, FedWaiting DEF IInv
    <2>3. utterance' = 0
          /\ preRoll' = IF preRoll < PreRollFrames THEN preRoll + 1 ELSE preRoll
        BY <1>1, <1>4 DEF Waiting
    <2>4. /\ vad.voiced \in Nat /\ vad.length \in Nat
          /\ vad.voiced <= preRoll \/ preRoll = PreRollFrames
        BY <1>4 DEF IInv, Shaped, Flagged, Gathering
    <2>5. Shaped' /\ Flagged'
        <3>1. Shaped'
            BY <1>2, <2>2, <2>3, <2>4 DEF Shaped
        <3>2. Flagged'
            BY <2>2 DEF Flagged
        <3> QED BY <3>1, <3>2
    <2>6. Trigger' = Trigger
        BY <1>1 DEF Trigger
    <2>7. Gathering'
        BY <1>2, <1>3, <2>2, <2>3, <2>4, <2>6 DEF Gathering
    <2>8. Underway' /\ Measured' /\ IdleEmpty'
        BY <1>1, <2>2, <2>3 DEF Underway, Measured, IdleEmpty, IInv
    <2> QED BY <2>5, <2>7, <2>8 DEF IInv
<1>5. CASE utterance # 0
    <2>1. vad.speaking
        BY <1>1, <1>2, <1>5 DEF IInv, Underway
    <2>2. /\ DOMAIN vad' = Field
          /\ vad'.speaking = TRUE /\ vad'.voiced = vad.voiced
          /\ vad'.length = vad.length + 1
        BY <1>1, <2>1, FedSpeaking DEF IInv
    <2>3. utterance' = utterance + 1 /\ preRoll' = preRoll
        BY <1>1, <1>5 DEF Waiting
    <2>4. vad.voiced \in Nat /\ vad.length \in Nat
        BY DEF IInv, Shaped
    <2>5. Shaped' /\ Flagged' /\ Gathering' /\ Underway'
        <3>1. Shaped'
            BY <1>2, <2>2, <2>3, <2>4 DEF Shaped
        <3>2. Flagged'
            BY <2>2 DEF Flagged
        <3>3. Gathering'
            BY <1>2, <2>3 DEF Gathering
        <3>4. Underway'
            BY <1>1, <2>2 DEF Underway
        <3> QED BY <3>1, <3>2, <3>3, <3>4
    <2>6. Measured'
        BY <1>1, <1>2, <2>1, <2>2, <2>3, <2>4 DEF Measured, IInv
    <2>7. IdleEmpty'
        BY <1>1 DEF IdleEmpty, IInv
    <2> QED BY <2>5, <2>6, <2>7 DEF IInv
<1> QED BY <1>4, <1>5

LEMMA StepInvariant == IInv /\ [Next]_vars => IInv'
<1> SUFFICES ASSUME IInv, [Next]_vars PROVE IInv'
    OBVIOUS
<1>1. CASE RecorderWedges \/ RecorderEnds \/ CallerCancels \/ ReaderReads
              \/ ReaderFails \/ ReaderSends \/ ReaderCancelled
    <2>1. UNCHANGED <<call, vad, preRoll, utterance, pc, result>>
        BY <1>1 DEF RecorderWedges, RecorderEnds, CallerCancels, ReaderReads,
                    ReaderFails, ReaderSends, ReaderCancelled, hearing, source
    <2> QED BY <2>1, DeafStep
<1>2. CASE StartFails \/ HeaderFails \/ ReadFails \/ ReadCancelled \/ ReadStalls
    <2>1. UNCHANGED <<call, vad, preRoll, utterance>> /\ pc' = "returned"
          /\ result' # "idle"
        BY <1>2 DEF StartFails, HeaderFails, ReadFails, ReadCancelled, ReadStalls,
                    Return, hearing
    <2> QED BY <2>1, DeafStep
<1>3. CASE Starts \/ HeaderRead
    <2>1. UNCHANGED <<call, vad, preRoll, utterance, result>>
          /\ pc \in {"start", "header"} /\ pc' \in {"header", "calibrate"}
        BY <1>3 DEF Starts, HeaderRead, hearing
    <2> QED BY <2>1, DeafStep
<1>4. ASSUME NEW level \in Level,
             \/ Calibrates(level) \/ HearsIdle(level) \/ HearsStart(level)
             \/ HearsEnd(level) \/ HearsNone(level)
      PROVE  IInv'
    <2>1. CASE Calibrates(level)
        BY <2>1, CalibrationStep
    <2>2. CASE HearsIdle(level)
        BY <2>2, IdleStep
    <2>3. CASE HearsStart(level)
        BY <2>3, StartStep
    <2>4. CASE HearsEnd(level)
        BY <2>4, EndStep
    <2>5. CASE HearsNone(level)
        BY <2>5, NoneStep
    <2> QED BY <1>4, <2>1, <2>2, <2>3, <2>4, <2>5
<1>5. CASE UNCHANGED vars
    <2>1. UNCHANGED <<call, vad, preRoll, utterance, pc, result>>
        BY <1>5 DEF vars, hearing
    <2> QED BY <2>1, DeafStep
<1> QED BY <1>1, <1>2, <1>3, <1>4, <1>5 DEF Next, Loop, Frame

\* No clipped first syllable, whatever the constants are.
THEOREM KeepsOnset == Spec => []OnsetKept
<1>1. IInv => OnsetKept
    BY DEF IInv, Measured, IdleEmpty, OnsetKept
<1> QED BY <1>1, InitInvariant, StepInvariant, PTL DEF Spec

=============================================================================
