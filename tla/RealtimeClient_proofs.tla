------------------------ MODULE RealtimeClient_proofs ------------------------
(***************************************************************************)
(* The client of the speech sidecar, for any number of senders, messages,  *)
(* barge-ins and connections and any capacity of the channel: one read     *)
(* loop, one order, and a quarantine that nothing lifts.                   *)
(***************************************************************************)
EXTENDS RealtimeClient, TLAPS

Shaped ==
    /\ now \in Nat /\ until \in Nat /\ gen \in Nat
    /\ DOMAIN loop = {"pc", "conn", "ev"} /\ loop.ev \in Event
    /\ DOMAIN connector = {"pc", "conn"}
    /\ DOMAIN sidecar = {"up", "gen", "sent"} /\ sidecar.gen \in Nat
    /\ wire \in Seq(Event) /\ events \in Seq(Event) /\ seen \in Seq(Event)

\* Whoever connects finds no loop, and a client with one is never idle again.
OneLoop == loop.pc # "none" => connector.pc = "out" /\ state # "idle"

\* An event the application has or will have: a barge-in of a generation that
\* began (they are g so far), a drift whose quarantine (until u) is in force.
Grounded(ev, g, u) ==
    /\ ev.type = "speech_started" => ev.gen <= g
    /\ ev.type = "schema_drift" => ev.at + QuarantineFor <= u

\* ev may follow the events of s.
MayFollow(ev, s) ==
    ev.type \in {"delta", "SESSION_END"} /\ ev.stamped =>
        \A i \in DOMAIN s : s[i].type = "speech_started" => s[i].gen <= ev.gen

Cut(s) ==
    \A i, j \in DOMAIN s :
        (/\ i < j
         /\ s[i].type = "speech_started"
         /\ s[j].type \in {"delta", "SESSION_END"} /\ s[j].stamped)
            => s[j].gen >= s[i].gen

Ordered ==
    /\ until <= now + QuarantineFor
    /\ \A i \in DOMAIN Delivered : Grounded(Delivered[i], gen, until)
    /\ loop.pc = "send" => Grounded(loop.ev, gen, until) /\ MayFollow(loop.ev, Delivered)
    /\ Cut(Delivered)

IInv == Shaped /\ OneLoop /\ Ordered

-----------------------------------------------------------------------------
LEMMA QuarantineType == QuarantineFor \in Nat
  BY RealtimeClientAssumption

\* The application receiving an event changes nothing of what is delivered.
LEMMA ConsumeKeeps == Shaped /\ Consume => Delivered' = Delivered
<1> SUFFICES ASSUME Shaped, Consume PROVE seen' \o events' = seen \o events
  BY DEF Delivered
<1>1. /\ seen \in Seq(Event) /\ events \in Seq(Event) /\ events # <<>>
      /\ seen' = Append(seen, Head(events)) /\ events' = Tail(events)
  BY DEF Shaped, Consume
<1> QED
  BY <1>1

\* Forwarding one appends it.
LEMMA ForwardAppends ==
    Shaped /\ Forward => /\ Delivered \in Seq(Event)
                         /\ Delivered' = Append(Delivered, loop.ev)
<1> SUFFICES ASSUME Shaped, Forward
             PROVE  /\ seen \o events \in Seq(Event)
                    /\ seen' \o events' = Append(seen \o events, loop.ev)
  BY DEF Delivered
<1>1. /\ seen \in Seq(Event) /\ events \in Seq(Event) /\ loop.ev \in Event
      /\ seen' = seen /\ events' = Append(events, loop.ev)
  BY DEF Shaped, Forward
<1> QED
  BY <1>1

\* Whatever the sidecar may send is an event.
LEMMA StampsType ==
    ASSUME NEW type \in Types, NEW g \in Nat, NEW ev \in Stamps(type, g)
    PROVE  ev \in Event
<1>1. \/ ev = [type |-> type, stamped |-> FALSE, gen |-> 0, at |-> 0]
      \/ \E n \in 0..g : ev = [type |-> type, stamped |-> TRUE, gen |-> n, at |-> 0]
  BY DEF Stamps
<1>2. \A b \in BOOLEAN, n \in Nat :
          [type |-> type, stamped |-> b, gen |-> n, at |-> 0] \in Event
  BY DEF Event
<1>3. \A n \in 0..g : n \in Nat
  OBVIOUS
<1> QED
  BY <1>1, <1>2, <1>3

\* So is the head of the wire.
LEMMA WireHead ==
    ASSUME Shaped, NEW types, Reads(types)
    PROVE  /\ Head(wire) \in Event /\ Head(wire).type \in types
           /\ Tail(wire) \in Seq(Event)
  BY DEF Shaped, Reads

LEMMA IInvInit == Init => IInv
<1> SUFFICES ASSUME Init PROVE IInv
  OBVIOUS
<1>1. NoEvent \in Event
  BY DEF NoEvent, Event, Types
<1>2. Shaped
  BY <1>1 DEF Init, Shaped
<1>3. Delivered = <<>>
  BY DEF Init, Delivered
<1>4. Ordered
  BY <1>3, QuarantineType DEF Init, Ordered, Cut
<1>5. OneLoop
  BY DEF Init, OneLoop
<1> QED
  BY <1>2, <1>4, <1>5 DEF IInv

\* Nothing is delivered, and what the loop holds, stays.
\* Time, generations and quarantines only grow.
Grows ==
    /\ gen' \in Nat /\ gen' >= gen
    /\ until' \in Nat /\ until' >= until /\ until' <= now' + QuarantineFor

LEMMA GroundedGrows ==
    ASSUME Shaped, Grows, NEW ev \in Event, Grounded(ev, gen, until)
    PROVE  Grounded(ev, gen', until')
<1>1. ev.gen \in Nat /\ ev.at \in Nat
  BY DEF Event
<1> QED
  BY <1>1, QuarantineType DEF Shaped, Grows, Grounded

\* Nothing is delivered; what the loop holds stays, or may follow.
LEMMA Undelivered ==
    ASSUME IInv, Grows, Delivered' = Delivered,
           \/ loop'.pc # "send"
           \/ loop'.pc = loop.pc /\ loop'.ev = loop.ev
           \/ Grounded(loop'.ev, gen', until') /\ MayFollow(loop'.ev, Delivered)
    PROVE  Ordered'
<1>1. Delivered \in Seq(Event)
  BY DEF IInv, Shaped, Delivered
<1>2. \A i \in DOMAIN Delivered : Delivered[i] \in Event
  BY <1>1
<1>3. \A i \in DOMAIN Delivered' : Grounded(Delivered'[i], gen', until')
  BY <1>2, GroundedGrows DEF IInv, Ordered
<1>4. loop'.pc = "send" =>
          Grounded(loop'.ev, gen', until') /\ MayFollow(loop'.ev, Delivered')
  BY GroundedGrows DEF IInv, Ordered, Shaped
<1>5. Cut(Delivered')
  BY DEF IInv, Ordered
<1> QED
  BY <1>3, <1>4, <1>5 DEF Ordered, Grows

LEMMA ForwardStep == IInv /\ Forward => IInv'
<1> SUFFICES ASSUME IInv, Forward PROVE IInv'
  OBVIOUS
<1> DEFINE D == Delivered  n == Len(D)
<1>1. /\ D \in Seq(Event) /\ Delivered' = Append(D, loop.ev)
      /\ loop.ev \in Event
  BY ForwardAppends DEF IInv, Shaped
<1>2. /\ n \in Nat /\ DOMAIN D = 1..n /\ DOMAIN Delivered' = 1..(n + 1)
      /\ \A i \in 1..n : Delivered'[i] = D[i] /\ D[i] \in Event
      /\ Delivered'[n + 1] = loop.ev
  BY <1>1
<1>3. /\ loop.pc = "send" /\ loop'.pc = "read" /\ loop'.ev = loop.ev
      /\ DOMAIN loop' = DOMAIN loop
      /\ UNCHANGED <<now, until, gen, connector, sidecar, wire, seen, state>>
  BY DEF Forward, client, network, IInv, Shaped
<1>4. Shaped'
  <2>1. events' \in Seq(Event)
    BY <1>1 DEF Forward, IInv, Shaped
  <2> QED
    BY <1>3, <2>1 DEF IInv, Shaped
<1>5. OneLoop'
  BY <1>3 DEF IInv, OneLoop
<1>6. \A i \in DOMAIN Delivered' : Grounded(Delivered'[i], gen, until)
  <2>1. \A i \in 1..(n + 1) : i \in 1..n \/ i = n + 1
    BY <1>2
  <2> HIDE DEF n, D
  <2> QED
    BY <1>2, <1>3, <2>1 DEF IInv, Ordered, D
<1>7. Cut(Delivered')
  <2> SUFFICES ASSUME NEW i \in 1..(n + 1), NEW j \in 1..(n + 1), i < j,
                      Delivered'[i].type = "speech_started",
                      Delivered'[j].type \in {"delta", "SESSION_END"},
                      Delivered'[j].stamped
               PROVE  Delivered'[j].gen >= Delivered'[i].gen
    BY <1>2 DEF Cut
  <2>1. i \in 1..n
    BY <1>2
  <2>2. D[i].gen \in Nat /\ loop.ev.gen \in Nat
    BY <1>1, <1>2, <2>1 DEF Event
  <2>3. CASE j \in 1..n
    BY <1>2, <2>1, <2>3 DEF IInv, Ordered, Cut
  <2>4. CASE j = n + 1
    BY <1>2, <1>3, <2>1, <2>2, <2>4 DEF IInv, Ordered, MayFollow
  <2> QED
    BY <1>2, <2>3, <2>4
<1>8. Ordered'
  BY <1>3, <1>6, <1>7 DEF IInv, Ordered
<1> QED
  BY <1>4, <1>5, <1>8 DEF IInv

LEMMA ReadStep ==
    IInv /\ (ReadSpeech \/ ReadDrift \/ ReadOther) => IInv'
<1> SUFFICES ASSUME IInv, ReadSpeech \/ ReadDrift \/ ReadOther PROVE IInv'
  OBVIOUS
<1> DEFINE ev == Head(wire)
<1>1. /\ ev \in Event /\ Tail(wire) \in Seq(Event)
      /\ wire' = Tail(wire) /\ loop.pc = "read"
      /\ UNCHANGED <<now, events, connector, sidecar, seen>>
  BY WireHead DEF IInv, ReadSpeech, ReadDrift, ReadOther, Reads
<1>2. Delivered' = Delivered
  BY <1>1 DEF Delivered
<1>3. now \in Nat /\ until \in Nat /\ gen \in Nat /\ until <= now + QuarantineFor
  BY DEF IInv, Shaped, Ordered
<1>4. ev.gen \in Nat /\ ev.at \in Nat /\ ev.type \in Types
  BY <1>1 DEF Event
<1>5. DOMAIN loop = {"pc", "conn", "ev"} /\ DOMAIN ev = {"type", "stamped", "gen", "at"}
  BY <1>1 DEF IInv, Shaped, Event
<1>6. \A i \in DOMAIN Delivered : Grounded(Delivered[i], gen, until) /\ Delivered[i] \in Event
  <2>1. Delivered \in Seq(Event)
    BY DEF IInv, Shaped, Delivered
  <2> QED
    BY <2>1 DEF IInv, Ordered
<1>7. CASE ReadSpeech
  <2> DEFINE e == [ev EXCEPT !.gen = gen', !.at = now]
  <2>1. /\ ev.type = "speech_started" /\ gen' = gen + 1 /\ until' = until /\ state' = state
        /\ loop' = [loop EXCEPT !.pc = "send", !.ev = e]
    BY <1>7, WireHead DEF ReadSpeech, Sends, IInv, Reads
  <2>2. e \in Event /\ e.type = "speech_started" /\ e.gen = gen'
    <3>1. gen' \in Nat
      BY <1>3, <2>1
    <3> HIDE DEF ev
    <3> QED
      BY <1>1, <1>3, <2>1, <3>1 DEF Event
  <2> HIDE DEF e
  <2>3. loop'.pc = "send" /\ loop'.ev = e /\ DOMAIN loop' = DOMAIN loop
    BY <1>5, <2>1
  <2>4. Grows
    BY <1>1, <1>3, <2>1 DEF Grows
  <2>5. Grounded(e, gen', until') /\ MayFollow(e, Delivered)
    BY <1>3, <2>1, <2>2 DEF Grounded, MayFollow
  <2>6. Ordered'
    BY <1>2, <2>3, <2>4, <2>5, Undelivered
  <2>7. Shaped'
    BY <1>1, <1>5, <2>2, <2>3, <2>4 DEF IInv, Shaped, Grows
  <2>8. OneLoop'
    BY <1>1, <2>1 DEF IInv, OneLoop
  <2> QED
    BY <2>6, <2>7, <2>8 DEF IInv
<1>8. CASE ReadDrift
  <2> DEFINE e == [ev EXCEPT !.at = now]
  <2>1. /\ ev.type = "schema_drift" /\ gen' = gen /\ until' = now + QuarantineFor
        /\ state' = "quarantined"
        /\ loop' = [loop EXCEPT !.pc = "send", !.ev = e]
    BY <1>8, WireHead DEF ReadDrift, Sends, IInv, Reads
  <2>2. e \in Event /\ e.type = "schema_drift" /\ e.at = now
    BY <1>1, <1>3, <2>1 DEF Event
  <2> HIDE DEF e
  <2>3. loop'.pc = "send" /\ loop'.ev = e /\ DOMAIN loop' = DOMAIN loop
    BY <1>5, <2>1
  <2>4. Grows
    BY <1>1, <1>3, <2>1, QuarantineType DEF Grows
  <2>5. Grounded(e, gen', until') /\ MayFollow(e, Delivered)
    BY <1>3, <2>1, <2>2, QuarantineType DEF Grounded, MayFollow
  <2>6. Ordered'
    BY <1>2, <2>3, <2>4, <2>5, Undelivered
  <2>7. Shaped'
    BY <1>1, <1>5, <2>2, <2>3, <2>4 DEF IInv, Shaped, Grows
  <2>8. OneLoop'
    BY <1>1, <2>1 DEF IInv, OneLoop
  <2> QED
    BY <2>6, <2>7, <2>8 DEF IInv
<1>9. CASE ReadOther
  <2>0. /\ ev.type \in {"delta", "SESSION_END"}
        /\ gen' = gen /\ until' = until /\ state' = state
    BY <1>9, WireHead DEF ReadOther, IInv
  <2>1. Grows
    BY <1>1, <1>3, <2>0 DEF Grows
  <2>2. CASE ev.stamped /\ IsStale(ev.gen)
    <3>1. loop' = loop
      BY <1>9, <2>2 DEF ReadOther
    <3>2. Ordered'
      BY <1>2, <2>1, <3>1, Undelivered
    <3>3. Shaped'
      BY <1>1, <2>1, <3>1 DEF IInv, Shaped, Grows
    <3>4. OneLoop'
      BY <1>1, <2>0, <3>1 DEF IInv, OneLoop
    <3> QED
      BY <3>2, <3>3, <3>4 DEF IInv
  <2>3. CASE ~(ev.stamped /\ IsStale(ev.gen))
    <3> DEFINE e == [ev EXCEPT !.at = now]
    <3>1. loop' = [loop EXCEPT !.pc = "send", !.ev = e]
      BY <1>9, <2>3 DEF ReadOther, Sends
    <3>2. /\ e \in Event /\ e.type = ev.type /\ e.gen = ev.gen
          /\ e.stamped = ev.stamped
      BY <1>1, <1>3 DEF Event
    <3> HIDE DEF e
    <3>3. loop'.pc = "send" /\ loop'.ev = e /\ DOMAIN loop' = DOMAIN loop
      BY <1>5, <3>1
    <3>4. e.stamped => e.gen >= gen
      BY <1>3, <1>4, <2>3, <3>2 DEF IsStale
    <3>5. Grounded(e, gen', until')
      BY <2>0, <3>2 DEF Grounded
    <3>6. MayFollow(e, Delivered)
      BY <1>3, <1>4, <1>6, <3>2, <3>4 DEF MayFollow, Grounded, Event
    <3>7. Ordered'
      BY <1>2, <2>1, <3>3, <3>5, <3>6, Undelivered
    <3>8. Shaped'
      BY <1>1, <1>5, <2>1, <3>2, <3>3 DEF IInv, Shaped, Grows
    <3>9. OneLoop'
      BY <1>1, <2>0 DEF IInv, OneLoop
    <3> QED
      BY <3>7, <3>8, <3>9 DEF IInv
  <2> QED
    BY <2>2, <2>3
<1> QED
  BY <1>7, <1>8, <1>9

\* Every other step neither reads nor forwards.
LEMMA OtherStep ==
    ASSUME IInv, Grows, now' \in Nat,
           \/ Delivered' = Delivered /\ seen' \in Seq(Event) /\ events' \in Seq(Event),
           \/ loop' = loop
           \/ /\ loop'.pc \in {"read", "ended"} /\ loop'.ev \in Event
              /\ DOMAIN loop' = {"pc", "conn", "ev"},
           DOMAIN connector' = {"pc", "conn"}, OneLoop',
           DOMAIN sidecar' = {"up", "gen", "sent"}, sidecar'.gen \in Nat,
           wire' \in Seq(Event)
    PROVE  IInv'
<1>1. Ordered'
  BY Undelivered
<1>2. Shaped'
  BY DEF IInv, Shaped, Grows
<1> QED
  BY <1>1, <1>2 DEF IInv

LEMMA IInvNext == IInv /\ [Next]_vars => IInv'
<1> SUFFICES ASSUME IInv, [Next]_vars PROVE IInv'
  OBVIOUS
<1> USE DEF client, goroutines, network
<1>1. /\ Shaped /\ OneLoop
      /\ now \in Nat /\ until \in Nat /\ gen \in Nat /\ until <= now + QuarantineFor
  BY DEF IInv, Shaped, Ordered
<1>2. UNCHANGED <<now, until, gen>> => Grows
  BY <1>1 DEF Grows
<1>3. UNCHANGED <<events, seen>> =>
          Delivered' = Delivered /\ seen' \in Seq(Event) /\ events' \in Seq(Event)
  BY <1>1 DEF Delivered, Shaped
<1>4. CASE Connect \/ DialFails \/ UpdateFails \/ UpdateSent
  BY <1>1, <1>2, <1>3, <1>4, OtherStep
     DEF Connect, MayConnect, DialFails, UpdateFails, UpdateSent, OneLoop, Shaped
<1>5. CASE Dialled
  <2>1. wire' \in Seq(Event)
    BY <1>5 DEF Dialled
  <2> QED
    BY <1>1, <1>2, <1>3, <1>5, <2>1, OtherStep DEF Dialled, OneLoop, Shaped
<1>6. CASE Connected
  <2>1. NoEvent \in Event
    BY DEF NoEvent, Event, Types
  <2> QED
    BY <1>1, <1>2, <1>3, <1>6, <2>1, OtherStep DEF Connected, OneLoop, Shaped
<1>7. ASSUME NEW s \in Sender, Admit(s) \/ Write(s) PROVE IInv'
  BY <1>1, <1>2, <1>3, <1>7, OtherStep DEF Admit, Write, OneLoop, Shaped
<1>8. CASE Cancel
  <2>1. Grows
    BY <1>1, <1>8 DEF Cancel, Grows
  <2> QED
    BY <1>1, <1>3, <1>8, <2>1, OtherStep DEF Cancel, OneLoop, Shaped
<1>9. CASE Close
  BY <1>1, <1>2, <1>3, <1>9, OtherStep DEF Close, OneLoop, Shaped
<1>10. CASE ReadLoop
  <2>1. CASE LoopEnds
    BY <1>1, <1>2, <1>3, <2>1, OtherStep DEF LoopEnds, OneLoop, Shaped
  <2> QED
    BY <1>10, <2>1, ReadStep, ForwardStep DEF ReadLoop
<1>11. CASE Consume
  <2>1. seen' \in Seq(Event) /\ events' \in Seq(Event)
    BY <1>1, <1>11 DEF Consume, Shaped
  <2> QED
    BY <1>1, <1>2, <1>11, <2>1, ConsumeKeeps, OtherStep DEF Consume, OneLoop, Shaped
<1>12. CASE SidecarSends
  <2>1. PICK type \in Types :
           LET g == sidecar.gen + (IF type = "speech_started" THEN 1 ELSE 0) IN
           /\ sidecar' = [sidecar EXCEPT !.gen = g, !.sent = @ + 1]
           /\ \E ev \in Stamps(type, g) : wire' = Append(wire, ev)
    BY <1>12 DEF SidecarSends
  <2> DEFINE g == sidecar.gen + (IF type = "speech_started" THEN 1 ELSE 0)
  <2>2. g \in Nat
    BY <1>1 DEF Shaped
  <2>3. PICK ev \in Stamps(type, g) : wire' = Append(wire, ev)
    BY <2>1
  <2>4. ev \in Event
    BY <2>2, StampsType
  <2>5. wire' \in Seq(Event)
    BY <1>1, <2>3, <2>4 DEF Shaped
  <2>6. DOMAIN sidecar' = {"up", "gen", "sent"} /\ sidecar'.gen \in Nat
    BY <1>1, <2>1, <2>2 DEF Shaped
  <2> QED
    BY <1>1, <1>2, <1>3, <1>12, <2>5, <2>6, OtherStep DEF SidecarSends, OneLoop, Shaped
<1>13. CASE SidecarCloses
  BY <1>1, <1>2, <1>3, <1>13, OtherStep DEF SidecarCloses, OneLoop, Shaped
<1>14. CASE Advance
  <2>1. Grows
    BY <1>1, <1>14, QuarantineType DEF Advance, Grows
  <2> QED
    BY <1>1, <1>3, <1>14, <2>1, OtherStep DEF Advance, OneLoop, Shaped
<1>15. CASE UNCHANGED vars
  BY <1>1, <1>2, <1>3, <1>15, OtherStep DEF vars, OneLoop, Shaped
<1> QED
  BY <1>4, <1>5, <1>6, <1>7, <1>8, <1>9, <1>10, <1>11, <1>12, <1>13, <1>14, <1>15
     DEF Next

-----------------------------------------------------------------------------
\* After a barge-in the application gets nothing stamped with an earlier
\* generation, however far it lags behind the loop (readLoop, CancelScope).
\* Of events without a generation nothing is claimed.
THEOREM CutsOff == Spec => []BargeInCuts
<1>1. IInv => BargeInCuts
  BY DEF IInv, Ordered, Cut, BargeInCuts
<1> QED
  BY <1>1, IInvInit, IInvNext, PTL DEF Spec

\* Events have one order: there is no second read loop, although Connect dials
\* without the mutex and Close may come at any point of it.
THEOREM ReadsOnce == Spec => OneReadLoop
<1>1. IInv /\ [Next]_vars => [Connected => loop.pc = "none"]_vars
  BY DEF IInv, OneLoop, Connected
<1> QED
  BY <1>1, IInvInit, IInvNext, PTL DEF Spec, OneReadLoop

\* A schema drift the application can see keeps sends and dials out for the
\* whole quarantine; neither Close nor a dial that was under way lifts it.
THEOREM QuarantinesInFull == Spec => QuarantineHolds
<1>1. ASSUME IInv, Connect \/ \E s \in Sender : Admit(s),
             NEW i \in DOMAIN Delivered, Delivered[i].type = "schema_drift"
      PROVE  now >= Delivered[i].at + QuarantineFor
  <2>1. ~(now < until)
    BY <1>1 DEF Connect, MayConnect, Admit, Quarantined
  <2>2. Delivered \in Seq(Event)
    BY <1>1 DEF IInv, Shaped, Delivered
  <2>3. Delivered[i].at \in Nat
    <3>1. Delivered[i] \in Event
      BY <1>1, <2>2
    <3> QED
      BY <3>1 DEF Event
  <2>4. Delivered[i].at + QuarantineFor <= until /\ until \in Nat /\ now \in Nat
    BY <1>1 DEF IInv, Ordered, Grounded, Shaped
  <2> QED
    BY <2>1, <2>3, <2>4, QuarantineType
<1>2. IInv /\ [Next]_vars =>
          [(Connect \/ \E s \in Sender : Admit(s)) =>
              \A i \in DOMAIN Delivered :
                  Delivered[i].type = "schema_drift" =>
                      now >= Delivered[i].at + QuarantineFor]_vars
  BY <1>1
<1> QED
  BY <1>2, IInvInit, IInvNext, PTL DEF Spec, QuarantineHolds

=============================================================================
