--------------------------- MODULE RealtimeClient ---------------------------
(***************************************************************************)
(* The WebSocket client of the speech sidecar (internal/adapters/realtime: *)
(* client.go, cancel.go): Connect, AppendPCM and CreateResponse, Cancel,   *)
(* Close and the read loop, which share the mutex-guarded lifecycle state, *)
(* the generation of the CancelScope and the bounded channel of events.    *)
(*                                                                         *)
(* One goroutine calls Connect, any number send, cancel and close.  An     *)
(* action is the code between two acquisitions of a mutex, or one          *)
(* operation on the socket or the channel.                                 *)
(***************************************************************************)
EXTENDS Naturals, Sequences, FiniteSets

CONSTANTS
    Sender,         \* goroutines that call AppendPCM or CreateResponse
    QueueCap,       \* capacity of the events channel: 64
    QuarantineFor,  \* QuarantineDuration: 180 s
    MaxDials,       \* bound on connections made (model checking)
    MaxMessages,    \* bound on messages of the sidecar (model checking)
    MaxGen,         \* bound on generations (model checking)
    MaxNow          \* bound on the clock (model checking)

ASSUME RealtimeClientAssumption ==
    /\ QueueCap \in Nat \ {0}
    /\ {QuarantineFor, MaxDials, MaxMessages, MaxGen, MaxNow} \subseteq Nat

VARIABLES
    now,        \* the clock
    state,      \* Client.state
    conn,       \* Client.conn: the number of a connection, 0 is nil
    until,      \* Client.quarantinedUntil
    gen,        \* CancelScope.gen
    done,       \* Client.done is closed
    events,     \* the channel of events
    connector,  \* the goroutine in Connect, and the connection it dialled
    loop,       \* the read loop
    sender,     \* the goroutines in AppendPCM or CreateResponse
    open,       \* the connections the client did not close
    dials,      \* number of connections made
    wire,       \* messages of the sidecar the loop has not read
    sidecar,    \* the sidecar: connected, its generation, how much it sent
    seen,       \* events the application received
    dropped     \* messages the loop discarded as stale

client == <<state, conn, until, gen, done>>
goroutines == <<connector, loop, sender>>
network == <<open, dials, wire, sidecar>>
vars == <<now, client, events, goroutines, network, seen, dropped>>

\* What the sidecar sends: a barge-in, a piece of a reply, the end of the
\* session, the error that means schema drift.  A message has a generation or
\* not (stamped: its payload keeps the difference); without one gen is 0.
Types == {"speech_started", "delta", "SESSION_END", "schema_drift"}
Event == [type : Types, stamped : BOOLEAN, gen : Nat, at : Nat]

NoEvent == [type |-> "delta", stamped |-> FALSE, gen |-> 0, at |-> 0]

Init ==
    /\ now = 0
    /\ state = "idle"
    /\ conn = 0
    /\ until = 0
    /\ gen = 0
    /\ done = FALSE
    /\ events = <<>>
    /\ connector = [pc |-> "out", conn |-> 0]
    /\ loop = [pc |-> "none", conn |-> 0, ev |-> NoEvent]
    /\ sender = [s \in Sender |-> [pc |-> "out", conn |-> 0]]
    /\ open = {}
    /\ dials = 0
    /\ wire = <<>>
    /\ sidecar = [up |-> FALSE, gen |-> 0, sent |-> 0]
    /\ seen = <<>>
    /\ dropped = {}

Quarantined == now < until \/ state = "quarantined"

-----------------------------------------------------------------------------
(* Connect.                                                                *)

\* Mutant of MayConnect: a client that is connected may connect again.
ConnectsTwice == ~Quarantined

\* The check of the lifecycle, before the mutex is released to dial.
MayConnect == ~Quarantined /\ state = "idle"

Connect ==
    /\ connector.pc = "out"
    /\ MayConnect
    /\ dials < MaxDials
    /\ connector' = [connector EXCEPT !.pc = "dialing"]
    /\ UNCHANGED <<now, client, events, loop, sender, network, seen, dropped>>

DialFails ==
    /\ connector.pc = "dialing"
    /\ connector' = [connector EXCEPT !.pc = "out"]
    /\ UNCHANGED <<now, client, events, loop, sender, network, seen, dropped>>

\* The connection is recorded, whatever became of the client meanwhile.
Dialled ==
    /\ connector.pc = "dialing"
    /\ dials' = dials + 1
    /\ open' = open \cup {dials'}
    /\ conn' = dials'
    /\ state' = "connected"
    /\ connector' = [pc |-> "updating", conn |-> dials']
    /\ wire' = <<>>
    /\ sidecar' = [sidecar EXCEPT !.up = TRUE, !.gen = 0]
    /\ UNCHANGED <<now, until, gen, done, events, loop, sender, seen, dropped>>

\* session.update cannot be written: closed by Close, or lost.
UpdateFails ==
    /\ connector.pc = "updating"
    /\ conn' = 0
    /\ state' = "idle"
    /\ open' = open \ {connector.conn}
    /\ connector' = [pc |-> "out", conn |-> 0]
    /\ UNCHANGED <<now, until, gen, done, events, loop, sender, dials, wire,
                   sidecar, seen, dropped>>

UpdateSent ==
    /\ connector.pc = "updating"
    /\ connector.conn \in open
    /\ connector' = [connector EXCEPT !.pc = "updated"]
    /\ UNCHANGED <<now, client, events, loop, sender, network, seen, dropped>>

\* The state is set and the read loop started.
Connected ==
    /\ connector.pc = "updated"
    /\ state' = "updated"
    /\ loop' = [pc |-> "read", conn |-> connector.conn, ev |-> NoEvent]
    /\ connector' = [pc |-> "out", conn |-> 0]
    /\ UNCHANGED <<now, conn, until, gen, done, events, sender, network, seen,
                   dropped>>

-----------------------------------------------------------------------------
(* AppendPCM, CreateResponse, Cancel, Close.                               *)

\* The checks under the mutex; then the message is built outside of it.
Admit(s) ==
    /\ sender[s].pc = "out"
    /\ state # "idle" /\ conn # 0
    /\ ~Quarantined
    /\ sender' = [sender EXCEPT ![s] = [pc |-> "write", conn |-> conn]]
    /\ UNCHANGED <<now, client, events, connector, loop, network, seen, dropped>>

\* The message is written, or the connection it was meant for is closed.
Write(s) ==
    /\ sender[s].pc = "write"
    /\ sender' = [sender EXCEPT ![s] = [pc |-> "out", conn |-> 0]]
    /\ UNCHANGED <<now, client, events, connector, loop, network, seen, dropped>>

Cancel ==
    /\ gen < MaxGen
    /\ gen' = gen + 1
    /\ UNCHANGED <<now, state, conn, until, done, events, goroutines, network,
                   seen, dropped>>

\* closeOnce: the connection of the moment, if any, is closed.
Close ==
    /\ ~done
    /\ open' = open \ {conn}
    /\ conn' = 0
    /\ state' = "closed"
    /\ done' = TRUE
    /\ UNCHANGED <<now, until, gen, events, goroutines, dials, wire, sidecar,
                   seen, dropped>>

-----------------------------------------------------------------------------
(* The read loop.                                                          *)

Sends(ev) == loop' = [loop EXCEPT !.pc = "send", !.ev = ev]

Reads(type) ==
    /\ loop.pc = "read"
    /\ loop.conn \in open
    /\ wire # <<>>
    /\ Head(wire).type \in type
    /\ wire' = Tail(wire)
    /\ UNCHANGED <<now, conn, done, events, connector, sender, open, dials,
                   sidecar, seen>>

\* A barge-in starts a generation and carries its number.
ReadSpeech ==
    /\ Reads({"speech_started"})
    /\ gen' = gen + 1
    /\ Sends([Head(wire) EXCEPT !.gen = gen', !.at = now])
    /\ UNCHANGED <<state, until, dropped>>

\* Mutant of ReadDrift: the error is forwarded, the client goes on.
ForwardsDrift ==
    /\ Reads({"schema_drift"})
    /\ Sends([Head(wire) EXCEPT !.at = now])
    /\ UNCHANGED <<state, until, gen, dropped>>

\* Schema drift quarantines the client before the application can see it.
ReadDrift ==
    /\ Reads({"schema_drift"})
    /\ until' = now + QuarantineFor
    /\ state' = "quarantined"
    /\ Sends([Head(wire) EXCEPT !.at = now])
    /\ UNCHANGED <<gen, dropped>>

\* Mutant of IsStale: the generation a barge-in ended is still current.
StaleByTwo(g) == g + 1 < gen

IsStale(g) == g < gen

\* Everything else is dropped when it has a generation and that is stale.
ReadOther ==
    /\ Reads({"delta", "SESSION_END"})
    /\ IF Head(wire).stamped /\ IsStale(Head(wire).gen)
       THEN /\ dropped' = dropped \cup {Head(wire).type}
            /\ UNCHANGED loop
       ELSE /\ Sends([Head(wire) EXCEPT !.at = now])
            /\ UNCHANGED dropped
    /\ UNCHANGED <<state, until, gen>>

\* "case c.events <- ev".
Forward ==
    /\ loop.pc = "send"
    /\ Len(events) < QueueCap
    /\ events' = Append(events, loop.ev)
    /\ loop' = [loop EXCEPT !.pc = "read"]
    /\ UNCHANGED <<now, client, connector, sender, network, seen, dropped>>

\* Mutant of LoopEnds: the select on the channel has no other case.
IgnoresDone ==
    /\ loop.pc = "read" /\ (loop.conn \notin open \/ ~sidecar.up)
    /\ loop' = [loop EXCEPT !.pc = "ended"]
    /\ UNCHANGED <<now, client, events, connector, sender, network, seen, dropped>>

\* The connection is gone, or "case <-c.done".
LoopEnds ==
    /\ \/ loop.pc = "read" /\ (loop.conn \notin open \/ ~sidecar.up)
       \/ loop.pc = "send" /\ done
    /\ loop' = [loop EXCEPT !.pc = "ended"]
    /\ UNCHANGED <<now, client, events, connector, sender, network, seen, dropped>>

-----------------------------------------------------------------------------
(* The application, the sidecar, the clock.                                *)

Consume ==
    /\ events # <<>>
    /\ events' = Tail(events)
    /\ seen' = Append(seen, Head(events))
    /\ UNCHANGED <<now, client, goroutines, network, dropped>>

\* A barge-in starts a generation of the sidecar; what its pipeline still
\* sends of an earlier one is stamped with that, or not at all.  The generation
\* of a barge-in or an error is not looked at, so it is not varied.
Stamps(type, g) ==
    {[type |-> type, stamped |-> FALSE, gen |-> 0, at |-> 0]} \cup
    (IF type \in {"delta", "SESSION_END"}
     THEN {[type |-> type, stamped |-> TRUE, gen |-> n, at |-> 0] : n \in 0..g}
     ELSE {})

SidecarSends ==
    /\ sidecar.up
    /\ sidecar.sent < MaxMessages
    /\ \E type \in Types :
          LET g == sidecar.gen + (IF type = "speech_started" THEN 1 ELSE 0)
          IN /\ g <= MaxGen
             /\ sidecar' = [sidecar EXCEPT !.gen = g, !.sent = @ + 1]
             /\ \E ev \in Stamps(type, g) : wire' = Append(wire, ev)
    /\ UNCHANGED <<now, client, events, goroutines, open, dials, seen, dropped>>

\* The sidecar goes away; what it sent may still be read, or is lost.
SidecarCloses ==
    /\ sidecar.up
    /\ sidecar' = [sidecar EXCEPT !.up = FALSE]
    /\ UNCHANGED <<now, client, events, goroutines, open, dials, wire, seen,
                   dropped>>

Advance ==
    /\ now < MaxNow
    /\ now' = now + 1
    /\ UNCHANGED <<client, events, goroutines, network, seen, dropped>>

-----------------------------------------------------------------------------

ReadLoop == ReadSpeech \/ ReadDrift \/ ReadOther \/ Forward \/ LoopEnds

Next ==
    \/ Connect \/ DialFails \/ Dialled
    \/ UpdateFails \/ UpdateSent \/ Connected
    \/ \E s \in Sender : Admit(s) \/ Write(s)
    \/ Cancel \/ Close
    \/ ReadLoop
    \/ Consume \/ SidecarSends \/ SidecarCloses \/ Advance

Spec == Init /\ [][Next]_vars

\* The runtime schedules the read loop; nobody need consume its events.
LoopSpec == Spec /\ WF_vars(ReadLoop)

-----------------------------------------------------------------------------
(* Properties.                                                             *)

\* Every variable has the type the code declares for it, and the channel and
\* the connection stay within what was made.
TypeOK ==
    /\ {now, until, gen, dials} \subseteq Nat
    /\ state \in {"idle", "connected", "updated", "quarantined", "closed"}
    /\ conn \in 0..dials
    /\ done \in BOOLEAN
    /\ events \in Seq(Event) /\ Len(events) <= QueueCap
    /\ connector \in [pc : {"out", "dialing", "updating", "updated"}, conn : 0..dials]
    /\ loop \in [pc : {"none", "read", "send", "ended"}, conn : 0..dials, ev : Event]
    /\ sender \in [Sender -> [pc : {"out", "write"}, conn : 0..dials]]
    /\ open \subseteq 1..dials
    /\ wire \in Seq(Event) /\ seen \in Seq(Event)
    /\ sidecar \in [up : BOOLEAN, gen : Nat, sent : Nat]
    /\ dropped \subseteq Types

\* What the application has received or still will.
Delivered == seen \o events

\* After a barge-in the application gets nothing that is stamped with an earlier
\* generation: the order of the channel and the discarding of stale generations
\* agree (readLoop).  An event without a generation is not covered: the code
\* forwards it whatever was barged in on.
BargeInCuts ==
    \A i, j \in DOMAIN Delivered :
        (/\ i < j
         /\ Delivered[i].type = "speech_started"
         /\ Delivered[j].type \in {"delta", "SESSION_END"} /\ Delivered[j].stamped)
            => Delivered[j].gen >= Delivered[i].gen

\* Once schema drift is there to be seen, no send is admitted and no dial
\* begun for the whole QuarantineFor, whatever closes or connects meanwhile.
QuarantineHolds ==
    [][(Connect \/ \E s \in Sender : Admit(s)) =>
          \A i \in DOMAIN Delivered :
              Delivered[i].type = "schema_drift" =>
                  now >= Delivered[i].at + QuarantineFor]_vars

\* A client never starts a second read loop, so its events have one order.
OneReadLoop == [][Connected => loop.pc = "none"]_vars

\* Once the client is closed and left alone its read loop ends, even when
\* nobody takes the event it holds; a loop is not left behind.
CloseStopsLoop ==
    (done /\ conn = 0 /\ connector.pc = "out") ~> loop.pc \in {"none", "ended"}

\* README.md and readLoop: SESSION_END is preserved.
SessionEndKept == "SESSION_END" \notin dropped

\* After a barge-in nothing comes that does not say which generation it is of:
\* not so, readLoop forwards an event without one.
NothingUnstamped ==
    \A i, j \in DOMAIN Delivered :
        (/\ i < j
         /\ Delivered[i].type = "speech_started"
         /\ Delivered[j].type \in {"delta", "SESSION_END"})
            => Delivered[j].stamped

=============================================================================
