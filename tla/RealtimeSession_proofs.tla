----------------------- MODULE RealtimeSession_proofs ------------------------
(***************************************************************************)
(* Proofs about RealtimeSession: the handler's critical sections against   *)
(* any number of sessions, cancellations and capabilities that hang.       *)
(***************************************************************************)
EXTENDS RealtimeSession, FiniteSetTheorems, TLAPS

Busy == h.pc # "idle"

\* The handler has started the capability goroutine.
Launched == h.pc \in {"wait", "result", "record"}

\* The run the handler is responsible for, as the records know it.
This == [id |-> h.id, sig |-> h.cap, at |-> h.at]

Ran(i) == [kind |-> "ran", id |-> i]

\* What the handler knows of the name it serves.
Serves ==
    /\ Busy => h.cap # NoCap
    /\ h.pc = "end" => h.cap = SessionEnd
    /\ h.pc = "launch" \/ Launched => h.cap \in Cap

Typed == TypeOK /\ Serves

Point == {"idle", "quarantine", "end", "active", "stale", "gate", "launch",
          "wait", "result", "record"}

\* What TypeOK says of h.
Handler == [pc : Point, id : Nat,
            cap : Cap \cup Unknown \cup {SessionEnd, NoCap}, gen : Nat,
            approved : BOOLEAN, at : Nat, ctx : Nat, deadline : Nat,
            genAtStart : Nat, result : Outcome]

\* Past the check of the session, the session is open: the only goroutine
\* that closes one is the handler itself.
InSession ==
    /\ QuarantineEndsSession
    /\ h.pc \in {"stale", "gate", "launch"} => active

\* What the gate decided still holds when the goroutine is started.
Cleared == h.pc = "launch" => Verdict # "deny" /\ ~AsksHuman

-----------------------------------------------------------------------------
(* Types.                                                                  *)

LEMMA FileTimeType == \A t \in Nat : FileTime(t) \in Nat
<1> SUFFICES ASSUME NEW t \in Nat PROVE FileTime(t) \in Nat
  OBVIOUS
<1> Second \in Nat \ {0}
  BY FilesAssumption
<1>1. t % Second \in 0 .. (Second - 1) /\ t % Second <= t
  OBVIOUS
<1> QED
  BY <1>1 DEF FileTime

\* What SaveActionLog writes are records, with the serial numbers they had.
LEMMA SavedType ==
    ASSUME NEW H \in SUBSET Record
    PROVE  /\ Saved(H) \subseteq Record
           /\ \A e \in Saved(H) : \E f \in H : e.id = f.id
  BY FileTimeType DEF Saved, Record

\* A decision is a decision.
LEMMA DecideType ==
    ASSUME NEW c \in Cap, NEW t
    PROVE  Decide(Grants, SessionGrants, c, t) \in Decision
<1>1. Resolve(c) \in Rule
  BY GateAssumption DEF Resolve, IsMap
<1> QED
  BY <1>1 DEF Decide, Evaluate, Rule, Decision

LEMMA Limits ==
    /\ RunTimeout \in Nat /\ QuarantineFor \in Nat /\ DrainFor \in Nat
    /\ MaxGen \in Nat
  BY RealtimeAssumption

LEMMA RestingType == Resting \in Handler
  BY DEF Resting, Handler, Point, Outcome

LEMMA TypedInit == Init => Typed
<1> SUFFICES ASSUME Init PROVE Typed
  OBVIOUS
<1>1. h \in Handler
  BY RestingType DEF Init
<1>2. Serves
  BY DEF Init, Resting, Serves, Busy, Launched
<1>3. active \in BOOLEAN
  BY DEF Init
<1>4. {now, gen, ctx, quarantinedUntil, drainUntil, received} \subseteq Nat
  BY DEF Init
<1>5. audit \subseteq [kind : {"failed", "denied", "needs_confirm", "ran"}, id : Nat]
  BY DEF Init
<1>6. replies \subseteq [id : Nat, cap : Cap \cup Unknown \cup {SessionEnd},
                          status : Status]
  BY DEF Init
<1>7. /\ history \subseteq Record /\ logfile \subseteq Record
      /\ tasks \subseteq Record /\ completed \subseteq Record
  BY DEF Init
<1> QED
  BY <1>1, <1>2, <1>3, <1>4, <1>5, <1>6, <1>7 DEF Typed, TypeOK, Handler, Point

\* A step of the handler that moves on, or that answers.
LEMMA TypedGo ==
    ASSUME Typed, NEW pc \in Point, Go(pc),
           pc = "end" => h.cap = SessionEnd,
           pc \in {"launch", "wait", "result", "record"} => h.cap \in Cap,
           Busy
    PROVE  /\ h' \in Handler
           /\ Serves'
  BY DEF Typed, TypeOK, Serves, Busy, Launched, Go, Handler, Point

LEMMA TypedReply ==
    ASSUME Typed, NEW s \in Status, Reply(s), Busy
    PROVE  /\ h' \in Handler
           /\ replies' \subseteq [id : Nat, cap : Cap \cup Unknown \cup {SessionEnd},
                                  status : Status]
           /\ Serves'
<1>1. h' = Resting
  BY DEF Reply
<1>2. [id |-> h.id, cap |-> h.cap, status |-> s]
          \in [id : Nat, cap : Cap \cup Unknown \cup {SessionEnd}, status : Status]
  BY DEF Typed, TypeOK, Serves, Busy
<1> QED
  BY <1>1, <1>2 DEF Reply, Resting, Typed, TypeOK, Serves, Busy, Launched, Outcome,
        Handler, Point

LEMMA TypedEmit ==
    ASSUME Typed, NEW k \in {"failed", "denied", "needs_confirm", "ran"}, Emit(k)
    PROVE  audit' \subseteq [kind : {"failed", "denied", "needs_confirm", "ran"},
                             id : Nat]
  BY DEF Typed, TypeOK, Emit

LEMMA TypedQuarantines ==
    ASSUME Typed, Quarantines
    PROVE  /\ {gen', ctx', quarantinedUntil', drainUntil'} \subseteq Nat
           /\ active' \in BOOLEAN
<1>1. h.at + QuarantineFor \in Nat
  BY Limits DEF Typed, TypeOK
<1>2. active' \in BOOLEAN
  BY DEF Quarantines
<1> QED
  BY <1>1, <1>2 DEF Quarantines, Typed, TypeOK

LEMMA TypedNext == Typed /\ [Next]_vars => Typed'
<1> SUFFICES ASSUME Typed, [Next]_vars PROVE Typed'
  OBVIOUS
<1> USE Limits DEF guarded, records, Handler, Point
<1>1. CASE StartRealtimeSession
  BY <1>1 DEF StartRealtimeSession, Renews, Typed, TypeOK, Serves, Busy, Launched
<1>2. CASE RealtimeCancel
  BY <1>2 DEF RealtimeCancel, Renews, Typed, TypeOK, Serves, Busy, Launched
<1>3. CASE TakeRealtime
  <2>1. PICK c \in Cap \cup Unknown \cup {SessionEnd}, g \in 0..MaxGen, a \in BOOLEAN :
          h' = [Resting EXCEPT !.pc = "quarantine", !.id = received + 1,
                    !.cap = c, !.gen = g, !.approved = a, !.at = now]
    BY <1>3 DEF TakeRealtime
  <2>2. received + 1 \in Nat /\ now \in Nat /\ g \in Nat
    BY DEF Typed, TypeOK
  <2>3. h' \in Handler
    BY <2>1, <2>2, RestingType
  <2>4. c # NoCap
    BY RealtimeAssumption
  <2>5. Serves'
    BY <2>1, <2>4 DEF Serves, Busy, Launched, Resting
  <2> QED
    BY <1>3, <2>2, <2>3, <2>5 DEF TakeRealtime, Typed, TypeOK
<1>4. CASE CheckQuarantine
  <2>1. CASE Reply("quarantined")
    BY <1>4, <2>1, TypedReply DEF CheckQuarantine, Typed, TypeOK, Busy, Status
  <2>2. CASE /\ Go(IF h.cap = SessionEnd THEN "end" ELSE "active")
             /\ UNCHANGED replies
    <3>1. CASE h.cap = SessionEnd
      BY <1>4, <2>2, <3>1, TypedGo DEF CheckQuarantine, Typed, TypeOK, Busy
    <3>2. CASE h.cap # SessionEnd
      BY <1>4, <2>2, <3>2, TypedGo DEF CheckQuarantine, Typed, TypeOK, Busy
    <3> QED
      BY <3>1, <3>2
  <2> QED
    BY <1>4, <2>1, <2>2 DEF CheckQuarantine
<1>5. CASE EndSession
  <2>1. h.at + DrainFor \in Nat
    BY DEF Typed, TypeOK
  <2>2. active' \in BOOLEAN
    BY <1>5 DEF EndSession
  <2> QED
    BY <1>5, <2>1, <2>2, TypedReply DEF EndSession, Typed, TypeOK, Busy, Status
<1>6. CASE CheckActive
  <2>1. CASE Reply("error")
    BY <1>6, <2>1, TypedReply DEF CheckActive, Typed, TypeOK, Busy, Status
  <2>2. CASE Go("stale") /\ UNCHANGED replies
    BY <1>6, <2>2, TypedGo DEF CheckActive, Typed, TypeOK, Busy
  <2> QED
    BY <1>6, <2>1, <2>2 DEF CheckActive
<1>7. CASE CheckStale
  <2>1. CASE Reply("cancelled")
    BY <1>7, <2>1, TypedReply DEF CheckStale, Typed, TypeOK, Busy, Status
  <2>2. CASE Go("gate") /\ UNCHANGED replies
    BY <1>7, <2>2, TypedGo DEF CheckStale, Typed, TypeOK, Busy
  <2> QED
    BY <1>7, <2>1, <2>2 DEF CheckStale
<1>8. CASE Hallucinated
  BY <1>8, TypedReply, TypedEmit, TypedQuarantines
     DEF Hallucinated, Typed, TypeOK, Busy, Status
<1>9. CASE Refused
  BY <1>9, TypedReply, TypedEmit DEF Refused, Typed, TypeOK, Busy, Status
<1>10. CASE BindContext
  <2>1. now + RunTimeout \in Nat
    BY DEF Typed, TypeOK
  <2>2. h' \in Handler
    BY <1>10, <2>1 DEF BindContext, Typed, TypeOK
  <2>3. Serves'
    BY <1>10 DEF BindContext, Typed, TypeOK, Serves, Busy, Launched
  <2> QED
    BY <1>10, <2>2, <2>3 DEF BindContext, Typed, TypeOK
<1>11. CASE Launch
  <2>1. h' \in Handler
    BY <1>11 DEF Launch, Typed, TypeOK
  <2>2. [id |-> h.id, sig |-> h.cap, at |-> h.at] \in Record
    BY <1>11 DEF Launch, Typed, TypeOK, Serves, Record
  <2>3. Serves'
    BY <1>11 DEF Launch, Typed, TypeOK, Serves, Busy, Launched
  <2> QED
    BY <1>11, <2>1, <2>2, <2>3 DEF Launch, Typed, TypeOK
<1>12. CASE Abandons
  BY <1>12, TypedReply DEF Abandons, Typed, TypeOK, Busy, Status
<1>13. CASE TimesOut
  <2>1. Reply("cancelled") \/ Reply("error")
    BY <1>13 DEF TimesOut
  <2> QED
    BY <1>13, <2>1, TypedReply DEF TimesOut, Typed, TypeOK, Busy, Status
<1>14. CASE Collects
  BY <1>14, TypedGo DEF Collects, Typed, TypeOK, Busy, Serves, Launched
<1>15. CASE SchemaDrifted
  BY <1>15, TypedReply, TypedEmit, TypedQuarantines
     DEF SchemaDrifted, Typed, TypeOK, Busy, Status
<1>16. CASE ArgumentsRejected
  BY <1>16, TypedReply, TypedEmit DEF ArgumentsRejected, Typed, TypeOK, Busy, Status
<1>17. CASE Discards
  BY <1>17, TypedReply DEF Discards, Typed, TypeOK, Busy, Status
<1>18. CASE Fails
  BY <1>18, TypedReply, TypedEmit DEF Fails, Typed, TypeOK, Busy, Status
<1>19. CASE Succeeds
  BY <1>19, TypedGo DEF Succeeds, Typed, TypeOK, Busy, Serves, Launched
<1>20. CASE RecordsRun
  <2>1. history' \subseteq Record
    BY <1>20 DEF RecordsRun, Typed, TypeOK, Serves, Launched, Record
  <2>2. logfile' \subseteq Record
    BY <1>20, <2>1, SavedType DEF RecordsRun, Typed, TypeOK
  <2> QED
    BY <1>20, <2>1, <2>2, TypedReply, TypedEmit
       DEF RecordsRun, Typed, TypeOK, Busy, Status
<1>21. CASE TaskReturns
  BY <1>21 DEF TaskReturns, Typed, TypeOK, Serves, Busy, Launched, Outcome
<1>22. CASE TickPrune
  BY <1>22 DEF TickPrune, PruneActions, Typed, TypeOK, Serves, Busy, Launched
<1>23. CASE Advance
  BY <1>23 DEF Advance, Typed, TypeOK, Serves, Busy, Launched
<1>24. CASE UNCHANGED vars
  BY <1>24 DEF vars, Typed, TypeOK, Serves, Busy, Launched
<1> QED
  BY <1>1, <1>2, <1>3, <1>4, <1>5, <1>6, <1>7, <1>8, <1>9, <1>10, <1>11, <1>12,
     <1>13, <1>14, <1>15, <1>16, <1>17, <1>18, <1>19, <1>20, <1>21, <1>22,
     <1>23, <1>24 DEF Next, HandlerStep

\* Every reachable state of the realtime plane is well typed.
THEOREM TypeCorrect == Spec => []TypeOK
<1>1. Typed => TypeOK
  BY DEF Typed
<1> QED
  BY <1>1, TypedInit, TypedNext, PTL DEF Spec

-----------------------------------------------------------------------------
(* The session and the gate.                                               *)

Admitted == Typed /\ InSession /\ Cleared

\* A handler that answers has left every check behind.
LEMMA Answered ==
    ASSUME NEW s, Reply(s)
    PROVE  h'.pc = "idle"
  BY DEF Reply, Resting

LEMMA AdmittedInit == Init => Admitted
  BY TypedInit DEF Init, Admitted, InSession, QuarantineEndsSession, Cleared, Resting

LEMMA InSessionNext == Typed /\ InSession /\ [Next]_vars => InSession'
<1> SUFFICES ASSUME Typed, InSession, [Next]_vars PROVE InSession'
  OBVIOUS
<1> USE DEF guarded, records, InSession, QuarantineEndsSession
<1>1. CASE StartRealtimeSession
  BY <1>1 DEF StartRealtimeSession, Typed, TypeOK
<1>2. CASE EndSession \/ Hallucinated \/ SchemaDrifted
  BY <1>2, Answered DEF EndSession, Hallucinated, SchemaDrifted, Quarantines
<1>3. CASE Advance
  BY <1>3 DEF Advance, Typed, TypeOK
<1>4. CASE /\ UNCHANGED <<now, active, quarantinedUntil>>
           /\ \/ h'.pc = h.pc
              \/ h'.pc \notin {"stale", "gate", "launch"}
              \/ h.pc = "active" /\ active
              \/ h.pc \in {"stale", "gate"}
  BY <1>4
<1>5. RealtimeCancel => <1>4!1
  BY DEF RealtimeCancel
<1>6. TakeRealtime => <1>4!1
  BY DEF TakeRealtime, Resting
<1>7. CheckQuarantine => <1>4!1
  BY Answered DEF CheckQuarantine, Go, Typed, TypeOK
<1>8. CheckActive => <1>4!1
  BY Answered DEF CheckActive
<1>9. CheckStale \/ Refused \/ BindContext => <1>4!1
  BY DEF CheckStale, Refused, BindContext
<1>10. Launch => <1>4!1
  BY DEF Launch, Typed, TypeOK
<1>11. Abandons \/ TimesOut \/ ArgumentsRejected \/ Discards \/ Fails \/ RecordsRun
          => <1>4!1
  BY Answered DEF Abandons, TimesOut, ArgumentsRejected, Discards, Fails, RecordsRun
<1>12. Collects \/ Succeeds => <1>4!1
  BY DEF Collects, Succeeds, Go, Typed, TypeOK
<1>13. TaskReturns => <1>4!1
  BY DEF TaskReturns, Typed, TypeOK
<1>14. TickPrune => <1>4!1
  BY DEF TickPrune
<1>15. UNCHANGED vars => <1>4!1
  BY DEF vars
<1> QED
  BY <1>1, <1>2, <1>3, <1>4, <1>5, <1>6, <1>7, <1>8, <1>9, <1>10, <1>11, <1>12,
     <1>13, <1>14, <1>15 DEF Next, HandlerStep

\* What a capability goroutine is started for: the request being served.
LEMMA StartsOnlyLaunch ==
    ASSUME [Next]_vars, NEW t \in tasks' \ tasks
    PROVE  Launch /\ t = This
<1> USE DEF guarded, records
<1>1. CASE Launch
  BY <1>1 DEF Launch, This
<1>2. CASE TaskReturns
  BY <1>2 DEF TaskReturns
<1>3. CASE UNCHANGED vars
  BY <1>3 DEF vars
<1>4. ~(StartRealtimeSession \/ RealtimeCancel \/ TakeRealtime \/ TickPrune \/ Advance)
  BY DEF StartRealtimeSession, RealtimeCancel, TakeRealtime, TickPrune, Advance
<1>5. ~(CheckQuarantine \/ EndSession \/ CheckActive \/ CheckStale \/ Hallucinated
          \/ Refused \/ BindContext)
  BY DEF CheckQuarantine, EndSession, CheckActive, CheckStale, Hallucinated,
         Refused, BindContext
<1>6. ~(Abandons \/ TimesOut \/ Collects \/ SchemaDrifted \/ ArgumentsRejected
          \/ Discards \/ Fails \/ Succeeds \/ RecordsRun)
  BY DEF Abandons, TimesOut, Collects, SchemaDrifted, ArgumentsRejected,
         Discards, Fails, Succeeds, RecordsRun
<1> QED
  BY <1>1, <1>2, <1>3, <1>4, <1>5, <1>6 DEF Next, HandlerStep

\* Between the gate and the start the request and the history stand still.
LEMMA ClearedNext == Typed /\ Cleared /\ [Next]_vars => Cleared'
<1> SUFFICES ASSUME Typed, Cleared, [Next]_vars, h'.pc = "launch"
             PROVE  Verdict' # "deny" /\ ~AsksHuman'
  BY DEF Cleared
<1> USE DEF guarded, records
<1>1. CASE BindContext
  BY <1>1 DEF BindContext, Verdict, AsksHuman, Typed, TypeOK
<1>2. CASE /\ h.pc = "launch"
           /\ h'.cap = h.cap /\ h'.at = h.at /\ h'.approved = h.approved
           /\ history' = history
  BY <1>2 DEF Cleared, Verdict, AsksHuman
<1>3. StartRealtimeSession \/ RealtimeCancel \/ Advance => <1>2!1
  BY DEF StartRealtimeSession, RealtimeCancel, Advance
<1>4. TaskReturns => <1>2!1
  BY DEF TaskReturns, Typed, TypeOK
<1>5. UNCHANGED vars => <1>2!1
  BY DEF vars
<1>6. ~(TakeRealtime \/ TickPrune)
  BY DEF TakeRealtime, TickPrune, Resting
<1>7. ~(CheckQuarantine \/ EndSession \/ CheckActive \/ CheckStale \/ Hallucinated
          \/ Refused \/ Launch)
  BY Answered DEF CheckQuarantine, EndSession, CheckActive, CheckStale,
         Hallucinated, Refused, Launch, Go, Typed, TypeOK
<1>8. ~(Abandons \/ TimesOut \/ Collects \/ SchemaDrifted \/ ArgumentsRejected
          \/ Discards \/ Fails \/ Succeeds \/ RecordsRun)
  BY Answered DEF Abandons, TimesOut, Collects, SchemaDrifted, ArgumentsRejected,
         Discards, Fails, Succeeds, RecordsRun, Go, Typed, TypeOK
<1> QED
  BY <1>1, <1>2, <1>3, <1>4, <1>5, <1>6, <1>7, <1>8 DEF Next, HandlerStep

LEMMA AdmittedNext == Admitted /\ [Next]_vars => Admitted'
  BY TypedNext, InSessionNext, ClearedNext DEF Admitted

\* Drift and hallucination leave no session behind, and only a new session
\* lifts the quarantine, wherever Start and Cancel fall (handleRealtime,
\* StartRealtimeSession).
THEOREM QuarantineClosesSession == Spec => []QuarantineEndsSession
<1>1. Admitted => QuarantineEndsSession
  BY DEF Admitted, InSession
<1> QED
  BY <1>1, AdmittedInit, AdmittedNext, PTL DEF Spec

LEMMA LaunchStep ==
    ASSUME Admitted, [Next]_vars, NEW t \in tasks' \ tasks
    PROVE  /\ active /\ now >= quarantinedUntil
           /\ Evaluate(Grants, t.sig, t.at) # "deny"
           /\ h.approved \/ Decide(Grants, SessionGrants, t.sig, t.at) = "allow"
<1>1. Launch /\ t = This
  BY StartsOnlyLaunch
<1>2. h.pc = "launch" /\ t.sig = h.cap /\ t.at = h.at /\ h.cap \in Cap
  BY <1>1 DEF Launch, This, Admitted, Typed, Serves
<1>3. active /\ now >= quarantinedUntil
  BY <1>2 DEF Admitted, InSession, QuarantineEndsSession, Typed, TypeOK
<1>4. Verdict # "deny" /\ ~AsksHuman
  BY <1>2 DEF Admitted, Cleared
<1>5. Evaluate(Grants, h.cap, h.at) # "deny"
  BY <1>4 DEF Verdict, Decide
<1>6. h.approved \/ Verdict = "allow"
  BY <1>2, <1>4, DecideType DEF Verdict, AsksHuman, Decision
<1> QED
  BY <1>2, <1>3, <1>5, <1>6 DEF Verdict

\* No capability is launched outside a session or in a quarantine, although
\* the handler reads neither again after its first checks (handleRealtime).
THEOREM LaunchesInSession == Spec => LaunchInSession
<1>1. Admitted /\ [Next]_vars =>
          [\A t \in tasks' \ tasks : active /\ now >= quarantinedUntil]_vars
  BY LaunchStep
<1> QED
  BY <1>1, AdmittedInit, AdmittedNext, PTL DEF Spec, LaunchInSession

\* What is launched was allowed, or asked for and approved, under the grants
\* at the instant the request was taken: an approval never outranks a denial.
THEOREM CoversLaunches == Spec => LaunchCovered
<1>1. Admitted /\ [Next]_vars =>
          [\A t \in tasks' \ tasks :
              /\ Evaluate(Grants, t.sig, t.at) # "deny"
              /\ h.approved \/ Decide(Grants, SessionGrants, t.sig, t.at) = "allow"]_vars
  BY LaunchStep
<1> QED
  BY <1>1, AdmittedInit, AdmittedNext, PTL DEF Spec, LaunchCovered

-----------------------------------------------------------------------------
(* The books: requests are numbered, and what is on record, what is said   *)
(* and what took effect agree on the numbers.                              *)

Numbered ==
    /\ Busy => h.id = received
    /\ h.id = 0 <=> ~Busy
    /\ \A e \in history \cup logfile \cup tasks \cup completed : e.id \in 1..received
    /\ \A e \in audit \cup replies : e.id \in 1..received

\* Of the request being served nothing is said or recorded yet.
Unsaid ==
    Busy => /\ \A r \in replies : r.id # h.id
            /\ \A e \in history \cup logfile : e.id # h.id
            /\ Ran(h.id) \notin audit

\* Its goroutine is the only one with its number, and has returned when the
\* handler knows a result.
Followed ==
    Busy => /\ ~Launched => h.result = "none"
            /\ h.pc = "record" => h.result = "ok"
            /\ \A t \in tasks : t.id = h.id => t = This /\ Launched /\ h.result = "none"
            /\ \A t \in completed : t.id = h.id => t = This /\ h.result = "ok"
            /\ h.result = "ok" => This \in completed

\* A run that is on record has returned; a request that was refused has no
\* run, now or later.
Settled ==
    /\ RepliesTruthful
    /\ \A t \in tasks : Ran(t.id) \notin audit
    /\ \A r \in replies : r.status \in {"denied", "needs_confirm", "quarantined"} =>
          \A t \in tasks : t.id # r.id

\* The instant from which the handler's next decision looks back.
Instant == IF Busy THEN h.at ELSE now

\* The answered successes that the breaker may still count are in the history.
Remembers ==
    /\ Busy => h.at <= now
    /\ IsFiniteSet(history)
    /\ \A e \in completed : Ran(e.id) \in audit /\ e.at > Instant - Window => e \in history

Books == Numbered /\ Unsaid /\ Followed /\ Settled /\ Remembers

LEMMA BooksInit == Init => Books
<1> SUFFICES ASSUME Init PROVE Books
  OBVIOUS
<1>1. IsFiniteSet({})
  BY FS_EmptySet
<1> QED
  BY <1>1 DEF Init, Resting, Books, Numbered, Unsaid, Followed, Settled, Remembers,
              Busy, Launched, RepliesTruthful

\* A step of the handler that moves on and leaves the records alone.
LEMMA BooksGo ==
    ASSUME Typed, Books, Busy, h'.pc \in Point \ {"idle"},
           h'.id = h.id, h'.cap = h.cap, h'.at = h.at, h'.result = h.result,
           Launched => Launched', h'.pc = "record" => h.result = "ok",
           UNCHANGED <<now, history, logfile, tasks, completed, audit, replies, received>>
    PROVE  Books'
<1> USE DEF Books, Busy, Point
<1>1. Numbered'
  BY DEF Numbered
<1>2. Unsaid'
  BY DEF Unsaid, Ran
<1>3. Followed'
  BY DEF Followed, This
<1>4. Settled'
  BY DEF Settled, RepliesTruthful, Ran
<1>5. Remembers'
  BY DEF Remembers, Ran, Instant
<1> QED
  BY <1>1, <1>2, <1>3, <1>4, <1>5

\* A step of the handler that answers anything but a run, with or without an
\* event; a refusal comes before the run, or after one that had no effect.
LEMMA BooksReply ==
    ASSUME Typed, Books, Busy, NEW s \in Status, Reply(s),
           s = "ran" => h.cap = SessionEnd,
           s \in {"denied", "needs_confirm", "quarantined"} =>
               h.result # "ok" /\ (Launched => h.result # "none"),
           \/ audit' = audit
           \/ \E k \in {"failed", "denied", "needs_confirm"} : Emit(k),
           UNCHANGED <<now, history, logfile, tasks, completed, received>>
    PROVE  Books'
<1> DEFINE said == [id |-> h.id, cap |-> h.cap, status |-> s]
<1>1. h'.pc = "idle" /\ h'.id = 0 /\ replies' = replies \cup {said}
  BY DEF Reply, Resting
<1>2. /\ said.id = h.id /\ said.cap = h.cap /\ said.status = s
  OBVIOUS
<1> HIDE DEF said
<1>3. /\ audit \subseteq audit'
      /\ \A e \in audit' : e \in audit \/ (e.id = h.id /\ e.kind # "ran")
  BY DEF Emit
<1>4. \A i : Ran(i) \in audit' <=> Ran(i) \in audit
  BY <1>3 DEF Ran
<1>5. h.id \in 1..received
  BY DEF Books, Numbered, Typed, TypeOK, Busy
<1>6. Numbered'
  BY <1>1, <1>2, <1>3, <1>5 DEF Books, Numbered, Busy
<1>7. Unsaid' /\ Followed'
  BY <1>1 DEF Unsaid, Followed, Busy
<1>8. Settled'
  <2>1. \A t \in tasks : Ran(t.id) \notin audit'
    BY <1>4 DEF Books, Settled
  <2>2. /\ \A e \in history \cup logfile : e.id # said.id
        /\ Ran(said.id) \notin audit'
    BY <1>2, <1>4 DEF Books, Unsaid
  <2>3. s \in {"denied", "needs_confirm", "quarantined"} =>
            \A t \in tasks \cup completed : t.id # said.id
    BY <1>2 DEF Books, Followed
  <2>4. RepliesTruthful'
    <3> SUFFICES ASSUME NEW r \in replies'
                 PROVE  IF r.status = "ran" /\ r.cap # SessionEnd
                        THEN /\ \E t \in completed : t.id = r.id
                             /\ Ran(r.id) \in audit'
                        ELSE /\ \A e \in history \cup logfile : e.id # r.id
                             /\ Ran(r.id) \notin audit'
                             /\ r.status \in {"denied", "needs_confirm", "quarantined"} =>
                                    \A t \in completed : t.id # r.id
      BY DEF RepliesTruthful, Ran
    <3>1. CASE r \in replies
      BY <3>1, <1>4 DEF Books, Settled, RepliesTruthful, Ran
    <3>2. CASE r = said
      BY <3>2, <1>2, <2>2, <2>3
    <3> QED
      BY <3>1, <3>2, <1>1
  <2>5. \A r \in replies' : r.status \in {"denied", "needs_confirm", "quarantined"} =>
            \A t \in tasks : t.id # r.id
    BY <1>1, <1>2, <2>3 DEF Books, Settled
  <2> QED
    BY <2>1, <2>4, <2>5 DEF Settled, Ran
<1>9. Remembers'
  BY <1>1, <1>4, GateAssumption
     DEF Books, Remembers, Instant, Busy, Typed, TypeOK, Ran, Record
<1> QED
  BY <1>6, <1>7, <1>8, <1>9 DEF Books

LEMMA BooksTake == Typed /\ Books /\ TakeRealtime => Books'
<1> SUFFICES ASSUME Typed, Books, TakeRealtime PROVE Books'
  OBVIOUS
<1> USE DEF guarded, records
<1>1. /\ h'.pc = "quarantine" /\ h'.id = received + 1 /\ h'.at = now
      /\ h'.result = "none"
      /\ h.pc = "idle"
      /\ received' = received + 1 /\ received \in Nat
      /\ UNCHANGED <<now, history, logfile, tasks, completed, audit, replies>>
  BY DEF TakeRealtime, Resting, Typed, TypeOK
<1>2. Numbered'
  BY <1>1 DEF Books, Numbered, Busy
<1>3. Unsaid'
  <2>1. Ran(received + 1) \notin audit
    BY <1>1 DEF Books, Numbered, Ran
  <2> QED
    BY <1>1, <2>1 DEF Books, Numbered, Unsaid, Ran
<1>4. Followed'
  BY <1>1 DEF Books, Numbered, Followed, Launched
<1>5. Settled'
  BY <1>1 DEF Books, Settled, RepliesTruthful, Ran
<1>6. Remembers'
  BY <1>1 DEF Books, Remembers, Instant, Busy, Ran, Typed, TypeOK
<1> QED
  BY <1>2, <1>3, <1>4, <1>5, <1>6 DEF Books

LEMMA BooksLaunch == Typed /\ Books /\ Launch => Books'
<1> SUFFICES ASSUME Typed, Books, Launch PROVE Books'
  OBVIOUS
<1> USE DEF guarded, records
<1>1. /\ h.pc = "launch" /\ h'.pc = "wait"
      /\ h'.id = h.id /\ h'.at = h.at /\ h'.cap = h.cap /\ h'.result = h.result
      /\ tasks' = tasks \cup {This}
      /\ UNCHANGED <<now, history, logfile, completed, audit, replies, received>>
  BY DEF Launch, This, Typed, TypeOK
<1>2. This.id = h.id /\ This' = This
  BY <1>1 DEF This
<1>3. Busy /\ Busy' /\ ~Launched /\ Launched'
  BY <1>1 DEF Busy, Launched
<1>4. Numbered'
  BY <1>1, <1>2, <1>3 DEF Books, Numbered, Typed, TypeOK
<1>5. Unsaid'
  BY <1>1, <1>3 DEF Books, Unsaid, Ran
<1>6. Followed'
  BY <1>1, <1>2, <1>3 DEF Books, Followed
<1>7. Settled'
  BY <1>1, <1>2, <1>3 DEF Books, Settled, Unsaid, RepliesTruthful, Ran
<1>8. Remembers'
  BY <1>1, <1>3 DEF Books, Remembers, Instant, Ran
<1> QED
  BY <1>4, <1>5, <1>6, <1>7, <1>8 DEF Books

LEMMA BooksReturn == Typed /\ Books /\ TaskReturns => Books'
<1> SUFFICES ASSUME Typed, Books, NEW t \in tasks, NEW o \in Outcome \ {"none"},
                    tasks' = tasks \ {t},
                    completed' = IF o = "ok" THEN completed \cup {t} ELSE completed,
                    h' = IF h.id = t.id THEN [h EXCEPT !.result = o] ELSE h,
                    UNCHANGED <<now, history, logfile, audit, replies, received>>
             PROVE  Books'
  BY DEF TaskReturns, records
<1>1. t.id \in 1..received /\ received \in Nat
  BY DEF Books, Numbered, Typed, TypeOK
<1>2. /\ h'.pc = h.pc /\ h'.id = h.id /\ h'.cap = h.cap /\ h'.at = h.at
      /\ h'.result = IF h.id = t.id THEN o ELSE h.result
  BY DEF Typed, TypeOK
<1>3. (Busy' <=> Busy) /\ (Launched' <=> Launched) /\ This' = This
  BY <1>2 DEF Busy, Launched, This
<1>4. \A u \in completed' : u \in completed \/ (u = t /\ o = "ok")
  OBVIOUS
<1>5. Ran(t.id) \notin audit
  BY DEF Books, Settled
<1>6. Numbered'
  BY <1>1, <1>2, <1>3, <1>4 DEF Books, Numbered
<1>7. Unsaid'
  BY <1>2, <1>3 DEF Books, Unsaid, Ran
<1>8. Followed'
  <2>1. CASE h.id # t.id
    BY <1>2, <1>3, <1>4, <2>1 DEF Books, Followed
  <2>2. CASE h.id = t.id
    <3>1. Busy
      BY <1>1, <2>2 DEF Books, Numbered
    <3>2. t = This /\ Launched /\ h.result = "none"
      BY <2>2, <3>1 DEF Books, Followed
    <3>3. h'.result = o
      BY <1>2, <2>2
    <3>4. \A u \in tasks' : u.id # h.id
      BY <3>1, <3>2 DEF Books, Followed
    <3>5. h.pc # "record"
      BY <3>1, <3>2 DEF Books, Followed
    <3>6. \A u \in completed : u.id # h.id
      BY <3>1, <3>2 DEF Books, Followed
    <3>7. \A u \in completed' : u.id = h.id => u = This /\ o = "ok"
      BY <1>4, <3>2, <3>6
    <3>8. o = "ok" => This \in completed'
      BY <3>2
    <3> QED
      BY <1>2, <1>3, <3>2, <3>3, <3>4, <3>5, <3>7, <3>8 DEF Followed
  <2> QED
    BY <2>1, <2>2
<1>9. Settled'
  BY <1>4, <1>5 DEF Books, Settled, RepliesTruthful, Ran
<1>10. Remembers'
  BY <1>2, <1>3, <1>4, <1>5 DEF Books, Remembers, Instant, Ran
<1> QED
  BY <1>6, <1>7, <1>8, <1>9, <1>10 DEF Books

LEMMA BooksRecord == Typed /\ Books /\ RecordsRun => Books'
<1> SUFFICES ASSUME Typed, Books, RecordsRun PROVE Books'
  OBVIOUS
<1> DEFINE said == [id |-> h.id, cap |-> h.cap, status |-> "ran"]
<1>1. /\ h.pc = "record" /\ h'.pc = "idle" /\ h'.id = 0
      /\ replies' = replies \cup {said}
      /\ audit' = audit \cup {Ran(h.id)}
      /\ UNCHANGED <<now, tasks, completed, received>>
  BY DEF RecordsRun, Reply, Emit, Ran, Resting
<1>2. said.id = h.id /\ said.cap = h.cap /\ said.status = "ran"
  OBVIOUS
<1>3. history' = history \cup {This} /\ This.id = h.id /\ This.at = h.at
  BY DEF RecordsRun, This
<1> HIDE DEF said
<1>4. Busy /\ ~Busy' /\ Launched /\ h.cap \in Cap
  BY <1>1 DEF Busy, Launched, Typed, Serves
<1>5. /\ This \in completed
      /\ \A t \in tasks : t.id # h.id
      /\ \A t \in completed : t.id = h.id => t = This
  BY <1>1, <1>4 DEF Books, Followed
<1>6. h.id = received /\ h.id \in 1..received
  BY <1>4 DEF Books, Numbered, Typed, TypeOK
<1>7. This \in Record /\ history' \subseteq Record
  BY <1>3, <1>4 DEF Typed, TypeOK, Record, This
<1>8. \A e \in history' \cup logfile' : e.id = h.id \/ \E f \in history \cup logfile : e.id = f.id
  <2>1. \A e \in history' : e.id = h.id \/ \E f \in history : e.id = f.id
    BY <1>3
  <2>2. logfile' \in {Saved(history'), logfile, {}}
    BY DEF RecordsRun
  <2>3. \A e \in Saved(history') : \E f \in history' : e.id = f.id
    BY <1>7, SavedType
  <2> QED
    BY <2>1, <2>2, <2>3
<1>9. \A i : Ran(i) \in audit' <=> Ran(i) \in audit \/ i = h.id
  BY <1>1 DEF Ran
<1>10. Numbered'
  <2>1. Ran(h.id).id = h.id
    BY DEF Ran
  <2> QED
    BY <1>1, <1>2, <1>4, <1>6, <1>8, <2>1 DEF Books, Numbered
<1>11. Unsaid' /\ Followed'
  BY <1>4 DEF Unsaid, Followed
<1>12. Settled'
  <2>1. \A r \in replies : r.id # h.id
    BY <1>4 DEF Books, Unsaid
  <2>2. RepliesTruthful'
    <3> SUFFICES ASSUME NEW r \in replies'
                 PROVE  IF r.status = "ran" /\ r.cap # SessionEnd
                        THEN /\ \E t \in completed : t.id = r.id
                             /\ Ran(r.id) \in audit'
                        ELSE /\ \A e \in history' \cup logfile' : e.id # r.id
                             /\ Ran(r.id) \notin audit'
                             /\ r.status \in {"denied", "needs_confirm", "quarantined"} =>
                                    \A t \in completed : t.id # r.id
      BY <1>1 DEF RepliesTruthful, Ran
    <3>1. CASE r \in replies
      <4>1. r.id # h.id
        BY <2>1, <3>1
      <4> QED
        BY <3>1, <4>1, <1>8, <1>9 DEF Books, Settled, RepliesTruthful, Ran
    <3>2. CASE r = said
      <4>1. r.cap # SessionEnd
        BY <3>2, <1>2, <1>4, RealtimeAssumption
      <4> QED
        BY <3>2, <4>1, <1>2, <1>3, <1>5, <1>9
    <3> QED
      BY <3>1, <3>2, <1>1
  <2>3. \A t \in tasks : Ran(t.id) \notin audit'
    BY <1>5, <1>9 DEF Books, Settled
  <2>4. \A r \in replies' : r.status \in {"denied", "needs_confirm", "quarantined"} =>
            \A t \in tasks : t.id # r.id
    BY <1>1, <1>2 DEF Books, Settled
  <2> QED
    BY <1>1, <2>2, <2>3, <2>4 DEF Settled, Ran
<1>13. Remembers'
  <2>1. IsFiniteSet(history')
    BY <1>3, FS_AddElement DEF Books, Remembers
  <2>2. \A e \in completed : Ran(e.id) \in audit' /\ e.at > now - Window => e \in history'
    <3> SUFFICES ASSUME NEW e \in completed, Ran(e.id) \in audit', e.at > now - Window
                 PROVE  e \in history'
      OBVIOUS
    <3>1. CASE e.id = h.id
      BY <3>1, <1>3, <1>5
    <3>2. CASE e.id # h.id
      <4>1. Ran(e.id) \in audit
        BY <3>2, <1>9
      <4>2. e.at > h.at - Window
        BY <1>4, GateAssumption DEF Books, Remembers, Typed, TypeOK, Record
      <4> QED
        BY <4>1, <4>2, <1>3, <1>4 DEF Books, Remembers, Instant
    <3> QED
      BY <3>1, <3>2
  <2> QED
    BY <1>1, <1>4, <2>1, <2>2 DEF Remembers, Instant, Ran
<1> QED
  BY <1>10, <1>11, <1>12, <1>13 DEF Books

LEMMA BooksTick == Typed /\ Books /\ TickPrune => Books'
<1> SUFFICES ASSUME Typed, Books, TickPrune PROVE Books'
  OBVIOUS
<1>1. /\ h.pc = "idle" /\ h' = h
      /\ history' = {r \in history : r.at > now - Window}
      /\ UNCHANGED <<now, logfile, tasks, completed, audit, replies, received>>
  BY DEF TickPrune, PruneActions
<1>2. IsFiniteSet(history')
  BY <1>1, FS_Subset DEF Books, Remembers
<1>3. Numbered' /\ Unsaid' /\ Followed'
  BY <1>1 DEF Books, Numbered, Unsaid, Followed, Busy
<1>4. Settled'
  BY <1>1 DEF Books, Settled, RepliesTruthful, Ran
<1>5. Remembers'
  BY <1>1, <1>2 DEF Books, Remembers, Instant, Busy, Ran
<1> QED
  BY <1>3, <1>4, <1>5 DEF Books

\* Calls of other goroutines, and time, do not touch the books.
LEMMA BooksElsewhere ==
    ASSUME Typed, Books, h' = h, now' = now \/ now' = now + 1,
           UNCHANGED <<history, logfile, tasks, completed, audit, replies, received>>
    PROVE  Books'
<1>1. Numbered' /\ Unsaid' /\ Followed'
  BY DEF Books, Numbered, Unsaid, Followed, Busy, Launched, This, Ran
<1>2. Settled'
  BY DEF Books, Settled, RepliesTruthful, Ran
<1>3. Remembers'
  BY GateAssumption DEF Books, Remembers, Instant, Busy, Ran, Typed, TypeOK, Record
<1> QED
  BY <1>1, <1>2, <1>3 DEF Books

LEMMA BooksNext == Typed /\ Books /\ [Next]_vars => Books'
<1> SUFFICES ASSUME Typed, Books, [Next]_vars PROVE Books'
  OBVIOUS
<1> USE DEF guarded, records
<1>1. CASE StartRealtimeSession \/ RealtimeCancel \/ Advance
  BY <1>1, BooksElsewhere DEF StartRealtimeSession, RealtimeCancel, Advance
<1>2. CASE CheckQuarantine
  <2>1. h.pc = "quarantine" /\ ~Launched /\ h.result = "none"
    BY <1>2 DEF CheckQuarantine, Books, Followed, Busy, Launched
  <2>2. CASE Reply("quarantined")
    BY <1>2, <2>1, <2>2, BooksReply DEF CheckQuarantine, Busy, Status
  <2>3. CASE /\ Go(IF h.cap = SessionEnd THEN "end" ELSE "active")
             /\ UNCHANGED replies
    BY <1>2, <2>1, <2>3, BooksGo DEF CheckQuarantine, Go, Busy, Point, Typed, TypeOK
  <2> QED
    BY <1>2, <2>2, <2>3 DEF CheckQuarantine
<1>3. CASE EndSession
  BY <1>3, BooksReply DEF EndSession, Busy, Status, Typed, Serves
<1>4. CASE CheckActive
  <2>1. CASE Reply("error")
    BY <1>4, <2>1, BooksReply DEF CheckActive, Busy, Status
  <2>2. CASE Go("stale") /\ UNCHANGED replies
    BY <1>4, <2>2, BooksGo DEF CheckActive, Go, Busy, Launched, Point, Typed, TypeOK
  <2> QED
    BY <1>4, <2>1, <2>2 DEF CheckActive
<1>5. CASE CheckStale
  <2>1. CASE Reply("cancelled")
    BY <1>5, <2>1, BooksReply DEF CheckStale, Busy, Status
  <2>2. CASE Go("gate") /\ UNCHANGED replies
    BY <1>5, <2>2, BooksGo DEF CheckStale, Go, Busy, Launched, Point, Typed, TypeOK
  <2> QED
    BY <1>5, <2>1, <2>2 DEF CheckStale
<1>6. CASE Hallucinated
  <2>1. ~Launched /\ h.result = "none"
    BY <1>6 DEF Hallucinated, Books, Followed, Busy, Launched
  <2> QED
    BY <1>6, <2>1, BooksReply DEF Hallucinated, Busy, Status
<1>7. CASE Refused
  <2>1. ~Launched /\ h.result = "none"
    BY <1>7 DEF Refused, Books, Followed, Busy, Launched
  <2>2. CASE Emit("denied") /\ Reply("denied")
    BY <1>7, <2>1, <2>2, BooksReply DEF Refused, Busy, Status
  <2>3. CASE Emit("needs_confirm") /\ Reply("needs_confirm")
    BY <1>7, <2>1, <2>3, BooksReply DEF Refused, Busy, Status
  <2> QED
    BY <1>7, <2>2, <2>3 DEF Refused
<1>8. CASE BindContext
  BY <1>8, BooksGo DEF BindContext, Busy, Launched, Point, Typed, TypeOK
<1>9. CASE Launch
  BY <1>9, BooksLaunch
<1>10. CASE Abandons
  BY <1>10, BooksReply DEF Abandons, Busy, Status
<1>11. CASE TimesOut
  <2>1. Reply("cancelled") \/ Reply("error")
    BY <1>11 DEF TimesOut
  <2> QED
    BY <1>11, <2>1, BooksReply DEF TimesOut, Busy, Status
<1>12. CASE Collects
  BY <1>12, BooksGo DEF Collects, Go, Busy, Launched, Point, Typed, TypeOK
<1>13. CASE SchemaDrifted
  BY <1>13, BooksReply DEF SchemaDrifted, Busy, Status
<1>14. CASE ArgumentsRejected
  BY <1>14, BooksReply DEF ArgumentsRejected, Busy, Status
<1>15. CASE Discards
  BY <1>15, BooksReply DEF Discards, Busy, Status
<1>16. CASE Fails
  BY <1>16, BooksReply DEF Fails, Busy, Status
<1>17. CASE Succeeds
  BY <1>17, BooksGo DEF Succeeds, Go, Busy, Launched, Point, Typed, TypeOK
<1>18. CASE RecordsRun
  BY <1>18, BooksRecord
<1>19. CASE TakeRealtime
  BY <1>19, BooksTake
<1>20. CASE TaskReturns
  BY <1>20, BooksReturn
<1>21. CASE TickPrune
  BY <1>21, BooksTick
<1>22. CASE UNCHANGED vars
  BY <1>22, BooksElsewhere DEF vars
<1> QED
  BY <1>1, <1>2, <1>3, <1>4, <1>5, <1>6, <1>7, <1>8, <1>9, <1>10, <1>11, <1>12,
     <1>13, <1>14, <1>15, <1>16, <1>17, <1>18, <1>19, <1>20, <1>21, <1>22
     DEF Next, HandlerStep

IInv == Admitted /\ Books

LEMMA IInvInit == Init => IInv
  BY AdmittedInit, BooksInit DEF IInv

LEMMA IInvNext == IInv /\ [Next]_vars => IInv'
  BY AdmittedNext, BooksNext DEF IInv, Admitted

\* What a client is told is what happened, however late an abandoned
\* capability takes effect: "ran" is said of a run that did, and no answer to
\* another request is contradicted by the history or the audit log.
THEOREM TellsTheTruth == Spec => []RepliesTruthful
<1>1. IInv => RepliesTruthful
  BY DEF IInv, Books, Settled
<1> QED
  BY <1>1, IInvInit, IInvNext, PTL DEF Spec

LEMMA CutStep ==
    ASSUME IInv, [Next]_vars, NEW t \in tasks' \ tasks,
           ~h.approved, Threshold >= 2
    PROVE  LET said == {e \in completed : [kind |-> "ran", id |-> e.id] \in audit}
           IN  1 + Cardinality(Recent(said, t.sig, t.at)) < Threshold
<1> DEFINE said == {e \in completed : [kind |-> "ran", id |-> e.id] \in audit}
<1>1. Launch /\ t = This
  BY StartsOnlyLaunch
<1>2. h.pc = "launch" /\ Busy /\ t.sig = h.cap /\ t.at = h.at
  BY <1>1 DEF Launch, This, Busy
<1>3. ~IsDoomLoop(history, h.cap, h.at)
  BY <1>2 DEF IInv, Admitted, Cleared, AsksHuman
<1>4. Recent(said, h.cap, h.at) \subseteq Recent(history, h.cap, h.at)
  BY <1>2 DEF IInv, Books, Remembers, Instant, Recent, Ran
<1>5. IsFiniteSet(Recent(history, h.cap, h.at))
  BY FS_Subset DEF IInv, Books, Remembers, Recent
<1>6. Cardinality(Recent(said, h.cap, h.at)) <= Cardinality(Recent(history, h.cap, h.at))
  BY <1>4, <1>5, FS_Subset
<1>7. /\ Cardinality(Recent(said, h.cap, h.at)) \in Nat
      /\ Cardinality(Recent(history, h.cap, h.at)) \in Nat
  BY <1>4, <1>5, FS_Subset, FS_CardinalityType
<1>8. 1 + Cardinality(Recent(history, h.cap, h.at)) < Threshold
  BY <1>3, <1>7, GateAssumption DEF IsDoomLoop
<1> HIDE DEF said
<1>9. 1 + Cardinality(Recent(said, t.sig, t.at)) < Threshold
  BY <1>2, <1>6, <1>7, <1>8, GateAssumption
<1> QED
  BY <1>9 DEF said

\* The breaker holds in the realtime plane for every window and threshold: a
\* success the client was told of is counted until the window has passed it.
THEOREM CutsRealtimeLoop == Spec => RealtimeLoopCut
<1>1. IInv /\ [Next]_vars =>
          [\A t \in tasks' \ tasks :
              (~h.approved /\ Threshold >= 2) =>
                  LET said == {e \in completed :
                                   [kind |-> "ran", id |-> e.id] \in audit}
                  IN  1 + Cardinality(Recent(said, t.sig, t.at)) < Threshold]_vars
  BY CutStep
<1> QED
  BY <1>1, IInvInit, IInvNext, PTL DEF Spec, RealtimeLoopCut

=============================================================================
