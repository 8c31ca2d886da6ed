----------------------------- MODULE GuardedRuns -----------------------------
(***************************************************************************)
(* What the daemon promises about executions, without its mailbox, its     *)
(* connections, its pruning and its replies: one execution at a time, each *)
(* admitted on the grants on file and on everything executed since the     *)
(* process started and remembered from before, none of it ever forgotten.  *)
(* DaemonActor implements this specification.                              *)
(***************************************************************************)
EXTENDS PolicyFiles

CONSTANTS
    Arg,          \* argument maps of a call
    Id,           \* serial numbers of executions
    InitArm,      \* arming grants on file
    InitSession,  \* session grants on file
    InitLog       \* action log on file before the first start

VARIABLES
    now,      \* the clock
    up,       \* the process runs
    running,  \* the execution in progress, if any: a set of at most one record
    done,     \* executions that succeeded since the process started
    known,    \* actions remembered from before
    logfile   \* the action log on file

vars == <<now, up, running, done, known, logfile>>

\* The policy lets it run, or asks and a human approved; and a human approved
\* it or it does not repeat what was done inside the window.
Admitted(sig, approved) ==
    /\ Evaluate(InitArm, sig[1], now) # "deny"
    /\ \/ approved
       \/ /\ Decide(InitArm, InitSession, sig[1], now) = "allow"
          /\ ~IsDoomLoop(done \cup known, sig, now)

\* The log says what an intact save of the actions of the window says.
Intact(f) ==
    \E h \in SUBSET (done' \cup known) :
        /\ \A r \in done' \cup known : r.at > now - Window => r \in h
        /\ f = Saved(h)

Init ==
    /\ now = 0
    /\ up = TRUE
    /\ running = {}
    /\ done = {}
    /\ known = PruneActions(InitLog, 0)
    /\ logfile = InitLog

Begin ==
    /\ up
    /\ running = {}
    /\ \E sig \in Cap \X Arg, i \in Id, approved \in BOOLEAN :
          /\ running' = {[sig |-> sig, at |-> now, id |-> i, approved |-> approved]}
          /\ Admitted(sig, approved)
    /\ UNCHANGED <<now, up, done, known, logfile>>

Fail ==
    /\ running # {}
    /\ running' = {}
    /\ UNCHANGED <<now, up, done, known, logfile>>

\* The save may also leave the file as it was, or unreadable.
Succeed ==
    /\ running # {}
    /\ running' = {}
    /\ done' = done \cup running
    /\ Intact(logfile') \/ logfile' = logfile \/ logfile' = {}
    /\ UNCHANGED <<now, up, known>>

Stop ==
    /\ up
    /\ up' = FALSE
    /\ running' = {}
    /\ UNCHANGED <<now, done, known, logfile>>

Start ==
    /\ ~up
    /\ up' = TRUE
    /\ done' = {}
    /\ known' = PruneActions(logfile, now)
    /\ UNCHANGED <<now, running, logfile>>

Tick ==
    /\ now' = now + 1
    /\ UNCHANGED <<up, running, done, known, logfile>>

Next == Begin \/ Fail \/ Succeed \/ Stop \/ Start \/ Tick

Spec == Init /\ [][Next]_vars

=============================================================================
