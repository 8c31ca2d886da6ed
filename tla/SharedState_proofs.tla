------------------------- MODULE SharedState_proofs --------------------------
(***************************************************************************)
(* Proofs about module SharedState, for any number of processes, killed    *)
(* and overlapping in any way, and any policy: failing closed              *)
(* (RunsAuthorised), the loops cut inside one command (CommandLoopCut),    *)
(* and, while there is one writer at a time, the files that stay readable  *)
(* (SerialReadable) and the loops cut across commands and planes           *)
(* (SerialLoopCut).                                                        *)
(***************************************************************************)
EXTENDS SharedState, FiniteSetTheorems, SequenceTheorems, TLAPS

\* The fields of a command and of the files, and of the daemon's memory.
CliField == {"pc", "id", "kind", "steps", "arm", "session", "history", "at", "yes"}
FileField == {"arm", "allow", "log"}
DaemonField == {"phase", "arm", "session", "history", "at"}

\* The points between a decision and what it permits.
Decided == {"loop", "writeAllow", "writeLog", "exec"}

\* No grant outlives a window some arm command gave.
Genuine(arm, g) ==
    \A c \in DOMAIN arm :
        /\ arm[c] \in Nat
        /\ \E w \in g : w.cap = c /\ arm[c] <= w.until

\* What an execution of c decided at t with these grants is covered by.
Permitted(arm, S, c, t, yes) ==
    /\ Resolve(c).requiresArming => IsArmed(arm, c, t)
    /\ Resolve(c).decision = "ask" => yes \/ c \in S
    /\ Resolve(c).decision # "deny"

\* The memory of a command, whatever the files have become since it read them.
CliOK(r, g, a) ==
    /\ DOMAIN r = CliField
    /\ r.at \in Nat
    /\ r.yes \in BOOLEAN
    /\ Genuine(r.arm, g)
    /\ r.session \subseteq a
    /\ r.pc = "recheck" => r.yes
    /\ r.pc \in Decided => Permitted(r.arm, r.session, Head(r.steps), r.at, r.yes)

\* A file holds nothing a human did not give, or does not parse.
FileOK(f, g, a) ==
    /\ DOMAIN f = FileField
    /\ f.arm \in Unreadable \/ Genuine(f.arm, g)
    /\ f.allow \in Unreadable \/ f.allow \subseteq a

DaemonOK(d, g, a) ==
    /\ DOMAIN d = DaemonField
    /\ Genuine(d.arm, g)
    /\ d.session \subseteq a

IInv ==
    /\ now \in Nat
    /\ \A w \in given : w.until \in Nat
    /\ DOMAIN cli = Proc
    /\ \A p \in Proc : CliOK(cli[p], given, always)
    /\ FileOK(file, given, always)
    /\ DaemonOK(daemon, given, always)
    /\ RunsAuthorised

-----------------------------------------------------------------------------
(* Grants.                                                                 *)

\* What the files keep of an instant is not later than it.
LEMMA FileTimeEarlier == \A t \in Nat : FileTime(t) \in Nat /\ FileTime(t) <= t
<1> SUFFICES ASSUME NEW t \in Nat PROVE FileTime(t) \in Nat /\ FileTime(t) <= t
  OBVIOUS
<1> Second \in Nat \ {0}
  BY FilesAssumption
<1>1. t % Second \in 0 .. (Second - 1) /\ t % Second <= t
  OBVIOUS
<1> QED
  BY <1>1 DEF FileTime

LEMMA ArmForType == ASSUME NEW c PROVE ArmFor(c) \in Nat
  BY GateAssumption DEF ArmFor, IsMap, Rule

\* Pruning and disarming only lose grants, saving only shortens them, and more
\* windows make none of them ungrounded.
LEMMA StayGenuine ==
    ASSUME NEW arm, NEW g, Genuine(arm, g), \A w \in g : w.until \in Nat,
           NEW t, NEW c, NEW more, g \subseteq more
    PROVE  /\ Genuine(arm, more)
           /\ Genuine(PruneArm(arm, t), g)
           /\ Genuine(Disarm(arm, c), g)
           /\ Genuine(SavedArm(arm, t), g)
<1>1. Genuine(arm, more)
  BY DEF Genuine
<1>2. Genuine(PruneArm(arm, t), g)
  BY DEF Genuine, PruneArm
<1>3. Genuine(Disarm(arm, c), g)
  BY DEF Genuine, Disarm
<1>4. Genuine(SavedArm(arm, t), g)
  <2> SUFFICES ASSUME NEW x \in DOMAIN SavedArm(arm, t)
               PROVE  /\ SavedArm(arm, t)[x] \in Nat
                      /\ \E w \in g : w.cap = x /\ SavedArm(arm, t)[x] <= w.until
    BY DEF Genuine
  <2>1. x \in DOMAIN arm /\ SavedArm(arm, t)[x] = FileTime(arm[x])
    BY DEF SavedArm, PruneArm
  <2>2. PICK w \in g : w.cap = x /\ arm[x] <= w.until
    BY <2>1 DEF Genuine
  <2>3. arm[x] \in Nat /\ w.until \in Nat
    BY <2>1 DEF Genuine
  <2>4. FileTime(arm[x]) \in Nat /\ FileTime(arm[x]) <= arm[x]
    BY <2>3, FileTimeEarlier
  <2> QED
    BY <2>1, <2>2, <2>3, <2>4
<1> QED
  BY <1>1, <1>2, <1>3, <1>4

\* Arming gives the window it records.
LEMMA ArmGenuine ==
    ASSUME NEW arm, NEW g, Genuine(arm, g), NEW c, NEW t \in Nat,
           NEW w, w = [cap |-> c, until |-> t + ArmFor(c)]
    PROVE  Genuine(Arm(arm, c, t, ArmFor(c)), g \cup {w})
<1>1. t + ArmFor(c) \in Nat
  BY ArmForType
<1>2. w.cap = c /\ w.until = t + ArmFor(c)
  OBVIOUS
<1> QED
  BY <1>1, <1>2 DEF Genuine, Arm

\* What a decision that does not deny permits.
LEMMA DecidePermits ==
    ASSUME NEW arm, NEW S, NEW c, NEW t, NEW yes \in BOOLEAN,
           Decide(arm, S, c, t) # "deny",
           yes \/ Decide(arm, S, c, t) = "allow"
    PROVE  Permitted(arm, S, c, t, yes)
  BY DEF Decide, Evaluate, Permitted

\* A permitted execution of genuine grants is authorised.
LEMMA PermittedAuthorised ==
    ASSUME NEW arm, NEW S, NEW c, NEW t \in Nat, NEW yes, NEW g, NEW a,
           Genuine(arm, g), S \subseteq a, \A w \in g : w.until \in Nat,
           Permitted(arm, S, c, t, yes)
    PROVE  /\ Resolve(c).requiresArming => \E w \in g : w.cap = c /\ t < w.until
           /\ Resolve(c).decision = "ask" => yes \/ c \in a
           /\ Resolve(c).decision # "deny"
  BY DEF Genuine, Permitted, IsArmed

\* More windows and more "always" spoil no memory and no file.
LEMMA Weaken ==
    ASSUME NEW g, NEW a, NEW g2, NEW a2, g \subseteq g2, a \subseteq a2
    PROVE  /\ \A r : CliOK(r, g, a) => CliOK(r, g2, a2)
           /\ \A f : FileOK(f, g, a) => FileOK(f, g2, a2)
           /\ \A d : DaemonOK(d, g, a) => DaemonOK(d, g2, a2)
  BY DEF CliOK, FileOK, DaemonOK, Genuine

-----------------------------------------------------------------------------
(* Steps.                                                                  *)

LEMMA NothingYet ==
    /\ CliOK(Off, {}, {})
    /\ FileOK([arm |-> NoGrants, allow |-> {}, log |-> {}], {}, {})
    /\ DaemonOK(Down, {}, {})
<1>1. Genuine(NoGrants, {})
  BY DEF Genuine, NoGrants
<1>2. CliOK(Off, {}, {})
  BY <1>1 DEF CliOK, Off, Decided, CliField
<1>3. FileOK([arm |-> NoGrants, allow |-> {}, log |-> {}], {}, {})
  BY <1>1 DEF FileOK, FileField
<1>4. DaemonOK(Down, {}, {})
  BY <1>1 DEF DaemonOK, Down, DaemonField
<1> QED
  BY <1>2, <1>3, <1>4

LEMMA IInvInit == Init => IInv
  BY NothingYet DEF Init, IInv, RunsAuthorised

\* One process moves.
LEMMA Moves ==
    ASSUME IInv, NEW p \in Proc, NEW r, cli' = [cli EXCEPT ![p] = r],
           CliOK(r, given', always'), FileOK(file', given', always'),
           given \subseteq given', always \subseteq always',
           \A w \in given' : w.until \in Nat,
           UNCHANGED <<now, daemon>>,
           RunsAuthorised'
    PROVE  IInv'
<1>1. /\ DOMAIN cli' = Proc
      /\ \A q \in Proc : cli'[q] = IF q = p THEN r ELSE cli[q]
  BY DEF IInv
<1>2. \A q \in Proc : CliOK(cli'[q], given', always')
  BY <1>1, Weaken DEF IInv
<1>3. DaemonOK(daemon', given', always')
  BY Weaken DEF IInv
<1> QED
  BY <1>1, <1>2, <1>3 DEF IInv

\* The process moves alone: the files keep what they hold, or one of them is
\* truncated, and nothing is executed.
LEMMA MovesAlone ==
    ASSUME IInv, NEW p \in Proc, NEW r, cli' = [cli EXCEPT ![p] = r],
           CliOK(r, given, always),
           \/ file' = file
           \/ \E f \in FileField : file' = Truncated(f)
           \/ \E x : file' \in Written("log", x)
           \/ \E x \in SUBSET always : file' \in Written("allow", x),
           UNCHANGED <<now, daemon, given, always, executed>>
    PROVE  IInv'
<1>1. FileOK(file', given', always')
  BY DEF IInv, FileOK, FileField, Truncated, Written, Unreadable
<1>2. RunsAuthorised'
  BY DEF IInv, RunsAuthorised
<1> QED
  BY <1>1, <1>2, Moves DEF IInv

LEMMA OffOK == CliOK(Off, given, always)
  BY DEF CliOK, Off, NoGrants, Genuine, Decided, CliField

\* Ending, and being killed.
LEMMA ExitsStep ==
    ASSUME IInv, NEW p \in Proc, Exits(p), file' = file,
           UNCHANGED <<now, daemon, given, always, executed>>
    PROVE  IInv'
  BY OffOK, MovesAlone DEF Exits

\* What a process that moves becomes, when the step assigns single fields.
LEMMA Field ==
    ASSUME IInv, NEW p \in Proc
    PROVE  /\ DOMAIN cli[p] = CliField
           /\ CliOK(cli[p], given, always)
           /\ DOMAIN cli = Proc
           /\ now \in Nat
  BY DEF IInv, CliOK

LEMMA BeginStep == ASSUME IInv, NEW p \in Proc, Begin(p) PROVE IInv'
<1>1. PICK k \in Kinds, n \in 1..MaxSteps : \E s \in [1..n -> Cap] :
          cli' = [cli EXCEPT ![p] = [Off EXCEPT
              !.pc = "loadArm", !.id = commands + 1, !.kind = k, !.steps = s, !.at = now]]
  BY DEF Begin
<1>2. PICK s \in [1..n -> Cap] :
          cli' = [cli EXCEPT ![p] = [Off EXCEPT
              !.pc = "loadArm", !.id = commands + 1, !.kind = k, !.steps = s, !.at = now]]
  BY <1>1
<1> DEFINE r == [Off EXCEPT
              !.pc = "loadArm", !.id = commands + 1, !.kind = k, !.steps = s, !.at = now]
<1>3. CliOK(r, given, always)
  BY Field DEF CliOK, Off, NoGrants, Genuine, Decided, CliField
<1> QED
  BY <1>2, <1>3, MovesAlone DEF Begin

LEMMA LoadStep == ASSUME IInv, NEW p \in Proc, Load(p) PROVE IInv'
<1> USE DEF ghosts
<1>1. CASE LoadArm(p)
  <2>1. CASE file.arm \in Unreadable
    BY <1>1, <2>1, ExitsStep DEF LoadArm
  <2>2. CASE file.arm \notin Unreadable
    <3> DEFINE r == [cli[p] EXCEPT
                !.arm = PruneArm(file.arm, cli[p].at),
                !.pc = IF cli[p].kind \in {"arm", "disarm"}
                       THEN "truncateArm" ELSE "loadAllow"]
    <3>1. cli' = [cli EXCEPT ![p] = r]
      BY <1>1, <2>2, Field DEF LoadArm
    <3>2. Genuine(PruneArm(file.arm, cli[p].at), given)
      BY <2>2, StayGenuine DEF IInv, FileOK
    <3>3. CliOK(r, given, always)
      BY <3>2, Field DEF CliOK, CliField, Decided
    <3> QED
      BY <1>1, <3>1, <3>3, MovesAlone DEF LoadArm
  <2> QED
    BY <2>1, <2>2
<1>2. CASE LoadAllow(p)
  <2>1. CASE file.allow \in Unreadable
    BY <1>2, <2>1, ExitsStep DEF LoadAllow
  <2>2. CASE file.allow \notin Unreadable
    <3> DEFINE r == [cli[p] EXCEPT !.session = file.allow, !.pc = "loadLog"]
    <3>1. cli' = [cli EXCEPT ![p] = r]
      BY <1>2, <2>2, Field DEF LoadAllow
    <3>2. CliOK(r, given, always)
      BY <2>2, Field DEF IInv, FileOK, CliOK, CliField, Decided
    <3> QED
      BY <1>2, <3>1, <3>2, MovesAlone DEF LoadAllow
  <2> QED
    BY <2>1, <2>2
<1>3. CASE LoadLog(p)
  <2>1. CASE file.log \in Unreadable
    BY <1>3, <2>1, ExitsStep DEF LoadLog
  <2>2. CASE file.log \notin Unreadable
    <3> DEFINE r == [cli[p] EXCEPT
                !.history = PruneActions(file.log, cli[p].at),
                !.pc = IF cli[p].kind = "do" THEN "preview" ELSE "gate"]
    <3>1. cli' = [cli EXCEPT ![p] = r]
      BY <1>3, <2>2, Field DEF LoadLog
    <3>2. CliOK(r, given, always)
      BY Field DEF CliOK, CliField, Decided
    <3> QED
      BY <1>3, <3>1, <3>2, MovesAlone DEF LoadLog
  <2> QED
    BY <2>1, <2>2
<1> QED
  BY <1>1, <1>2, <1>3 DEF Load

\* The program counter alone moves.
LEMMA GoStep ==
    ASSUME IInv, NEW p \in Proc, NEW pc, Go(p, pc), pc # "recheck",
           pc \in Decided =>
              Permitted(cli[p].arm, cli[p].session, Current(p), cli[p].at, cli[p].yes),
           \/ file' = file
           \/ \E f \in FileField : file' = Truncated(f)
           \/ \E x : file' \in Written("log", x)
           \/ \E x \in SUBSET always : file' \in Written("allow", x),
           UNCHANGED <<now, daemon, given, always, executed>>
    PROVE  IInv'
<1> DEFINE r == [cli[p] EXCEPT !.pc = pc]
<1>1. cli' = [cli EXCEPT ![p] = r]
  BY Field DEF Go
<1>2. CliOK(r, given, always)
  BY Field DEF CliOK, CliField, Current
<1> QED
  BY <1>1, <1>2, MovesAlone

\* armCap and disarmCap: the one write that adds a window, or that may lose one.
LEMMA WriteArmStep == ASSUME IInv, NEW p \in Proc, WriteArm(p) PROVE IInv'
<1> DEFINE c == Current(p)
           w == [cap |-> c, until |-> cli[p].at + ArmFor(c)]
           saved == SavedArm(Changed(p), cli[p].at)
<1>1. cli[p].at \in Nat /\ Genuine(cli[p].arm, given)
  BY Field DEF CliOK
<1>2. w.until \in Nat
  BY <1>1, ArmForType
<1>3. /\ given \subseteq given' /\ \A x \in given' : x.until \in Nat
      /\ Genuine(saved, given')
  <2>1. CASE cli[p].kind = "arm"
    <3>1. given' = given \cup {w}
      BY <2>1 DEF WriteArm
    <3>2. \A x \in given' : x.until \in Nat
      BY <1>2, <3>1 DEF IInv
    <3>3. Genuine(Changed(p), given')
      BY <1>1, <2>1, <3>1, ArmGenuine DEF Changed
    <3> QED
      BY <3>1, <3>2, <3>3, StayGenuine
  <2>2. CASE cli[p].kind # "arm"
    <3>1. given' = given
      BY <2>2 DEF WriteArm
    <3>2. Genuine(Changed(p), given)
      BY <1>1, <2>2, StayGenuine DEF Changed, IInv
    <3> QED
      BY <3>1, <3>2, StayGenuine DEF IInv
  <2> QED
    BY <2>1, <2>2
<1> HIDE DEF saved
<1>4. file' \in Written("arm", saved)
  BY DEF WriteArm, saved
<1>5. FileOK(file', given', always')
  <2>1. /\ DOMAIN file' = FileField
        /\ file'.arm \in Unreadable \/ file'.arm = saved
        /\ file'.allow = file.allow
    BY <1>4 DEF Written, IInv, FileOK, FileField, Unreadable
  <2>2. always' = always
    BY DEF WriteArm
  <2> QED
    BY <1>3, <2>1, <2>2 DEF FileOK, IInv
<1>6. RunsAuthorised'
  BY <1>3 DEF WriteArm, IInv, RunsAuthorised
<1>7. CliOK(Off, given', always')
  BY DEF CliOK, Off, NoGrants, Genuine, Decided, CliField
<1> QED
  BY <1>3, <1>5, <1>6, <1>7, Moves DEF WriteArm, Exits

LEMMA GateStep == ASSUME IInv, NEW p \in Proc, Gate(p) PROVE IInv'
<1> USE DEF ghosts
<1> DEFINE arm == cli[p].arm  S == cli[p].session  c == Current(p)  t == cli[p].at
<1>0. /\ cli[p].yes \in BOOLEAN
      /\ cli[p].pc \in Decided => Permitted(arm, S, c, t, cli[p].yes)
  BY Field DEF CliOK, Current
<1>1. CASE GateDenies(p)
  BY <1>1, ExitsStep DEF GateDenies
<1>2. CASE GateAllows(p)
  <2>1. Permitted(arm, S, c, t, cli[p].yes)
    BY <1>0, <1>2, DecidePermits DEF GateAllows, Verdict
  <2> QED
    BY <1>2, <2>1, GoStep DEF GateAllows
<1>3. CASE Declines(p)
  BY <1>3, ExitsStep DEF Declines
<1>4. CASE AnswersOnce(p)
  <2> DEFINE r == [cli[p] EXCEPT !.pc = "loop", !.yes = TRUE]
  <2>1. cli' = [cli EXCEPT ![p] = r]
    BY <1>4, Field DEF AnswersOnce
  <2>2. Permitted(arm, S, c, t, TRUE)
    BY <1>4, DecidePermits DEF AnswersOnce, Verdict
  <2>3. CliOK(r, given, always)
    BY <2>2, Field DEF CliOK, CliField, Current
  <2> QED
    BY <1>4, <2>1, <2>3, MovesAlone DEF AnswersOnce
<1>5. CASE AnswersAlways(p)
  <2> DEFINE r == [cli[p] EXCEPT !.pc = "writeAllow", !.yes = TRUE, !.session = @ \cup {c}]
  <2>1. cli' = [cli EXCEPT ![p] = r]
    BY <1>5, Field DEF AnswersAlways
  <2>2. Permitted(arm, S \cup {c}, c, t, TRUE)
    BY <1>5, DecidePermits DEF AnswersAlways, Verdict, Permitted
  <2>3. CliOK(r, given, always')
    BY <1>5, <2>2, Field DEF AnswersAlways, CliOK, CliField, Current
  <2>4. FileOK(file', given, always')
    BY <1>5 DEF AnswersAlways, Truncated, IInv, FileOK, FileField, Unreadable
  <2>5. RunsAuthorised'
    BY <1>5 DEF AnswersAlways, IInv, RunsAuthorised
  <2> QED
    BY <1>5, <2>1, <2>3, <2>4, <2>5, Moves DEF AnswersAlways, IInv
<1>6. CASE WriteAllow(p)
  <2>1. S \in SUBSET always
    BY Field DEF CliOK
  <2> QED
    BY <1>0, <1>6, <2>1, GoStep DEF WriteAllow, Decided
<1>7. CASE LoopDeclined(p)
  BY <1>7, ExitsStep DEF LoopDeclined
<1>8. CASE PassesLoop(p)
  <2> DEFINE r == [cli[p] EXCEPT !.pc = "writeLog", !.yes = @ \/ Loops(p),
                                 !.history = Recorded(p)]
  <2>1. cli' = [cli EXCEPT ![p] = r]
    BY <1>8, Field DEF PassesLoop
  <2>2. (cli[p].yes \/ Loops(p)) \in BOOLEAN
    OBVIOUS
  <2>3. Permitted(arm, S, c, t, cli[p].yes \/ Loops(p))
    BY <1>0, <1>8 DEF PassesLoop, Decided, Permitted
  <2>4. CliOK(r, given, always)
    BY <2>2, <2>3, Field DEF CliOK, CliField, Current
  <2> QED
    BY <1>8, <2>1, <2>4, MovesAlone DEF PassesLoop, FileField
<1>9. CASE WriteLog(p)
  BY <1>0, <1>9, GoStep DEF WriteLog, Decided
<1> QED
  BY <1>1, <1>2, <1>3, <1>4, <1>5, <1>6, <1>7, <1>8, <1>9 DEF Gate

LEMMA DoPlanStep == ASSUME IInv, NEW p \in Proc, DoPlan(p) PROVE IInv'
<1> USE DEF ghosts
<1>1. CASE PreviewRefused(p)
  BY <1>1, ExitsStep DEF PreviewRefused
<1>2. CASE PlanApproved(p)
  <2> DEFINE r == [cli[p] EXCEPT !.pc = "recheck", !.yes = TRUE]
  <2>1. cli' = [cli EXCEPT ![p] = r]
    BY <1>2, Field DEF PlanApproved
  <2>2. CliOK(r, given, always)
    BY Field DEF CliOK, CliField, Decided
  <2> QED
    BY <1>2, <2>1, <2>2, MovesAlone DEF PlanApproved
<1>3. CASE Recheck(p)
  <2>1. CASE Exits(p)
    BY <1>3, <2>1, ExitsStep DEF Recheck
  <2>2. CASE ~Exits(p)
    <3> DEFINE r == [cli[p] EXCEPT !.pc = "exec", !.at = now]
    <3>1. cli' = [cli EXCEPT ![p] = r]
      BY <1>3, <2>2, Field DEF Recheck
    <3>2. cli[p].yes /\ cli[p].yes \in BOOLEAN
      BY <1>3, Field DEF Recheck, CliOK
    <3>3. Permitted(cli[p].arm, cli[p].session, Current(p), now, cli[p].yes)
      BY <1>3, <2>2, <3>2, DecidePermits DEF Recheck
    <3>4. CliOK(r, given, always)
      BY <3>3, Field DEF CliOK, CliField, Current
    <3> QED
      BY <1>3, <3>1, <3>4, MovesAlone DEF Recheck
  <2> QED
    BY <2>1, <2>2
<1> QED
  BY <1>1, <1>2, <1>3 DEF DoPlan

LEMMA ExecStep == ASSUME IInv, NEW p \in Proc, Exec(p) PROVE IInv'
<1> DEFINE run == [kind |-> cli[p].kind, sig |-> Current(p), at |-> cli[p].at,
                   id |-> CallId(p), yes |-> cli[p].yes]
           r == [cli[p] EXCEPT !.pc = "ran"]
<1>1. /\ cli' = [cli EXCEPT ![p] = r]
      /\ executed' = executed \cup {run}
      /\ UNCHANGED <<now, file, daemon, given, always>>
  BY Field DEF Exec, Go
<1>2. CliOK(r, given, always)
  BY Field DEF CliOK, CliField, Decided
<1>3. /\ cli[p].at \in Nat /\ Genuine(cli[p].arm, given) /\ cli[p].session \subseteq always
      /\ Permitted(cli[p].arm, cli[p].session, Current(p), cli[p].at, cli[p].yes)
  BY Field DEF Exec, CliOK, Decided, Current
<1> DEFINE c == Current(p)
<1>4. /\ Resolve(c).requiresArming =>
            \E w \in given : w.cap = c /\ cli[p].at < w.until
      /\ Resolve(c).decision = "ask" => cli[p].yes \/ c \in always
      /\ Resolve(c).decision # "deny"
  <2> DEFINE arm == cli[p].arm  S == cli[p].session  t == cli[p].at  yes == cli[p].yes
  <2>1. /\ t \in Nat /\ Genuine(arm, given) /\ S \subseteq always
        /\ Permitted(arm, S, c, t, yes)
        /\ \A w \in given : w.until \in Nat
    BY <1>3 DEF IInv
  <2> HIDE DEF c, arm, S, t, yes
  <2>2. /\ Resolve(c).requiresArming => \E w \in given : w.cap = c /\ t < w.until
        /\ Resolve(c).decision = "ask" => yes \/ c \in always
        /\ Resolve(c).decision # "deny"
    BY <2>1, PermittedAuthorised
  <2> QED
    BY <2>2 DEF t, yes
<1>5. run.sig = c /\ run.at = cli[p].at /\ run.yes = cli[p].yes
  OBVIOUS
<1> HIDE DEF run, c
<1>6. RunsAuthorised'
  BY <1>1, <1>4, <1>5 DEF IInv, RunsAuthorised
<1> QED
  BY <1>1, <1>2, <1>6, Moves DEF IInv

LEMMA NextStepStep ==
    ASSUME IInv, NEW p \in Proc, NextStep(p) \/ NextAttempt(p) PROVE IInv'
<1> USE DEF ghosts
<1>1. CASE Exits(p)
  BY <1>1, ExitsStep DEF NextStep, NextAttempt
<1>2. CASE NextStep(p) /\ ~Exits(p)
  <2> DEFINE r == [cli[p] EXCEPT
                   !.steps = Tail(@), !.yes = (cli[p].kind = "do"),
                   !.pc = IF cli[p].kind = "do" THEN "recheck" ELSE "gate"]
  <2>1. cli' = [cli EXCEPT ![p] = r]
    BY <1>2, Field DEF NextStep
  <2>2. (cli[p].kind = "do") \in BOOLEAN
    OBVIOUS
  <2>3. CliOK(r, given, always)
    BY <2>2, Field DEF CliOK, CliField, Decided
  <2> QED
    BY <1>2, <2>1, <2>3, MovesAlone DEF NextStep
<1>3. CASE NextAttempt(p) /\ ~Exits(p)
  <2>1. cli' = [cli EXCEPT ![p] = Reloaded(p)]
    BY <1>3, Field DEF NextAttempt
  <2>2. CliOK(Reloaded(p), given, always)
    BY Field DEF Reloaded, CliOK, CliField, Decided
  <2> QED
    BY <1>3, <2>1, <2>2, MovesAlone DEF NextAttempt
<1> QED
  BY <1>1, <1>2, <1>3

\* Only the daemon moves.
LEMMA DaemonStep == ASSUME IInv, Daemon PROVE IInv'
<1> USE DEF ghosts
<1>0. UNCHANGED <<now, cli, given, always>>
  BY DEF Daemon, DaemonLoads, DaemonStarts, DaemonLoadsAllow, DaemonLoadsLog,
      DaemonRuns, DaemonSaves, DaemonTicks, DaemonStops
<1>1. FileOK(file', given, always)
  <2>1. \/ file' = file
        \/ file' = Truncated("log")
        \/ file' \in Written("log", Saved(daemon.history))
    BY DEF Daemon, DaemonLoads, DaemonStarts, DaemonLoadsAllow, DaemonLoadsLog,
      DaemonRuns, DaemonSaves, DaemonTicks, DaemonStops
  <2>2. /\ DOMAIN file' = FileField
        /\ file'.arm = file.arm /\ file'.allow = file.allow
    BY <2>1 DEF IInv, FileOK, FileField, Truncated, Written
  <2> QED
    BY <2>2 DEF IInv, FileOK
<1>2. DaemonOK(daemon', given, always)
  <2>1. CASE DaemonStarts
    <3>1. Genuine(Readable("arm", NoGrants), given)
      BY DEF Readable, IInv, FileOK, Genuine, NoGrants
    <3>2. {} \subseteq always
      OBVIOUS
    <3>3. Genuine(PruneArm(Readable("arm", NoGrants), now), given)
      BY <3>1, StayGenuine DEF IInv
    <3> QED
      BY <2>1, <3>2, <3>3 DEF DaemonStarts, Down, DaemonOK, DaemonField
  <2>5. CASE DaemonLoadsAllow
    <3>1. Readable("allow", {}) \subseteq always
      BY DEF Readable, IInv, FileOK
    <3> QED
      BY <2>5, <3>1 DEF DaemonLoadsAllow, IInv, DaemonOK, DaemonField
  <2>6. CASE DaemonLoadsLog
    BY <2>6 DEF DaemonLoadsLog, IInv, DaemonOK, DaemonField
  <2>2. CASE DaemonRuns \/ DaemonSaves
    BY <2>2 DEF DaemonRuns, DaemonSaves, IInv, DaemonOK, DaemonField
  <2>3. CASE DaemonTicks
    <3>1. Genuine(PruneArm(daemon.arm, now), given)
      BY StayGenuine DEF IInv, DaemonOK
    <3> QED
      BY <2>3, <3>1 DEF DaemonTicks, IInv, DaemonOK, DaemonField
  <2>4. CASE DaemonStops
    BY <2>4 DEF DaemonStops, Down, DaemonOK, DaemonField, Genuine, NoGrants
  <2> QED
    BY <2>1, <2>2, <2>3, <2>4, <2>5, <2>6 DEF Daemon, DaemonLoads
<1>3. RunsAuthorised'
  <2>1. CASE DaemonRuns
    <3>1. PICK c \in Cap, yes \in BOOLEAN :
             /\ Decide(daemon.arm, daemon.session, c, now) # "deny"
             /\ yes \/ Decide(daemon.arm, daemon.session, c, now) = "allow"
             /\ executed' = executed \cup
                   {[kind |-> "daemon", sig |-> c, at |-> now,
                     id |-> DaemonCallId, yes |-> yes]}
      BY <2>1 DEF DaemonRuns
    <3> DEFINE run == [kind |-> "daemon", sig |-> c, at |-> now,
                       id |-> DaemonCallId, yes |-> yes]
    <3>2. Permitted(daemon.arm, daemon.session, c, now, yes)
      BY <3>1, DecidePermits
    <3>3. /\ Resolve(run.sig).requiresArming =>
                \E w \in given : w.cap = run.sig /\ run.at < w.until
          /\ Resolve(run.sig).decision = "ask" => run.yes \/ run.sig \in always
          /\ Resolve(run.sig).decision # "deny"
      BY <3>2, PermittedAuthorised DEF IInv, DaemonOK
    <3> HIDE DEF run
    <3>4. executed' = executed \cup {run}
      BY <3>1 DEF run
    <3> QED
      BY <1>0, <3>3, <3>4 DEF IInv, RunsAuthorised
  <2>2. CASE UNCHANGED executed
    BY <1>0, <2>2 DEF IInv, RunsAuthorised
  <2> QED
    BY <2>1, <2>2 DEF Daemon, DaemonLoads, DaemonStarts, DaemonLoadsAllow, DaemonLoadsLog,
      DaemonSaves, DaemonTicks, DaemonStops
<1> QED
  BY <1>0, <1>1, <1>2, <1>3 DEF IInv

LEMMA IInvNext == IInv /\ [Next]_vars => IInv'
<1> SUFFICES ASSUME IInv, [Next]_vars PROVE IInv'
  OBVIOUS
<1> USE DEF ghosts
<1>1. ASSUME NEW p \in Proc, TruncateArm(p) PROVE IInv'
  BY <1>1, GoStep DEF TruncateArm, FileField, Decided
<1>2. ASSUME NEW p \in Proc, Killed(p) PROVE IInv'
  BY <1>2, ExitsStep DEF Killed
<1>3. CASE Advance
  BY <1>3 DEF Advance, IInv, RunsAuthorised
<1>4. CASE UNCHANGED vars
  BY <1>4 DEF vars, IInv, RunsAuthorised
<1> QED
  BY <1>1, <1>2, <1>3, <1>4, BeginStep, LoadStep, WriteArmStep, GateStep, DoPlanStep,
     ExecStep, NextStepStep, DaemonStep DEF Next

\* The files are shared without a lock, are seen half written, lose updates and
\* outlive killed writers: whatever that does to them, no execution of any
\* command or of the daemon exceeds what a human or the policy granted
\* (gate, loadDecisionCtx, planCmd, armCap, New, handleRun).
THEOREM FailsClosed == Spec => []RunsAuthorised
<1>1. IInv => RunsAuthorised
  BY DEF IInv
<1> QED
  BY <1>1, IInvInit, IInvNext, PTL DEF Spec

-----------------------------------------------------------------------------
(* The types of all that is remembered.                                    *)

Pc == {"off", "loadArm", "loadAllow", "loadLog", "truncateArm", "writeArm", "preview",
       "recheck", "gate", "writeAllow", "loop", "writeLog", "exec", "ran"}

ArmState == UNION {[D -> Nat] : D \in SUBSET Cap}

Log == {h \in SUBSET Record : IsFiniteSet(h)}

Command == [pc : Pc, id : Nat, kind : Kinds \cup {"none"}, steps : Seq(Cap),
            arm : ArmState, session : SUBSET Cap, history : Log, at : Nat, yes : BOOLEAN]

Files == [arm : ArmState \cup Unreadable, allow : (SUBSET Cap) \cup Unreadable,
          log : Log \cup Unreadable]

Memory == [phase : {"down", "loadAllow", "loadLog", "up", "saving"}, arm : ArmState,
           session : SUBSET Cap, history : Log, at : Nat]

Execution == [kind : Kinds \cup {"daemon"}, sig : Cap, at : Nat, id : Nat \X Nat,
              yes : BOOLEAN]

On(p) == cli[p].pc # "off"

\* Where each kind of command can be, and that it has a step to take.
Control ==
    \A p \in Proc : On(p) =>
        /\ cli[p].kind \in Kinds
        /\ cli[p].steps # <<>>
        /\ cli[p].at <= now
        /\ cli[p].id \in 1..commands
        /\ cli[p].pc \in {"loadAllow", "loadLog", "preview", "recheck", "gate",
                          "writeAllow", "loop", "writeLog", "exec", "ran"} =>
              cli[p].kind \in {"call", "ask", "do"}
        /\ cli[p].pc \in {"gate", "writeAllow", "loop", "writeLog"} => cli[p].kind # "do"
        /\ cli[p].pc \in {"preview", "recheck"} => cli[p].kind = "do"

Typed ==
    /\ now \in Nat
    /\ commands \in Nat
    /\ file \in Files
    /\ cli \in [Proc -> Command]
    /\ daemon \in Memory /\ daemon.at <= now
    /\ executed \subseteq Execution
    /\ IsFiniteSet(executed)
    /\ overlap \in BOOLEAN
    /\ Control

\* Process p moves, and it alone.
Only(p) ==
    /\ cli' \in [Proc -> Command]
    /\ \A q \in Proc \ {p} : cli'[q] = cli[q]

\* Arming grants, as functions and as a set.
LEMMA ArmStates == \A a : a \in ArmState <=> IsArmState(a)
  BY DEF ArmState, IsArmState, IsMap

\* Every operation on grants makes grants.
LEMMA ArmTypes ==
    ASSUME NEW a \in ArmState, NEW t \in Nat, NEW c \in Cap
    PROVE  /\ PruneArm(a, t) \in ArmState
           /\ Disarm(a, c) \in ArmState
           /\ Arm(a, c, t, ArmFor(c)) \in ArmState
           /\ SavedArm(a, t) \in ArmState
<1>1. DOMAIN a \subseteq Cap /\ \A x \in DOMAIN a : a[x] \in Nat
  BY ArmStates DEF IsArmState, IsMap
<1>2. IsArmState(PruneArm(a, t))
  BY <1>1 DEF PruneArm, IsArmState, IsMap
<1>3. IsArmState(Disarm(a, c))
  BY <1>1 DEF Disarm, IsArmState, IsMap
<1>4. IsArmState(Arm(a, c, t, ArmFor(c)))
  <2>1. t + ArmFor(c) \in Nat
    BY ArmForType
  <2> QED
    BY <1>1, <2>1 DEF Arm, IsArmState, IsMap
<1>5. IsArmState(SavedArm(a, t))
  BY <1>1, FileTimeEarlier DEF SavedArm, PruneArm, IsArmState, IsMap
<1> QED
  BY <1>2, <1>3, <1>4, <1>5, ArmStates

\* Pruning, saving and appending make logs.
LEMMA LogTypes ==
    ASSUME NEW h \in Log, NEW t
    PROVE  /\ PruneActions(h, t) \in Log
           /\ Saved(h) \in Log
           /\ \A r \in Record : h \cup {r} \in Log
<1>1. PruneActions(h, t) \in Log
  BY FS_Subset DEF PruneActions, Log
<1>2. Saved(h) \in Log
  <2> DEFINE f == [r \in h |-> [r EXCEPT !.at = FileTime(@)]]
  <2>1. f \in [h -> Saved(h)] /\ \A s \in Saved(h) : \E r \in h : f[r] = s
    BY DEF Saved
  <2>2. f \in Surjection(h, Saved(h))
    BY <2>1 DEF Surjection
  <2>3. IsFiniteSet(Saved(h))
    BY <2>2, FS_Surjection DEF Log
  <2>4. Saved(h) \subseteq Record
    BY FileTimeEarlier DEF Saved, Log, Record
  <2> QED
    BY <2>3, <2>4 DEF Log
<1>3. \A r \in Record : h \cup {r} \in Log
  BY FS_AddElement DEF Log
<1> QED
  BY <1>1, <1>2, <1>3

LEMMA EmptyTypes == {} \in Log /\ NoGrants \in ArmState /\ Off \in Command /\ Down \in Memory
<1>1. {} \in Log
  BY FS_EmptySet DEF Log
<1>2. NoGrants \in ArmState
  BY ArmStates DEF NoGrants, IsArmState, IsMap
<1> QED
  BY <1>1, <1>2 DEF Off, Down, Command, Memory, Pc

LEMMA TypedInit == Init => Typed
<1> SUFFICES ASSUME Init PROVE Typed
  OBVIOUS
<1>1. file \in Files
  BY EmptyTypes DEF Init, Files
<1>2. Control
  BY DEF Init, Control, On, Off
<1>3. daemon \in Memory /\ daemon.at <= now
  BY EmptyTypes DEF Init, Down
<1> QED
  BY <1>1, <1>2, <1>3, EmptyTypes, FS_EmptySet DEF Init, Typed

LEMMA Rest ==
    ASSUME NEW s \in Seq(Cap), Len(s) > 1
    PROVE  Tail(s) \in Seq(Cap) /\ Len(Tail(s)) = Len(s) - 1 /\ Tail(s) # <<>>
<1>1. Tail(s) \in Seq(Cap) /\ Len(Tail(s)) = Len(s) - 1
  BY HeadTailProperties
<1>2. Len(s) \in Nat /\ Len(<<>>) = 0
  OBVIOUS
<1>3. Len(Tail(s)) # 0
  BY <1>1, <1>2
<1> QED
  BY <1>1, <1>2, <1>3

\* What a process that runs has at hand.
LEMMA AtHand ==
    ASSUME Typed, NEW p \in Proc, On(p)
    PROVE  /\ cli[p] \in Command
           /\ Current(p) \in Cap
           /\ CallId(p) \in Nat \X Nat
           /\ Len(cli[p].steps) \in Nat \ {0}
           /\ NewRecord(Current(p), cli[p].at, CallId(p)) \in Record
<1>1. cli[p] \in Command /\ cli[p].steps \in Seq(Cap) /\ cli[p].steps # <<>>
  BY DEF Typed, Control, Command
<1>2. Current(p) \in Cap /\ Len(cli[p].steps) \in Nat \ {0}
  BY <1>1 DEF Current
<1>3. CallId(p) \in Nat \X Nat
  BY <1>1, <1>2 DEF CallId, Command
<1> QED
  BY <1>1, <1>2, <1>3 DEF NewRecord, Record, Command

\* Where a command can be at each point (Control, of one command).
Placed(r, t, n) ==
    r.pc # "off" =>
        /\ r.kind \in Kinds
        /\ r.steps # <<>>
        /\ r.at <= t
        /\ r.id \in 1..n
        /\ r.pc \in {"loadAllow", "loadLog", "preview", "recheck", "gate",
                     "writeAllow", "loop", "writeLog", "exec", "ran"} =>
              r.kind \in {"call", "ask", "do"}
        /\ r.pc \in {"gate", "writeAllow", "loop", "writeLog"} => r.kind # "do"
        /\ r.pc \in {"preview", "recheck"} => r.kind = "do"

LEMMA ControlPlaced == Control <=> \A p \in Proc : Placed(cli[p], now, commands)
  BY DEF Control, Placed, On

\* The call under way goes on; only its last step changes what is executed.
Continues(p) ==
    /\ On(p) /\ On(p)'
    /\ cli'[p].id = cli[p].id
    /\ cli'[p].kind = cli[p].kind
    /\ cli'[p].steps = cli[p].steps
    /\ cli'[p].at = cli[p].at \/ (cli[p].kind = "do" /\ cli'[p].at = now)
    /\ cli[p].pc # "ran" /\ cli'[p].pc # "ran"

\* The points a command passes between Begin and its execution.
Proceeds(p) == Load(p) \/ TruncateArm(p) \/ Gate(p) \/ DoPlan(p)

\* What a command does up to its execution.
LEMMA ProceedsEffect ==
    ASSUME Typed, NEW p \in Proc, Proceeds(p)
    PROVE  /\ Only(p)
           /\ cli'[p] = Off \/ (Continues(p) /\ Placed(cli'[p], now, commands))
           /\ file' \in Files
           /\ UNCHANGED <<now, daemon, given, standing, executed, overlap, commands>>
<1> USE DEF ghosts
<1>0. /\ cli \in [Proc -> Command] /\ file \in Files /\ now \in Nat
      /\ Off \in Command
  BY EmptyTypes DEF Typed
<1>1. UNCHANGED <<now, daemon, given, standing, executed, overlap, commands>>
  BY DEF Proceeds, Load, LoadArm, LoadAllow, LoadLog, TruncateArm, Gate, GateDenies,
         GateAllows, Declines, AnswersOnce, AnswersAlways, WriteAllow, LoopDeclined,
         PassesLoop, WriteLog, DoPlan, PreviewRefused, PlanApproved, Recheck
<1>2. /\ On(p)
      /\ cli[p] \in Command /\ Current(p) \in Cap
      /\ NewRecord(Current(p), cli[p].at, CallId(p)) \in Record
      /\ Placed(cli[p], now, commands)
  <2>1. On(p)
    BY DEF Proceeds, Load, LoadArm, LoadAllow, LoadLog, TruncateArm, Gate, GateDenies,
         GateAllows, Declines, AnswersOnce, AnswersAlways, WriteAllow, LoopDeclined,
         PassesLoop, WriteLog, DoPlan, PreviewRefused, PlanApproved, Recheck, On
  <2> QED
    BY <2>1, AtHand, ControlPlaced DEF Typed
<1>3. /\ \A f \in FileField : Truncated(f) \in Files
      /\ \A x \in SUBSET Cap : Written("allow", x) \subseteq Files
      /\ \A x \in Log : Written("log", x) \subseteq Files
  BY <1>0 DEF Truncated, Written, Files, FileField, Unreadable
<1>4. CASE Exits(p) /\ file' = file
  <2>1. cli' = [cli EXCEPT ![p] = Off]
    BY <1>4 DEF Exits
  <2>2. Only(p) /\ cli'[p] = Off
    BY <1>0, <2>1 DEF Only
  <2> QED
    BY <1>0, <1>1, <1>4, <2>2
<1>5. ASSUME NEW r \in Command, cli' = [cli EXCEPT ![p] = r],
             r.pc # "ran", cli[p].pc # "ran", r.pc # "off",
             r.id = cli[p].id, r.kind = cli[p].kind, r.steps = cli[p].steps,
             r.at = cli[p].at \/ (r.kind = "do" /\ r.at = now),
             Placed(r, now, commands), file' \in Files
      PROVE  /\ Only(p)
             /\ cli'[p] = Off \/ (Continues(p) /\ Placed(cli'[p], now, commands))
             /\ file' \in Files
  BY <1>0, <1>2, <1>5 DEF Only, Continues, On
<1>6. CASE LoadArm(p) /\ ~Exits(p)
  <2> DEFINE r == [cli[p] EXCEPT !.arm = PruneArm(file.arm, cli[p].at),
                     !.pc = IF cli[p].kind \in {"arm", "disarm"}
                            THEN "truncateArm" ELSE "loadAllow"]
  <2>1. cli' = [cli EXCEPT ![p] = r]
    BY <1>0, <1>6 DEF LoadArm, Command
  <2>2. PruneArm(file.arm, cli[p].at) \in ArmState
    BY <1>0, <1>2, <1>6, ArmTypes DEF LoadArm, Files, Command
  <2>3. r \in Command
    BY <1>2, <2>2 DEF Command, Pc
  <2> QED
    BY <1>2, <1>5, <1>6, <2>1, <2>3, SharedAssumption, <1>0 DEF LoadArm, Placed, Command
<1>7. CASE LoadAllow(p) /\ ~Exits(p)
  <2> DEFINE r == [cli[p] EXCEPT !.session = file.allow, !.pc = "loadLog"]
  <2>1. cli' = [cli EXCEPT ![p] = r]
    BY <1>0, <1>7 DEF LoadAllow, Command
  <2>2. r \in Command
    BY <1>0, <1>2, <1>7 DEF LoadAllow, Files, Command, Pc
  <2> QED
    BY <1>0, <1>2, <1>5, <1>7, <2>1, <2>2 DEF LoadAllow, Placed, Command
<1>8. CASE LoadLog(p) /\ ~Exits(p)
  <2> DEFINE r == [cli[p] EXCEPT !.history = PruneActions(file.log, cli[p].at),
                     !.pc = IF cli[p].kind = "do" THEN "preview" ELSE "gate"]
  <2>1. cli' = [cli EXCEPT ![p] = r]
    BY <1>0, <1>8 DEF LoadLog, Command
  <2>2. r \in Command
    BY <1>0, <1>2, <1>8, LogTypes DEF LoadLog, Files, Command, Pc
  <2> QED
    BY <1>0, <1>2, <1>5, <1>8, <2>1, <2>2 DEF LoadLog, Placed, Command
<1>9. ASSUME NEW pc \in Pc \ {"off", "ran"}, Go(p, pc), file' \in Files,
             cli[p].pc # "ran",
             Placed([cli[p] EXCEPT !.pc = pc], now, commands)
      PROVE  /\ Only(p)
             /\ cli'[p] = Off \/ (Continues(p) /\ Placed(cli'[p], now, commands))
             /\ file' \in Files
  <2> DEFINE r == [cli[p] EXCEPT !.pc = pc]
  <2>1. cli' = [cli EXCEPT ![p] = r]
    BY <1>0, <1>9 DEF Go, Command
  <2>2. r \in Command
    BY <1>2 DEF Command
  <2> QED
    BY <1>2, <1>5, <1>9, <2>1, <2>2 DEF Command
<1>10. CASE TruncateArm(p)
  BY <1>2, <1>3, <1>9, <1>10 DEF TruncateArm, Placed, Command, Pc, FileField
<1>11. CASE GateAllows(p)
  BY <1>0, <1>2, <1>9, <1>11 DEF GateAllows, Placed, Command, Pc
<1>12. CASE AnswersOnce(p)
  <2> DEFINE r == [cli[p] EXCEPT !.pc = "loop", !.yes = TRUE]
  <2>1. cli' = [cli EXCEPT ![p] = r]
    BY <1>0, <1>12 DEF AnswersOnce, Command
  <2>2. r \in Command
    BY <1>2 DEF Command, Pc
  <2> QED
    BY <1>0, <1>2, <1>5, <1>12, <2>1, <2>2 DEF AnswersOnce, Placed, Command
<1>13. CASE AnswersAlways(p)
  <2> DEFINE r == [cli[p] EXCEPT !.pc = "writeAllow", !.yes = TRUE,
                                 !.session = @ \cup {Current(p)}]
  <2>1. cli' = [cli EXCEPT ![p] = r]
    BY <1>0, <1>13 DEF AnswersAlways, Command
  <2>2. r \in Command
    BY <1>2 DEF Command, Pc
  <2> QED
    BY <1>2, <1>3, <1>5, <1>13, <2>1, <2>2 DEF AnswersAlways, Placed, Command, FileField
<1>14. CASE WriteAllow(p)
  <2>1. file' \in Files
    BY <1>2, <1>3, <1>14 DEF WriteAllow, Command
  <2> QED
    BY <1>2, <1>9, <1>14, <2>1 DEF WriteAllow, Placed, Command, Pc
<1>15. CASE PassesLoop(p)
  <2> DEFINE r == [cli[p] EXCEPT !.pc = "writeLog", !.yes = @ \/ Loops(p),
                                 !.history = Recorded(p)]
  <2>1. cli' = [cli EXCEPT ![p] = r]
    BY <1>0, <1>15 DEF PassesLoop, Command
  <2>2. Recorded(p) \in Log /\ (cli[p].yes \/ Loops(p)) \in BOOLEAN
    BY <1>2, LogTypes DEF Recorded, Command
  <2>3. r \in Command
    BY <1>2, <2>2 DEF Command, Pc
  <2> QED
    BY <1>2, <1>3, <1>5, <1>15, <2>1, <2>3 DEF PassesLoop, Placed, Command, FileField
<1>16. CASE WriteLog(p)
  <2>1. file' \in Files
    BY <1>2, <1>3, <1>16, LogTypes DEF WriteLog, Command
  <2> QED
    BY <1>2, <1>9, <1>16, <2>1 DEF WriteLog, Placed, Command, Pc
<1>17. CASE PlanApproved(p)
  <2> DEFINE r == [cli[p] EXCEPT !.pc = "recheck", !.yes = TRUE]
  <2>1. cli' = [cli EXCEPT ![p] = r]
    BY <1>0, <1>17 DEF PlanApproved, Command
  <2>2. r \in Command
    BY <1>2 DEF Command, Pc
  <2> QED
    BY <1>0, <1>2, <1>5, <1>17, <2>1, <2>2 DEF PlanApproved, Placed, Command
<1>18. CASE Recheck(p) /\ ~Exits(p)
  <2> DEFINE r == [cli[p] EXCEPT !.pc = "exec", !.at = now]
  <2>1. cli' = [cli EXCEPT ![p] = r]
    BY <1>0, <1>18 DEF Recheck, Command
  <2>2. r \in Command
    BY <1>0, <1>2 DEF Command, Pc
  <2>3. cli[p].pc = "recheck" /\ cli[p].kind = "do" /\ file' = file
    BY <1>2, <1>18 DEF Recheck, Placed
  <2>4. /\ r.pc = "exec" /\ r.id = cli[p].id /\ r.kind = cli[p].kind
        /\ r.steps = cli[p].steps /\ r.at = now
    BY <1>2 DEF Command
  <2>5. Placed(r, now, commands)
    BY <1>0, <1>2, <2>3, <2>4 DEF Placed
  <2> HIDE DEF r
  <2> QED
    BY <1>0, <1>1, <1>5, <2>1, <2>2, <2>3, <2>4, <2>5
<1>19. Exits(p) => (file' = file)
  BY <1>0, <1>2 DEF Exits, Proceeds, Load, LoadArm, LoadAllow, LoadLog, TruncateArm, Gate,
         GateDenies, GateAllows, Declines, AnswersOnce, AnswersAlways, WriteAllow,
         LoopDeclined, PassesLoop, WriteLog, DoPlan, PreviewRefused, PlanApproved,
         Recheck, Off, Go, Command
<1> QED
  BY <1>1, <1>4, <1>6, <1>7, <1>8, <1>10, <1>11, <1>12, <1>13, <1>14, <1>15, <1>16,
     <1>17, <1>18, <1>19
     DEF Proceeds, Load, Gate, DoPlan, GateDenies, Declines, LoopDeclined, PreviewRefused

\* What a command does when its step has been executed.
LEMMA NextStepEffect ==
    ASSUME Typed, NEW p \in Proc, NextStep(p) \/ NextAttempt(p)
    PROVE  /\ Only(p)
           /\ cli[p].pc = "ran"
           /\ \/ cli'[p] = Off
              \/ /\ cli'[p].id = cli[p].id /\ cli'[p].kind = cli[p].kind
                 /\ Len(cli'[p].steps) = Len(cli[p].steps) - 1
                 /\ cli'[p].pc \in {"gate", "recheck", "loadArm"}
                 /\ cli'[p].pc = "loadArm" <=> cli[p].kind = "ask"
                 /\ cli'[p].pc = "loadArm" => cli'[p].at = now
                 /\ cli'[p].pc # "loadArm" => /\ cli'[p].at = cli[p].at
                                              /\ cli'[p].history = cli[p].history
                 /\ Placed(cli'[p], now, commands)
           /\ UNCHANGED <<now, file, daemon, given, standing, always, executed,
                          overlap, commands>>
<1> USE DEF ghosts
<1>0. /\ cli \in [Proc -> Command] /\ now \in Nat /\ Off \in Command
      /\ On(p) /\ cli[p].pc = "ran"
  BY EmptyTypes DEF Typed, NextStep, NextAttempt, On
<1>1. /\ cli[p] \in Command /\ cli[p].steps \in Seq(Cap) /\ Len(cli[p].steps) \in Nat
      /\ Placed(cli[p], now, commands)
  BY <1>0, AtHand, ControlPlaced DEF Command, Typed
<1>2. UNCHANGED <<now, file, daemon, given, standing, always, executed, overlap, commands>>
  BY DEF NextStep, NextAttempt
<1>3. CASE Exits(p)
  <2>1. cli' = [cli EXCEPT ![p] = Off]
    BY <1>3 DEF Exits
  <2>2. Only(p) /\ cli'[p] = Off
    BY <1>0, <2>1 DEF Only
  <2> QED
    BY <1>0, <1>2, <2>2
<1>4. CASE NextStep(p) /\ ~Exits(p)
  <2> DEFINE r == [cli[p] EXCEPT !.steps = Tail(@), !.yes = (cli[p].kind = "do"),
                     !.pc = IF cli[p].kind = "do" THEN "recheck" ELSE "gate"]
  <2>1. cli' = [cli EXCEPT ![p] = r] /\ Len(cli[p].steps) > 1 /\ cli[p].kind # "ask"
    BY <1>0, <1>4 DEF NextStep, Command
  <2>2. /\ Tail(cli[p].steps) \in Seq(Cap)
        /\ Len(Tail(cli[p].steps)) = Len(cli[p].steps) - 1
        /\ Tail(cli[p].steps) # <<>>
    BY <1>1, <2>1, Rest
  <2>3. r \in Command
    <3>1. (cli[p].kind = "do") \in BOOLEAN
      OBVIOUS
    <3> QED
      BY <1>1, <2>2, <3>1 DEF Command, Pc
  <2>4. /\ r.id = cli[p].id /\ r.kind = cli[p].kind /\ r.steps = Tail(cli[p].steps)
        /\ r.pc = (IF cli[p].kind = "do" THEN "recheck" ELSE "gate")
        /\ r.at = cli[p].at /\ r.history = cli[p].history
    BY <1>1 DEF Command
  <2>5. Placed(r, now, commands)
    BY <1>0, <1>1, <2>1, <2>2, <2>4 DEF Placed
  <2> HIDE DEF r
  <2>6. Only(p) /\ cli'[p] = r
    BY <1>0, <2>1, <2>3 DEF Only
  <2> QED
    BY <1>0, <1>2, <2>1, <2>2, <2>4, <2>5, <2>6
<1>5. CASE NextAttempt(p) /\ ~Exits(p)
  <2> DEFINE r == Reloaded(p)
  <2>1. cli' = [cli EXCEPT ![p] = r] /\ Len(cli[p].steps) > 1 /\ cli[p].kind = "ask"
    BY <1>0, <1>5 DEF NextAttempt
  <2>2. /\ Tail(cli[p].steps) \in Seq(Cap)
        /\ Len(Tail(cli[p].steps)) = Len(cli[p].steps) - 1
        /\ Tail(cli[p].steps) # <<>>
    BY <1>1, <2>1, Rest
  <2>3. r \in Command
    BY <1>0, <1>1, <2>2, EmptyTypes DEF Reloaded, Command, Pc
  <2>4. /\ r.id = cli[p].id /\ r.kind = cli[p].kind /\ r.steps = Tail(cli[p].steps)
        /\ r.pc = "loadArm" /\ r.at = now
    BY <1>1 DEF Reloaded, Command
  <2>5. Placed(r, now, commands)
    BY <1>0, <1>1, <2>1, <2>2, <2>4 DEF Placed
  <2> HIDE DEF r
  <2>6. Only(p) /\ cli'[p] = r
    BY <1>0, <2>1, <2>3 DEF Only
  <2> QED
    BY <1>0, <1>2, <2>1, <2>2, <2>4, <2>5, <2>6
<1> QED
  BY <1>3, <1>4, <1>5

\* The execution a command begins.
RunOf(p) == [kind |-> cli[p].kind, sig |-> Current(p), at |-> cli[p].at,
             id |-> CallId(p), yes |-> cli[p].yes]

LEMMA ExecEffect ==
    ASSUME Typed, NEW p \in Proc, Exec(p)
    PROVE  /\ Only(p)
           /\ cli[p].pc = "exec" /\ cli'[p] = [cli[p] EXCEPT !.pc = "ran"]
           /\ Placed(cli'[p], now, commands)
           /\ RunOf(p) \in Execution
           /\ executed' = executed \cup {RunOf(p)} /\ IsFiniteSet(executed')
           /\ UNCHANGED <<now, file, daemon, given, standing, always, overlap, commands>>
<1> USE DEF Typed
<1>1. On(p) /\ cli \in [Proc -> Command]
  BY DEF Exec, On
<1>2. /\ cli[p] \in Command /\ Current(p) \in Cap /\ CallId(p) \in Nat \X Nat
      /\ Placed(cli[p], now, commands)
  BY <1>1, AtHand, ControlPlaced
<1> DEFINE r == [cli[p] EXCEPT !.pc = "ran"]
<1>3. cli' = [cli EXCEPT ![p] = r] /\ cli[p].pc = "exec"
  BY <1>1 DEF Exec, Go, Command
<1>4. r \in Command
  BY <1>2 DEF Command, Pc
<1>5. Only(p) /\ cli'[p] = r
  BY <1>1, <1>3, <1>4 DEF Only
<1>6. Placed(r, now, commands)
  BY <1>2, <1>3 DEF Placed, Command
<1>7. cli[p].kind \in Kinds
  BY <1>2, <1>3 DEF Placed
<1>8. RunOf(p) \in Execution
  BY <1>2, <1>7 DEF RunOf, Execution, Command
<1>9. executed' = executed \cup {RunOf(p)} /\ IsFiniteSet(executed')
  BY FS_AddElement DEF Exec, RunOf
<1> QED
  BY <1>3, <1>5, <1>6, <1>8, <1>9 DEF Exec

\* A command begins.
LEMMA BeginEffect ==
    ASSUME Typed, NEW p \in Proc, Begin(p)
    PROVE  /\ Only(p)
           /\ cli[p].pc = "off"
           /\ cli'[p].pc = "loadArm" /\ cli'[p].id = commands + 1 /\ cli'[p].at = now
           /\ commands' = commands + 1
           /\ Placed(cli'[p], now, commands')
           /\ overlap' = (overlap \/ daemon.phase # "down" \/ \E q \in Proc \ {p} : On(q))
           /\ UNCHANGED <<now, file, daemon, given, standing, always, executed>>
<1>1. PICK k \in Kinds, n \in 1..MaxSteps : \E s \in [1..n -> Cap] :
         cli' = [cli EXCEPT ![p] = [Off EXCEPT
             !.pc = "loadArm", !.id = commands + 1, !.kind = k, !.steps = s, !.at = now]]
  BY DEF Begin
<1>2. PICK s \in [1..n -> Cap] :
         cli' = [cli EXCEPT ![p] = [Off EXCEPT
             !.pc = "loadArm", !.id = commands + 1, !.kind = k, !.steps = s, !.at = now]]
  BY <1>1
<1> DEFINE r == [Off EXCEPT
             !.pc = "loadArm", !.id = commands + 1, !.kind = k, !.steps = s, !.at = now]
<1>3. n \in Nat \ {0} /\ s \in Seq(Cap) /\ Len(s) = n /\ s # <<>>
  BY SharedAssumption
<1>4. r \in Command
  <2>1. commands + 1 \in Nat /\ now \in Nat /\ Off \in Command
    BY EmptyTypes DEF Typed
  <2> QED
    BY <1>3, <2>1 DEF Command, Pc
<1>5. /\ r.pc = "loadArm" /\ r.id = commands + 1 /\ r.kind = k /\ r.steps = s
      /\ r.at = now
  BY DEF Off
<1> HIDE DEF r
<1>6. Only(p) /\ cli'[p] = r
  BY <1>2, <1>4 DEF Only, r, Typed
<1>7. commands' = commands + 1
  BY DEF Begin
<1>8. Placed(r, now, commands')
  BY <1>3, <1>5, <1>7 DEF Placed, Typed
<1> QED
  BY <1>5, <1>6, <1>7, <1>8 DEF Begin, On

\* armCap and disarmCap write, and end; a process that is killed ends as well.
LEMMA EndsEffect ==
    ASSUME Typed, NEW p \in Proc, WriteArm(p) \/ Killed(p)
    PROVE  /\ Only(p)
           /\ cli[p].pc # "off" /\ cli'[p] = Off
           /\ file' \in Files
           /\ overlap' \in BOOLEAN
           /\ UNCHANGED <<now, daemon, executed, commands>>
<1> USE DEF Typed
<1>1. On(p) /\ cli \in [Proc -> Command] /\ cli' = [cli EXCEPT ![p] = Off]
  BY DEF WriteArm, Killed, On, Exits
<1>2. Only(p) /\ cli'[p] = Off
  BY <1>1, EmptyTypes DEF Only
<1>3. /\ cli[p] \in Command /\ Current(p) \in Cap
  BY <1>1, AtHand
<1>4. Changed(p) \in ArmState /\ cli[p].at \in Nat
  BY <1>3, ArmTypes DEF Changed, Command
<1>5. SavedArm(Changed(p), cli[p].at) \in ArmState
  BY <1>3, <1>4, ArmTypes
<1>6. file' \in Files
  BY <1>5 DEF WriteArm, Killed, Written, Files, Unreadable
<1> QED
  BY <1>1, <1>2, <1>6 DEF WriteArm, Killed, On

\* The daemon's steps.
LEMMA DaemonEffect ==
    ASSUME Typed, Daemon
    PROVE  /\ daemon' \in Memory /\ daemon'.at <= now
           /\ file' \in Files
           /\ executed' \subseteq Execution /\ IsFiniteSet(executed')
           /\ overlap' \in BOOLEAN
           /\ UNCHANGED <<now, cli, given, standing, always, commands>>
<1> USE DEF Typed, ghosts
<1>1. /\ UNCHANGED <<now, cli, given, standing, always, commands>>
      /\ daemon \in Memory /\ now \in Nat /\ file \in Files
      /\ daemon.arm \in ArmState /\ daemon.history \in Log /\ daemon.session \subseteq Cap
  BY DEF Daemon, DaemonLoads, DaemonStarts, DaemonLoadsAllow, DaemonLoadsLog,
      DaemonRuns, DaemonSaves, DaemonTicks, DaemonStops, Memory
<1>2. CASE DaemonStarts
  <2>1. Readable("arm", NoGrants) \in ArmState
    BY <1>1, EmptyTypes DEF Readable, Files
  <2>2. PruneArm(Readable("arm", NoGrants), now) \in ArmState
    <3>1. \A a \in ArmState : PruneArm(a, now) \in ArmState
      <4> SUFFICES ASSUME NEW a \in ArmState PROVE IsArmState(PruneArm(a, now))
        BY ArmStates
      <4>1. IsArmState(a)
        BY ArmStates
      <4> QED
        BY <4>1 DEF PruneArm, IsArmState, IsMap
    <3> QED
      BY <2>1, <3>1
  <2>3. daemon' = [phase |-> "loadAllow", session |-> {}, history |-> {}, at |-> now,
                   arm |-> PruneArm(Readable("arm", NoGrants), now)]
    BY <1>2 DEF DaemonStarts, Down
  <2>4. {} \in Log
    BY EmptyTypes
  <2>5. daemon' \in Memory /\ daemon'.at = now
    BY <1>1, <2>2, <2>3, <2>4 DEF Memory
  <2> QED
    BY <1>1, <1>2, <2>5 DEF DaemonStarts
<1>7. CASE DaemonLoadsAllow
  <2>1. Readable("allow", {}) \in SUBSET Cap
    BY <1>1 DEF Readable, Files
  <2> QED
    BY <1>1, <1>7, <2>1 DEF DaemonLoadsAllow, Memory
<1>8. CASE DaemonLoadsLog
  <2>1. Readable("log", {}) \in Log /\ daemon.at \in Nat
    BY <1>1, EmptyTypes DEF Readable, Files, Memory
  <2>2. PruneActions(Readable("log", {}), daemon.at) \in Log
    BY <2>1, LogTypes
  <2>3. daemon' \in Memory /\ daemon'.at = 0
    BY <1>1, <1>8, <2>2 DEF DaemonLoadsLog, Memory
  <2> QED
    BY <1>1, <1>8, <2>3 DEF DaemonLoadsLog
<1>3. CASE DaemonRuns
  <2>1. PICK c \in Cap, yes \in BOOLEAN :
           /\ executed' = executed \cup
                 {[kind |-> "daemon", sig |-> c, at |-> now, id |-> DaemonCallId, yes |-> yes]}
           /\ daemon' = [daemon EXCEPT
                 !.phase = "saving",
                 !.history = @ \cup {NewRecord(c, now, DaemonCallId)}]
    BY <1>3 DEF DaemonRuns
  <2>2. DaemonCallId \in Nat \X Nat
    BY FS_CardinalityType DEF DaemonCallId
  <2>3. NewRecord(c, now, DaemonCallId) \in Record
    BY <1>1, <2>2 DEF NewRecord, Record
  <2>4. daemon.history \cup {NewRecord(c, now, DaemonCallId)} \in Log
    BY <1>1, <2>3, LogTypes
  <2>5. daemon' \in Memory /\ daemon'.at = daemon.at
    BY <1>1, <2>1, <2>4 DEF Memory
  <2>6. executed' \subseteq Execution /\ IsFiniteSet(executed')
    <3>1. executed \subseteq Execution /\ IsFiniteSet(executed)
      OBVIOUS
    <3>2. [kind |-> "daemon", sig |-> c, at |-> now, id |-> DaemonCallId, yes |-> yes]
             \in Execution
      BY <1>1, <2>2 DEF Execution
    <3> QED
      BY <2>1, <3>1, <3>2, FS_AddElement
  <2>7. file' \in Files /\ overlap' \in BOOLEAN
    BY <1>1, <1>3 DEF DaemonRuns, Truncated, Files, Unreadable
  <2> QED
    BY <1>1, <2>5, <2>6, <2>7
<1>4. CASE DaemonSaves
  <2>1. Saved(daemon.history) \in Log
    BY <1>1, LogTypes
  <2>2. file' \in Files
    BY <1>1, <1>4, <2>1 DEF DaemonSaves, Written, Files, Unreadable
  <2> QED
    BY <1>1, <1>4, <2>2 DEF DaemonSaves, Memory
<1>5. CASE DaemonTicks
  <2>1. PruneArm(daemon.arm, now) \in ArmState
    <3>1. IsArmState(daemon.arm)
      BY <1>1, ArmStates
    <3>2. IsArmState(PruneArm(daemon.arm, now))
      BY <3>1 DEF PruneArm, IsArmState, IsMap
    <3> QED
      BY <3>2, ArmStates
  <2>2. PruneActions(daemon.history, now) \in Log
    BY <1>1, LogTypes
  <2> QED
    BY <1>1, <1>5, <2>1, <2>2 DEF DaemonTicks, Memory
<1>6. CASE DaemonStops
  <2>1. Down.at = 0 /\ 0 <= now
    BY <1>1 DEF Down
  <2> QED
    BY <1>1, <1>6, <2>1, EmptyTypes DEF DaemonStops
<1> QED
  BY <1>2, <1>3, <1>4, <1>5, <1>6, <1>7, <1>8 DEF Daemon, DaemonLoads

-----------------------------------------------------------------------------
(* Typed is an invariant.                                                  *)

\* The clock and the counter only grow.
LEMMA PlacedLater ==
    ASSUME NEW r \in Command, NEW t \in Nat, NEW n \in Nat, NEW t2 \in Nat, NEW n2 \in Nat,
           t <= t2, n <= n2, Placed(r, t, n)
    PROVE  Placed(r, t2, n2)
  BY DEF Placed, Command

LEMMA OffPlaced == \A t, n : Placed(Off, t, n)
  BY DEF Placed, Off

\* One process moves.
LEMMA TypedMove ==
    ASSUME Typed, NEW p \in Proc, Only(p),
           cli'[p] = Off \/ Placed(cli'[p], now', commands'),
           now' = now, daemon' = daemon, commands' \in Nat, commands <= commands',
           file' \in Files, executed' \subseteq Execution, IsFiniteSet(executed'),
           overlap' \in BOOLEAN
    PROVE  Typed'
<1>1. cli' \in [Proc -> Command] /\ now \in Nat /\ commands \in Nat
  BY DEF Typed, Only
<1>2. ASSUME NEW q \in Proc PROVE Placed(cli'[q], now', commands')
  <2>1. CASE q = p
    BY <2>1, OffPlaced
  <2>2. CASE q # p
    <3>1. cli'[q] = cli[q] /\ cli[q] \in Command
      BY <2>2 DEF Only, Typed
    <3>2. Placed(cli[q], now, commands)
      BY ControlPlaced DEF Typed
    <3>3. Placed(cli[q], now, commands')
      BY <1>1, <3>1, <3>2, PlacedLater
    <3> QED
      BY <3>1, <3>3
  <2> QED
    BY <2>1, <2>2
<1>3. Control'
  BY <1>2 DEF Control, Placed, On
<1> QED
  BY <1>1, <1>3 DEF Typed

LEMMA TypedNext == Typed /\ [Next]_vars => Typed'
<1> SUFFICES ASSUME Typed, [Next]_vars PROVE Typed'
  OBVIOUS
<1>0. /\ now \in Nat /\ commands \in Nat /\ file \in Files /\ executed \subseteq Execution
      /\ IsFiniteSet(executed) /\ overlap \in BOOLEAN /\ cli \in [Proc -> Command]
  BY DEF Typed
<1>1. ASSUME NEW p \in Proc, Proceeds(p) PROVE Typed'
  BY <1>0, <1>1, ProceedsEffect, TypedMove
<1>2. ASSUME NEW p \in Proc, NextStep(p) \/ NextAttempt(p) PROVE Typed'
  <2>1. /\ Only(p) /\ (cli'[p] = Off \/ Placed(cli'[p], now, commands))
        /\ UNCHANGED <<now, file, daemon, executed, overlap, commands>>
    BY <1>2, NextStepEffect
  <2>2. commands' \in Nat /\ commands <= commands'
    BY <1>0, <2>1
  <2> QED
    BY <1>0, <2>1, <2>2, TypedMove
<1>3. ASSUME NEW p \in Proc, Exec(p) PROVE Typed'
  <2>1. /\ Only(p) /\ Placed(cli'[p], now, commands)
        /\ RunOf(p) \in Execution /\ executed' = executed \cup {RunOf(p)}
        /\ IsFiniteSet(executed')
        /\ UNCHANGED <<now, file, daemon, overlap, commands>>
    BY <1>3, ExecEffect
  <2>2. /\ commands' \in Nat /\ commands <= commands' /\ executed' \subseteq Execution
        /\ file' \in Files /\ overlap' \in BOOLEAN
    BY <1>0, <2>1
  <2> QED
    BY <2>1, <2>2, TypedMove
<1>4. ASSUME NEW p \in Proc, Begin(p) PROVE Typed'
  <2>1. /\ Only(p) /\ Placed(cli'[p], now, commands') /\ commands' = commands + 1
        /\ UNCHANGED <<now, file, daemon, executed>>
        /\ overlap' = (overlap \/ daemon.phase # "down" \/ \E q \in Proc \ {p} : On(q))
    BY <1>4, BeginEffect
  <2>2. commands' \in Nat /\ commands <= commands'
    BY <1>0, <2>1
  <2>3. overlap' \in BOOLEAN
    BY <2>1
  <2> QED
    BY <1>0, <2>1, <2>2, <2>3, TypedMove
<1>5. ASSUME NEW p \in Proc, WriteArm(p) \/ Killed(p) PROVE Typed'
  BY <1>0, <1>5, EndsEffect, TypedMove
<1>6. CASE Daemon
  <2>1. Control'
    BY <1>6, DaemonEffect DEF Typed, Control, On
  <2> QED
    BY <1>0, <1>6, <2>1, DaemonEffect DEF Typed
<1>7. CASE Advance
  <2>1. now' = now + 1 /\ UNCHANGED <<file, cli, daemon, executed, overlap, commands>>
    BY <1>7 DEF Advance, ghosts
  <2>2. now' \in Nat /\ now <= now'
    BY <1>0, <2>1
  <2>3. ASSUME NEW q \in Proc PROVE Placed(cli[q], now', commands)
    <3>1. cli[q] \in Command /\ Placed(cli[q], now, commands)
      BY <1>0, ControlPlaced DEF Typed
    <3> QED
      BY <1>0, <2>2, <3>1, PlacedLater
  <2>4. Control'
    BY <2>1, <2>3 DEF Control, Placed, On
  <2>5. daemon.at \in Nat /\ daemon.at <= now'
    BY <1>0, <2>1, <2>2 DEF Typed, Memory
  <2> QED
    BY <2>1, <2>2, <2>4, <2>5 DEF Typed
<1>8. CASE UNCHANGED vars
  BY <1>8 DEF vars, Typed, Control, On
<1> QED
  BY <1>1, <1>2, <1>3, <1>4, <1>5, <1>6, <1>7, <1>8 DEF Next, Proceeds

-----------------------------------------------------------------------------
(* Every execution has a number of its own.                                *)

Numbers ==
    /\ \A x \in executed : x.id[1] <= commands
    /\ \A x, y \in executed : x.id = y.id => x = y
    /\ \A p, q \in Proc : (On(p) /\ On(q) /\ cli[p].id = cli[q].id) => p = q
    /\ \A p \in Proc, x \in executed :
          (On(p) /\ x.id[1] = cli[p].id) =>
              /\ x.id[2] >= Len(cli[p].steps)
              /\ cli[p].pc # "ran" => x.id[2] > Len(cli[p].steps)
    /\ \A x \in executed : x.id[1] = 0 => x.id[2] < Cardinality(executed)

LEMMA NumbersInit == Init => Numbers
  BY DEF Init, Numbers, On, Off

\* A process moves and executes nothing.
LEMMA NumbersMove ==
    ASSUME Typed, Numbers, NEW p \in Proc, Only(p), executed' = executed,
           commands' \in Nat, commands <= commands',
           On(p)' => /\ \A q \in Proc \ {p} : On(q) => cli[q].id # cli'[p].id
                     /\ \A x \in executed : x.id[1] = cli'[p].id =>
                           /\ x.id[2] >= Len(cli'[p].steps)
                           /\ cli'[p].pc # "ran" => x.id[2] > Len(cli'[p].steps)
    PROVE  Numbers'
<1>1. \A q \in Proc \ {p} : cli'[q] = cli[q]
  BY DEF Only
<1>2. \A x \in executed : x.id[1] \in Nat /\ commands \in Nat
  BY DEF Typed, Execution
<1>3. \A x \in executed' : x.id[1] <= commands'
  BY <1>2 DEF Numbers
<1>4. \A q, o \in Proc : (On(q)' /\ On(o)' /\ cli'[q].id = cli'[o].id) => q = o
  BY <1>1 DEF Numbers, On
<1>5. \A q \in Proc, x \in executed' :
          (On(q)' /\ x.id[1] = cli'[q].id) =>
              /\ x.id[2] >= Len(cli'[q].steps)
              /\ cli'[q].pc # "ran" => x.id[2] > Len(cli'[q].steps)
  BY <1>1 DEF Numbers, On
<1> QED
  BY <1>3, <1>4, <1>5 DEF Numbers, On

\* The number of the call a command is about to make is new.
LEMMA FreshCall ==
    ASSUME Typed, Numbers, NEW p \in Proc, On(p), cli[p].pc # "ran"
    PROVE  \A x \in executed : x.id # CallId(p)
<1>1. Len(cli[p].steps) \in Nat
  BY AtHand
<1>2. \A x \in executed : x.id[2] \in Nat
  BY DEF Typed, Execution
<1> QED
  BY <1>1, <1>2 DEF Numbers, CallId

LEMMA FreshDaemonCall ==
    ASSUME Typed, Numbers
    PROVE  \A x \in executed : x.id # DaemonCallId
<1>1. Cardinality(executed) \in Nat
  BY FS_CardinalityType DEF Typed
<1>2. \A x \in executed : x.id[2] \in Nat
  BY DEF Typed, Execution
<1> QED
  BY <1>1, <1>2 DEF Numbers, DaemonCallId

LEMMA NumbersNext == Typed /\ Numbers /\ [Next]_vars => Numbers'
<1> SUFFICES ASSUME Typed, Numbers, [Next]_vars PROVE Numbers'
  OBVIOUS
<1>0. /\ commands \in Nat /\ commands <= commands /\ cli \in [Proc -> Command]
      /\ \A x \in executed : x.id[1] \in Nat /\ x.id[2] \in Nat
      /\ \A q \in Proc : On(q) => cli[q].id \in 1..commands
      /\ ~(Off.pc # "off")
  BY DEF Typed, Execution, Control, Off
<1>1. ASSUME NEW p \in Proc, Proceeds(p) PROVE Numbers'
  BY <1>0, <1>1, ProceedsEffect, NumbersMove DEF Continues, Numbers, On
<1>2. ASSUME NEW p \in Proc, NextStep(p) \/ NextAttempt(p) PROVE Numbers'
  <2>1. On(p) /\ Only(p) /\ executed' = executed /\ commands' = commands
    BY <1>2, NextStepEffect DEF On
  <2>2. Len(cli[p].steps) \in Nat
    BY <2>1, AtHand
  <2>3. On(p)' => cli'[p].id = cli[p].id /\ Len(cli'[p].steps) = Len(cli[p].steps) - 1
    BY <1>0, <1>2, NextStepEffect DEF On
  <2> QED
    BY <1>0, <2>1, <2>2, <2>3, NumbersMove DEF Numbers
<1>3. ASSUME NEW p \in Proc, Begin(p) PROVE Numbers'
  <2>1. /\ Only(p) /\ executed' = executed /\ commands' = commands + 1
        /\ cli'[p].id = commands + 1
    BY <1>3, BeginEffect
  <2>2. \A x \in executed : x.id[1] # commands + 1
    BY <1>0 DEF Numbers
  <2>3. \A q \in Proc \ {p} : On(q) => cli[q].id # cli'[p].id
    BY <1>0, <2>1
  <2> QED
    BY <1>0, <2>1, <2>2, <2>3, NumbersMove
<1>4. ASSUME NEW p \in Proc, WriteArm(p) \/ Killed(p) PROVE Numbers'
  BY <1>0, <1>4, EndsEffect, NumbersMove DEF On
<1>5. ASSUME NEW p \in Proc, Exec(p) PROVE Numbers'
  <2> DEFINE e == RunOf(p)
  <2>1. /\ Only(p) /\ On(p) /\ cli[p].pc = "exec" /\ cli'[p] = [cli[p] EXCEPT !.pc = "ran"]
        /\ executed' = executed \cup {e} /\ IsFiniteSet(executed')
        /\ commands' = commands
    BY <1>5, ExecEffect DEF On
  <2>2. /\ cli[p] \in Command /\ Len(cli[p].steps) \in Nat
        /\ cli[p].id \in 1..commands
    BY <1>0, <2>1, AtHand
  <2>3. /\ cli'[p].id = cli[p].id /\ cli'[p].steps = cli[p].steps
        /\ cli'[p].pc = "ran"
    BY <2>1, <2>2 DEF Command
  <2>4. e.id = CallId(p) /\ e.id[1] = cli[p].id /\ e.id[2] = Len(cli[p].steps)
    BY DEF RunOf, CallId
  <2>5. \A x \in executed : x.id # e.id
    BY <2>1, <2>4, FreshCall
  <2> HIDE DEF e
  <2>6. Cardinality(executed) <= Cardinality(executed') /\ Cardinality(executed) \in Nat
        /\ Cardinality(executed') \in Nat
    BY <2>1, FS_Subset, FS_CardinalityType DEF Typed
  <2>7. \A x \in executed' : x.id[1] <= commands'
    BY <1>0, <2>1, <2>2, <2>4 DEF Numbers
  <2>8. \A x, y \in executed' : x.id = y.id => x = y
    BY <2>1, <2>5 DEF Numbers
  <2>9. \A q \in Proc \ {p} : cli'[q] = cli[q]
    BY <2>1 DEF Only
  <2>13. \A q \in Proc : (On(q)' => On(q)) /\ cli'[q].id = cli[q].id
    BY <2>1, <2>3, <2>9 DEF On
  <2>10. \A q, o \in Proc : (On(q)' /\ On(o)' /\ cli'[q].id = cli'[o].id) => q = o
    BY <2>13 DEF Numbers
  <2>11. \A q \in Proc, x \in executed' :
          (On(q)' /\ x.id[1] = cli'[q].id) =>
              /\ x.id[2] >= Len(cli'[q].steps)
              /\ cli'[q].pc # "ran" => x.id[2] > Len(cli'[q].steps)
    <3> SUFFICES ASSUME NEW q \in Proc, NEW x \in executed', On(q)', x.id[1] = cli'[q].id
                 PROVE  /\ x.id[2] >= Len(cli'[q].steps)
                        /\ cli'[q].pc # "ran" => x.id[2] > Len(cli'[q].steps)
      OBVIOUS
    <3>1. CASE q = p
      <4>1. x \in executed => x.id[2] > Len(cli[p].steps)
        BY <2>1, <2>3, <3>1 DEF Numbers
      <4>2. x.id[2] \in Nat /\ x.id[2] >= Len(cli[p].steps)
        BY <1>0, <2>1, <2>2, <2>4, <4>1
      <4> QED
        BY <2>3, <3>1, <4>2
    <3>2. CASE q # p
      <4>1. x # e
        BY <2>1, <2>4, <2>13, <3>2 DEF Numbers
      <4> QED
        BY <2>1, <2>9, <3>2, <4>1 DEF Numbers, On
    <3> QED
      BY <3>1, <3>2
  <2>12. \A x \in executed' : x.id[1] = 0 => x.id[2] < Cardinality(executed')
    <3> SUFFICES ASSUME NEW x \in executed', x.id[1] = 0
                 PROVE  x.id[2] < Cardinality(executed')
      OBVIOUS
    <3>1. x \in executed
      BY <2>1, <2>2, <2>4
    <3> QED
      BY <1>0, <2>6, <3>1 DEF Numbers
  <2> QED
    BY <2>7, <2>8, <2>10, <2>11, <2>12 DEF Numbers, On
<1>6. CASE Daemon
  <2>1. UNCHANGED <<cli, commands>>
    BY <1>6, DaemonEffect
  <2>2. CASE executed' = executed
    BY <2>1, <2>2 DEF Numbers, On
  <2>3. CASE DaemonRuns
    <3>1. PICK c \in Cap, yes \in BOOLEAN :
             executed' = executed \cup
                 {[kind |-> "daemon", sig |-> c, at |-> now, id |-> DaemonCallId, yes |-> yes]}
      BY <2>3 DEF DaemonRuns
    <3> DEFINE e == [kind |-> "daemon", sig |-> c, at |-> now, id |-> DaemonCallId,
                     yes |-> yes]
    <3>2. e.id[1] = 0 /\ e.id[2] = Cardinality(executed) /\ e.id = DaemonCallId
      BY DEF DaemonCallId
    <3>3. executed' = executed \cup {e}
      BY <3>1
    <3>4. \A x \in executed : x.id # e.id
      BY <3>2, FreshDaemonCall
    <3> HIDE DEF e
    <3>5. e \notin executed
      BY <3>4
    <3>6. Cardinality(executed) \in Nat /\ Cardinality(executed') = Cardinality(executed) + 1
      BY <3>3, <3>5, FS_AddElement, FS_CardinalityType DEF Typed
    <3>7. \A x \in executed' : x.id[1] <= commands'
      BY <1>0, <2>1, <3>2, <3>3 DEF Numbers
    <3>8. \A x, y \in executed' : x.id = y.id => x = y
      BY <3>3, <3>4 DEF Numbers
    <3>9. \A q \in Proc, x \in executed' :
            (On(q) /\ x.id[1] = cli[q].id) => x \in executed
      BY <1>0, <3>2, <3>3
    <3>10. \A x \in executed' : x.id[1] = 0 => x.id[2] < Cardinality(executed')
      BY <1>0, <3>2, <3>3, <3>6 DEF Numbers
    <3> QED
      BY <2>1, <3>7, <3>8, <3>9, <3>10 DEF Numbers, On
  <2> QED
    BY <1>6, <2>2, <2>3
       DEF Daemon, DaemonLoads, DaemonStarts, DaemonLoadsAllow, DaemonLoadsLog,
      DaemonSaves, DaemonTicks, DaemonStops, ghosts
<1>7. CASE Advance \/ UNCHANGED vars
  BY <1>7 DEF Advance, vars, ghosts, Numbers, On
<1> QED
  BY <1>1, <1>2, <1>3, <1>4, <1>5, <1>6, <1>7 DEF Next, Proceeds

-----------------------------------------------------------------------------
(* The steps of a command up to its execution, as its history and the      *)
(* files see them.                                                         *)

\* The step leaves alone when the command was decided and what it remembers.
Keeps(p) == cli'[p].at = cli[p].at /\ cli'[p].history = cli[p].history

From(p, before, after) == cli[p].pc \in before /\ cli'[p].pc \in after

Reads(p) ==
    /\ From(p, {"loadLog"}, {"preview", "gate"})
    /\ file.log \notin Unreadable
    /\ cli'[p].history = PruneActions(file.log, cli[p].at)
    /\ cli'[p].at = cli[p].at
    /\ file' = file

Records(p) ==
    /\ From(p, {"loop"}, {"writeLog"})
    /\ cli'[p].history = Recorded(p)
    /\ cli'[p].yes = (cli[p].yes \/ Loops(p))
    /\ cli'[p].at = cli[p].at
    /\ file' = Truncated("log")

Saves(p) ==
    /\ From(p, {"writeLog"}, {"exec"})
    /\ Keeps(p)
    /\ cli'[p].yes = cli[p].yes
    /\ file' \in Written("log", Saved(cli[p].history))

Rechecks(p) ==
    /\ From(p, {"recheck"}, {"exec"})
    /\ cli'[p].history = cli[p].history
    /\ cli'[p].at = now
    /\ file' = file

Passes(p) ==
    /\ Keeps(p)
    /\ \/ From(p, {"loadArm", "loadAllow"}, {"loadAllow", "loadLog", "truncateArm"})
       \/ From(p, {"gate", "preview"}, {"loop", "recheck"})
    /\ file' = file

Truncates(p) ==
    /\ Keeps(p)
    /\ \/ From(p, {"truncateArm"}, {"writeArm"}) /\ file' = Truncated("arm")
       \/ From(p, {"gate"}, {"writeAllow"}) /\ file' = Truncated("allow")

Remembers(p) ==
    /\ From(p, {"writeAllow"}, {"loop"})
    /\ Keeps(p)
    /\ file' \in Written("allow", cli[p].session)

LEMMA Ways ==
    ASSUME Typed, NEW p \in Proc, Proceeds(p)
    PROVE  \/ /\ cli'[p] = Off /\ file' = file
              /\ cli[p].pc \notin {"writeArm", "writeAllow", "writeLog"}
           \/ Reads(p) \/ Records(p) \/ Saves(p) \/ Rechecks(p)
           \/ Passes(p) \/ Truncates(p) \/ Remembers(p)
<1> USE DEF ghosts
<1>0. cli \in [Proc -> Command] /\ cli[p] \in Command
  BY DEF Typed
<1>1. CASE /\ Exits(p) /\ file' = file
           /\ cli[p].pc \notin {"writeArm", "writeAllow", "writeLog"}
  BY <1>0, <1>1 DEF Exits
<1>2. CASE LoadArm(p) /\ ~Exits(p)
  BY <1>0, <1>2 DEF LoadArm, Passes, Keeps, From, Command
<1>3. CASE LoadAllow(p) /\ ~Exits(p)
  BY <1>0, <1>3 DEF LoadAllow, Passes, Keeps, From, Command
<1>4. CASE LoadLog(p) /\ ~Exits(p)
  BY <1>0, <1>4 DEF LoadLog, Reads, From, Command
<1>5. CASE TruncateArm(p)
  BY <1>0, <1>5 DEF TruncateArm, Go, Truncates, Keeps, From, Command
<1>6. CASE GateAllows(p)
  BY <1>0, <1>6 DEF GateAllows, Go, Passes, Keeps, From, Command
<1>7. CASE AnswersOnce(p)
  BY <1>0, <1>7 DEF AnswersOnce, Passes, Keeps, From, Command
<1>8. CASE AnswersAlways(p)
  BY <1>0, <1>8 DEF AnswersAlways, Truncates, Keeps, From, Command
<1>9. CASE WriteAllow(p)
  BY <1>0, <1>9 DEF WriteAllow, Go, Remembers, Keeps, From, Command
<1>10. CASE PassesLoop(p)
  BY <1>0, <1>10 DEF PassesLoop, Records, From, Command
<1>11. CASE WriteLog(p)
  BY <1>0, <1>11 DEF WriteLog, Go, Saves, Keeps, From, Command
<1>12. CASE PlanApproved(p)
  BY <1>0, <1>12 DEF PlanApproved, Passes, Keeps, From, Command
<1>13. CASE Recheck(p) /\ ~Exits(p)
  BY <1>0, <1>13 DEF Recheck, Rechecks, From, Command
<1>14. CASE GateDenies(p) \/ Declines(p) \/ LoopDeclined(p) \/ PreviewRefused(p)
  BY <1>1, <1>14 DEF GateDenies, Declines, LoopDeclined, PreviewRefused
<1>15. CASE (LoadArm(p) \/ LoadAllow(p) \/ LoadLog(p) \/ Recheck(p)) /\ Exits(p)
  BY <1>1, <1>15 DEF LoadArm, LoadAllow, LoadLog, Recheck
<1> QED
  BY <1>2, <1>3, <1>4, <1>5, <1>6, <1>7, <1>8, <1>9, <1>10, <1>11, <1>12, <1>13,
     <1>14, <1>15 DEF Proceeds, Load, Gate, DoPlan

-----------------------------------------------------------------------------
(* Counting the executions a history stands for.                           *)

\* As many records as what they stand for.
LEMMA Counting ==
    ASSUME NEW X, NEW H, IsFiniteSet(H),
           \A x, y \in X : x.id = y.id => x = y,
           \A x \in X : \E r \in H : r.id = x.id
    PROVE  IsFiniteSet(X) /\ Cardinality(X) <= Cardinality(H)
<1> DEFINE f == [x \in X |-> CHOOSE r \in H : r.id = x.id]
<1>1. \A x \in X : f[x] \in H /\ f[x].id = x.id
  OBVIOUS
<1>2. f \in [X -> H]
  BY <1>1
<1> HIDE DEF f
<1>3. f \in Injection(X, H)
  BY <1>1, <1>2 DEF Injection, IsInjective
<1> QED
  BY <1>3, FS_Injection

\* One more than what all but one of the records stand for.
LEMMA CountingOneMore ==
    ASSUME NEW X, NEW H, IsFiniteSet(H), NEW n \in H,
           \A x, y \in X : x.id = y.id => x = y,
           \A x \in X : x.id # n.id,
           \A x \in X : \E r \in H : r.id = x.id
    PROVE  IsFiniteSet(X) /\ 1 + Cardinality(X) <= Cardinality(H)
<1>1. IsFiniteSet(H \ {n})
  BY FS_Subset
<1>2. \A x \in X : \E r \in H \ {n} : r.id = x.id
  OBVIOUS
<1>3. IsFiniteSet(X) /\ Cardinality(X) <= Cardinality(H \ {n})
  BY <1>1, <1>2, Counting
<1>4. Cardinality(H \ {n}) = Cardinality(H) - 1
  BY FS_RemoveElement
<1> QED
  BY <1>1, <1>3, <1>4, FS_CardinalityType

\* The record stands for the execution: the file keeps whole seconds.
Stands(r, x) == r.id = x.id /\ r.sig = x.sig /\ FileTime(r.at) = FileTime(x.at)

LEMMA FileTimeOnce == \A t \in Nat : FileTime(FileTime(t)) = FileTime(t)
<1> SUFFICES ASSUME NEW t \in Nat PROVE FileTime(FileTime(t)) = FileTime(t)
  OBVIOUS
<1> Second \in Nat \ {0}
  BY FilesAssumption
<1>1. PICK q \in Nat : t = Second * q + (t % Second)
  <2>1. t = Second * (t \div Second) + (t % Second)
    BY Z3
  <2>2. t \div Second \in Nat
    BY Z3
  <2> QED
    BY <2>1, <2>2
<1>2. FileTime(t) = Second * q
  BY <1>1 DEF FileTime
<1>3. (Second * q) % Second = 0 /\ Second * q \in Nat
  BY Z3
<1> QED
  BY <1>2, <1>3 DEF FileTime

\* What the window reaches is pruned from no history.
LEMMA StillRecent ==
    ASSUME NEW r \in Record, NEW x \in Execution, Stands(r, x), NEW t \in Nat,
           FileTime(x.at) > t - Window
    PROVE  r.at > t - Window
<1>1. r.at \in Nat /\ x.at \in Nat /\ Window \in Nat
  BY GateAssumption DEF Record, Execution
<1>2. FileTime(r.at) \in Nat /\ FileTime(r.at) <= r.at /\ FileTime(r.at) = FileTime(x.at)
  BY <1>1, FileTimeEarlier DEF Stands
<1> QED
  BY <1>1, <1>2

-----------------------------------------------------------------------------
(* Repetitions inside one command.                                         *)

\* The executions of the command.
Own(p) == {x \in executed : x.id[1] = cli[p].id}

\* The record of the call under way.
Mine(p) == NewRecord(Current(p), cli[p].at, CallId(p))

\* The history holds the call under way, and before it too few like it for the
\* question, unless that was asked and answered by a yes.
Vetted(p) ==
    /\ Mine(p) \in cli[p].history
    /\ (Threshold >= 2 /\ ~cli[p].yes) =>
          1 + Cardinality(Recent(cli[p].history \ {Mine(p)}, Current(p), cli[p].at))
              < Threshold

\* A command that loaded the log once remembers every call it made since.
RepeatsOf(p) ==
    /\ (On(p) /\ cli[p].kind = "call") =>
          \A x \in Own(p) : \E r \in cli[p].history : Stands(r, x)
    /\ (cli[p].kind = "call" /\ cli[p].pc \in {"loadArm", "loadAllow", "loadLog"}) =>
          Own(p) = {}
    /\ (cli[p].pc \in {"writeLog", "exec"} /\ cli[p].kind # "do") => Vetted(p)

Repeats == \A p \in Proc : RepeatsOf(p)

LEMMA RepeatsInit == Init => Repeats
  BY DEF Init, Repeats, RepeatsOf, On, Off

\* A command that does not move, while nothing of its own is executed.
LEMMA RepeatsStay ==
    ASSUME NEW q \in Proc, RepeatsOf(q), cli'[q] = cli[q],
           On(q) => \A x \in executed' : x.id[1] = cli[q].id => x \in executed
    PROVE  RepeatsOf(q)'
<1>1. On(q)' <=> On(q)
  BY DEF On
<1>2. Vetted(q)' <=> Vetted(q)
  BY DEF Vetted, Mine, Current, CallId
<1>3. On(q) => Own(q)' \subseteq Own(q)
  BY DEF Own
<1> QED
  BY <1>1, <1>2, <1>3 DEF RepeatsOf, On

\* A process that is off.
LEMMA RepeatsOff == ASSUME NEW p \in Proc, ~On(p) PROVE RepeatsOf(p)
  BY DEF RepeatsOf, On

LEMMA RecentFinite ==
    ASSUME NEW h \in Log, NEW c, NEW t
    PROVE  IsFiniteSet(Recent(h, c, t)) /\ Cardinality(Recent(h, c, t)) \in Nat
  BY FS_Subset, FS_CardinalityType DEF Recent, Log

LEMMA RecordsVets ==
    ASSUME Typed, NEW p \in Proc, Records(p), Continues(p)
    PROVE  Vetted(p)'
<1> DEFINE c == Current(p)  t == cli[p].at  h == cli[p].history  n == Mine(p)
<1>1. /\ Current(p)' = c /\ Mine(p)' = n /\ cli'[p].at = t
      /\ cli'[p].history = h \cup {n}
  BY DEF Records, Continues, Current, CallId, Recorded, Mine
<1>2. On(p) /\ h \in Log
  BY DEF Continues, Typed, Command
<1>3. ASSUME Threshold >= 2, ~cli'[p].yes
      PROVE  1 + Cardinality(Recent(cli'[p].history \ {n}, c, t)) < Threshold
  <2>1. ~IsDoomLoop(h, c, t)
    BY <1>3 DEF Records, Loops
  <2>2. IsFiniteSet(Recent(h, c, t)) /\ Cardinality(Recent(h, c, t)) \in Nat
    BY <1>2, RecentFinite
  <2>3. 1 + Cardinality(Recent(h, c, t)) < Threshold
    BY <1>3, <2>1, <2>2, GateAssumption DEF IsDoomLoop
  <2>4. Recent(cli'[p].history \ {n}, c, t) \subseteq Recent(h, c, t)
    BY <1>1 DEF Recent
  <2>5. /\ Cardinality(Recent(cli'[p].history \ {n}, c, t))
              <= Cardinality(Recent(h, c, t))
        /\ Cardinality(Recent(cli'[p].history \ {n}, c, t)) \in Nat
    BY <2>2, <2>4, FS_Subset, FS_CardinalityType
  <2> QED
    BY <2>2, <2>3, <2>5, GateAssumption
<1> QED
  BY <1>1, <1>3 DEF Vetted

LEMMA RepeatsNext == Typed /\ Numbers /\ Repeats /\ [Next]_vars => Repeats'
<1> SUFFICES ASSUME Typed, Numbers, Repeats, [Next]_vars PROVE Repeats'
  OBVIOUS
<1>0. /\ cli \in [Proc -> Command] /\ commands \in Nat
      /\ \A x \in executed : x.id[1] \in Nat
      /\ \A q \in Proc : On(q) => cli[q].id \in 1..commands
  BY DEF Typed, Control, Execution
<1>1. ASSUME NEW p \in Proc, Only(p), executed' = executed, RepeatsOf(p)'
      PROVE  Repeats'
  <2>1. ASSUME NEW q \in Proc PROVE RepeatsOf(q)'
    BY <1>1, RepeatsStay DEF Only, Repeats
  <2> QED
    BY <2>1 DEF Repeats
<1>2. ASSUME NEW p \in Proc, Only(p), executed' = executed, cli'[p] = Off
      PROVE  Repeats'
  <2>1. RepeatsOf(p)'
    BY <1>2 DEF RepeatsOf, On, Off
  <2> QED
    BY <1>1, <1>2, <2>1
<1>3. ASSUME NEW p \in Proc, Proceeds(p) PROVE Repeats'
  <2>1. /\ Only(p) /\ executed' = executed
        /\ cli'[p] = Off \/ (Continues(p) /\ Placed(cli'[p], now, commands))
    BY <1>3, ProceedsEffect
  <2>2. CASE cli'[p] # Off
    <3> SUFFICES RepeatsOf(p)'
      BY <1>1, <2>1
    <3>1. Continues(p) /\ On(p) /\ On(p)' /\ Own(p)' = Own(p)
      BY <2>1, <2>2 DEF Continues, Own
    <3>2. cli'[p].kind = cli[p].kind /\ RepeatsOf(p)
      BY <3>1 DEF Continues, Repeats
    <3>3. Reads(p) \/ Records(p) \/ Saves(p) \/ Rechecks(p) \/ Passes(p)
          \/ Truncates(p) \/ Remembers(p)
      BY <1>3, <2>2, Ways
    <3>4. CASE Reads(p)
      BY <3>1, <3>2, <3>4 DEF Reads, From, RepeatsOf
    <3>5. CASE Records(p)
      <4>1. Vetted(p)'
        BY <3>1, <3>5, RecordsVets
      <4>2. cli[p].history \subseteq cli'[p].history
        BY <3>5 DEF Records, Recorded
      <4> QED
        BY <3>1, <3>2, <3>5, <4>1, <4>2 DEF Records, From, RepeatsOf
    <3>6. CASE Saves(p)
      <4>1. Vetted(p)' <=> Vetted(p)
        BY <3>1, <3>6 DEF Saves, Keeps, Continues, Vetted, Mine, Current, CallId
      <4> QED
        BY <3>1, <3>2, <3>6, <4>1 DEF Saves, Keeps, From, RepeatsOf
    <3>7. CASE Rechecks(p)
      <4>1. cli[p].kind = "do"
        BY <3>1, <3>7, ControlPlaced DEF Rechecks, From, Placed, Typed, On
      <4> QED
        BY <3>2, <3>7, <4>1 DEF Rechecks, From, RepeatsOf
    <3>8. CASE Passes(p)
      BY <3>1, <3>2, <3>8 DEF Passes, Keeps, From, RepeatsOf
    <3>9. CASE Truncates(p) \/ Remembers(p)
      BY <3>1, <3>2, <3>9 DEF Truncates, Remembers, Keeps, From, RepeatsOf
    <3> QED
      BY <3>3, <3>4, <3>5, <3>6, <3>7, <3>8, <3>9
  <2> QED
    BY <1>2, <2>1, <2>2
<1>4. ASSUME NEW p \in Proc, NextStep(p) \/ NextAttempt(p) PROVE Repeats'
  <2>1. On(p) /\ Only(p) /\ executed' = executed
    BY <1>4, NextStepEffect DEF On
  <2>2. CASE cli'[p] # Off
    <3>1. /\ cli'[p].id = cli[p].id /\ cli'[p].kind = cli[p].kind
          /\ cli'[p].pc \in {"gate", "recheck", "loadArm"}
          /\ cli'[p].pc = "loadArm" <=> cli[p].kind = "ask"
          /\ cli'[p].pc # "loadArm" => cli'[p].history = cli[p].history
      BY <1>4, <2>2, NextStepEffect
    <3>2. Own(p)' = Own(p) /\ On(p)'
      BY <2>1, <3>1 DEF Own, On
    <3>3. RepeatsOf(p)'
      BY <2>1, <3>1, <3>2 DEF Repeats, RepeatsOf, On
    <3> QED
      BY <1>1, <2>1, <3>3
  <2> QED
    BY <1>2, <2>1, <2>2
<1>5. ASSUME NEW p \in Proc, Begin(p) PROVE Repeats'
  <2>1. /\ Only(p) /\ executed' = executed /\ cli'[p].id = commands + 1
        /\ cli'[p].pc = "loadArm"
    BY <1>5, BeginEffect
  <2>2. \A x \in executed : x.id[1] # commands + 1
    BY <1>0 DEF Numbers
  <2>3. Own(p)' = {}
    BY <2>1, <2>2 DEF Own
  <2>4. RepeatsOf(p)'
    BY <2>1, <2>3 DEF RepeatsOf
  <2> QED
    BY <1>1, <2>1, <2>4
<1>6. ASSUME NEW p \in Proc, WriteArm(p) \/ Killed(p) PROVE Repeats'
  BY <1>2, <1>6, EndsEffect
<1>7. ASSUME NEW p \in Proc, Exec(p) PROVE Repeats'
  <2> DEFINE e == RunOf(p)
  <2>1. /\ Only(p) /\ On(p) /\ cli[p].pc = "exec" /\ cli'[p] = [cli[p] EXCEPT !.pc = "ran"]
        /\ executed' = executed \cup {e}
    BY <1>7, ExecEffect DEF On
  <2>2. /\ cli'[p].id = cli[p].id /\ cli'[p].kind = cli[p].kind /\ cli'[p].pc = "ran"
        /\ cli'[p].history = cli[p].history
    BY <1>0, <2>1 DEF Command
  <2>3. e.id[1] = cli[p].id /\ Stands(Mine(p), e)
    BY DEF RunOf, CallId, NewRecord, Stands, Mine
  <2> HIDE DEF e
  <2>4. RepeatsOf(p)'
    <3>1. cli[p].kind = "call" =>
            Mine(p) \in cli[p].history
      BY <2>1 DEF Repeats, RepeatsOf, Vetted
    <3>2. Own(p)' \subseteq Own(p) \cup {e}
      BY <2>1, <2>2 DEF Own
    <3>3. cli[p].kind = "call" =>
             \A x \in Own(p) : \E r \in cli[p].history : Stands(r, x)
      BY <2>1 DEF Repeats, RepeatsOf
    <3>4. cli[p].kind = "call" =>
             \A x \in Own(p)' : \E r \in cli'[p].history : Stands(r, x)
      BY <2>2, <2>3, <3>1, <3>2, <3>3
    <3> QED
      BY <2>2, <3>4 DEF RepeatsOf
  <2>5. ASSUME NEW q \in Proc, q # p PROVE RepeatsOf(q)'
    <3>1. cli'[q] = cli[q] /\ RepeatsOf(q)
      BY <2>1, <2>5 DEF Only, Repeats
    <3>2. On(q) => \A x \in executed' : x.id[1] = cli[q].id => x \in executed
      BY <2>1, <2>3, <2>5 DEF Numbers
    <3> QED
      BY <3>1, <3>2, RepeatsStay
  <2> QED
    BY <2>4, <2>5 DEF Repeats
<1>8. CASE Daemon
  <2>1. cli' = cli
    BY <1>8, DaemonEffect
  <2>2. \A x \in executed' : x \in executed \/ x.id[1] = 0
    <3>1. CASE DaemonRuns
      <4>1. PICK c \in Cap, yes \in BOOLEAN :
               executed' = executed \cup
                   {[kind |-> "daemon", sig |-> c, at |-> now, id |-> DaemonCallId,
                     yes |-> yes]}
        BY <3>1 DEF DaemonRuns
      <4> QED
        BY <4>1 DEF DaemonCallId
    <3>2. CASE ~DaemonRuns
      BY <1>8, <3>2 DEF Daemon, DaemonLoads, DaemonStarts, DaemonLoadsAllow, DaemonLoadsLog,
      DaemonSaves, DaemonTicks, DaemonStops, ghosts
    <3> QED
      BY <3>1, <3>2
  <2>3. ASSUME NEW q \in Proc PROVE RepeatsOf(q)'
    <3>1. On(q) => \A x \in executed' : x.id[1] = cli[q].id => x \in executed
      BY <1>0, <2>2
    <3> QED
      BY <2>1, <3>1, RepeatsStay DEF Repeats
  <2> QED
    BY <2>3 DEF Repeats
<1>9. CASE Advance \/ UNCHANGED vars
  <2>1. cli' = cli /\ executed' = executed
    BY <1>9 DEF Advance, vars, ghosts
  <2> QED
    BY <2>1, RepeatsStay DEF Repeats
<1> QED
  BY <1>3, <1>4, <1>5, <1>6, <1>7, <1>8, <1>9 DEF Next, Proceeds

\* The steps that execute.
LEMMA Executes ==
    ASSUME Typed, [Next]_vars, NEW e \in executed' \ executed
    PROVE  \/ \E p \in Proc : Exec(p) /\ e = RunOf(p)
           \/ DaemonRuns /\ e.kind = "daemon"
<1>1. ASSUME NEW p \in Proc, Exec(p) PROVE e = RunOf(p)
  BY <1>1, ExecEffect
<1>2. ASSUME DaemonRuns PROVE e.kind = "daemon"
  BY <1>2 DEF DaemonRuns
<1>3. ASSUME NEW p \in Proc,
             Proceeds(p) \/ Begin(p) \/ WriteArm(p) \/ Killed(p) \/ NextStep(p)
                \/ NextAttempt(p)
      PROVE  FALSE
  BY <1>3, ProceedsEffect, BeginEffect, EndsEffect, NextStepEffect
<1>4. ASSUME DaemonLoads \/ DaemonSaves \/ DaemonTicks \/ DaemonStops \/ Advance
             \/ UNCHANGED vars
      PROVE  FALSE
  BY <1>4 DEF DaemonLoads, DaemonStarts, DaemonLoadsAllow, DaemonLoadsLog, DaemonSaves,
     DaemonTicks, DaemonStops, Advance, vars, ghosts
<1> QED
  BY <1>1, <1>2, <1>3, <1>4 DEF Next, Daemon, Proceeds

\* What the executions of a set have records of, in a vetted history, is less
\* than the threshold, the one under way included.
LEMMA VettedCount ==
    ASSUME Typed, Numbers, NEW p \in Proc, On(p), cli[p].pc # "ran", Vetted(p),
           Threshold >= 2, ~cli[p].yes,
           NEW X \in SUBSET executed,
           \A x \in X : /\ x.sig = Current(p) /\ FileTime(x.at) > cli[p].at - Window
                        /\ \E r \in cli[p].history : Stands(r, x)
    PROVE  1 + Cardinality(X) < Threshold
<1> DEFINE H == Recent(cli[p].history \ {Mine(p)}, Current(p), cli[p].at)
<1>1. /\ cli[p].history \in Log /\ cli[p].at \in Nat
  BY DEF Typed, Command
<1>2. IsFiniteSet(H) /\ Cardinality(H) \in Nat
  BY <1>1, FS_Subset, FS_CardinalityType DEF Recent, Log
<1>3. 1 + Cardinality(H) < Threshold
  BY DEF Vetted
<1>4. \A x, y \in X : x.id = y.id => x = y
  BY DEF Numbers
<1>5. \A x \in X : \E r \in H : r.id = x.id
  <2> SUFFICES ASSUME NEW x \in X PROVE \E r \in H : r.id = x.id
    OBVIOUS
  <2>1. PICK r \in cli[p].history : Stands(r, x)
    OBVIOUS
  <2>2. r \in Record /\ x \in Execution
    BY <1>1 DEF Log, Typed
  <2>3. r.at > cli[p].at - Window
    BY <1>1, <2>1, <2>2, StillRecent
  <2>4. Mine(p).id = CallId(p) /\ x.id # CallId(p)
    BY FreshCall DEF Mine, NewRecord
  <2> QED
    BY <2>1, <2>3, <2>4 DEF Recent, Stands
<1> HIDE DEF H
<1>6. IsFiniteSet(X) /\ Cardinality(X) <= Cardinality(H)
  BY <1>2, <1>4, <1>5, Counting
<1>7. Cardinality(X) \in Nat
  BY <1>6, FS_CardinalityType
<1> QED
  BY <1>2, <1>3, <1>6, <1>7, GateAssumption

\* Steps of a recipe, and nothing else of the one command: whatever happens to
\* the log meanwhile, a repetition that reaches the threshold inside the window
\* executes only after the doom-loop question (gate, recordAction).
THEOREM RepetitionsCut == Spec => CommandLoopCut
<1> DEFINE Inv == Typed /\ Numbers /\ Repeats
           Cut == \A e \in executed' \ executed :
                     (Threshold >= 2 /\ e.kind = "call" /\ ~e.yes) =>
                        1 + Cardinality({x \in Counted(e) : x.id[1] = e.id[1]}) < Threshold
<1>1. Init => Inv
  BY TypedInit, NumbersInit, RepeatsInit
<1>2. Inv /\ [Next]_vars => Inv'
  BY TypedNext, NumbersNext, RepeatsNext
<1>3. Inv /\ [Next]_vars => Cut
  <2> SUFFICES ASSUME Inv, [Next]_vars, NEW e \in executed' \ executed,
                      Threshold >= 2, e.kind = "call", ~e.yes
               PROVE  1 + Cardinality({x \in Counted(e) : x.id[1] = e.id[1]}) < Threshold
    OBVIOUS
  <2> DEFINE X == {x \in Counted(e) : x.id[1] = e.id[1]}
  <2>1. PICK p \in Proc : Exec(p) /\ e = RunOf(p)
    BY Executes
  <2>2. On(p) /\ cli[p].pc = "exec" /\ cli[p].kind = "call" /\ ~cli[p].yes
    BY <2>1 DEF Exec, On, RunOf
  <2>3. /\ Vetted(p)
        /\ \A x \in Own(p) : \E r \in cli[p].history : Stands(r, x)
    BY <2>2 DEF Repeats, RepeatsOf
  <2>4. /\ e.sig = Current(p) /\ e.at = cli[p].at /\ e.id[1] = cli[p].id
    BY <2>1 DEF RunOf, CallId
  <2>5. /\ X \subseteq executed
        /\ \A x \in X : /\ x.sig = Current(p) /\ FileTime(x.at) > cli[p].at - Window
                        /\ x \in Own(p)
    BY <2>4 DEF Counted, Own
  <2> HIDE DEF X
  <2>6. 1 + Cardinality(X) < Threshold
    BY <2>2, <2>3, <2>5, VettedCount
  <2> QED
    BY <2>6 DEF X
<1> HIDE DEF Inv
<1> QED
  BY <1>1, <1>2, <1>3, PTL DEF Spec, CommandLoopCut

-----------------------------------------------------------------------------
(* One writer at a time.                                                   *)

\* A torn file is no content: what a loader cannot parse is neither grants nor
\* capabilities nor records.
Parsable ==
    /\ \A a \in ArmState : a \notin Unreadable
    /\ \A s \in SUBSET Cap : s \notin Unreadable
    /\ \A h \in Log : h \notin Unreadable

\* The history has every execution of E the window reaches at t.
Covers(E, h, t) ==
    \A x \in E : (x.kind # "do" /\ FileTime(x.at) > t - Window) => \E r \in h : Stands(r, x)

\* The points after the load of the log.
Loaded == {"preview", "recheck", "gate", "writeAllow", "loop", "writeLog", "exec", "ran"}

\* The files while process p, and it alone, is at work.
AtWork(p) ==
    /\ file.arm \in Unreadable <=> cli[p].pc = "writeArm"
    /\ file.allow \in Unreadable <=> cli[p].pc = "writeAllow"
    /\ file.log \in Unreadable <=> cli[p].pc = "writeLog"
    /\ cli[p].pc = "writeArm" => file.arm = Empty
    /\ cli[p].pc = "writeAllow" => file.allow = Empty
    /\ cli[p].pc = "writeLog" => file.log = Empty
    /\ cli[p].pc # "writeLog" => Covers(executed, file.log, cli[p].at)
    /\ (cli[p].pc = "exec" /\ cli[p].kind # "do") => file.log = Saved(cli[p].history)
    /\ (cli[p].pc \in Loaded /\ cli[p].kind # "do") =>
          Covers(executed, cli[p].history, cli[p].at)

\* The files while no command is at work.
Resting ==
    /\ file.arm \notin Unreadable
    /\ file.allow \notin Unreadable
    /\ IF daemon.phase = "saving"
       THEN file.log = Empty
       ELSE file.log \notin Unreadable /\ Covers(executed, file.log, now)
    /\ daemon.phase \in {"up", "saving"} => Covers(executed, daemon.history, now)

Quiet == \A p \in Proc : ~On(p)

Alone(p) == On(p) /\ \A q \in Proc \ {p} : ~On(q)

Serial ==
    ~overlap =>
        \/ Quiet /\ Resting
        \/ daemon.phase = "down" /\ \E p \in Proc : Alone(p) /\ AtWork(p)

LEMMA CoversFacts ==
    ASSUME NEW E \in SUBSET Execution, NEW h \in Log, NEW t \in Nat, Covers(E, h, t)
    PROVE  /\ \A t2 \in Nat : t <= t2 => Covers(E, h, t2)
           /\ \A t0 \in Nat : t0 <= t => Covers(E, PruneActions(h, t0), t)
           /\ Covers(E, Saved(h), t)
           /\ \A h2 : h \subseteq h2 => Covers(E, h2, t)
           /\ \A x \in Execution : (\E r \in h : Stands(r, x)) => Covers(E \cup {x}, h, t)
           /\ \A x \in Execution : x.kind = "do" => Covers(E \cup {x}, h, t)
<1>0. /\ Window \in Nat
      /\ \A x \in E : x.at \in Nat /\ FileTime(x.at) \in Nat
      /\ \A r \in h : r \in Record /\ r.at \in Nat
  BY GateAssumption, FileTimeEarlier DEF Execution, Log, Record
<1>1. \A t2 \in Nat : t <= t2 => Covers(E, h, t2)
  BY <1>0 DEF Covers
<1>2. ASSUME NEW t0 \in Nat, t0 <= t PROVE Covers(E, PruneActions(h, t0), t)
  <2> SUFFICES ASSUME NEW x \in E, x.kind # "do", FileTime(x.at) > t - Window
               PROVE  \E s \in PruneActions(h, t0) : Stands(s, x)
    BY DEF Covers
  <2>1. PICK r \in h : Stands(r, x)
    BY DEF Covers
  <2>2. r.at > t - Window
    BY <1>0, <2>1, StillRecent
  <2> QED
    BY <1>0, <1>2, <2>1, <2>2 DEF PruneActions
<1>3. Covers(E, Saved(h), t)
  <2> SUFFICES ASSUME NEW x \in E, x.kind # "do", FileTime(x.at) > t - Window
               PROVE  \E s \in Saved(h) : Stands(s, x)
    BY DEF Covers
  <2>1. PICK r \in h : Stands(r, x)
    BY DEF Covers
  <2> DEFINE s == [r EXCEPT !.at = FileTime(@)]
  <2>2. s \in Saved(h) /\ s.id = r.id /\ s.sig = r.sig /\ s.at = FileTime(r.at)
    BY <1>0 DEF Saved, Record
  <2>3. FileTime(FileTime(r.at)) = FileTime(r.at)
    BY <1>0, FileTimeOnce
  <2> HIDE DEF s
  <2>4. Stands(s, x)
    BY <2>1, <2>2, <2>3 DEF Stands
  <2> QED
    BY <2>2, <2>4
<1>4. \A h2 : h \subseteq h2 => Covers(E, h2, t)
  BY DEF Covers
<1>5. \A x \in Execution : (\E r \in h : Stands(r, x)) => Covers(E \cup {x}, h, t)
  BY DEF Covers
<1>6. \A x \in Execution : x.kind = "do" => Covers(E \cup {x}, h, t)
  BY DEF Covers
<1> QED
  BY <1>1, <1>2, <1>3, <1>4, <1>5, <1>6

\* No step makes two writers one.
LEMMA OverlapStays == Typed /\ [Next]_vars => (overlap => overlap')
<1> SUFFICES ASSUME Typed, [Next]_vars, overlap PROVE overlap'
  OBVIOUS
<1>1. ASSUME NEW p \in Proc, Proceeds(p) PROVE overlap'
  BY <1>1, ProceedsEffect
<1>2. ASSUME NEW p \in Proc, Exec(p) \/ NextStep(p) \/ NextAttempt(p) PROVE overlap'
  BY <1>2, ExecEffect, NextStepEffect
<1>3. ASSUME NEW p \in Proc, Begin(p) \/ WriteArm(p) \/ Killed(p) PROVE overlap'
  BY <1>3 DEF Begin, WriteArm, Killed
<1>4. CASE Daemon \/ Advance \/ UNCHANGED vars
  BY <1>4 DEF Daemon, DaemonLoads, DaemonStarts, DaemonLoadsAllow, DaemonLoadsLog,
      DaemonRuns, DaemonSaves, DaemonTicks, DaemonStops,
     Advance, vars, ghosts
<1> QED
  BY <1>1, <1>2, <1>3, <1>4 DEF Next, Proceeds

LEMMA SerialInit == Parsable => (Init => Serial)
<1> SUFFICES ASSUME Parsable, Init PROVE Quiet /\ Resting
  BY DEF Serial
<1>1. Quiet
  BY DEF Init, Quiet, On, Off
<1>2. file.arm \notin Unreadable /\ file.allow \notin Unreadable /\ file.log \notin Unreadable
  BY EmptyTypes DEF Init, Parsable
<1>3. Resting
  BY <1>2 DEF Init, Resting, Covers, Down
<1> QED
  BY <1>1, <1>3

\* The one process that works ends, its last write done.
LEMMA SerialEnds ==
    ASSUME Typed, NEW p \in Proc, Only(p), cli'[p] = Off, Alone(p), AtWork(p),
           cli[p].pc \notin {"writeArm", "writeAllow", "writeLog"},
           daemon.phase = "down", UNCHANGED <<now, file, daemon, executed>>
    PROVE  Serial'
<1>1. Quiet'
  BY DEF Only, Alone, Quiet, On, Off
<1>2. cli[p].at \in Nat /\ cli[p].at <= now /\ now \in Nat /\ executed \subseteq Execution
  BY DEF Typed, Control, Alone, Command
<1>3. /\ file.arm \notin Unreadable /\ file.allow \notin Unreadable
      /\ file.log \notin Unreadable /\ Covers(executed, file.log, cli[p].at)
  BY DEF AtWork
<1>4. file.log \in Log
  BY <1>3 DEF Typed, Files
<1>5. Covers(executed, file.log, now)
  BY <1>2, <1>3, <1>4, CoversFacts
<1>6. Resting'
  BY <1>3, <1>5 DEF Resting
<1> QED
  BY <1>1, <1>6 DEF Serial

\* The one process that works goes on.
LEMMA SerialGoes ==
    ASSUME NEW p \in Proc, Only(p), Alone(p), On(p)', daemon.phase = "down",
           daemon' = daemon, AtWork(p)'
    PROVE  Serial'
  BY DEF Serial, Alone, Only, On

LEMMA SerialProceeds ==
    ASSUME Parsable, Typed, NEW p \in Proc, Proceeds(p), Alone(p), AtWork(p),
           daemon.phase = "down"
    PROVE  Serial'
<1> DEFINE c == cli[p]  d == cli'[p]
<1>1. /\ Only(p) /\ UNCHANGED <<now, daemon, executed>>
      /\ cli'[p] = Off \/ (Continues(p) /\ Placed(cli'[p], now, commands))
  BY ProceedsEffect
<1>2. /\ c.at \in Nat /\ c.at <= now /\ now \in Nat /\ executed \subseteq Execution
      /\ c.history \in Log /\ c.session \in SUBSET Cap /\ file \in Files
  BY DEF Typed, Control, Alone, Command
<1>3. CASE cli'[p] = Off /\ file' = file
           /\ cli[p].pc \notin {"writeArm", "writeAllow", "writeLog"}
  BY <1>1, <1>3, SerialEnds
<1>4. CASE d # Off
  <2> SUFFICES AtWork(p)'
    BY <1>1, <1>4, SerialGoes DEF Continues
  <2>0. d.kind = c.kind /\ (c.pc = "recheck" => c.kind = "do")
    BY <1>1, <1>4, ControlPlaced DEF Continues, Typed, Placed, On
  <2>1. CASE Reads(p)
    <3>1. Covers(executed, PruneActions(file.log, c.at), c.at)
      BY <1>2, <2>1, CoversFacts DEF Reads, From, AtWork, Files
    <3> QED
      BY <1>1, <2>1, <3>1 DEF Reads, From, AtWork, Loaded
  <2>2. CASE Records(p)
    <3>1. d.kind # "do" => Covers(executed, Recorded(p), c.at)
      BY <1>2, <2>0, <2>2, CoversFacts DEF Records, From, Recorded, AtWork, Loaded
    <3>2. file'.log = Empty /\ file'.arm = file.arm /\ file'.allow = file.allow
      BY <1>2, <2>2 DEF Records, Truncated, Files
    <3> QED
      BY <1>1, <2>0, <2>2, <3>1, <3>2 DEF Records, From, AtWork, Loaded, Unreadable
  <2>3. CASE Saves(p)
    <3>1. c.kind # "do"
      BY <2>3, ControlPlaced DEF Saves, From, Placed, Typed
    <3>2. /\ file'.log = Saved(c.history)
          /\ file'.arm = file.arm /\ file'.allow = file.allow
      BY <1>2, <2>3 DEF Saves, From, Written, Files, AtWork
    <3>3. Saved(c.history) \notin Unreadable
      BY <1>2, LogTypes DEF Parsable
    <3>4. /\ Covers(executed, c.history, c.at)
          /\ Covers(executed, Saved(c.history), c.at)
      BY <1>2, <2>3, <3>1, CoversFacts DEF Saves, From, AtWork, Loaded
    <3> QED
      BY <1>1, <2>0, <2>3, <3>2, <3>3, <3>4 DEF Saves, Keeps, From, AtWork
  <2>4. CASE Rechecks(p)
    <3>1. Covers(executed, file.log, now)
      BY <1>2, <2>4, CoversFacts DEF Rechecks, From, AtWork, Files
    <3> QED
      BY <1>1, <2>0, <2>4, <3>1 DEF Rechecks, From, AtWork
  <2>5. CASE Passes(p)
    BY <1>1, <2>0, <2>5 DEF Passes, Keeps, From, AtWork, Loaded
  <2>6. CASE Truncates(p)
    <3>1. CASE From(p, {"truncateArm"}, {"writeArm"}) /\ file' = Truncated("arm")
      <4>1. file'.arm = Empty /\ file'.log = file.log /\ file'.allow = file.allow
        BY <1>2, <3>1 DEF Truncated, Files
      <4> QED
        BY <1>1, <2>0, <2>6, <3>1, <4>1 DEF Truncates, Keeps, From, AtWork, Loaded,
           Unreadable
    <3>2. CASE From(p, {"gate"}, {"writeAllow"}) /\ file' = Truncated("allow")
      <4>1. file'.allow = Empty /\ file'.log = file.log /\ file'.arm = file.arm
        BY <1>2, <3>2 DEF Truncated, Files
      <4> QED
        BY <1>1, <2>0, <2>6, <3>2, <4>1 DEF Truncates, Keeps, From, AtWork, Loaded,
           Unreadable
    <3> QED
      BY <2>6, <3>1, <3>2 DEF Truncates
  <2>7. CASE Remembers(p)
    <3>1. /\ file'.allow = c.session
          /\ file'.arm = file.arm /\ file'.log = file.log
      BY <1>2, <2>7 DEF Remembers, From, Written, Files, AtWork
    <3>2. c.session \notin Unreadable
      BY <1>2 DEF Parsable
    <3> QED
      BY <1>1, <2>0, <2>7, <3>1, <3>2 DEF Remembers, Keeps, From, AtWork, Loaded
  <2> QED
    BY <1>4, <2>1, <2>2, <2>3, <2>4, <2>5, <2>6, <2>7, Ways
<1>5. d = Off => file' = file /\ cli[p].pc \notin {"writeArm", "writeAllow", "writeLog"}
  BY Ways DEF Reads, Records, Saves, Rechecks, Passes, Truncates, Remembers, From, Off
<1> QED
  BY <1>3, <1>4, <1>5

LEMMA SerialWriteArm ==
    ASSUME Parsable, Typed, NEW p \in Proc, WriteArm(p), Alone(p), AtWork(p),
           daemon.phase = "down"
    PROVE  Serial'
<1>1. /\ Only(p) /\ cli'[p] = Off /\ UNCHANGED <<now, daemon, executed>>
  BY EndsEffect
<1>2. Quiet'
  BY <1>1 DEF Only, Alone, Quiet, On, Off
<1>3. /\ cli[p] \in Command /\ cli[p].at \in Nat /\ cli[p].at <= now /\ now \in Nat
      /\ executed \subseteq Execution /\ file \in Files /\ Current(p) \in Cap
      /\ cli[p].arm \in ArmState
  BY AtHand DEF Typed, Control, Alone, Command
<1>4. SavedArm(Changed(p), cli[p].at) \in ArmState
  <2>1. Changed(p) \in ArmState
    BY <1>3, ArmTypes DEF Changed
  <2> QED
    BY <1>3, <2>1, ArmTypes
<1>5. cli[p].pc = "writeArm" /\ file' \in Written("arm", SavedArm(Changed(p), cli[p].at))
  BY DEF WriteArm
<1>6. /\ file'.arm = SavedArm(Changed(p), cli[p].at)
      /\ file'.allow = file.allow /\ file'.log = file.log
  BY <1>3, <1>5 DEF AtWork, Written, Files
<1>7. /\ file.allow \notin Unreadable /\ file.log \notin Unreadable
      /\ Covers(executed, file.log, cli[p].at)
  BY <1>5 DEF AtWork
<1>8. Covers(executed, file.log, now)
  BY <1>3, <1>7, CoversFacts DEF Files
<1>9. Resting'
  BY <1>1, <1>4, <1>6, <1>7, <1>8 DEF Resting, Parsable
<1> QED
  BY <1>2, <1>9 DEF Serial

LEMMA SerialExec ==
    ASSUME Typed, Repeats, NEW p \in Proc, Exec(p), Alone(p), AtWork(p),
           daemon.phase = "down"
    PROVE  Serial'
<1> DEFINE e == RunOf(p)
<1>1. /\ Only(p) /\ cli[p].pc = "exec" /\ cli'[p] = [cli[p] EXCEPT !.pc = "ran"]
      /\ e \in Execution /\ executed' = executed \cup {e}
      /\ UNCHANGED <<now, file, daemon>>
  BY ExecEffect
<1>2. /\ cli[p] \in Command /\ cli[p].at \in Nat /\ cli[p].history \in Log
      /\ executed \subseteq Execution
  BY DEF Typed, Command
<1>3. /\ cli'[p].pc = "ran" /\ cli'[p].kind = cli[p].kind /\ cli'[p].at = cli[p].at
      /\ cli'[p].history = cli[p].history
  BY <1>1, <1>2 DEF Command
<1>4. e.kind = cli[p].kind /\ Stands(Mine(p), e)
  BY DEF RunOf, Stands, Mine, NewRecord
<1>5. file.log \in Log /\ Covers(executed, file.log, cli[p].at)
  BY <1>1 DEF AtWork, Typed, Files
<1> HIDE DEF e
<1>6. CASE cli[p].kind = "do"
  <2>1. Covers(executed', file.log, cli[p].at)
    BY <1>1, <1>2, <1>4, <1>5, <1>6, CoversFacts
  <2>2. AtWork(p)'
    BY <1>1, <1>3, <1>6, <2>1 DEF AtWork
  <2> QED
    BY <1>1, <1>3, <2>2, SerialGoes DEF On
<1>7. CASE cli[p].kind # "do"
  <2>1. Mine(p) \in cli[p].history
    BY <1>1, <1>7 DEF Repeats, RepeatsOf, Vetted
  <2>2. Covers(executed, cli[p].history, cli[p].at) /\ file.log = Saved(cli[p].history)
    BY <1>1, <1>7 DEF AtWork, Loaded
  <2>3. Covers(executed', cli[p].history, cli[p].at)
    BY <1>1, <1>2, <1>4, <2>1, <2>2, CoversFacts
  <2>4. Covers(executed', file.log, cli[p].at)
    BY <1>1, <1>2, <2>2, <2>3, CoversFacts
  <2>5. AtWork(p)'
    BY <1>1, <1>3, <2>3, <2>4 DEF AtWork
  <2> QED
    BY <1>1, <1>3, <2>5, SerialGoes DEF On
<1> QED
  BY <1>6, <1>7

LEMMA SerialNextStep ==
    ASSUME Typed, NEW p \in Proc, NextStep(p) \/ NextAttempt(p), Alone(p), AtWork(p),
           daemon.phase = "down"
    PROVE  Serial'
<1>1. /\ Only(p) /\ cli[p].pc = "ran" /\ UNCHANGED <<now, file, daemon, executed>>
  BY NextStepEffect
<1>2. CASE cli'[p] = Off
  BY <1>1, <1>2, SerialEnds
<1>3. CASE cli'[p] # Off
  <2>1. /\ cli'[p].kind = cli[p].kind
        /\ cli'[p].pc \in {"gate", "recheck", "loadArm"}
        /\ cli'[p].pc = "loadArm" => cli'[p].at = now
        /\ cli'[p].pc # "loadArm" => /\ cli'[p].at = cli[p].at
                                     /\ cli'[p].history = cli[p].history
    BY <1>3, NextStepEffect
  <2>2. /\ cli[p].at \in Nat /\ cli[p].at <= now /\ now \in Nat
        /\ executed \subseteq Execution /\ file.log \in Log
    BY <1>1 DEF Typed, Control, Alone, Command, AtWork, Files
  <2>3. Covers(executed, file.log, now)
    BY <1>1, <2>2, CoversFacts DEF AtWork
  <2>4. AtWork(p)'
    BY <1>1, <2>1, <2>3 DEF AtWork, Loaded
  <2> QED
    BY <1>1, <2>1, <2>4, SerialGoes DEF On
<1> QED
  BY <1>2, <1>3

LEMMA SerialBegin ==
    ASSUME Typed, Serial, ~overlap, NEW p \in Proc, Begin(p), ~overlap'
    PROVE  Serial'
<1>1. /\ Only(p) /\ cli[p].pc = "off" /\ cli'[p].pc = "loadArm" /\ cli'[p].at = now
      /\ daemon.phase = "down" /\ \A q \in Proc \ {p} : ~On(q)
      /\ UNCHANGED <<file, daemon, executed>>
  BY BeginEffect
<1>2. Quiet /\ Resting
  BY <1>1 DEF Serial, Alone, On
<1>3. AtWork(p)'
  BY <1>1, <1>2 DEF Resting, AtWork, Loaded
<1>4. Alone(p)'
  BY <1>1 DEF Alone, Only, On
<1> QED
  BY <1>1, <1>3, <1>4 DEF Serial

LEMMA SerialDaemon ==
    ASSUME Parsable, Typed, Serial, ~overlap, Daemon, ~overlap'
    PROVE  Serial'
<1>1. /\ UNCHANGED <<now, cli>> /\ now \in Nat /\ executed \subseteq Execution
      /\ daemon \in Memory /\ daemon.history \in Log /\ file \in Files
      /\ DaemonCallId \in Nat \X Nat
  BY DaemonEffect, FS_CardinalityType DEF Typed, Memory, DaemonCallId
<1>2. Quiet /\ Resting
  <2>1. CASE DaemonStarts
    BY <2>1 DEF DaemonStarts, Serial, Alone, On
  <2>2. CASE ~DaemonStarts
    BY <2>2 DEF Daemon, DaemonLoads, DaemonLoadsAllow, DaemonLoadsLog, DaemonRuns,
                DaemonSaves, DaemonTicks, DaemonStops, Serial
  <2> QED
    BY <2>1, <2>2
<1>3. Quiet'
  BY <1>1, <1>2 DEF Quiet, On
<1> SUFFICES Resting'
  BY <1>3 DEF Serial
<1>4. CASE DaemonStarts \/ DaemonLoadsAllow
  BY <1>1, <1>2, <1>4 DEF DaemonStarts, DaemonLoadsAllow, ghosts, Down, Memory, Resting
<1>9. CASE DaemonLoadsLog
  <2>1. /\ UNCHANGED <<file, executed>> /\ daemon.phase = "loadLog" /\ daemon'.phase = "up"
        /\ daemon'.history = PruneActions(Readable("log", {}), daemon.at)
    BY <1>1, <1>9 DEF DaemonLoadsLog, ghosts, Memory
  <2>2. Readable("log", {}) = file.log /\ file.log \in Log /\ Covers(executed, file.log, now)
    BY <1>1, <1>2, <2>1 DEF Resting, Readable, Files
  <2>3. daemon.at \in Nat /\ daemon.at <= now
    BY <1>1 DEF Typed, Memory
  <2>4. Covers(executed, daemon'.history, now)
    BY <1>1, <2>1, <2>2, <2>3, CoversFacts
  <2> QED
    BY <1>1, <1>2, <2>1, <2>4 DEF Resting
<1>5. CASE DaemonRuns
  <2>1. PICK c \in Cap, yes \in BOOLEAN :
           /\ executed' = executed \cup
                 {[kind |-> "daemon", sig |-> c, at |-> now, id |-> DaemonCallId, yes |-> yes]}
           /\ daemon' = [daemon EXCEPT
                 !.phase = "saving",
                 !.history = @ \cup {NewRecord(c, now, DaemonCallId)}]
    BY <1>5 DEF DaemonRuns
  <2> DEFINE e == [kind |-> "daemon", sig |-> c, at |-> now, id |-> DaemonCallId,
                   yes |-> yes]
             n == NewRecord(c, now, DaemonCallId)
  <2>2. e \in Execution /\ n \in Record /\ Stands(n, e)
    BY <1>1 DEF Execution, Record, NewRecord, Stands
  <2>3. executed' = executed \cup {e} /\ daemon'.phase = "saving"
        /\ daemon'.history = daemon.history \cup {n}
    BY <1>1, <2>1 DEF Memory
  <2> HIDE DEF e, n
  <2>4. daemon.history \cup {n} \in Log
    BY <1>1, <2>2, LogTypes
  <2>5. Covers(executed, daemon.history \cup {n}, now)
    BY <1>1, <1>2, <1>5, CoversFacts DEF Resting, DaemonRuns
  <2>6. Covers(executed', daemon'.history, now)
    BY <1>1, <2>2, <2>3, <2>4, <2>5, CoversFacts
  <2>7. file'.log = Empty /\ file'.arm = file.arm /\ file'.allow = file.allow
    BY <1>1, <1>5 DEF DaemonRuns, Truncated, Files
  <2> QED
    BY <1>1, <1>2, <2>3, <2>6, <2>7 DEF Resting
<1>6. CASE DaemonSaves
  <2>1. /\ daemon.phase = "saving" /\ daemon' = [daemon EXCEPT !.phase = "up"]
        /\ file' \in Written("log", Saved(daemon.history)) /\ executed' = executed
    BY <1>6 DEF DaemonSaves, ghosts
  <2>2. daemon'.phase = "up" /\ daemon'.history = daemon.history
    BY <1>1, <2>1 DEF Memory
  <2>3. /\ file'.log = Saved(daemon.history)
        /\ file'.arm = file.arm /\ file'.allow = file.allow
    BY <1>1, <1>2, <2>1 DEF Resting, Written, Files
  <2>4. Saved(daemon.history) \notin Unreadable
    BY <1>1, LogTypes DEF Parsable
  <2>5. Covers(executed, daemon.history, now) /\ Covers(executed, Saved(daemon.history), now)
    BY <1>1, <1>2, <2>1, CoversFacts DEF Resting
  <2> QED
    BY <1>1, <1>2, <2>1, <2>2, <2>3, <2>4, <2>5 DEF Resting
<1>7. CASE DaemonTicks
  <2>1. /\ daemon.phase = "up" /\ UNCHANGED <<file, executed>>
        /\ daemon'.phase = "up" /\ daemon'.history = PruneActions(daemon.history, now)
    BY <1>1, <1>7 DEF DaemonTicks, ghosts, Memory
  <2>2. Covers(executed, daemon'.history, now)
    BY <1>1, <1>2, <2>1, CoversFacts DEF Resting
  <2> QED
    BY <1>1, <1>2, <2>1, <2>2 DEF Resting
<1>8. CASE DaemonStops
  BY <1>1, <1>2, <1>8 DEF DaemonStops, Down, Resting
<1> QED
  BY <1>4, <1>5, <1>6, <1>7, <1>8, <1>9 DEF Daemon, DaemonLoads

LEMMA SerialNext ==
    Parsable => (Typed /\ Repeats /\ Serial /\ [Next]_vars => Serial')
<1> SUFFICES ASSUME Parsable, Typed, Repeats, Serial, [Next]_vars, ~overlap'
             PROVE  Serial'
  BY DEF Serial
<1>1. ~overlap
  BY OverlapStays
<1>2. ASSUME NEW p \in Proc, On(p)
      PROVE  daemon.phase = "down" /\ Alone(p) /\ AtWork(p)
  BY <1>1, <1>2 DEF Serial, Quiet, Alone
<1>3. ASSUME NEW p \in Proc, Begin(p) PROVE Serial'
  BY <1>1, <1>3, SerialBegin
<1>4. ASSUME NEW p \in Proc, Proceeds(p) PROVE Serial'
  <2>1. On(p)
    BY <1>4 DEF Proceeds, Load, LoadArm, LoadAllow, LoadLog, TruncateArm, Gate, GateDenies,
       GateAllows, Declines, AnswersOnce, AnswersAlways, WriteAllow, LoopDeclined,
       PassesLoop, WriteLog, DoPlan, PreviewRefused, PlanApproved, Recheck, On
  <2> QED
    BY <1>2, <1>4, <2>1, SerialProceeds
<1>5. ASSUME NEW p \in Proc, WriteArm(p) PROVE Serial'
  BY <1>2, <1>5, SerialWriteArm DEF WriteArm, On
<1>6. ASSUME NEW p \in Proc, Exec(p) PROVE Serial'
  BY <1>2, <1>6, SerialExec DEF Exec, On
<1>7. ASSUME NEW p \in Proc, NextStep(p) \/ NextAttempt(p) PROVE Serial'
  BY <1>2, <1>7, SerialNextStep DEF NextStep, NextAttempt, On
<1>8. ASSUME NEW p \in Proc, Killed(p) PROVE FALSE
  BY <1>8 DEF Killed
<1>9. CASE Daemon
  BY <1>1, <1>9, SerialDaemon
<1>10. CASE Advance
  <2>1. now' = now + 1 /\ now \in Nat /\ UNCHANGED <<file, cli, daemon, executed>>
    BY <1>10 DEF Advance, ghosts, Typed
  <2>2. CASE Quiet /\ Resting
    <3>1. /\ executed \subseteq Execution /\ daemon.history \in Log
          /\ file.log \notin Unreadable => file.log \in Log
      BY DEF Typed, Memory, Files
    <3>2. now + 1 \in Nat /\ now <= now + 1
      BY <2>1
    <3>3. Resting'
      BY <2>1, <2>2, <3>1, <3>2, CoversFacts DEF Resting
    <3> QED
      BY <2>1, <2>2, <3>3 DEF Serial, Quiet, On
  <2>3. ASSUME NEW p \in Proc, daemon.phase = "down", Alone(p), AtWork(p) PROVE Serial'
    BY <2>1, <2>3 DEF Serial, Alone, On, AtWork
  <2> QED
    BY <1>1, <2>2, <2>3 DEF Serial
<1>11. CASE UNCHANGED vars
  BY <1>1, <1>11 DEF vars, Serial, Quiet, Alone, On, AtWork, Resting
<1> QED
  BY <1>3, <1>4, <1>5, <1>6, <1>7, <1>8, <1>9, <1>10, <1>11 DEF Next, Proceeds

\* With one writer at a time nobody finds a file unreadable but the writer
\* itself, between its truncation and its write (os.WriteFile).
THEOREM NoTornFile == Parsable => (Spec => []SerialReadable)
<1> SUFFICES ASSUME Parsable PROVE Spec => []SerialReadable
  OBVIOUS
<1> DEFINE Inv == Typed /\ Numbers /\ Repeats /\ Serial
<1>1. Init => Inv
  BY TypedInit, NumbersInit, RepeatsInit, SerialInit
<1>2. Inv /\ [Next]_vars => Inv'
  BY TypedNext, NumbersNext, RepeatsNext, SerialNext
<1>3. Inv => SerialReadable
  BY DEF Serial, SerialReadable, Resting, AtWork
<1> HIDE DEF Inv
<1> QED
  BY <1>1, <1>2, <1>3, PTL DEF Spec

\* With one writer at a time the log has all that any command and the daemon
\* executed inside the window, so a repetition that reaches the threshold
\* across commands and planes executes only after the doom-loop question.
THEOREM LoopsCut == Parsable => (Spec => SerialLoopCut)
<1> SUFFICES ASSUME Parsable PROVE Spec => SerialLoopCut
  OBVIOUS
<1> DEFINE Inv == Typed /\ Numbers /\ Repeats /\ Serial
           Cut == \A e \in executed' \ executed :
                     (~overlap /\ Threshold >= 2 /\ e.kind # "do" /\ ~e.yes) =>
                        1 + Cardinality(Counted(e)) < Threshold
<1>1. Init => Inv
  BY TypedInit, NumbersInit, RepeatsInit, SerialInit
<1>2. Inv /\ [Next]_vars => Inv'
  BY TypedNext, NumbersNext, RepeatsNext, SerialNext
<1>3. Inv /\ [Next]_vars => Cut
  <2> SUFFICES ASSUME Inv, [Next]_vars, NEW e \in executed' \ executed, ~overlap,
                      Threshold >= 2, e.kind # "do", ~e.yes
               PROVE  1 + Cardinality(Counted(e)) < Threshold
    OBVIOUS
  <2>1. CASE \E p \in Proc : Exec(p) /\ e = RunOf(p)
    <3>1. PICK p \in Proc : Exec(p) /\ e = RunOf(p)
      BY <2>1
    <3>2. On(p) /\ cli[p].pc = "exec" /\ cli[p].kind # "do" /\ ~cli[p].yes
      BY <3>1 DEF Exec, On, RunOf
    <3>3. Vetted(p)
      BY <3>2 DEF Repeats, RepeatsOf
    <3>4. Covers(executed, cli[p].history, cli[p].at)
      BY <3>2 DEF Serial, Quiet, Alone, AtWork, Loaded
    <3>5. e.sig = Current(p) /\ e.at = cli[p].at
      BY <3>1 DEF RunOf
    <3>6. /\ Counted(e) \subseteq executed
          /\ \A x \in Counted(e) :
                /\ x.sig = Current(p) /\ FileTime(x.at) > cli[p].at - Window
                /\ \E r \in cli[p].history : Stands(r, x)
      BY <3>4, <3>5 DEF Counted, Covers
    <3> QED
      BY <3>2, <3>3, <3>6, VettedCount
  <2>2. CASE DaemonRuns
    <3>1. PICK c \in Cap, yes \in BOOLEAN :
             /\ yes \/ ~IsDoomLoop(daemon.history, c, now)
             /\ executed' = executed \cup
                   {[kind |-> "daemon", sig |-> c, at |-> now, id |-> DaemonCallId,
                     yes |-> yes]}
      BY <2>2 DEF DaemonRuns
    <3>2. e.sig = c /\ e.at = now /\ ~IsDoomLoop(daemon.history, c, now)
      BY <3>1
    <3>3. /\ daemon.history \in Log /\ now \in Nat /\ executed \subseteq Execution
      BY DEF Typed, Memory
    <3>4. Covers(executed, daemon.history, now)
      BY <2>2 DEF Serial, Resting, DaemonRuns
    <3> DEFINE X == Counted(e)  H == Recent(daemon.history, c, now)
    <3>5. IsFiniteSet(H) /\ Cardinality(H) \in Nat
      BY <3>3, RecentFinite
    <3>6. 1 + Cardinality(H) < Threshold
      BY <3>2, <3>5, GateAssumption DEF IsDoomLoop
    <3>7. \A x, y \in X : x.id = y.id => x = y
      BY DEF Counted, Numbers
    <3>8. \A x \in X : \E r \in H : r.id = x.id
      <4> SUFFICES ASSUME NEW x \in X PROVE \E r \in H : r.id = x.id
        OBVIOUS
      <4>1. /\ x \in executed /\ x.kind # "do" /\ x.sig = c
            /\ FileTime(x.at) > now - Window
        BY <3>2 DEF Counted
      <4>2. PICK r \in daemon.history : Stands(r, x)
        BY <3>4, <4>1 DEF Covers
      <4>3. r.at > now - Window
        BY <3>3, <4>1, <4>2, StillRecent DEF Log
      <4> QED
        BY <4>1, <4>2, <4>3 DEF Recent, Stands
    <3> HIDE DEF X, H
    <3>9. IsFiniteSet(X) /\ Cardinality(X) <= Cardinality(H)
      BY <3>5, <3>7, <3>8, Counting
    <3>10. Cardinality(X) \in Nat
      BY <3>9, FS_CardinalityType
    <3>11. 1 + Cardinality(X) < Threshold
      BY <3>5, <3>6, <3>9, <3>10, GateAssumption
    <3> QED
      BY <3>11 DEF X
  <2> QED
    BY <2>1, <2>2, Executes
<1> HIDE DEF Inv
<1> QED
  BY <1>1, <1>2, <1>3, PTL DEF Spec, SerialLoopCut

=============================================================================
