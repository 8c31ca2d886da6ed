----------------------------- MODULE MemoryStore -----------------------------
(***************************************************************************)
(* The long-term memory (internal/adapters/memory): remember, recall and   *)
(* forget as several processes run them, on the JSON-lines file            *)
(* (memory.go) or on the private Engram database (engram.go).              *)
(*                                                                         *)
(* Nothing locks the file.  Remember opens it to append and writes one     *)
(* line; forget reads it, writes the lines it keeps to one temporary file  *)
(* whose name is fixed, and renames that over it.  A file is an inode: a   *)
(* process writes to the one it opened, whatever the name says by then.    *)
(*                                                                         *)
(* A note is a number, in the order of the notes' times, its topic and the *)
(* other note its text cites ("#7"), 0 for none.  A query is a topic.      *)
(***************************************************************************)
EXTENDS Naturals, Sequences, FiniteSets, SequencesExt

CONSTANTS
    Process,    \* the daemon, the frontends, one-shot commands
    Topic,
    MaxNotes,   \* bound on notes (model checking)
    MaxForgets  \* bound on forgets (model checking)

ASSUME MemoryAssumption ==
    MaxNotes \in Nat /\ MaxForgets \in Nat /\ "none" \notin Topic

VARIABLES
    backend,  \* what Default selects: jsonl, engram
    notes,    \* the notes given: their topics and citations
    disk,     \* the inodes: their lines (0: unreadable), a torn line at the end
    path,     \* the inode of memory.jsonl, 0 for none
    tmp,      \* the inode of memory.jsonl.tmp, 0 for none
    db,       \* the notes in the Engram database
    proc,     \* the operation each process runs
    acked,    \* notes whose remember succeeded
    matched,  \* notes a forget matched
    erased,   \* notes a forget that succeeded removed
    tears,    \* number of torn lines
    overlap,  \* a forget ran while another operation did
    forgets   \* number of forgets

files == <<disk, path, tmp>>
ghosts == <<acked, matched, erased, tears, overlap>>
vars == <<backend, notes, files, db, proc, ghosts, forgets>>

Running(pc, note, topic, file) ==
    [pc |-> pc, note |-> note, topic |-> topic, file |-> file, keep |-> <<>>,
     ids |-> {}, gone |-> {}]
Idle == Running("idle", 0, "none", 0)

Init ==
    /\ backend \in {"jsonl", "engram"}
    /\ notes = <<>>
    /\ disk = <<>>
    /\ path = 0
    /\ tmp = 0
    /\ db = {}
    /\ proc = [p \in Process |-> Idle]
    /\ acked = {}
    /\ matched = {}
    /\ erased = {}
    /\ tears = 0
    /\ overlap = FALSE
    /\ forgets = 0

Goes(p, pc) == proc' = [proc EXCEPT ![p].pc = pc]
Returns(p) == proc' = [proc EXCEPT ![p] = Idle]

NewFile == [lines |-> <<>>, torn |-> FALSE]

\* Mutant of All: reading ends at the first line that does not parse.
StopsAtTorn ==
    IF path = 0 THEN {}
    ELSE LET lines == disk[path].lines
         IN  {lines[i] : i \in {k \in DOMAIN lines : \A j \in 1..k : lines[j] # 0}}

\* All: the notes of the lines that parse, a torn one is skipped.
All == IF path = 0 THEN {} ELSE ToSet(disk[path].lines) \ {0}

\* The notes a recall of everything finds.
Readable == IF backend = "jsonl" THEN All ELSE db

Overlaps(n, topic) == notes[n].topic = topic

-----------------------------------------------------------------------------
(* Beginning an operation.                                                 *)

Busy(p) == \E q \in Process \ {p} : proc[q].pc # "idle"
Forgetting(p) == \E q \in Process \ {p} : proc[q].topic # "none"

\* Remember: the file is opened, or engram started.
BeginsRemember(p, topic, cites) ==
    /\ proc[p].pc = "idle" /\ Len(notes) < MaxNotes
    /\ notes' = Append(notes, [topic |-> topic, cites |-> cites])
    /\ overlap' = (overlap \/ Forgetting(p))
    /\ IF backend = "jsonl" /\ path = 0
       THEN disk' = Append(disk, NewFile) /\ path' = Len(disk')
       ELSE UNCHANGED <<disk, path>>
    /\ proc' = [proc EXCEPT ![p] = Running(
                    IF backend = "jsonl" THEN "append" ELSE "save",
                    Len(notes'), "none", path')]
    /\ UNCHANGED <<backend, tmp, db, acked, matched, erased, tears, forgets>>

\* Forget: the notes are read, and when none matches it is over; on Engram
\* the search of every word of the query comes first.
BeginsForget(p, topic) ==
    /\ proc[p].pc = "idle" /\ forgets < MaxForgets
    /\ forgets' = forgets + 1
    /\ overlap' = (overlap \/ Busy(p))
    /\ proc' = [proc EXCEPT ![p] = Running(
                    IF backend = "jsonl" THEN "read" ELSE "search", 0, topic, 0)]
    /\ UNCHANGED <<backend, notes, files, db, acked, matched, erased, tears>>

\* The process is killed; what it has written stays.
Killed(p) ==
    /\ proc[p].pc # "idle"
    /\ Returns(p)
    /\ UNCHANGED <<backend, notes, files, db, ghosts, forgets>>

-----------------------------------------------------------------------------
(* The JSON-lines file: remember.                                          *)

\* A line appended to what ends in a torn line makes one unreadable line.
Line(file, n) == Append(file.lines, IF file.torn THEN 0 ELSE n)

Appends(p) ==
    /\ proc[p].pc = "append"
    /\ disk' = [disk EXCEPT ![proc[p].file] =
                    [lines |-> Line(@, proc[p].note), torn |-> FALSE]]
    /\ acked' = acked \cup {proc[p].note}
    /\ Returns(p)
    /\ UNCHANGED <<backend, notes, path, tmp, db, matched, erased, tears, overlap,
                   forgets>>

\* A part of the line is written: the disk is full, or the machine goes down.
AppendTears(p) ==
    /\ proc[p].pc = "append"
    /\ disk' = [disk EXCEPT ![proc[p].file].torn = TRUE]
    /\ tears' = tears + 1
    /\ Returns(p)
    /\ UNCHANGED <<backend, notes, path, tmp, db, acked, matched, erased, overlap,
                   forgets>>

-----------------------------------------------------------------------------
(* The JSON-lines file: forget.                                            *)

Matching(topic) == {n \in All : Overlaps(n, topic)}

Times(n, lines) == Cardinality({i \in DOMAIN lines : lines[i] = n})

\* The lines of the other notes, each as often as it was read, by time.
Kept(topic) ==
    LET read == disk[path].lines
        others == All \ Matching(topic)
        length == Cardinality({i \in DOMAIN read : read[i] \in others})
    IN  {lines \in [1..length -> others] :
            /\ \A n \in others : Times(n, lines) = Times(n, read)
            /\ \A i, j \in 1..length : i < j => lines[i] <= lines[j]}

Reads(p) ==
    /\ proc[p].pc = "read"
    /\ LET topic == proc[p].topic
           gone == Matching(topic)
       IN IF gone = {} THEN Returns(p) /\ UNCHANGED matched
          ELSE /\ \E keep \in Kept(topic) :
                      proc' = [proc EXCEPT ![p].pc = "create", ![p].gone = gone,
                                           ![p].keep = keep]
               /\ matched' = matched \cup gone
    /\ UNCHANGED <<backend, notes, files, db, acked, erased, tears, overlap, forgets>>

\* os.Create: a new inode, or the one there is, emptied.
Creates(p) ==
    /\ proc[p].pc = "create"
    /\ IF tmp = 0 THEN disk' = Append(disk, NewFile) /\ tmp' = Len(disk')
                  ELSE disk' = [disk EXCEPT ![tmp] = NewFile] /\ UNCHANGED tmp
    /\ proc' = [proc EXCEPT ![p].pc = "flush", ![p].file = tmp']
    /\ UNCHANGED <<backend, notes, path, db, ghosts, forgets>>

\* Written from the start: what a second writer left behind that is longer
\* stays, and its first whole line is cut.
Flushes(p) ==
    /\ proc[p].pc = "flush"
    /\ LET file == proc[p].file
           rest == SubSeq(disk[file].lines, Len(proc[p].keep) + 2,
                          Len(disk[file].lines))
       IN \E lines \in {proc[p].keep} \cup
              IF disk[file].lines = <<>> THEN {} ELSE {proc[p].keep \o <<0>> \o rest} :
            disk' = [disk EXCEPT ![file] = [lines |-> lines, torn |-> FALSE]]
    /\ Goes(p, "rename")
    /\ UNCHANGED <<backend, notes, path, tmp, db, ghosts, forgets>>

FlushFails(p) ==
    /\ proc[p].pc = "flush"
    /\ disk' = [disk EXCEPT ![proc[p].file].torn = TRUE]
    /\ Returns(p)
    /\ UNCHANGED <<backend, notes, path, tmp, db, ghosts, forgets>>

\* The rename fails when another process has renamed the temporary file.
Renames(p) ==
    /\ proc[p].pc = "rename"
    /\ IF tmp = 0 THEN UNCHANGED <<path, tmp, erased>>
       ELSE /\ path' = tmp
            /\ tmp' = 0
            /\ erased' = erased \cup proc[p].gone
    /\ Returns(p)
    /\ UNCHANGED <<backend, notes, disk, db, acked, matched, tears, overlap, forgets>>

-----------------------------------------------------------------------------
(* Engram (external): save, search and delete are atomic in its database.  *)

Saves(p) ==
    /\ proc[p].pc = "save"
    /\ db' = db \cup {proc[p].note}
    /\ acked' = acked \cup {proc[p].note}
    /\ Returns(p)
    /\ UNCHANGED <<backend, notes, files, matched, erased, tears, overlap, forgets>>

\* engram fails or is killed after six seconds, before or after it saved.
SaveFails(p) ==
    /\ proc[p].pc = "save"
    /\ db' \in {db, db \cup {proc[p].note}}
    /\ Returns(p)
    /\ UNCHANGED <<backend, notes, files, ghosts, forgets>>

\* parseIDs takes every "#n" of the output: the hits and what they cite.
Found(topic) ==
    LET hits == {n \in db : Overlaps(n, topic)}
    IN  hits \cup ({notes[n].cites : n \in hits} \ {0})

\* A search that fails finds nothing.
Searches(p) ==
    /\ proc[p].pc = "search"
    /\ \E ids \in {Found(proc[p].topic), {}} :
          /\ proc' = [proc EXCEPT ![p].pc = "delete", ![p].ids = ids]
          /\ matched' = matched \cup ids
    /\ UNCHANGED <<backend, notes, files, db, acked, erased, tears, overlap, forgets>>

Deletes(p) ==
    /\ proc[p].pc = "delete"
    /\ \E n \in proc[p].ids \cap db :
          /\ db' = db \ {n}
          /\ proc' = [proc EXCEPT ![p].ids = @ \ {n}, ![p].gone = @ \cup {n}]
    /\ UNCHANGED <<backend, notes, files, ghosts, forgets>>

\* Mutant of DeleteFails: a note that could not be deleted is counted.
CountsFailed(p) ==
    /\ proc[p].pc = "delete"
    /\ \E n \in proc[p].ids :
          proc' = [proc EXCEPT ![p].ids = @ \ {n}, ![p].gone = @ \cup {n}]
    /\ UNCHANGED <<backend, notes, files, db, ghosts, forgets>>

DeleteFails(p) ==
    /\ proc[p].pc = "delete"
    /\ \E n \in proc[p].ids : proc' = [proc EXCEPT ![p].ids = @ \ {n}]
    /\ UNCHANGED <<backend, notes, files, db, ghosts, forgets>>

Forgot(p) ==
    /\ proc[p].pc = "delete" /\ proc[p].ids = {}
    /\ erased' = erased \cup proc[p].gone
    /\ Returns(p)
    /\ UNCHANGED <<backend, notes, files, db, acked, matched, tears, overlap, forgets>>

-----------------------------------------------------------------------------
Begins(p) ==
    \E topic \in Topic :
        \/ BeginsForget(p, topic)
        \/ \E cites \in 0..Len(notes) : BeginsRemember(p, topic, cites)

Steps(p) ==
    \/ Appends(p) \/ AppendTears(p)
    \/ Reads(p) \/ Creates(p) \/ Flushes(p) \/ FlushFails(p) \/ Renames(p)
    \/ Saves(p) \/ SaveFails(p)
    \/ Searches(p) \/ Deletes(p) \/ DeleteFails(p) \/ Forgot(p)

Next == \E p \in Process : Begins(p) \/ Steps(p) \/ Killed(p)

Spec == Init /\ [][Next]_vars

-----------------------------------------------------------------------------
(* Properties.                                                             *)

Note == [topic : Topic, cites : Nat]
Number == 0..Len(notes)
Inode == [lines : Seq(Number), torn : BOOLEAN]
Operation ==
    [pc : {"idle", "append", "read", "create", "flush", "rename", "save", "search",
           "delete"},
     note : Number, topic : Topic \cup {"none"}, file : 0..Len(disk),
     keep : Seq(Number), ids : SUBSET (1..Len(notes)),
     gone : SUBSET (1..Len(notes))]

\* The state is well formed: names lead to inodes, lines to notes, and a note
\* cites one before it.
TypeOK ==
    /\ backend \in {"jsonl", "engram"}
    /\ notes \in Seq(Note)
    /\ Len(notes) <= MaxNotes /\ forgets \in 0..MaxForgets
    /\ \A n \in 1..Len(notes) : notes[n].cites < n
    /\ disk \in Seq(Inode) /\ {path, tmp} \subseteq 0..Len(disk)
    /\ proc \in [Process -> Operation]
    /\ db \cup acked \cup matched \cup erased \subseteq 1..Len(notes)
    /\ tears \in Nat /\ overlap \in BOOLEAN

\* An acknowledged note stays until a forget matches it, through crashes, full
\* disks, failed rewrites and appends of other processes: each torn line costs
\* at most one acknowledged note (the one appended to it), and nothing else is
\* ever lost, unless a forget ran on the file while another operation did.
NotesSurvive ==
    ~overlap \/ backend = "engram" =>
        Cardinality(acked \ (matched \cup Readable)) <= tears

\* What a forget said it removed is gone and does not come back, from an old
\* copy or a stale temporary file, unless another operation ran on the file.
ForgottenStaysGone ==
    ~overlap \/ backend = "engram" => erased \cap Readable = {}

=============================================================================
