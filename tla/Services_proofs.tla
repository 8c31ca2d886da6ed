--------------------------- MODULE Services_proofs ----------------------------
(***************************************************************************)
(* Proofs about two services the commands of the assistant rest on: the    *)
(* long-term memory (module MemoryStore), for any number of processes, and *)
(* the chain of providers (module Providers), for every choice of limits   *)
(* and deadlines.  The two share nothing but this module.                  *)
(***************************************************************************)
EXTENDS MemoryStore, Providers, FiniteSetTheorems, SequenceTheorems, TLAPS

(* The memory: the inductive invariant and the lemmas it needs.            *)

PC == {"idle", "append", "read", "create", "flush", "rename", "save", "search",
       "delete"}

\* The types of a state with m notes and k inodes.
Inodes(m) == [lines : Seq(0..m), torn : BOOLEAN]
Operations(m, k) ==
    [pc : PC, note : 0..m, topic : Topic \cup {"none"}, file : 0..k,
     keep : Seq(0..m), ids : SUBSET (1..m), gone : SUBSET (1..m)]

Remembering == {"append", "save"}
Forgets == {"read", "create", "flush", "rename", "search", "delete"}

\* An operation belongs to its backend, and has what its next step needs.
Operating == \A p \in Process :
    /\ proc[p].pc \in Remembering => proc[p].note # 0
    /\ proc[p].topic # "none" <=> proc[p].pc \in Forgets
    /\ proc[p].pc \in {"append", "read", "create", "flush", "rename"} => backend = "jsonl"
    /\ proc[p].pc \in {"save", "search", "delete"} => backend = "engram"
    /\ proc[p].pc \in {"append", "flush", "rename"} => proc[p].file # 0
    /\ proc[p].pc \in {"append", "create", "flush", "rename"} => path # 0

\* The notes that were written somewhere, read or forgotten.
Settled ==
    db \cup erased \cup (UNION {ToSet(disk[i].lines) : i \in 1..Len(disk)})
       \cup (UNION {proc[q].gone \cup ToSet(proc[q].keep) : q \in Process})

\* The note a process is about to write is nowhere yet, and its own.
Fresh == \A p \in Process : proc[p].pc \in Remembering =>
    /\ proc[p].note \notin Settled
    /\ \A q \in Process \ {p} :
            proc[q].pc \in Remembering => proc[q].note # proc[p].note

\* On Engram, whatever overlaps: a note saved is in the database until a search
\* has found it, and one that was deleted is not in it.
OnEngram == backend = "engram" =>
    /\ acked \subseteq matched \cup db
    /\ erased \cap db = {}
    /\ \A p \in Process : proc[p].ids \subseteq matched /\ proc[p].gone \cap db = {}

Undisturbed == backend = "jsonl" /\ ~overlap

\* Who forgets is alone.
Alone == Undisturbed => \A p, q \in Process :
    p # q /\ proc[q].topic # "none" => proc[p].pc = "idle"

\* The store is never the temporary file; each operation has the right one open.
Named == Undisturbed =>
    /\ tmp # 0 => tmp # path
    /\ \A p \in Process :
        /\ proc[p].pc = "append" => proc[p].file = path
        /\ proc[p].pc \in {"flush", "rename"} => proc[p].file = tmp

\* A forget holds the whole store but what it matched, and the temporary file
\* is empty until it writes that.
Copied == Undisturbed => \A p \in Process :
    /\ proc[p].pc \in {"create", "flush", "rename"} =>
        /\ proc[p].gone \subseteq matched
        /\ ToSet(proc[p].keep) = All \ proc[p].gone
    /\ proc[p].pc = "flush" => disk[proc[p].file].lines = <<>>
    /\ proc[p].pc = "rename" =>
        disk[proc[p].file] = [lines |-> proc[p].keep, torn |-> FALSE]

\* A torn line that ends the store has yet to cost its note.
Due == IF path # 0 THEN IF disk[path].torn THEN 1 ELSE 0 ELSE 0

Lost == acked \ (matched \cup All)

Held == Undisturbed =>
    /\ Cardinality(Lost) + Due <= tears
    /\ erased \cap All = {}

IInv ==
    /\ TypeOK /\ Operating /\ Fresh /\ OnEngram
    /\ Alone /\ Named /\ Copied /\ Held

\* The model's types, by the number of notes and of inodes.
LEMMA Sized == Inode = Inodes(Len(notes)) /\ Operation = Operations(Len(notes), Len(disk))
BY DEF Inode, Inodes, Operation, Operations, Number, PC

\* A sequence of notes stays one when there are more notes.
LEMMA SeqWidens ==
    ASSUME NEW m \in Nat, NEW n \in Nat, m <= n
    PROVE  Seq(0..m) \subseteq Seq(0..n)
<1> SUFFICES ASSUME NEW s \in Seq(0..m) PROVE s \in Seq(0..n)
    OBVIOUS
<1> QED OBVIOUS

\* The types grow with the notes and the inodes.
LEMMA Widens ==
    ASSUME NEW m \in Nat, NEW n \in Nat, m <= n, NEW k \in Nat, NEW l \in Nat, k <= l
    PROVE  Inodes(m) \subseteq Inodes(n) /\ Operations(m, k) \subseteq Operations(n, l)
<1>1. Seq(0..m) \subseteq Seq(0..n) BY SeqWidens
<1>2. 0..m \subseteq 0..n /\ 0..k \subseteq 0..l /\ 1..m \subseteq 1..n OBVIOUS
<1>3. SUBSET (1..m) \subseteq SUBSET (1..n) BY <1>2
<1>4. Inodes(m) \subseteq Inodes(n) BY <1>1 DEF Inodes
<1>5. Operations(m, k) \subseteq Operations(n, l) BY <1>1, <1>2, <1>3 DEF Operations
<1> QED BY <1>4, <1>5

\* An idle process is well typed in every state.
LEMMA IdleTyped == ASSUME NEW m \in Nat, NEW k \in Nat PROVE Idle \in Operations(m, k)
BY DEF Idle, Running, Operations, PC

\* An empty file is well typed in every state.
LEMMA NewFileTyped == ASSUME NEW m \in Nat PROVE NewFile \in Inodes(m)
BY DEF NewFile, Inodes

\* No note, no file, every process idle: the start is well typed.
LEMMA InitTyped ==
    ASSUME Init
    PROVE TypeOK
<1>1. Len(notes) = 0 /\ Len(disk) = 0 BY DEF Init
<1>2. proc \in [Process -> Operation] BY <1>1, IdleTyped, Sized DEF Init
<1>3. notes \in Seq(Note) /\ disk \in Seq(Inode) BY DEF Init
<1>4. {path, tmp} \subseteq 0..Len(disk) /\ forgets \in 0..MaxForgets
    BY <1>1, MemoryAssumption DEF Init
<1>5. Len(notes) <= MaxNotes BY <1>1, MemoryAssumption
<1>6. \A n \in 1..Len(notes) : notes[n].cites < n BY <1>1
<1>7. /\ db \cup acked \cup matched \cup erased \subseteq 1..Len(notes)
      /\ tears \in Nat /\ overlap \in BOOLEAN /\ backend \in {"jsonl", "engram"}
    BY DEF Init
<1> QED BY <1>2, <1>3, <1>4, <1>5, <1>6, <1>7 DEF TypeOK

\* One entry of a sequence replaced, by a value of its type.
LEMMA SeqUpdates ==
    ASSUME NEW S, NEW s \in Seq(S), NEW i \in 1..Len(s), NEW d \in S
    PROVE  LET t == [s EXCEPT ![i] = d]
           IN  t \in Seq(S) /\ Len(t) = Len(s) /\ t[i] = d
               /\ \A j \in 1..Len(s) : j # i => t[j] = s[j]
OBVIOUS

\* A sequence is one over any set that holds its members.
LEMMA OwnSet ==
    ASSUME NEW T, NEW s \in Seq(T), NEW S, ToSet(s) \subseteq S
    PROVE  s \in Seq(S) /\ Len(s) \in Nat /\ \A i \in 1..Len(s) : s[i] \in S
BY DEF ToSet

\* An appended member is the only one added.
LEMMA AppendedSet ==
    ASSUME NEW S, NEW s \in Seq(S), NEW m
    PROVE  ToSet(Append(s, m)) = ToSet(s) \cup {m}
<1>1. s \in Seq(S \cup {m}) OBVIOUS
<1> DEFINE t == Append(s, m)
<1>2. /\ DOMAIN s = 1..Len(s) /\ DOMAIN t = 1..Len(s) + 1 /\ Len(s) \in Nat
      /\ t[Len(s) + 1] = m /\ \A i \in 1..Len(s) : t[i] = s[i]
    BY <1>1
<1> HIDE DEF t
<1>3. \A i \in 1..Len(s) + 1 : i \in 1..Len(s) \/ i = Len(s) + 1 BY <1>2
<1>4. \A i \in 1..Len(s) : i \in 1..Len(s) + 1 BY <1>2
<1>5. Len(s) + 1 \in 1..Len(s) + 1 BY <1>2
<1>6. ToSet(t) = ToSet(s) \cup {m} BY <1>2, <1>3, <1>4, <1>5 DEF ToSet
<1> QED BY <1>6 DEF t

\* One entry of a sequence replaced, by whatever value: the others stay.
LEMMA EntryUpdates ==
    ASSUME NEW S, NEW s \in Seq(S), NEW i \in 1..Len(s), NEW d, NEW t, t = [s EXCEPT ![i] = d]
    PROVE  Len(t) = Len(s) /\ t[i] = d /\ \A j \in 1..Len(s) : j # i => t[j] = s[j]
<1>1. s \in Seq(S \cup {d}) OBVIOUS
<1> QED BY <1>1, SeqUpdates

\* What one process does leaves the operations of the others alone.
LEMMA Moves ==
    ASSUME TypeOK, NEW p \in Process, NEW o, proc' = [proc EXCEPT ![p] = o],
           notes' \in Seq(Note), Len(notes) <= Len(notes'),
           disk' \in Seq(Inode'), Len(disk) <= Len(disk'),
           o \in Operations(Len(notes'), Len(disk'))
    PROVE  /\ proc' \in [Process -> Operation']
           /\ proc'[p] = o
           /\ \A q \in Process \ {p} : proc'[q] = proc[q]
<1>1. Len(notes) \in Nat /\ Len(notes') \in Nat /\ Len(disk) \in Nat /\ Len(disk') \in Nat
    BY DEF TypeOK
<1>2. Operation \subseteq Operations(Len(notes'), Len(disk')) BY <1>1, Widens, Sized
<1>3. Operation' = Operations(Len(notes'), Len(disk'))
    BY DEF Operation, Operations, Number, PC
<1> QED BY <1>2, <1>3 DEF TypeOK


\* A sequence that holds the members of a set, each as often as another one
\* does, holds all of them.
LEMMA Rearranged ==
    ASSUME NEW S, NEW T, NEW read \in Seq(S), T \subseteq ToSet(read),
           NEW k \in Nat, NEW lines \in [1..k -> T],
           \A n \in T : Times(n, lines) = Times(n, read)
    PROVE  lines \in Seq(T) /\ ToSet(lines) = T
<1>1. lines \in Seq(T) /\ DOMAIN lines = 1..k /\ ToSet(lines) \subseteq T
    BY DEF ToSet
<1>2. ASSUME NEW n \in T PROVE n \in ToSet(lines)
    <2> DEFINE Of(s) == {i \in DOMAIN s : s[i] = n}
    <2>1. Of(read) # {} BY DEF ToSet
    <2>2. IsFiniteSet(Of(read)) /\ IsFiniteSet(Of(lines))
        <3>1. IsFiniteSet(1..k) /\ IsFiniteSet(1..Len(read)) BY FS_Interval
        <3>2. Of(read) \in SUBSET (1..Len(read)) /\ Of(lines) \in SUBSET (1..k)
            BY <1>1
        <3> QED BY <3>1, <3>2, FS_Subset
    <2>3. Cardinality(Of(lines)) = Cardinality(Of(read)) BY DEF Times
    <2>4. Of(lines) # {} BY <2>1, <2>2, <2>3, FS_EmptySet
    <2> QED BY <2>4 DEF ToSet
<1> QED BY <1>1, <1>2

\* What a forget writes back is what it read and does not match.
LEMMA KeptLines ==
    ASSUME TypeOK, NEW topic, NEW lines \in Kept(topic), Matching(topic) # {}
    PROVE  /\ path # 0
           /\ lines \in Seq(0..Len(notes))
           /\ ToSet(lines) = All \ Matching(topic)
<1> DEFINE read == disk[path].lines
           others == All \ Matching(topic)
           rows == {i \in DOMAIN read : read[i] \in others}
<1>1. path # 0 BY DEF Matching, All
<1>2. read \in Seq(0..Len(notes))
    <2>1. disk \in Seq(Inode) /\ path \in 1..Len(disk) BY <1>1 DEF TypeOK
    <2>2. disk[path] \in Inode BY <2>1
    <2> QED BY <2>2 DEF Inode, Number
<1>3. others \subseteq ToSet(read) /\ others \subseteq 0..Len(notes)
    BY <1>1, <1>2 DEF All, ToSet
<1>4. Cardinality(rows) \in Nat
    <2>1. Len(read) \in Int BY <1>2
    <2>3. IsFiniteSet(1..Len(read)) BY <2>1, FS_Interval
    <2>2. rows \in SUBSET (1..Len(read)) BY <1>2
    <2> QED BY <2>2, <2>3, FS_Subset, FS_CardinalityType
<1>5. lines \in [1..Cardinality(rows) -> others] /\ \A n \in others : Times(n, lines) = Times(n, read)
    BY DEF Kept
<1> HIDE DEF read, others, rows
<1>6. lines \in Seq(others) /\ ToSet(lines) = others
    BY <1>2, <1>3, <1>4, <1>5, Rearranged
<1> QED BY <1>1, <1>3, <1>6 DEF others

\* The operation each step leaves its process with.
LEMMA StepTyped ==
    ASSUME TypeOK, Operating, NEW p \in Process, Begins(p) \/ Steps(p) \/ Killed(p)
    PROVE  TypeOK'
<1>0. /\ Len(notes) \in Nat /\ Len(disk) \in Nat /\ proc[p] \in Operation
      /\ path \in 0..Len(disk) /\ tmp \in 0..Len(disk)
      /\ Operation = Operations(Len(notes), Len(disk)) /\ Inode = Inodes(Len(notes))
      /\ Operation' = Operations(Len(notes'), Len(disk')) /\ Inode' = Inodes(Len(notes'))
    BY Sized DEF TypeOK, Operation, Operations, Inode, Inodes, Number, PC
<1>a. \A i \in 1..Len(disk) : disk[i] \in Inode BY DEF TypeOK
<1>1. ASSUME NEW topic \in Topic, NEW cites \in 0..Len(notes), BeginsRemember(p, topic, cites)
      PROVE  TypeOK'
    <2> DEFINE note == [topic |-> topic, cites |-> cites]
               o == [pc |-> IF backend = "jsonl" THEN "append" ELSE "save",
                     note |-> Len(notes'), topic |-> "none", file |-> path',
                     keep |-> <<>>, ids |-> {}, gone |-> {}]
    <2>1. notes' = Append(notes, note) BY <1>1 DEF BeginsRemember
    <2>2. notes' \in Seq(Note) /\ Len(notes') = Len(notes) + 1
        <3>1. notes \in Seq(Note) /\ note \in Note BY DEF TypeOK, Note
        <3> QED BY <2>1, <3>1
    <2>3. \A n \in 1..Len(notes') : notes'[n].cites < n
        BY <1>0, <2>1, <2>2 DEF TypeOK
    <2>4. Inode \subseteq Inode' BY <1>0, <2>2, Widens
    <2>5. /\ disk' \in Seq(Inode') /\ Len(disk) <= Len(disk') /\ Len(disk') \in Nat
          /\ path' \in 0..Len(disk')
        <3>1. CASE backend = "jsonl" /\ path = 0
            <4>1. disk' = Append(disk, NewFile) /\ path' = Len(disk')
                BY <1>1, <3>1 DEF BeginsRemember
            <4>2. disk \in Seq(Inode') /\ NewFile \in Inode' BY <1>0, <2>2, <2>4, NewFileTyped DEF TypeOK
            <4> QED BY <1>0, <4>1, <4>2
        <3>2. CASE ~(backend = "jsonl" /\ path = 0)
            <4>1. disk' = disk /\ path' = path BY <1>1, <3>2 DEF BeginsRemember
            <4> QED BY <1>0, <2>4, <4>1 DEF TypeOK
        <3> QED BY <3>1, <3>2
    <2>6. o \in Operations(Len(notes'), Len(disk'))
        BY <1>0, <2>2, <2>5 DEF Operations, PC
    <2>7. proc' = [proc EXCEPT ![p] = o] BY <1>1 DEF BeginsRemember, Running
    <2> HIDE DEF o
    <2>8. proc' \in [Process -> Operation'] BY <1>0, <2>2, <2>5, <2>6, <2>7, Moves, Len(notes) <= Len(notes')
    <2>9. Len(notes) < MaxNotes /\ UNCHANGED <<backend, tmp, db, acked, matched, erased, tears, forgets>>
        BY <1>1 DEF BeginsRemember
    <2>10. overlap' \in BOOLEAN BY <1>1 DEF BeginsRemember, TypeOK
    <2>11. tmp \in 0..Len(disk') BY <1>0, <2>5
    <2>12. Len(notes') <= MaxNotes BY <1>0, <2>2, <2>9, MemoryAssumption
    <2>13. db \cup acked \cup matched \cup erased \subseteq 1..Len(notes')
        BY <1>0, <2>2 DEF TypeOK
    <2> QED BY <2>2, <2>3, <2>5, <2>8, <2>9, <2>10, <2>11, <2>12, <2>13 DEF TypeOK
<1>2. ASSUME NEW o \in Operation, proc' = [proc EXCEPT ![p] = o],
             UNCHANGED <<notes, disk>>
      PROVE  proc' \in [Process -> Operation']
    BY <1>0, <1>2, Moves DEF TypeOK
<1>3. ASSUME NEW topic \in Topic, BeginsForget(p, topic) PROVE TypeOK'
    <2> DEFINE o == [pc |-> IF backend = "jsonl" THEN "read" ELSE "search",
                     note |-> 0, topic |-> topic, file |-> 0,
                     keep |-> <<>>, ids |-> {}, gone |-> {}]
    <2>1. o \in Operation BY <1>0 DEF Operations, PC
    <2>a. proc' = [proc EXCEPT ![p] = o] BY <1>3 DEF BeginsForget, Running
    <2> HIDE DEF o
    <2>2. proc' \in [Process -> Operation']
        BY <1>2, <1>3, <2>1, <2>a DEF BeginsForget, files
    <2>3. forgets' \in 0..MaxForgets BY <1>3, MemoryAssumption DEF BeginsForget, TypeOK
    <2>4. overlap' \in BOOLEAN BY <1>3 DEF BeginsForget, TypeOK
    <2> QED BY <1>3, <2>2, <2>3, <2>4 DEF BeginsForget, TypeOK, files, Inode, Number
<1> USE DEF PC
<1>4. Idle \in Operation BY <1>0, IdleTyped
<1>5. CASE Killed(p)
    <2>1. proc' \in [Process -> Operation'] BY <1>2, <1>4, <1>5 DEF Killed, Returns, files
    <2> QED BY <1>5, <2>1 DEF Killed, files, ghosts, TypeOK, Inode, Number
<1>6. ASSUME NEW d \in Inode, NEW i \in 1..Len(disk), disk' = [disk EXCEPT ![i] = d],
             UNCHANGED notes
      PROVE  /\ disk' \in Seq(Inode') /\ Len(disk') = Len(disk)
             /\ \A o \in Operation : proc' = [proc EXCEPT ![p] = o] =>
                    proc' \in [Process -> Operation']
    <2>1. disk' \in Seq(Inode) /\ Len(disk') = Len(disk)
        <3>1. disk \in Seq(Inode) BY DEF TypeOK
        <3> QED BY <1>6, <3>1, SeqUpdates
    <2> QED BY <1>0, <1>6, <2>1, Moves DEF TypeOK
<1>7. CASE Appends(p)
    <2> DEFINE file == disk[proc[p].file]
               d == [lines |-> Line(file, proc[p].note), torn |-> FALSE]
    <2>0. proc[p].file \in 1..Len(disk) BY <1>0, <1>7 DEF Appends, Operating, Operations, Remembering
    <2>1. d \in Inode BY <1>0, <1>a, <2>0 DEF Operations, Inodes, Line
    <2>2. disk' = [disk EXCEPT ![proc[p].file] = d] BY <1>7 DEF Appends
    <2> HIDE DEF d
    <2>3. disk' \in Seq(Inode') /\ Len(disk') = Len(disk) /\ proc' \in [Process -> Operation']
        BY <1>4, <1>6, <1>7, <2>0, <2>1, <2>2 DEF Appends, Returns
    <2>4. proc[p].note \in 1..Len(notes)  BY <1>0, <1>7 DEF Appends, Operating, Operations, Remembering
    <2>5. acked' \subseteq 1..Len(notes') BY <1>7, <2>4 DEF Appends, TypeOK
    <2> QED BY <1>7, <2>3, <2>5 DEF Appends, TypeOK
<1>8. CASE AppendTears(p)
    <2> DEFINE d == [disk[proc[p].file] EXCEPT !.torn = TRUE]
    <2>1. proc[p].file \in 1..Len(disk)
        BY <1>0, <1>8 DEF AppendTears, Operating, Operations
    <2>2. d \in Inode BY <1>0, <1>a, <2>1 DEF Inodes
    <2>3. disk' = [disk EXCEPT ![proc[p].file] = d] BY <1>8 DEF AppendTears
    <2> HIDE DEF d
    <2>4. disk' \in Seq(Inode') /\ Len(disk') = Len(disk) /\ proc' \in [Process -> Operation']
        BY <1>4, <1>6, <1>8, <2>1, <2>2, <2>3 DEF AppendTears, Returns
    <2>5. tears' \in Nat BY <1>8 DEF AppendTears, TypeOK
    <2> QED BY <1>8, <2>4, <2>5 DEF AppendTears, TypeOK
<1>9. CASE Reads(p)
    <2>1. All \subseteq 1..Len(notes)
        BY <1>0, <1>a DEF All, ToSet, Inodes
    <2>2. proc' \in [Process -> Operation']
        <3>1. CASE Matching(proc[p].topic) = {}
            BY <1>2, <1>4, <1>9, <3>1 DEF Reads, Returns, files
        <3>2. CASE Matching(proc[p].topic) # {}
            <4>1. PICK keep \in Kept(proc[p].topic) :
                    proc' = [proc EXCEPT ![p].pc = "create",
                                         ![p].gone = Matching(proc[p].topic),
                                         ![p].keep = keep]
                BY <1>9, <3>2 DEF Reads
            <4> DEFINE o == [proc[p] EXCEPT !.pc = "create",
                                            !.gone = Matching(proc[p].topic),
                                            !.keep = keep]
            <4>2. keep \in Seq(0..Len(notes)) BY <3>2, <4>1, KeptLines
            <4>3. Matching(proc[p].topic) \in SUBSET (1..Len(notes)) BY <2>1 DEF Matching
            <4>4. o \in Operation BY <1>0, <4>2, <4>3 DEF Operations
            <4>5. proc' = [proc EXCEPT ![p] = o] BY <4>1
            <4> HIDE DEF o
            <4> QED BY <1>2, <1>9, <4>4, <4>5 DEF Reads, files
        <3> QED BY <3>1, <3>2
    <2>3. matched' \subseteq 1..Len(notes) BY <1>9, <2>1 DEF Reads, Matching, TypeOK
    <2> QED BY <1>9, <2>2, <2>3 DEF Reads, files, TypeOK, Inode, Number
<1>10. CASE Creates(p)
    <2>1. /\ disk' \in Seq(Inode') /\ Len(disk') >= Len(disk) /\ Len(disk') \in Nat
          /\ tmp' \in 0..Len(disk') /\ Len(disk') >= path /\ notes' = notes
        <3>1. CASE tmp = 0
            <4>1. /\ disk' = Append(disk, NewFile) /\ tmp' = Len(disk')
                  /\ notes' = notes
                BY <1>10, <3>1 DEF Creates
            <4>2. disk \in Seq(Inode') /\ NewFile \in Inode'
                BY <1>0, <4>1, NewFileTyped DEF TypeOK
            <4> QED BY <1>0, <4>1, <4>2
        <3>2. CASE tmp # 0
            <4>1. disk' = [disk EXCEPT ![tmp] = NewFile] /\ tmp' = tmp /\ notes' = notes
                BY <1>10, <3>2 DEF Creates
            <4>2. tmp \in 1..Len(disk) /\ NewFile \in Inode BY <1>0, <3>2, NewFileTyped
            <4>3. disk' \in Seq(Inode') /\ Len(disk') = Len(disk) BY <1>6, <4>1, <4>2
            <4> QED BY <1>0, <4>1, <4>3
        <3> QED BY <3>1, <3>2
    <2> DEFINE o == [proc[p] EXCEPT !.pc = "flush", !.file = tmp']
    <2>2. o \in Operations(Len(notes'), Len(disk')) BY <1>0, <2>1 DEF Operations
    <2>3. proc' = [proc EXCEPT ![p] = o] BY <1>10 DEF Creates
    <2> HIDE DEF o
    <2>4. proc' \in [Process -> Operation']
        <3>1. Len(notes) <= Len(notes') /\ Len(disk) <= Len(disk') BY <1>0, <2>1
        <3>2. notes' \in Seq(Note) BY <2>1 DEF TypeOK
        <3> QED BY <2>1, <2>2, <2>3, <3>1, <3>2, Moves
    <2>5. path' \in 0..Len(disk') BY <1>0, <1>10, <2>1 DEF Creates
    <2> QED BY <1>10, <2>1, <2>4, <2>5 DEF Creates, ghosts, TypeOK
<1>11. CASE Flushes(p)
    <2> DEFINE file == proc[p].file
               keep == proc[p].keep
               rest == SubSeq(disk[file].lines, Len(keep) + 2, Len(disk[file].lines))
    <2>1. file \in 1..Len(disk) /\ keep \in Seq(0..Len(notes)) /\ 0 \in 0..Len(notes)
        <3>1. file # 0 BY <1>11 DEF Flushes, Operating
        <3> QED BY <1>0, <3>1 DEF Operations
    <2>2. disk[file].lines \in Seq(0..Len(notes)) BY <1>0, <1>a, <2>1 DEF Inodes
    <2>3. rest \in Seq(0..Len(notes))
        <3>1. Len(keep) + 2 \in Int /\ Len(keep) + 2 >= 1 /\ Len(disk[file].lines) \in Int
            BY <2>1, <2>2
        <3>2. \A i \in Len(keep) + 2 .. Len(disk[file].lines) :
                    disk[file].lines[i] \in 0..Len(notes)
            BY <2>2, <3>1
        <3> QED BY <3>1, <3>2, SubSeqProperties
    <2>4. keep \o <<0>> \o rest \in Seq(0..Len(notes)) BY <2>1, <2>3
    <2>5. PICK lines \in {keep} \cup
              IF disk[file].lines = <<>> THEN {} ELSE {keep \o <<0>> \o rest} :
            disk' = [disk EXCEPT ![file] = [lines |-> lines, torn |-> FALSE]]
        BY <1>11 DEF Flushes
    <2> DEFINE d == [lines |-> lines, torn |-> FALSE]
    <2>6. lines \in Seq(0..Len(notes)) BY <2>1, <2>4
    <2>7. d \in Inode BY <1>0, <2>6 DEF Inodes
    <2> DEFINE o == [proc[p] EXCEPT !.pc = "rename"]
    <2>8. o \in Operation BY <1>0 DEF Operations
    <2>9. proc' = [proc EXCEPT ![p] = o] BY <1>11 DEF Flushes, Goes
    <2>10. disk' = [disk EXCEPT ![file] = d] BY <2>5
    <2> HIDE DEF d, o, file, keep
    <2>11. disk' \in Seq(Inode') /\ Len(disk') = Len(disk) /\ proc' \in [Process -> Operation']
        BY <1>6, <1>11, <2>1, <2>7, <2>8, <2>9, <2>10 DEF Flushes
    <2> QED BY <1>11, <2>11 DEF Flushes, ghosts, TypeOK
<1>12. CASE FlushFails(p)
    <2> DEFINE d == [disk[proc[p].file] EXCEPT !.torn = TRUE]
    <2>1. proc[p].file \in 1..Len(disk)
        BY <1>0, <1>12 DEF FlushFails, Operating, Operations
    <2>2. d \in Inode BY <1>0, <1>a, <2>1 DEF Inodes
    <2>3. disk' = [disk EXCEPT ![proc[p].file] = d] BY <1>12 DEF FlushFails
    <2> HIDE DEF d
    <2>4. disk' \in Seq(Inode') /\ Len(disk') = Len(disk) /\ proc' \in [Process -> Operation']
        BY <1>4, <1>6, <1>12, <2>1, <2>2, <2>3 DEF FlushFails, Returns
    <2> QED BY <1>12, <2>4 DEF FlushFails, ghosts, TypeOK
<1>13. CASE Renames(p)
    <2>1. proc' \in [Process -> Operation'] BY <1>2, <1>4, <1>13 DEF Renames, Returns
    <2>2. tmp # 0 => proc[p].gone \subseteq 1..Len(notes) BY <1>0, <1>13 DEF Renames, Operations
    <2> QED BY <1>0, <1>13, <2>1, <2>2 DEF Renames, TypeOK, Inode, Number
<1>14. CASE Saves(p)
    <2>1. proc' \in [Process -> Operation']
        BY <1>2, <1>4, <1>14 DEF Saves, Returns, files
    <2>2. proc[p].note \in 1..Len(notes)
        BY <1>0, <1>14 DEF Saves, Operating, Operations, Remembering
    <2> QED BY <1>14, <2>1, <2>2 DEF Saves, files, TypeOK, Inode, Number
<1>15. CASE SaveFails(p)
    <2>1. proc' \in [Process -> Operation']
        BY <1>2, <1>4, <1>15 DEF SaveFails, Returns, files
    <2>2. proc[p].note \in 1..Len(notes)
        BY <1>0, <1>15 DEF SaveFails, Operating, Operations, Remembering
    <2> QED BY <1>15, <2>1, <2>2 DEF SaveFails, files, ghosts, TypeOK, Inode, Number
<1>16. CASE Searches(p)
    <2>1. Found(proc[p].topic) \subseteq 1..Len(notes)
        <3>1. \A n \in db : /\ n \in 1..Len(notes) /\ notes[n].cites \in Nat
                            /\ notes[n].cites < n
            <4>1. notes \in Seq(Note) BY DEF TypeOK
            <4>2. \A n \in 1..Len(notes) : notes[n] \in Note
                BY <4>1
            <4> QED BY <4>2 DEF TypeOK, Note
        <3>2. \A n \in db : notes[n].cites # 0 => notes[n].cites \in 1..Len(notes)
            BY <1>0, <3>1
        <3> QED BY <3>1, <3>2 DEF Found
    <2>2. PICK ids \in {Found(proc[p].topic), {}} :
            /\ proc' = [proc EXCEPT ![p].pc = "delete", ![p].ids = ids]
            /\ matched' = matched \cup ids
        BY <1>16 DEF Searches
    <2> DEFINE o == [proc[p] EXCEPT !.pc = "delete", !.ids = ids]
    <2>3. o \in Operation BY <1>0, <2>1 DEF Operations
    <2>4. proc' = [proc EXCEPT ![p] = o] BY <2>2
    <2> HIDE DEF o
    <2>5. proc' \in [Process -> Operation'] BY <1>2, <1>16, <2>3, <2>4 DEF Searches, files
    <2>6. matched' \subseteq 1..Len(notes) BY <2>1, <2>2 DEF TypeOK
    <2> QED BY <1>16, <2>5, <2>6 DEF Searches, files, TypeOK, Inode, Number
<1>17. CASE Deletes(p)
    <2>1. PICK n \in proc[p].ids \cap db :
            /\ db' = db \ {n}
            /\ proc' = [proc EXCEPT ![p].ids = @ \ {n}, ![p].gone = @ \cup {n}]
        BY <1>17 DEF Deletes
    <2> DEFINE o == [proc[p] EXCEPT !.ids = @ \ {n}, !.gone = @ \cup {n}]
    <2>2. o \in Operation BY <1>0 DEF Operations
    <2>3. proc' = [proc EXCEPT ![p] = o] BY <2>1
    <2> HIDE DEF o
    <2>4. proc' \in [Process -> Operation'] BY <1>2, <1>17, <2>2, <2>3 DEF Deletes, files
    <2> QED BY <1>17, <2>1, <2>4 DEF Deletes, files, ghosts, TypeOK, Inode, Number
<1>18. CASE DeleteFails(p)
    <2>1. PICK n \in proc[p].ids : proc' = [proc EXCEPT ![p].ids = @ \ {n}]
        BY <1>18 DEF DeleteFails
    <2> DEFINE o == [proc[p] EXCEPT !.ids = @ \ {n}]
    <2>2. o \in Operation BY <1>0 DEF Operations
    <2>3. proc' = [proc EXCEPT ![p] = o] BY <2>1
    <2> HIDE DEF o
    <2>4. proc' \in [Process -> Operation'] BY <1>2, <1>18, <2>2, <2>3 DEF DeleteFails, files
    <2> QED BY <1>18, <2>4 DEF DeleteFails, files, ghosts, TypeOK, Inode, Number
<1>19. CASE Forgot(p)
    <2>1. proc' \in [Process -> Operation']
        BY <1>2, <1>4, <1>19 DEF Forgot, Returns, files
    <2>2. proc[p].gone \subseteq 1..Len(notes) BY <1>0 DEF Operations
    <2> QED BY <1>19, <2>1, <2>2 DEF Forgot, files, TypeOK, Inode, Number
<1> QED
    BY <1>1, <1>3, <1>5, <1>7, <1>8, <1>9, <1>10, <1>11, <1>12, <1>13, <1>14, <1>15,
       <1>16, <1>17, <1>18, <1>19 DEF Begins, Steps

Acts(p) == Begins(p) \/ Steps(p) \/ Killed(p)

\* A step is one process's: the others stay where they are, and the backend
\* is chosen once.
LEMMA Others ==
    ASSUME TypeOK, NEW p \in Process, Acts(p)
    PROVE  /\ \A q \in Process \ {p} : proc'[q] = proc[q]
           /\ backend' = backend
<1>1. DOMAIN proc = Process BY DEF TypeOK
<1>2. ASSUME NEW topic \in Topic, NEW cites \in 0..Len(notes), BeginsRemember(p, topic, cites)
      PROVE  backend' = backend /\ \A q \in Process \ {p} : proc'[q] = proc[q]
    BY <1>1, <1>2 DEF BeginsRemember
<1>3. ASSUME NEW topic \in Topic, BeginsForget(p, topic)
      PROVE  backend' = backend /\ \A q \in Process \ {p} : proc'[q] = proc[q]
    BY <1>1, <1>3 DEF BeginsForget
<1>4. CASE Steps(p)
    BY <1>1, <1>4 DEF Steps, Appends, AppendTears, Reads, Creates, Flushes, FlushFails,
        Renames, Saves, SaveFails, Searches, Deletes, DeleteFails, Forgot, Goes, Returns
<1>5. CASE Killed(p)
    BY <1>1, <1>5 DEF Killed, Returns
<1> QED BY <1>2, <1>3, <1>4, <1>5 DEF Acts, Begins

\* A process that returns is idle again.
LEMMA Returned ==
    ASSUME TypeOK, NEW p \in Process, Returns(p)
    PROVE  /\ proc'[p] = Idle
           /\ proc'[p].pc = "idle" /\ proc'[p].topic = "none"
           /\ proc'[p].ids = {} /\ proc'[p].gone = {} /\ ToSet(proc'[p].keep) = {}
<1>1. proc'[p] = Idle BY DEF Returns, TypeOK
<1> QED BY <1>1 DEF Idle, Running, ToSet

\* A process that returns needs nothing more.
LEMMA OperatingReturned ==
    ASSUME TypeOK, Operating, NEW p \in Process, Acts(p), Returns(p), path # 0 => path' # 0
    PROVE  Operating'
BY Others, Returned DEF Operating, Remembering, Forgets

\* Membership of Settled, before and after a step.
LEMMA SettledIs ==
    /\ \A n : n \in Settled <=>
            \/ n \in db \cup erased
            \/ \E i \in 1..Len(disk) : n \in ToSet(disk[i].lines)
            \/ \E q \in Process : n \in proc[q].gone \cup ToSet(proc[q].keep)
    /\ \A n : n \in Settled' <=>
            \/ n \in db' \cup erased'
            \/ \E i \in 1..Len(disk') : n \in ToSet(disk'[i].lines)
            \/ \E q \in Process : n \in proc'[q].gone \cup ToSet(proc'[q].keep)
<1>1. \A n : /\ n \in UNION {ToSet(disk[i].lines) : i \in 1..Len(disk)} <=>
                    \E i \in 1..Len(disk) : n \in ToSet(disk[i].lines)
             /\ n \in UNION {ToSet(disk'[i].lines) : i \in 1..Len(disk')} <=>
                    \E i \in 1..Len(disk') : n \in ToSet(disk'[i].lines)
    BY Zenon
<1>2. \A n : /\ n \in UNION {proc[q].gone \cup ToSet(proc[q].keep) : q \in Process} <=>
                    \E q \in Process : n \in proc[q].gone \cup ToSet(proc[q].keep)
             /\ n \in UNION {proc'[q].gone \cup ToSet(proc'[q].keep) : q \in Process} <=>
                    \E q \in Process : n \in proc'[q].gone \cup ToSet(proc'[q].keep)
    BY Zenon
<1> QED BY <1>1, <1>2 DEF Settled

\* Nothing is pending anew, and what is settled anew was this process's own.
LEMMA FreshKept ==
    ASSUME TypeOK, Fresh, Operating, NEW p \in Process, Acts(p), proc'[p].pc \notin Remembering,
           \A n \in Settled' : \/ n = 0 \/ n \in Settled
                               \/ proc[p].pc \in Remembering /\ n = proc[p].note
    PROVE  Fresh'
<1> SUFFICES ASSUME NEW q \in Process, proc'[q].pc \in Remembering
             PROVE  /\ proc'[q].note \notin Settled'
                    /\ \A r \in Process \ {q} :
                            proc'[r].pc \in Remembering => proc'[r].note # proc'[q].note
    BY DEF Fresh, Remembering
<1>1. q # p /\ proc'[q] = proc[q] /\ \A r \in Process \ {p} : proc'[r] = proc[r]
    BY Others
<1>2. proc[q].note \notin Settled /\ proc[q].note # 0 BY <1>1 DEF Fresh, Operating
<1>3. proc[p].pc \in Remembering => proc[q].note # proc[p].note BY <1>1 DEF Fresh
<1>4. proc[q].note \notin Settled' BY <1>2, <1>3
<1>5. ASSUME NEW r \in Process \ {q}, proc'[r].pc \in Remembering
      PROVE  proc'[r].note # proc'[q].note
    BY <1>1, <1>5 DEF Fresh
<1> QED BY <1>1, <1>4, <1>5

-----------------------------------------------------------------------------
(* The steps on Engram.                                                    *)

\* Every step on Engram keeps the invariant, whoever else is at work.
LEMMA EngramStep ==
    ASSUME IInv, TypeOK', NEW p \in Process,
           \/ Saves(p) \/ SaveFails(p) \/ Searches(p) \/ Deletes(p) \/ DeleteFails(p)
           \/ Forgot(p)
    PROVE  IInv'
<1> USE DEF IInv
<1>0. Acts(p) BY DEF Acts, Steps
<1>1. \A q \in Process \ {p} : proc'[q] = proc[q] BY <1>0, Others
<1>2. backend = "engram" /\ backend' = "engram" /\ disk' = disk /\ path' = path
    BY <1>0, Others DEF Operating, Saves, SaveFails, Searches, Deletes, DeleteFails, Forgot, files
<1>3. Alone' /\ Named' /\ Copied' /\ Held'
    BY <1>2 DEF Alone, Named, Copied, Held, Undisturbed
<1>4. CASE Saves(p)
    <2>1. proc[p].pc = "save" /\ db' = db \cup {proc[p].note} /\ erased' = erased
          /\ acked' = acked \cup {proc[p].note} /\ matched' = matched /\ Returns(p)
        BY <1>4 DEF Saves
    <2>2. \A n \in Settled' : n \in Settled \/ n = proc[p].note
        BY <1>1, <1>2, <2>1, Returned, SettledIs
    <2>3. Fresh' BY <1>0, <2>1, <2>2, FreshKept, Returned DEF Remembering
    <2>4. proc[p].note \notin Settled BY <2>1 DEF Fresh, Remembering
    <2>5. OnEngram' BY <1>1, <1>2, <2>1, <2>4, Returned, SettledIs DEF OnEngram
    <2> QED BY <1>0, <1>2, <1>3, <2>1, <2>3, <2>5, OperatingReturned
<1>5. CASE SaveFails(p)
    <2>1. /\ proc[p].pc = "save" /\ erased' = erased /\ acked' = acked /\ matched' = matched
          /\ db' = db \/ db' = db \cup {proc[p].note}
          /\ Returns(p)
        BY <1>5 DEF SaveFails, ghosts
    <2>2. \A n \in Settled' : n \in Settled \/ n = proc[p].note
        BY <1>1, <1>2, <2>1, Returned, SettledIs
    <2>3. Fresh' BY <1>0, <2>1, <2>2, FreshKept, Returned DEF Remembering
    <2>4. proc[p].note \notin Settled BY <2>1 DEF Fresh, Remembering
    <2>5. OnEngram' BY <1>1, <1>2, <2>1, <2>4, Returned, SettledIs DEF OnEngram
    <2> QED BY <1>0, <1>2, <1>3, <2>1, <2>3, <2>5, OperatingReturned
<1>6. CASE Forgot(p)
    <2>1. /\ erased' = erased \cup proc[p].gone /\ db' = db /\ acked' = acked
          /\ matched' = matched /\ Returns(p)
        BY <1>6 DEF Forgot
    <2>2. \A n \in Settled' : n \in Settled
        BY <1>1, <1>2, <2>1, Returned, SettledIs
    <2>3. Fresh' BY <1>0, <2>1, <2>2, FreshKept, Returned DEF Remembering
    <2>4. OnEngram' BY <1>1, <1>2, <2>1, Returned DEF OnEngram
    <2> QED BY <1>0, <1>2, <1>3, <2>1, <2>3, <2>4, OperatingReturned
<1>7. DOMAIN proc = Process BY DEF TypeOK
<1>8. CASE Searches(p)
    <2>1. PICK ids \in {Found(proc[p].topic), {}} :
            /\ proc' = [proc EXCEPT ![p].pc = "delete", ![p].ids = ids]
            /\ matched' = matched \cup ids
        BY <1>8 DEF Searches
    <2>2. /\ proc[p].pc = "search" /\ erased' = erased /\ db' = db /\ acked' = acked
        BY <1>8 DEF Searches
    <2>3. /\ proc'[p].pc = "delete" /\ proc'[p].ids = ids
          /\ UNCHANGED <<proc[p].note, proc[p].topic, proc[p].gone, proc[p].keep>>
        BY <1>7, <2>1 DEF TypeOK, Operation
    <2>4. Fresh'
        <3>1. \A n \in Settled' : n \in Settled BY <1>1, <1>2, <2>2, <2>3, SettledIs
        <3> QED BY <1>0, <2>3, <3>1, FreshKept DEF Remembering
    <2>5. OnEngram' BY <1>1, <1>2, <2>1, <2>2, <2>3 DEF OnEngram
    <2>6. Operating' BY <1>1, <1>2, <2>2, <2>3 DEF Operating, Remembering, Forgets
    <2> QED BY <1>3, <2>4, <2>5, <2>6
<1>9. CASE Deletes(p)
    <2>1. PICK n \in proc[p].ids \cap db :
            /\ db' = db \ {n}
            /\ proc' = [proc EXCEPT ![p].ids = @ \ {n}, ![p].gone = @ \cup {n}]
        BY <1>9 DEF Deletes
    <2>2. /\ proc[p].pc = "delete" /\ erased' = erased /\ acked' = acked /\ matched' = matched
        BY <1>9 DEF Deletes, ghosts
    <2>3. /\ proc'[p].gone = proc[p].gone \cup {n} /\ proc'[p].ids = proc[p].ids \ {n}
          /\ UNCHANGED <<proc[p].pc, proc[p].note, proc[p].topic, proc[p].keep>>
        BY <1>7, <2>1 DEF TypeOK, Operation
    <2>4. Fresh'
        <3>1. \A m \in Settled' : m \in Settled BY <1>1, <1>2, <2>1, <2>2, <2>3, SettledIs
        <3> QED BY <1>0, <2>2, <2>3, <3>1, FreshKept DEF Remembering
    <2>5. OnEngram' BY <1>1, <1>2, <2>1, <2>2, <2>3 DEF OnEngram
    <2>6. Operating' BY <1>1, <1>2, <2>2, <2>3 DEF Operating, Remembering, Forgets
    <2> QED BY <1>3, <2>4, <2>5, <2>6
<1>10. CASE DeleteFails(p)
    <2>1. PICK n \in proc[p].ids : proc' = [proc EXCEPT ![p].ids = @ \ {n}]
        BY <1>10 DEF DeleteFails
    <2>2. /\ proc[p].pc = "delete" /\ erased' = erased /\ acked' = acked
          /\ matched' = matched /\ db' = db
        BY <1>10 DEF DeleteFails, ghosts
    <2>3. /\ proc'[p].ids = proc[p].ids \ {n}
          /\ UNCHANGED <<proc[p].pc, proc[p].note, proc[p].topic, proc[p].gone, proc[p].keep>>
        BY <1>7, <2>1 DEF TypeOK, Operation
    <2>4. Fresh'
        <3>1. \A m \in Settled' : m \in Settled BY <1>1, <1>2, <2>2, <2>3, SettledIs
        <3> QED BY <1>0, <2>2, <2>3, <3>1, FreshKept DEF Remembering
    <2>5. OnEngram' BY <1>1, <1>2, <2>2, <2>3 DEF OnEngram
    <2>6. Operating' BY <1>1, <1>2, <2>2, <2>3 DEF Operating, Remembering, Forgets
    <2> QED BY <1>3, <2>4, <2>5, <2>6
<1> QED BY <1>4, <1>5, <1>6, <1>8, <1>9, <1>10

-----------------------------------------------------------------------------
(* The steps on the file.                                                  *)

\* Every note that is settled was given.
LEMMA SettledGiven ==
    ASSUME TypeOK
    PROVE  Settled \subseteq 0..Len(notes)
<1>1. db \cup erased \subseteq 0..Len(notes) BY DEF TypeOK
<1>2. ASSUME NEW i \in 1..Len(disk) PROVE ToSet(disk[i].lines) \subseteq 0..Len(notes)
    <2>1. disk[i] \in Inode BY DEF TypeOK
    <2> QED BY <2>1 DEF Inode, Number, ToSet
<1>3. ASSUME NEW q \in Process
      PROVE  proc[q].gone \cup ToSet(proc[q].keep) \subseteq 0..Len(notes)
    <2>1. proc[q] \in Operation BY DEF TypeOK
    <2> QED BY <2>1 DEF Operation, Number, ToSet
<1> QED BY <1>1, <1>2, <1>3, SettledIs

\* The inode of the store, when there is one.
LEMMA StoreTyped ==
    ASSUME TypeOK, path # 0
    PROVE  path \in 1..Len(disk) /\ disk[path] \in Inode /\ disk[path].torn \in BOOLEAN
           /\ All \subseteq Settled
<1>1. path \in 1..Len(disk) /\ disk \in Seq(Inode) BY DEF TypeOK
<1>2. disk[path] \in Inode BY <1>1
<1>3. All \subseteq Settled BY <1>1, SettledIs DEF All
<1> QED BY <1>1, <1>2, <1>3 DEF Inode

\* What does not touch the store's inode changes nothing of what it holds.
LEMMA SameStore ==
    ASSUME path' = path, path # 0 => disk'[path] = disk[path]
    PROVE  All' = All /\ Due' = Due
BY DEF All, Due

\* The notes lost can be counted.
LEMMA LostFinite ==
    ASSUME TypeOK
    PROVE  IsFiniteSet(Lost) /\ Cardinality(Lost) \in Nat
<1>1. IsFiniteSet(1..Len(notes)) BY FS_Interval DEF TypeOK
<1>2. Lost \in SUBSET (1..Len(notes)) BY DEF Lost, TypeOK
<1> QED BY <1>1, <1>2, FS_Subset, FS_CardinalityType

\* Nothing new is lost and nothing new is due.
LEMMA StillHeld ==
    ASSUME TypeOK, Held, Undisturbed, TypeOK', Lost' \subseteq Lost, Due' <= Due, tears' = tears,
           erased' \cap All' = {}
    PROVE  Held'
<1>1. Cardinality(Lost') <= Cardinality(Lost) /\ Cardinality(Lost') \in Nat
    BY LostFinite, FS_Subset, FS_CardinalityType
<1>2. Cardinality(Lost) \in Nat BY LostFinite
<1>3. Due \in {0, 1} /\ Due' \in {0, 1} BY DEF Due
<1>4. Cardinality(Lost) + Due <= tears BY DEF Held
<1>5. tears \in Nat BY DEF TypeOK
<1>6. Cardinality(Lost') + Due' <= tears' BY <1>1, <1>2, <1>3, <1>4, <1>5
<1> QED BY <1>6 DEF Held

\* One process adds a note to those given; the store is created if it must be.
LEMMA RememberBegins ==
    ASSUME IInv, TypeOK', NEW p \in Process, NEW topic \in Topic, NEW cites \in 0..Len(notes),
           BeginsRemember(p, topic, cites)
    PROVE  IInv'
<1> USE DEF IInv
<1>0. Acts(p) BY DEF Acts, Begins
<1>1. (\A q \in Process \ {p} : proc'[q] = proc[q]) /\ backend' = backend BY <1>0, Others
<1>2. Len(notes) \in Nat /\ Len(disk) \in Nat BY DEF TypeOK
<1>3. proc[p].pc = "idle" /\ Len(notes') = Len(notes) + 1
    <2>1. notes \in Seq(Note) BY DEF TypeOK
    <2> QED BY <2>1 DEF BeginsRemember
<1>4. proc'[p] = Running(IF backend = "jsonl" THEN "append" ELSE "save",
                         Len(notes'), "none", path')
    BY DEF BeginsRemember, TypeOK
<1>5. /\ proc'[p].pc = IF backend = "jsonl" THEN "append" ELSE "save"
      /\ proc'[p].note = Len(notes) + 1 /\ proc'[p].topic = "none"
      /\ proc'[p].file = path' /\ ToSet(proc'[p].keep) = {}
      /\ proc'[p].gone = {} /\ proc'[p].ids = {}
    BY <1>3, <1>4 DEF Running, ToSet
<1>6. UNCHANGED <<tmp, db, acked, matched, erased, tears>> BY DEF BeginsRemember
<1>7. \/ disk' = disk /\ path' = path
      \/ path = 0 /\ backend = "jsonl" /\ disk' = Append(disk, NewFile) /\ path' = Len(disk) + 1
    <2>1. disk \in Seq(Inode) BY DEF TypeOK
    <2> QED BY <2>1 DEF BeginsRemember
<1>8. backend = "jsonl" => path' # 0
    <2>1. CASE path = 0
        BY <1>2, <1>7, <2>1 DEF BeginsRemember, TypeOK
    <2>2. CASE path # 0 BY <1>7, <2>2
    <2> QED BY <2>1, <2>2
<1>9. Operating'
    <2>1. path # 0 => path' # 0 BY <1>7
    <2>2. Len(notes) + 1 # 0 BY <1>2
    <2>3. backend \in {"jsonl", "engram"} BY DEF TypeOK
    <2> QED BY <1>1, <1>5, <1>8, <2>1, <2>2, <2>3 DEF Operating, Remembering, Forgets
<1>10. All' = All /\ Due' = Due /\ Settled' \subseteq Settled
    <2>1. CASE disk' = disk /\ path' = path
        BY <1>1, <1>5, <1>6, <2>1, SameStore, SettledIs
    <2>2. CASE path = 0 /\ disk' = Append(disk, NewFile) /\ path' = Len(disk) + 1
        <3>1. disk \in Seq(Inode) BY DEF TypeOK
        <3>2. /\ Len(disk') = Len(disk) + 1 /\ disk'[Len(disk) + 1] = NewFile
              /\ \A i \in 1..Len(disk) : disk'[i] = disk[i]
            BY <2>2, <3>1
        <3>3. ToSet(NewFile.lines) = {} /\ NewFile.torn = FALSE BY DEF NewFile, ToSet
        <3>4. All' = {} /\ All = {} /\ Due' = 0 /\ Due = 0
            BY <1>2, <2>2, <3>2, <3>3 DEF All, Due
        <3>5. Settled' \subseteq Settled
            <4>1. \A i \in 1..Len(disk') : i \in 1..Len(disk) \/ i = Len(disk) + 1
                BY <1>2, <3>2
            <4> QED BY <1>1, <1>5, <1>6, <3>2, <3>3, <4>1, SettledIs
        <3> QED BY <3>4, <3>5
    <2> QED BY <1>7, <2>1, <2>2
<1>11. Fresh'
    <2>1. \A n \in Settled' : n # Len(notes) + 1 BY <1>2, <1>10, SettledGiven
    <2>2. \A q \in Process : proc[q].note # Len(notes) + 1
        <3>1. \A q \in Process : proc[q] \in Operation BY DEF TypeOK
        <3> QED BY <1>2, <3>1 DEF Operation, Number
    <2> QED BY <1>1, <1>5, <1>10, <2>1, <2>2 DEF Fresh
<1>12. OnEngram' BY <1>1, <1>5, <1>6 DEF OnEngram
<1>13. Undisturbed' => Undisturbed /\ \A q \in Process \ {p} : proc[q].topic = "none"
    BY <1>1 DEF Undisturbed, BeginsRemember, Forgetting, TypeOK
<1>14. Alone' BY <1>1, <1>5, <1>13 DEF Alone
<1>15. Named'
    <2> SUFFICES ASSUME Undisturbed' PROVE Named' BY DEF Named
    <2>1. \A q \in Process \ {p} : proc[q].pc \notin {"flush", "rename"}
        BY <1>13 DEF Operating, Forgets
    <2>2. \A q \in Process \ {p} : proc[q].pc = "append" => path' = path
        BY <1>7 DEF Operating
    <2>3. tmp # 0 => tmp # path'
        BY <1>2, <1>6, <1>7, <1>13 DEF Named, TypeOK
    <2> QED BY <1>1, <1>5, <1>6, <1>13, <2>1, <2>2, <2>3 DEF Named
<1>16. Copied'
    <2> SUFFICES ASSUME Undisturbed' PROVE Copied' BY DEF Copied
    <2>1. \A q \in Process : proc'[q].pc \notin {"create", "flush", "rename"}
        BY <1>1, <1>5, <1>13 DEF Operating, Forgets
    <2> QED BY <2>1 DEF Copied
<1>17. Held' BY <1>6, <1>10, <1>13 DEF Held, Lost
<1> QED BY <1>9, <1>11, <1>12, <1>14, <1>15, <1>16, <1>17

\* A forget begins: alone, or the store is disturbed from then on.
LEMMA ForgetBegins ==
    ASSUME IInv, TypeOK', NEW p \in Process, NEW topic \in Topic, BeginsForget(p, topic)
    PROVE  IInv'
<1> USE DEF IInv
<1>0. Acts(p) BY DEF Acts, Begins
<1>1. (\A q \in Process \ {p} : proc'[q] = proc[q]) /\ backend' = backend BY <1>0, Others
<1>2. proc'[p] = Running(IF backend = "jsonl" THEN "read" ELSE "search", 0, topic, 0)
    BY DEF BeginsForget, TypeOK
<1>3. /\ proc'[p].pc = IF backend = "jsonl" THEN "read" ELSE "search"
      /\ proc'[p].topic = topic /\ ToSet(proc'[p].keep) = {}
      /\ proc'[p].gone = {} /\ proc'[p].ids = {}
    BY <1>2 DEF Running, ToSet
<1>4. UNCHANGED <<disk, path, tmp, db, acked, matched, erased, tears>>
    BY DEF BeginsForget, files
<1>5. Operating'
    <2>1. topic # "none" BY MemoryAssumption
    <2>2. backend \in {"jsonl", "engram"} BY DEF TypeOK
    <2> QED BY <1>1, <1>3, <1>4, <2>1, <2>2 DEF Operating, Remembering, Forgets
<1>6. Settled' \subseteq Settled BY <1>1, <1>3, <1>4, SettledIs
<1>7. Fresh' BY <1>0, <1>3, <1>6, FreshKept DEF Remembering
<1>8. OnEngram' BY <1>1, <1>3, <1>4 DEF OnEngram
<1>9. Undisturbed' => Undisturbed /\ \A q \in Process \ {p} : proc[q].pc = "idle"
    BY <1>1 DEF Undisturbed, BeginsForget, Busy, TypeOK
<1>10. Alone' BY <1>1, <1>9, <1>5 DEF Alone, Operating, Forgets
<1>11. Named' /\ Copied' BY <1>1, <1>3, <1>4, <1>9 DEF Named, Copied
<1>12. Held' BY <1>4, <1>9, SameStore DEF Held, Lost
<1> QED BY <1>5, <1>7, <1>8, <1>10, <1>11, <1>12

\* A killed process leaves everything else as it is.
LEMMA KilledStep ==
    ASSUME IInv, TypeOK', NEW p \in Process, Killed(p)
    PROVE  IInv'
<1> USE DEF IInv
<1>0. Acts(p) BY DEF Acts
<1>1. (\A q \in Process \ {p} : proc'[q] = proc[q]) /\ backend' = backend BY <1>0, Others
<1>2. Returns(p) /\ UNCHANGED <<disk, path, tmp, db, acked, matched, erased, tears, overlap>>
    BY DEF Killed, files, ghosts
<1>3. Operating' BY <1>0, <1>2, OperatingReturned
<1>4. Settled' \subseteq Settled BY <1>1, <1>2, Returned, SettledIs
<1>5. Fresh' BY <1>0, <1>2, <1>4, FreshKept, Returned DEF Remembering
<1>6. OnEngram' BY <1>1, <1>2, Returned DEF OnEngram
<1>7. Alone' BY <1>1, <1>2, Returned DEF Alone, Undisturbed
<1>8. Named' BY <1>1, <1>2, Returned DEF Named, Undisturbed
<1>9. All' = All /\ Due' = Due BY <1>2, SameStore
<1>10. Copied' BY <1>1, <1>2, <1>9, Returned DEF Copied, Undisturbed
<1>11. Held' BY <1>1, <1>2, <1>9 DEF Held, Lost, Undisturbed
<1> QED BY <1>3, <1>5, <1>6, <1>7, <1>8, <1>10, <1>11

\* While a process appends or tears a line, nobody forgets.
LEMMA WhileAppending ==
    ASSUME IInv, NEW p \in Process, proc[p].pc = "append", Acts(p), Returns(p),
           backend' = backend, overlap' = overlap, path' = path, tmp' = tmp
    PROVE  Alone' /\ Named' /\ Copied'
<1> USE DEF IInv
<1>1. \A q \in Process \ {p} : proc'[q] = proc[q] BY Others
<1>2. Alone' BY <1>1, Returned DEF Alone, Undisturbed
<1>3. Named' BY <1>1, Returned DEF Named, Undisturbed
<1>4. Undisturbed => \A q \in Process \ {p} : proc[q].topic = "none" BY DEF Alone
<1>5. Undisturbed => \A q \in Process : proc'[q].pc \notin {"create", "flush", "rename"}
    BY <1>1, <1>4, Returned DEF Operating, Forgets
<1>6. Copied' BY <1>5 DEF Copied, Undisturbed
<1> QED BY <1>2, <1>3, <1>6

\* A line is appended: its note is there, or the torn line has cost it.
LEMMA AppendsStep ==
    ASSUME IInv, TypeOK', NEW p \in Process, Appends(p)
    PROVE  IInv'
<1> USE DEF IInv
<1> DEFINE file == proc[p].file
           n == proc[p].note
<1>0. Acts(p) BY DEF Acts, Steps
<1>1. (\A q \in Process \ {p} : proc'[q] = proc[q]) /\ backend' = backend BY <1>0, Others
<1>2. /\ proc[p].pc = "append" /\ Returns(p) /\ acked' = acked \cup {n}
      /\ UNCHANGED <<path, tmp, db, matched, erased, tears, overlap>>
    BY DEF Appends
<1>3. file \in 1..Len(disk) /\ disk \in Seq(Inode) /\ n # 0
    <2>1. file # 0 /\ n # 0 BY <1>2 DEF Operating, Remembering
    <2>2. proc[p] \in Operation BY DEF TypeOK
    <2> QED BY <2>1, <2>2 DEF Operation, TypeOK
<1>4. /\ disk'[file] = [lines |-> Line(disk[file], n), torn |-> FALSE]
      /\ Len(disk') = Len(disk)
      /\ \A i \in 1..Len(disk) : i # file => disk'[i] = disk[i]
    <2> DEFINE d == [lines |-> Line(disk[file], n), torn |-> FALSE]
    <2>1. disk' = [disk EXCEPT ![file] = d]
        BY DEF Appends
    <2> HIDE DEF d, file, n
    <2>2. Len(disk') = Len(disk) /\ disk'[file] = d
          /\ \A i \in 1..Len(disk) : i # file => disk'[i] = disk[i]
        BY <1>3, <2>1, EntryUpdates
    <2> QED BY <2>2 DEF d
<1>5. /\ ToSet(disk'[file].lines) =
            ToSet(disk[file].lines) \cup {IF disk[file].torn THEN 0 ELSE n}
      /\ disk'[file].torn = FALSE
    <2>1. disk[file] \in Inode BY <1>3
    <2>2. disk[file].lines \in Seq(Number) BY <2>1 DEF Inode
    <2>3. ASSUME NEW m PROVE ToSet(Append(disk[file].lines, m)) = ToSet(disk[file].lines) \cup {m}
        BY <2>2, AppendedSet
    <2> QED BY <1>4, <2>3 DEF Line
<1>6. Operating' BY <1>0, <1>2, OperatingReturned
<1>7. \A m \in Settled' : m = 0 \/ m \in Settled \/ m = n
    <2>1. \A i \in 1..Len(disk) :
                ToSet(disk'[i].lines) \subseteq ToSet(disk[i].lines) \cup {0, n}
        BY <1>3, <1>4, <1>5
    <2> QED BY <1>1, <1>2, <1>4, <2>1, Returned, SettledIs
<1>8. Fresh' BY <1>0, <1>2, <1>7, FreshKept, Returned DEF Remembering
<1>9. backend = "jsonl" BY <1>2 DEF Operating
<1>10. OnEngram' BY <1>1, <1>9 DEF OnEngram
<1>11. Alone' /\ Named' /\ Copied' BY <1>0, <1>1, <1>2, WhileAppending
<1>12. Held'
    <2> SUFFICES ASSUME Undisturbed PROVE Held' BY <1>1, <1>2 DEF Held, Undisturbed
    <2>1. file = path /\ path # 0 BY <1>2, <1>3 DEF Named, Operating
    <2>2. n \notin erased BY <1>2, SettledIs DEF Fresh, Remembering
    <2>3. Due' = 0 /\ Due \in {0, 1} /\ (Due = 1 <=> disk[path].torn)
        BY <1>2, <1>5, <2>1, StoreTyped DEF Due
    <2>4. CASE disk[path].torn
        <3>1. All' = All BY <1>2, <1>5, <2>1, <2>4 DEF All
        <3>2. Lost' \subseteq Lost \cup {n} BY <1>2, <3>1 DEF Lost
        <3>3. Cardinality(Lost') <= Cardinality(Lost) + 1 /\ Cardinality(Lost') \in Nat
            <4>1. IsFiniteSet(Lost) /\ Cardinality(Lost) \in Nat BY LostFinite
            <4>2. /\ IsFiniteSet(Lost \cup {n})
                  /\ Cardinality(Lost \cup {n}) <= Cardinality(Lost) + 1
                  /\ Cardinality(Lost \cup {n}) \in Nat
                BY <4>1, FS_AddElement
            <4>3. Cardinality(Lost') <= Cardinality(Lost \cup {n}) /\ IsFiniteSet(Lost')
                BY <3>2, <4>2, FS_Subset
            <4> QED BY <4>1, <4>2, <4>3, FS_CardinalityType
        <3>4. Cardinality(Lost) + 1 <= tears /\ tears \in Nat /\ Cardinality(Lost) \in Nat
            BY <2>3, <2>4, LostFinite DEF Held, TypeOK
        <3>5. Cardinality(Lost') + Due' <= tears' BY <1>2, <2>3, <3>3, <3>4
        <3> QED BY <1>2, <3>1, <3>5 DEF Held
    <2>5. CASE ~disk[path].torn
        <3>1. All' = All \cup {n} BY <1>2, <1>3, <1>5, <2>1, <2>5 DEF All
        <3>2. Lost' \subseteq Lost BY <1>2, <3>1 DEF Lost
        <3>3. erased' \cap All' = {} BY <1>2, <2>2, <3>1 DEF Held
        <3> QED BY <1>2, <2>3, <3>2, <3>3, StillHeld
    <2> QED BY <2>4, <2>5
<1> QED BY <1>6, <1>8, <1>10, <1>11, <1>12

\* A line is torn: one more note may be lost, the next one appended.
LEMMA AppendTearsStep ==
    ASSUME IInv, TypeOK', NEW p \in Process, AppendTears(p)
    PROVE  IInv'
<1> USE DEF IInv
<1> DEFINE file == proc[p].file
<1>0. Acts(p) BY DEF Acts, Steps
<1>1. (\A q \in Process \ {p} : proc'[q] = proc[q]) /\ backend' = backend BY <1>0, Others
<1>2. /\ proc[p].pc = "append" /\ Returns(p) /\ tears' = tears + 1
      /\ UNCHANGED <<path, tmp, db, acked, matched, erased, overlap>>
    BY DEF AppendTears
<1>3. file \in 1..Len(disk) /\ disk \in Seq(Inode)
    <2>1. file # 0 BY <1>2 DEF Operating
    <2>2. proc[p] \in Operation BY DEF TypeOK
    <2> QED BY <2>1, <2>2 DEF Operation, TypeOK
<1>4. /\ disk'[file] = [disk[file] EXCEPT !.torn = TRUE]
      /\ Len(disk') = Len(disk)
      /\ \A i \in 1..Len(disk) : i # file => disk'[i] = disk[i]
    <2> DEFINE d == [disk[file] EXCEPT !.torn = TRUE]
    <2>1. disk' = [disk EXCEPT ![file] = d]
        BY DEF AppendTears
    <2> HIDE DEF d, file
    <2>2. Len(disk') = Len(disk) /\ disk'[file] = d
          /\ \A i \in 1..Len(disk) : i # file => disk'[i] = disk[i]
        BY <1>3, <2>1, EntryUpdates
    <2> QED BY <2>2 DEF d
<1>5. disk'[file].lines = disk[file].lines
    <2>1. disk[file] \in Inode BY <1>3
    <2> QED BY <1>4, <2>1 DEF Inode
<1>6. Operating' BY <1>0, <1>2, OperatingReturned
<1>7. \A m \in Settled' : m \in Settled
    BY <1>1, <1>2, <1>3, <1>4, <1>5, Returned, SettledIs
<1>8. Fresh' BY <1>0, <1>2, <1>7, FreshKept, Returned DEF Remembering
<1>9. backend = "jsonl" BY <1>2 DEF Operating
<1>10. OnEngram' BY <1>1, <1>9 DEF OnEngram
<1>11. Alone' /\ Named' /\ Copied' BY <1>0, <1>1, <1>2, WhileAppending
<1>12. Held'
    <2> SUFFICES ASSUME Undisturbed PROVE Held' BY <1>1, <1>2 DEF Held, Undisturbed
    <2>1. file = path /\ path # 0 BY <1>2, <1>3 DEF Named, Operating
    <2>2. All' = All /\ Lost' = Lost BY <1>2, <1>5, <2>1 DEF All, Lost
    <2>3. Due' \in {0, 1} /\ Due \in {0, 1} BY DEF Due
    <2>4. Cardinality(Lost) \in Nat /\ tears \in Nat /\ Cardinality(Lost) + Due <= tears
        BY LostFinite DEF Held, TypeOK
    <2>5. Cardinality(Lost') + Due' <= tears' BY <1>2, <2>2, <2>3, <2>4
    <2> QED BY <1>2, <2>2, <2>5 DEF Held
<1> QED BY <1>6, <1>8, <1>10, <1>11, <1>12

\* A forget that goes on in a store nothing disturbs is the only operation.
LEMMA WhileForgetting ==
    ASSUME IInv, NEW p \in Process, proc[p].pc \in Forgets, Acts(p), backend = "jsonl"
    PROVE  /\ OnEngram'
           /\ Undisturbed => \A q \in Process \ {p} : proc[q].pc = "idle" /\ proc'[q].pc = "idle"
<1> USE DEF IInv
<1>1. (\A q \in Process \ {p} : proc'[q] = proc[q]) /\ backend' = "jsonl" BY Others
<1>2. OnEngram' BY <1>1 DEF OnEngram
<1>3. Undisturbed => \A q \in Process \ {p} : proc[q].pc = "idle"
    BY DEF Alone, Operating, Forgets
<1> QED BY <1>1, <1>2, <1>3

\* A forget has read the store: what it goes on with is all of it.
LEMMA ReadsStep ==
    ASSUME IInv, TypeOK', NEW p \in Process, Reads(p)
    PROVE  IInv'
<1> USE DEF IInv
<1>0. Acts(p) BY DEF Acts, Steps
<1>1. (\A q \in Process \ {p} : proc'[q] = proc[q]) /\ backend' = backend BY <1>0, Others
<1>2. /\ proc[p].pc = "read"
      /\ UNCHANGED <<disk, path, tmp, db, acked, erased, tears, overlap>>
    BY DEF Reads, files
<1>3. backend = "jsonl" BY <1>2 DEF Operating
<1>4. All' = All /\ Due' = Due BY <1>2, SameStore
<1>5. /\ OnEngram'
      /\ Undisturbed => \A q \in Process \ {p} : proc[q].pc = "idle" /\ proc'[q].pc = "idle"
    BY <1>0, <1>2, <1>3, WhileForgetting DEF Forgets
<1>6. CASE Matching(proc[p].topic) = {}
    <2>1. Returns(p) /\ matched' = matched BY <1>6 DEF Reads
    <2>2. Operating' BY <1>0, <1>2, <2>1, OperatingReturned
    <2>3. Settled' \subseteq Settled BY <1>1, <1>2, <2>1, Returned, SettledIs
    <2>4. Fresh' BY <1>0, <2>1, <2>3, FreshKept, Returned DEF Remembering
    <2>5. Alone' /\ Named' /\ Copied'
        BY <1>1, <1>2, <1>5, <2>1, Returned DEF Alone, Named, Copied, Undisturbed
    <2>6. Held' BY <1>1, <1>2, <1>4, <2>1 DEF Held, Lost, Undisturbed
    <2> QED BY <1>5, <2>2, <2>4, <2>5, <2>6
<1>7. CASE Matching(proc[p].topic) # {}
    <2> DEFINE gone == Matching(proc[p].topic)
    <2>1. PICK keep \in Kept(proc[p].topic) :
            proc' = [proc EXCEPT ![p].pc = "create", ![p].gone = gone, ![p].keep = keep]
        BY <1>7 DEF Reads
    <2>2. matched' = matched \cup gone BY <1>7 DEF Reads
    <2>3. path # 0 /\ ToSet(keep) = All \ gone BY <1>7, KeptLines
    <2>4. All \subseteq Settled /\ gone \subseteq All BY <2>3, StoreTyped DEF Matching
    <2>5. /\ proc'[p].pc = "create" /\ proc'[p].gone = gone /\ proc'[p].keep = keep
          /\ proc'[p].topic = proc[p].topic
        BY <2>1 DEF TypeOK, Operation
    <2> HIDE DEF gone
    <2>6. Settled' \subseteq Settled BY <1>1, <1>2, <2>3, <2>4, <2>5, SettledIs
    <2>7. Fresh' BY <1>0, <2>5, <2>6, FreshKept DEF Remembering
    <2>8. Operating'
        BY <1>1, <1>2, <1>3, <2>3, <2>5 DEF Operating, Remembering, Forgets
    <2>9. Alone' /\ Named' BY <1>1, <1>2, <1>5, <2>5 DEF Alone, Named, Undisturbed
    <2>10. Copied' BY <1>1, <1>2, <1>4, <1>5, <2>2, <2>3, <2>5 DEF Copied, Undisturbed
    <2>11. Held'
        <3> SUFFICES ASSUME Undisturbed PROVE Held' BY <1>1, <1>2 DEF Held, Undisturbed
        <3>1. Lost' \subseteq Lost BY <1>2, <1>4, <2>2 DEF Lost
        <3>2. Due' <= Due BY <1>4 DEF Due
        <3>3. erased' \cap All' = {} BY <1>2, <1>4 DEF Held
        <3> QED BY <1>2, <3>1, <3>2, <3>3, StillHeld
    <2> QED BY <1>5, <2>7, <2>8, <2>9, <2>10, <2>11
<1> QED BY <1>6, <1>7

\* The temporary file is made, or emptied: never the store itself.
LEMMA CreatesStep ==
    ASSUME IInv, TypeOK', NEW p \in Process, Creates(p)
    PROVE  IInv'
<1> USE DEF IInv
<1>0. Acts(p) BY DEF Acts, Steps
<1>1. (\A q \in Process \ {p} : proc'[q] = proc[q]) /\ backend' = backend BY <1>0, Others
<1>2. /\ proc[p].pc = "create"
      /\ UNCHANGED <<path, db, acked, matched, erased, tears, overlap>>
    BY DEF Creates, ghosts
<1>3. backend = "jsonl" /\ path # 0 BY <1>2 DEF Operating
<1>4. /\ OnEngram'
      /\ Undisturbed => \A q \in Process \ {p} : proc[q].pc = "idle" /\ proc'[q].pc = "idle"
    BY <1>0, <1>2, <1>3, WhileForgetting DEF Forgets
<1>5. disk \in Seq(Inode) /\ path \in 1..Len(disk) /\ tmp \in 0..Len(disk)
    BY <1>3 DEF TypeOK
<1>6. /\ tmp' \in 1..Len(disk') /\ disk'[tmp'] = NewFile
      /\ tmp' = tmp \/ tmp' = Len(disk) + 1
      /\ \A i \in 1..Len(disk') : i # tmp' => i \in 1..Len(disk) /\ disk'[i] = disk[i]
      /\ path # tmp' => path \in 1..Len(disk') /\ disk'[path] = disk[path]
    <2>1. CASE tmp = 0
        <3>1. disk' = Append(disk, NewFile) /\ tmp' = Len(disk') BY <2>1 DEF Creates
        <3>2. /\ Len(disk') = Len(disk) + 1 /\ disk'[Len(disk) + 1] = NewFile
              /\ \A i \in 1..Len(disk) : disk'[i] = disk[i]
            BY <1>5, <3>1
        <3> QED BY <1>5, <3>1, <3>2
    <2>2. CASE tmp # 0
        <3>1. disk' = [disk EXCEPT ![tmp] = NewFile] /\ tmp' = tmp BY <2>2 DEF Creates
        <3>2. tmp \in 1..Len(disk) BY <1>5, <2>2
        <3>3. /\ Len(disk') = Len(disk) /\ disk'[tmp] = NewFile
              /\ \A i \in 1..Len(disk) : i # tmp => disk'[i] = disk[i]
            BY <1>5, <3>1, <3>2, EntryUpdates
        <3> QED BY <1>5, <3>1, <3>2, <3>3
    <2> QED BY <2>1, <2>2
<1>7. /\ proc'[p].pc = "flush" /\ proc'[p].file = tmp' /\ proc'[p].gone = proc[p].gone
      /\ proc'[p].keep = proc[p].keep /\ proc'[p].topic = proc[p].topic
    BY DEF Creates, TypeOK, Operation
<1>8. NewFile.lines = <<>> /\ ToSet(NewFile.lines) = {} BY DEF NewFile, ToSet
<1>9. Settled' \subseteq Settled BY <1>1, <1>2, <1>6, <1>7, <1>8, SettledIs
<1>10. Fresh' BY <1>0, <1>7, <1>9, FreshKept DEF Remembering
<1>11. tmp' # 0 BY <1>6
<1>12. Operating'
    BY <1>1, <1>2, <1>3, <1>7, <1>11 DEF Operating, Remembering, Forgets
<1>13. Alone' BY <1>1, <1>2, <1>4, <1>7 DEF Alone, Undisturbed
<1>14. Undisturbed => tmp' # path
    <2>1. Undisturbed /\ tmp # 0 => tmp # path BY DEF Named
    <2> QED BY <1>3, <1>5, <1>6, <2>1
<1>15. Named' BY <1>1, <1>2, <1>4, <1>7, <1>14 DEF Named, Undisturbed
<1>16. Undisturbed => All' = All /\ Due' = Due BY <1>2, <1>6, <1>14, SameStore
<1>17. Copied' BY <1>1, <1>2, <1>4, <1>6, <1>7, <1>8, <1>16 DEF Copied, Undisturbed
<1>18. Held' BY <1>1, <1>2, <1>16 DEF Held, Lost, Undisturbed
<1> QED BY <1>4, <1>10, <1>12, <1>13, <1>15, <1>17, <1>18

\* The notes kept are written to the temporary file: the store is as it was.
LEMMA FlushesStep ==
    ASSUME IInv, TypeOK', NEW p \in Process, Flushes(p)
    PROVE  IInv'
<1> USE DEF IInv
<1> DEFINE file == proc[p].file
           keep == proc[p].keep
           old == disk[file].lines
           rest == SubSeq(old, Len(keep) + 2, Len(old))
<1>0. Acts(p) BY DEF Acts, Steps
<1>1. (\A q \in Process \ {p} : proc'[q] = proc[q]) /\ backend' = backend BY <1>0, Others
<1>2. /\ proc[p].pc = "flush"
      /\ UNCHANGED <<path, tmp, db, acked, matched, erased, tears, overlap>>
    BY DEF Flushes, ghosts
<1>3. backend = "jsonl" /\ path # 0 /\ file # 0 BY <1>2 DEF Operating
<1>4. /\ OnEngram'
      /\ Undisturbed => \A q \in Process \ {p} : proc[q].pc = "idle" /\ proc'[q].pc = "idle"
    BY <1>0, <1>2, <1>3, WhileForgetting DEF Forgets
<1>5. /\ disk \in Seq(Inode) /\ file \in 1..Len(disk) /\ path \in 1..Len(disk)
      /\ keep \in Seq(Number)
    <2>1. proc[p] \in Operation BY DEF TypeOK
    <2> QED BY <1>3, <2>1 DEF Operation, TypeOK
<1>6. old \in Seq(Number)
    <2>1. disk[file] \in Inode BY <1>5
    <2> QED BY <2>1 DEF Inode
<1>7. PICK lines \in {keep} \cup (IF old = <<>> THEN {} ELSE {keep \o <<0>> \o rest}) :
        disk' = [disk EXCEPT ![file] = [lines |-> lines, torn |-> FALSE]]
    BY DEF Flushes
<1>8. old = <<>> => lines = keep BY <1>7
<1>9. ToSet(lines) \subseteq ToSet(keep) \cup ToSet(old) \cup {0}
    <2> DEFINE S == ToSet(keep) \cup ToSet(old) \cup {0}
    <2> HIDE DEF file, keep, old
    <2>1. keep \in Seq(S) BY <1>5, OwnSet
    <2>2. rest \in Seq(S)
        <3>1. Len(keep) + 2 \in Int /\ Len(keep) + 2 >= 1 /\ Len(old) \in Int
            BY <1>5, <1>6, OwnSet
        <3>2. \A i \in 1..Len(old) : old[i] \in S BY <1>6, OwnSet
        <3>3. \A i \in Len(keep) + 2 .. Len(old) : old[i] \in S BY <3>1, <3>2
        <3> QED BY <3>1, <3>3, SubSeqProperties
    <2> HIDE DEF rest
    <2>3. keep \o <<0>> \o rest \in Seq(S) BY <2>1, <2>2
    <2>4. lines \in Seq(S) BY <1>7, <2>1, <2>3
    <2> QED BY <2>4 DEF ToSet
<1> DEFINE d == [lines |-> lines, torn |-> FALSE]
<1>10. disk' = [disk EXCEPT ![file] = d] BY <1>7
<1>11. proc'[p].pc = "rename" /\ UNCHANGED <<proc[p].file, proc[p].gone, proc[p].keep, proc[p].topic>>
    <2>1. proc' = [proc EXCEPT ![p].pc = "rename"] BY DEF Flushes, Goes
    <2> HIDE DEF file, keep, old
    <2> QED BY <2>1 DEF TypeOK, Operation
<1>12. d.lines = lines OBVIOUS
<1> HIDE DEF d, file, old, rest, keep
<1>13. /\ Len(disk') = Len(disk) /\ disk'[file] = d
       /\ \A i \in 1..Len(disk) : i # file => disk'[i] = disk[i]
    BY <1>5, <1>10, EntryUpdates
<1>14. \A n \in Settled' : n = 0 \/ n \in Settled
    <2>1. ToSet(keep) \cup ToSet(old) \subseteq Settled BY <1>5, SettledIs DEF keep, old
    <2>2. \A i \in 1..Len(disk) : ToSet(disk'[i].lines) \subseteq Settled \cup {0}
        BY <1>9, <1>12, <1>13, <2>1, SettledIs
    <2> QED BY <1>1, <1>2, <1>11, <1>13, <2>2, SettledIs
<1>15. Fresh' BY <1>0, <1>11, <1>14, FreshKept DEF Remembering
<1>16. Operating'
    BY <1>1, <1>2, <1>3, <1>11 DEF Operating, Remembering, Forgets, file
<1>17. Alone' BY <1>1, <1>2, <1>4, <1>11 DEF Alone, Undisturbed
<1>18. Undisturbed => file = tmp /\ tmp # path BY <1>2, <1>3 DEF Named, file
<1>19. Named' BY <1>1, <1>2, <1>4, <1>11, <1>18 DEF Named, Undisturbed, file
<1>20. Undisturbed => All' = All /\ Due' = Due BY <1>2, <1>5, <1>13, <1>18, SameStore
<1>21. Copied'
    <2>1. Undisturbed => d = [lines |-> keep, torn |-> FALSE]
        BY <1>2, <1>8 DEF Copied, d, old, file
    <2> SUFFICES ASSUME Undisturbed PROVE Copied' BY <1>1, <1>2 DEF Copied, Undisturbed
    <2>2. \A q \in Process \ {p} : proc'[q].pc = "idle" BY <1>4
    <2>3. proc[p].gone \subseteq matched /\ ToSet(keep) = All \ proc[p].gone
        BY <1>2 DEF Copied, keep
    <2>4. disk'[proc'[p].file] = [lines |-> proc'[p].keep, torn |-> FALSE]
        BY <1>11, <1>13, <2>1 DEF file, keep
    <2> QED BY <1>2, <1>11, <1>20, <2>2, <2>3, <2>4 DEF Copied, keep
<1>22. Held' BY <1>1, <1>2, <1>20 DEF Held, Lost, Undisturbed
<1> QED BY <1>4, <1>15, <1>16, <1>17, <1>19, <1>21, <1>22

\* The disk is full: the remains are in the temporary file only.
LEMMA FlushFailsStep ==
    ASSUME IInv, TypeOK', NEW p \in Process, FlushFails(p)
    PROVE  IInv'
<1> USE DEF IInv
<1> DEFINE file == proc[p].file
           d == [disk[file] EXCEPT !.torn = TRUE]
<1>0. Acts(p) BY DEF Acts, Steps
<1>1. (\A q \in Process \ {p} : proc'[q] = proc[q]) /\ backend' = backend BY <1>0, Others
<1>2. /\ proc[p].pc = "flush" /\ Returns(p)
      /\ UNCHANGED <<path, tmp, db, acked, matched, erased, tears, overlap>>
    BY DEF FlushFails, ghosts
<1>3. backend = "jsonl" /\ path # 0 /\ file # 0 BY <1>2 DEF Operating
<1>4. /\ OnEngram'
      /\ Undisturbed => \A q \in Process \ {p} : proc[q].pc = "idle" /\ proc'[q].pc = "idle"
    BY <1>0, <1>2, <1>3, WhileForgetting DEF Forgets
<1>5. disk \in Seq(Inode) /\ file \in 1..Len(disk) /\ path \in 1..Len(disk)
    <2>1. proc[p] \in Operation BY DEF TypeOK
    <2> QED BY <1>3, <2>1 DEF Operation, TypeOK
<1>6. disk' = [disk EXCEPT ![file] = d] BY DEF FlushFails
<1>7. d.lines = disk[file].lines
    <2>1. disk[file] \in Inode BY <1>5
    <2> QED BY <2>1 DEF Inode
<1> HIDE DEF d, file
<1>8. /\ Len(disk') = Len(disk) /\ disk'[file] = d
      /\ \A i \in 1..Len(disk) : i # file => disk'[i] = disk[i]
    BY <1>5, <1>6, EntryUpdates
<1>9. Settled' \subseteq Settled BY <1>1, <1>2, <1>5, <1>7, <1>8, Returned, SettledIs
<1>10. Fresh' BY <1>0, <1>2, <1>9, FreshKept, Returned DEF Remembering
<1>11. Operating' BY <1>0, <1>2, OperatingReturned
<1>12. Alone' /\ Named' /\ Copied'
    BY <1>1, <1>2, <1>4, Returned DEF Alone, Named, Copied, Undisturbed
<1>13. Undisturbed => file = tmp /\ tmp # path BY <1>2, <1>3 DEF Named, file
<1>14. Undisturbed => All' = All /\ Due' = Due BY <1>2, <1>5, <1>8, <1>13, SameStore
<1>15. Held' BY <1>1, <1>2, <1>14 DEF Held, Lost, Undisturbed
<1> QED BY <1>4, <1>10, <1>11, <1>12, <1>15

\* The copy takes the store's name: only what was matched is not in it.
LEMMA RenamesStep ==
    ASSUME IInv, TypeOK', NEW p \in Process, Renames(p)
    PROVE  IInv'
<1> USE DEF IInv
<1> DEFINE gone == proc[p].gone
           keep == proc[p].keep
<1>0. Acts(p) BY DEF Acts, Steps
<1>1. (\A q \in Process \ {p} : proc'[q] = proc[q]) /\ backend' = backend BY <1>0, Others
<1>2. /\ proc[p].pc = "rename" /\ Returns(p)
      /\ UNCHANGED <<disk, db, acked, matched, tears, overlap>>
    BY DEF Renames
<1>3. backend = "jsonl" /\ path # 0 /\ proc[p].file # 0 BY <1>2 DEF Operating
<1>4. /\ OnEngram'
      /\ Undisturbed => \A q \in Process \ {p} : proc[q].pc = "idle" /\ proc'[q].pc = "idle"
    BY <1>0, <1>2, <1>3, WhileForgetting DEF Forgets
<1>5. IF tmp = 0 THEN UNCHANGED <<path, tmp, erased>>
      ELSE path' = tmp /\ tmp' = 0 /\ erased' = erased \cup gone
    BY DEF Renames
<1>6. path' # 0 BY <1>3, <1>5
<1>7. Operating' BY <1>0, <1>2, <1>6, OperatingReturned
<1>8. Settled' \subseteq Settled BY <1>1, <1>2, <1>5, Returned, SettledIs
<1>9. Fresh' BY <1>0, <1>2, <1>8, FreshKept, Returned DEF Remembering
<1>10. Alone' BY <1>1, <1>2, <1>4, Returned DEF Alone, Undisturbed
<1>11. Undisturbed => /\ proc[p].file = tmp /\ tmp # 0
                      /\ path' = tmp /\ tmp' = 0 /\ erased' = erased \cup gone
    BY <1>2, <1>3, <1>5 DEF Named
<1>12. Named' /\ Copied'
    BY <1>1, <1>2, <1>4, <1>11, Returned DEF Named, Copied, Undisturbed
<1>13. Held'
    <2> SUFFICES ASSUME Undisturbed PROVE Held' BY <1>1, <1>2 DEF Held, Undisturbed
    <2>1. /\ gone \subseteq matched /\ ToSet(keep) = All \ gone
          /\ disk[tmp] = [lines |-> keep, torn |-> FALSE]
        BY <1>2, <1>11 DEF Copied
    <2>2. All' = All \ gone /\ Due' = 0
        <3>1. disk'[path'].lines = keep /\ disk'[path'].torn = FALSE BY <1>2, <1>11, <2>1
        <3>2. 0 \notin All BY DEF All
        <3> QED BY <1>6, <2>1, <3>1, <3>2 DEF All, Due
    <2>3. Lost' \subseteq Lost BY <1>2, <2>1, <2>2 DEF Lost
    <2>4. Due' <= Due BY <2>2 DEF Due
    <2>5. erased' \cap All' = {} BY <1>11, <2>2 DEF Held
    <2> QED BY <1>2, <2>3, <2>4, <2>5, StillHeld
<1> QED BY <1>4, <1>7, <1>9, <1>10, <1>12, <1>13

-----------------------------------------------------------------------------
(* The theorems about the memory.                                          *)

\* The invariant holds at the start.
LEMMA InitInvariant ==
    ASSUME Init
    PROVE  IInv
<1>1. TypeOK BY InitTyped
<1>2. /\ \A p \in Process : proc[p] = Idle
      /\ path = 0 /\ tmp = 0 /\ acked = {} /\ erased = {} /\ db = {} /\ tears = 0
    BY DEF Init
<1>3. Idle.pc = "idle" /\ Idle.topic = "none" /\ Idle.ids = {} /\ Idle.gone = {}
    BY DEF Idle, Running
<1>4. Operating /\ Fresh /\ OnEngram /\ Alone /\ Named /\ Copied
    BY <1>2, <1>3 DEF Operating, Fresh, OnEngram, Alone, Named, Copied, Remembering, Forgets
<1>5. Lost = {} /\ Due = 0 BY <1>2 DEF Lost, Due
<1>6. Held BY <1>2, <1>5, FS_EmptySet DEF Held
<1> QED BY <1>1, <1>4, <1>6 DEF IInv

\* Every step keeps the invariant.
LEMMA StepInvariant ==
    ASSUME IInv, [Next]_vars
    PROVE  IInv'
<1>1. CASE UNCHANGED vars
    BY <1>1 DEF vars, files, ghosts, IInv, TypeOK, Operating, Fresh, OnEngram, Alone,
        Named, Copied, Held, Inode, Operation, Number, Settled, Undisturbed, All, Due, Lost
<1>2. ASSUME NEW p \in Process, Acts(p)
      PROVE  IInv'
    <2>1. TypeOK' BY <1>2, StepTyped DEF IInv, Acts
    <2>2. CASE Begins(p)
        BY <2>1, <2>2, RememberBegins, ForgetBegins DEF Begins
    <2>3. CASE Steps(p)
        BY <2>1, <2>3, AppendsStep, AppendTearsStep, ReadsStep, CreatesStep, FlushesStep,
           FlushFailsStep, RenamesStep, EngramStep DEF Steps
    <2>4. CASE Killed(p) BY <2>1, <2>4, KilledStep
    <2> QED BY <1>2, <2>2, <2>3, <2>4 DEF Acts
<1> QED BY <1>1, <1>2 DEF Next, Acts

\* The inductive invariant holds in every reachable state, for any number of
\* processes, notes and forgets.
THEOREM Invariance == Spec => []IInv
BY InitInvariant, StepInvariant, PTL DEF Spec

\* Names lead to inodes and lines to notes given, whatever is killed or torn
\* (Remember, rewrite, forgetJSONL and the Engram client).
THEOREM TypeCorrect == Spec => []TypeOK
<1>1. IInv => TypeOK BY DEF IInv
<1> QED BY <1>1, Invariance, PTL

\* A note whose remember succeeded is lost only to a forget that matched it,
\* or to the torn line it was appended to: one for each tear (Remember, All,
\* rewrite of memory.go).  On Engram nothing else is ever lost.
THEOREM NotesKept == Spec => []NotesSurvive
<1>1. ASSUME IInv PROVE NotesSurvive
    <2>1. tears \in Nat /\ backend \in {"jsonl", "engram"} BY <1>1 DEF IInv, TypeOK
    <2>2. CASE backend = "engram"
        <3>1. acked \ (matched \cup Readable) = {}
            BY <1>1, <2>2 DEF IInv, OnEngram, Readable
        <3> QED BY <2>1, <3>1, FS_EmptySet DEF NotesSurvive
    <2>3. CASE backend = "jsonl" /\ ~overlap
        <3>1. acked \ (matched \cup Readable) = Lost BY <2>3 DEF Lost, Readable
        <3>2. Cardinality(Lost) + Due <= tears /\ Cardinality(Lost) \in Nat
            BY <1>1, <2>3, LostFinite DEF IInv, Held, Undisturbed
        <3>3. Due \in {0, 1} BY DEF Due
        <3>4. Cardinality(Lost) <= tears BY <2>1, <3>2, <3>3
        <3> QED BY <3>1, <3>4 DEF NotesSurvive
    <2> QED BY <2>1, <2>2, <2>3 DEF NotesSurvive
<1> QED BY <1>1, Invariance, PTL

\* What a forget reported removed does not come back, from an old copy, a
\* stale temporary file or a delete that failed (forgetJSONL, engramStore.Forget).
THEOREM StaysForgotten == Spec => []ForgottenStaysGone
<1>1. ASSUME IInv PROVE ForgottenStaysGone
    BY <1>1 DEF IInv, TypeOK, OnEngram, Held, Undisturbed, Readable, ForgottenStaysGone
<1> QED BY <1>1, Invariance, PTL

-----------------------------------------------------------------------------
(* The chain of providers.                                                 *)

Limits == Timeout \in [Layer -> Nat] /\ Deadline \in [Op -> Nat]

\* A layer of the chain belongs to the request, and keeps within its limit.
Within ==
    /\ layer = "none" <=> outcome = "failed"
    /\ layer # "none" => (layer \in {"groqstt", "whisper"} <=> op \notin Reasoning)
    /\ layer = "realtime" => spent = 0
    /\ layer \in {"openai", "groq", "ollama", "groqstt"} => spent <= Timeout[layer]

\* The time gone is the limits of the layers before, and this layer's time.
Accounted == layer # "none" => clock <= Ahead[layer] + spent

LocalAsked == layer \in {Local, "none"} => Local \in asked \/ cancelled

ChainIInv == ChainTypeOK /\ Within /\ Accounted /\ LocalAsked

\* The chain begins with a layer of the request.
LEMMA FirstOfChain ==
    /\ op \in Reasoning => First \in {"realtime", "openai", "groq", "ollama"}
    /\ op \notin Reasoning => First \in {"groqstt", "whisper"}
BY DEF First, FromOpenAI, FromGroq

\* The backup of a layer is of the same request, comes later, and only the
\* local layer has none.
LEMMA BackupOfLayer ==
    ASSUME ChainTypeOK, Within, layer # "none"
    PROVE  /\ Backup = "none" <=> layer = Local
           /\ Backup # "none" => /\ Backup \in Layer \ {"realtime"}
                                 /\ Backup \in {"groqstt", "whisper"} <=> op \notin Reasoning
BY DEF ChainTypeOK, Within, Backup, FromOpenAI, FromGroq, Local, Layer, Op, Reasoning

\* When a layer fails, what was spent is covered by the limits before its backup.
LEMMA AheadOfBackup ==
    ASSUME Limits, ChainTypeOK, Within, Accounted, layer # "none", Backup # "none"
    PROVE  clock <= Ahead[Backup]
<1>1. /\ Ahead["groq"] = Timeout["openai"]
      /\ Ahead["ollama"] = Timeout["openai"] + Timeout["groq"]
      /\ Ahead["whisper"] = Timeout["groqstt"]
      /\ Ahead["openai"] = 0 /\ Ahead["realtime"] = 0 /\ Ahead["groqstt"] = 0
    BY DEF Ahead, Layer
<1>2. \A l \in Layer : Timeout[l] \in Nat
    BY DEF Limits
<1>3. clock \in Nat /\ spent \in Nat /\ layer \in Layer
    BY DEF ChainTypeOK
<1>4. CASE layer = "realtime"
    <2>1. Backup \in {"openai", "groq", "ollama"} /\ clock <= 0
        BY <1>1, <1>3, <1>4 DEF Backup, FromOpenAI, FromGroq, Accounted, Within
    <2> QED BY <1>1, <1>2, <1>3, <2>1 DEF Layer
<1>5. CASE layer = "openai"
    <2>1. Backup \in {"groq", "ollama"} /\ clock <= Timeout["openai"]
        BY <1>1, <1>2, <1>3, <1>5 DEF Backup, FromGroq, Accounted, Within
    <2> QED BY <1>1, <1>2, <1>3, <2>1 DEF Layer
<1>6. CASE layer = "groq"
    BY <1>1, <1>2, <1>3, <1>6 DEF Backup, Accounted, Within, Layer
<1>7. CASE layer = "groqstt"
    BY <1>1, <1>2, <1>3, <1>7 DEF Backup, Accounted, Within, Layer
<1>8. CASE layer \in {"ollama", "whisper"}
    BY <1>8 DEF Backup
<1> QED BY <1>3, <1>4, <1>5, <1>6, <1>7, <1>8 DEF Layer

\* The invariant holds when a request begins.
LEMMA ChainInitInvariant ==
    ASSUME Limits, ChainInit
    PROVE  ChainIInv
<1>1. First \in Layer /\ (First \in {"groqstt", "whisper"} <=> op \notin Reasoning)
    BY FirstOfChain DEF Layer
<1>2. ChainTypeOK
    BY <1>1 DEF ChainInit, ChainTypeOK
<1>3. Within
    BY <1>1 DEF ChainInit, Within, Limits, Layer
<1>4. Ahead[layer] \in Nat
    BY <1>1, \A l \in Layer : Timeout[l] \in Nat DEF ChainInit, Ahead, Layer, Limits
<1>5. Accounted
    BY <1>4 DEF ChainInit, Accounted
<1>6. LocalAsked
    BY <1>1 DEF ChainInit, LocalAsked, Local, Layer
<1> QED BY <1>2, <1>3, <1>5, <1>6 DEF ChainIInv

\* One step keeps the invariant when the limits fit the deadlines.
LEMMA ChainStepInvariant ==
    ASSUME Limits, LimitsFit, ChainIInv, [ChainNext]_chainVars
    PROVE  ChainIInv'
<1> USE DEF ChainIInv
<1>1. CASE Answers
    <2>1. layer # "none" BY <1>1 DEF Answers, Within
    <2> QED BY <1>1, <2>1 DEF Answers, config, ChainTypeOK, Within, Accounted, LocalAsked, Local, Ahead
<1>2. CASE Fails
    <2>1. layer # "none" BY <1>2 DEF Fails, Within
    <2>2. /\ Backup = "none" <=> layer = Local
          /\ Backup # "none" => /\ Backup \in Layer \ {"realtime"}
                                /\ Backup \in {"groqstt", "whisper"} <=> op \notin Reasoning
        BY <2>1, BackupOfLayer
    <2>3. /\ layer' = Backup /\ spent' = 0 /\ UNCHANGED <<keys, realtime, op, clock, cancelled>>
          /\ outcome' = IF Backup = "none" THEN "failed" ELSE "none"
          /\ asked' = IF Live /\ Backup # "none" THEN asked \cup {Backup} ELSE asked
        BY <1>2 DEF Fails, config
    <2>4. ChainTypeOK'
        BY <2>2, <2>3 DEF ChainTypeOK, Layer
    <2>5. Within'
        BY <2>2, <2>3 DEF Within, Limits, Layer
    <2>6. Accounted'
        <3>1. CASE Backup = "none" BY <2>3, <3>1 DEF Accounted
        <3>2. CASE Backup # "none"
            <4>1. clock <= Ahead[Backup] BY <2>1, <3>2, AheadOfBackup
            <4>2. Ahead[Backup] \in Nat
                BY <2>2, <3>2, \A l \in Layer : Timeout[l] \in Nat DEF Ahead, Limits, Layer
            <4>3. (Ahead[layer])' = Ahead[Backup] BY <2>3 DEF Ahead
            <4> QED BY <2>3, <4>1, <4>2, <4>3 DEF Accounted, ChainTypeOK
        <3> QED BY <3>1, <3>2
    <2>7. LocalAsked'
        <3>1. Local' = Local BY <2>3 DEF Local
        <3>2. CASE Backup = "none" BY <2>2, <2>3, <3>1, <3>2 DEF LocalAsked
        <3>3. CASE Backup = Local
            <4>1. Backup # "none" BY <3>3 DEF Local
            <4>2. clock <= Ahead[Local] BY <2>1, <3>3, <4>1, AheadOfBackup
            <4>3. Deadline[op] # 0 => Ahead[Local] < Deadline[op]
                BY DEF LimitsFit, ChainTypeOK, Local
            <4>4. Deadline[op] \in Nat /\ Ahead[Local] \in Nat /\ clock \in Nat
                BY \A l \in Layer : Timeout[l] \in Nat
                   DEF Limits, ChainTypeOK, Ahead, Local, Layer
            <4>5. Live \/ cancelled BY <4>2, <4>3, <4>4 DEF Live
            <4> QED BY <2>3, <3>1, <3>3, <4>1, <4>5 DEF LocalAsked
        <3>4. CASE Backup \notin {"none", Local} BY <2>3, <3>1, <3>4 DEF LocalAsked
        <3> QED BY <3>2, <3>3, <3>4
    <2> QED BY <2>4, <2>5, <2>6, <2>7
<1>3. CASE Waiting
    <2>1. layer # "none" /\ layer # "realtime" BY <1>3 DEF Waiting, Within, Waits
    <2>2. layer # "whisper" => spent < Timeout[layer]
        BY <1>3, <2>1 DEF Waiting, Over, ChainTypeOK, Limits
    <2>3. /\ clock' = clock + 1 /\ spent' = spent + 1
          /\ UNCHANGED <<keys, realtime, op, layer, asked, cancelled, outcome>>
        BY <1>3 DEF Waiting, config
    <2>4. ChainTypeOK' BY <2>3 DEF ChainTypeOK
    <2>5. Within'
        <3>1. layer \in Layer /\ spent \in Nat BY <2>1 DEF ChainTypeOK
        <3>2. layer # "whisper" => Timeout[layer] \in Nat /\ spent + 1 <= Timeout[layer]
            BY <2>2, <3>1 DEF Limits
        <3> QED BY <2>1, <2>3, <3>2 DEF Within
    <2>6. Accounted'
        <3>1. Ahead[layer] \in Nat /\ (Ahead[layer])' = Ahead[layer]
            BY <2>1, <2>3, \A l \in Layer : Timeout[l] \in Nat DEF Ahead, Limits, Layer, ChainTypeOK
        <3> QED BY <2>1, <2>3, <3>1 DEF Accounted, ChainTypeOK
    <2>7. LocalAsked' BY <2>3 DEF LocalAsked, Local
    <2> QED BY <2>4, <2>5, <2>6, <2>7
<1>4. CASE Cancels
    BY <1>4 DEF Cancels, config, ChainTypeOK, Within, Accounted, LocalAsked, Local, Ahead
<1>5. CASE UNCHANGED chainVars
    BY <1>5 DEF chainVars, config, ChainTypeOK, Within, Accounted, LocalAsked, Local, Ahead
<1> QED BY <1>1, <1>2, <1>3, <1>4, <1>5 DEF ChainNext

\* If the limits of the cloud layers leave a part of every deadline, no request
\* fails without its local provider having been asked in time: the condition
\* that the limits of the code (60 and 60 s of a deadline of 90 s) miss.
THEOREM LocalFallbackHolds ==
    ASSUME Limits, LimitsFit
    PROVE  ChainSpec => []NeverSilent
<1>1. ChainInit => ChainIInv BY ChainInitInvariant
<1>2. ChainIInv /\ [ChainNext]_chainVars => ChainIInv' BY ChainStepInvariant
<1>3. ChainIInv => NeverSilent BY DEF ChainIInv, Within, LocalAsked, NeverSilent
<1> QED BY <1>1, <1>2, <1>3, PTL DEF ChainSpec

=============================================================================
