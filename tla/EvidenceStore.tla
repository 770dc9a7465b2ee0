--------------------------- MODULE EvidenceStore ---------------------------
(***************************************************************************)
(* The evidence store of the registry (registry/store.py): for each stream *)
(* a file of lines, each with its number and the hash of the line before.  *)
(*                                                                         *)
(* Writers take an exclusive lock on the file; readers take none, and read *)
(* it twice, first to verify it.  Bytes arrive in a file one after the     *)
(* other: until the last of them there is a torn final line, and a writer  *)
(* that stops in between leaves it there.  A process writes at most one    *)
(* line, and the process stands for the line's hash.                       *)
(***************************************************************************)
EXTENDS Integers, Sequences

CONSTANTS Procs, Streams

VARIABLES
  file,     \* by stream: its complete lines, and whose torn one follows, if any
  lock,     \* by stream: who holds the lock
  writer    \* by process: where its append is, what it records, and the line

store == <<file, lock, writer>>

Nobody == "nobody"
GENESIS == "genesis"

ASSUME StoreAssumption == Nobody \notin Procs /\ GENESIS \notin Procs

Empty == [lines |-> <<>>, torn |-> Nobody]
Unused == [at |-> "idle", stream |-> "none", data |-> <<>>, line |-> <<>>]

InitStore ==
  /\ file = [s \in Streams |-> Empty]
  /\ lock = [s \in Streams |-> Nobody]
  /\ writer = [p \in Procs |-> Unused]

line_hash(line) == line.by

HashAt(lines, n) == IF n = 0 THEN GENESIS ELSE line_hash(lines[n])

IsChain(lines) ==
  \A n \in DOMAIN lines : lines[n].seq = n /\ lines[n].prev = HashAt(lines, n - 1)

\* Mutant of Verifies: a torn line is taken for no line.
VerifiesLines(stream) == IsChain(file[stream].lines)

\* verify raises on a torn line as on a chain that is not one.
Verifies(stream) == file[stream].torn = Nobody /\ IsChain(file[stream].lines)

HeadOf(stream) == [length |-> Len(file[stream].lines),
                   hash |-> HashAt(file[stream].lines, Len(file[stream].lines))]

\* verify against a checkpoint.
Extends(lines, head) ==
  head.length > 0 => /\ Len(lines) >= head.length
                     /\ line_hash(lines[head.length]) = head.hash

At(p, where) == writer[p].at = where
GoesTo(p, where) == writer' = [writer EXCEPT ![p].at = where]

(***************************************************************************)
(* append.                                                                 *)
(***************************************************************************)
Wants(p, stream, data) ==
  /\ At(p, "idle")
  /\ writer' = [writer EXCEPT ![p] = [at |-> "ready", stream |-> stream, data |-> <<data>>, line |-> <<>>]]
  /\ UNCHANGED <<file, lock>>

NextLine(p) ==
  LET s == writer[p].stream
  IN  [seq |-> HeadOf(s).length + 1, prev |-> HeadOf(s).hash, by |-> p, data |-> writer[p].data[1]]

\* Mutant of LockIsFree: the file is opened and verified without the lock.
LockIsAnyones(stream) == TRUE

LockIsFree(stream) == lock[stream] = Nobody

\* flock, verify, and the line that is next.
Locks(p) ==
  /\ At(p, "ready")
  /\ LockIsFree(writer[p].stream)
  /\ IF Verifies(writer[p].stream)
       THEN /\ lock' = [lock EXCEPT ![writer[p].stream] = p]
            /\ writer' = [writer EXCEPT ![p].at = "locked", ![p].line = <<NextLine(p)>>]
       ELSE lock' = lock /\ GoesTo(p, "refused")
  /\ UNCHANGED file

BeginsToWrite(p) ==
  /\ At(p, "locked")
  /\ file' = [file EXCEPT ![writer[p].stream].torn = p]
  /\ GoesTo(p, "writing")
  /\ UNCHANGED lock

EndsWriting(p) ==
  /\ At(p, "writing")
  /\ file' = [file EXCEPT ![writer[p].stream] =
                [lines |-> @.lines \o writer[p].line, torn |-> Nobody]]
  /\ GoesTo(p, "written")
  /\ UNCHANGED lock

Unlocked(p) == [s \in Streams |-> IF lock[s] = p THEN Nobody ELSE lock[s]]

\* Mutant of Returns: the line is not flushed first.
ReturnsUnflushed(p) ==
  /\ At(p, "writing")
  /\ lock' = Unlocked(p) /\ GoesTo(p, "recorded")
  /\ UNCHANGED file

\* The line is on the disk and its hash is returned.
Returns(p) ==
  /\ At(p, "written")
  /\ lock' = Unlocked(p) /\ GoesTo(p, "recorded")
  /\ UNCHANGED file

\* The disk is full, or fsync fails: an exception, and nothing takes the
\* bytes back.  Assumed: the rest of them is lost (after the unlock, closing
\* the file writes what is still in its buffer once more).
WriteFails(p) ==
  /\ At(p, "writing") \/ At(p, "written")
  /\ lock' = Unlocked(p) /\ GoesTo(p, "refused")
  /\ UNCHANGED file

Dies(p) ==
  /\ \E where \in {"ready", "locked", "writing", "written"} : At(p, where)
  /\ lock' = Unlocked(p) /\ GoesTo(p, "dead")
  /\ UNCHANGED file

Appends(p) == Locks(p) \/ BeginsToWrite(p) \/ EndsWriting(p) \/ Returns(p)

(***************************************************************************)
(* Properties.                                                             *)
(***************************************************************************)
\* "Two writers cannot both take the same seq": the lines are one chain,
\* whoever wrote them and whatever became of the others.
ChainIsWhole == \A s \in Streams : IsChain(file[s].lines)

\* A record whose hash was returned is in the file, once.
RecordedIsKept ==
  \A p \in Procs : At(p, "recorded") =>
    LET lines == file[writer[p].stream].lines
    IN  \E n \in DOMAIN lines : {n} = {m \in DOMAIN lines : lines[m].by = p}

\* What the store promises is an EvidenceLog, a record known by its writer:
\* whoever writes at the same time, and whoever fails or dies in between, a file
\* gains one new record at its end or none, and a hash is returned only for a
\* record that is there.
Log == INSTANCE EvidenceLog WITH
         Records <- Procs,
         log <- [s \in Streams |-> [n \in DOMAIN file[s].lines |-> file[s].lines[n].by]],
         told <- {p \in Procs : At(p, "recorded")}
ImplementsLog == Log!Spec

\* "A broken store is never extended": what a writer left torn stays as it is.
BrokenIsNeverExtended ==
  [][\A s \in Streams : file[s].torn # Nobody =>
       At(file[s].torn, "writing") \/ file'[s] = file[s]]_store

=============================================================================
