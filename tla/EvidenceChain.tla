--------------------------- MODULE EvidenceChain ----------------------------
(***************************************************************************)
(* The store of an evidence chain (evidence/chain.py): a file of lines, a  *)
(* header and then one entry per line, each written and synced before      *)
(* append returns; load, which rebuilds the chain after a crash; and       *)
(* checkpoints, which others hold against a packet exported later.         *)
(*                                                                         *)
(* An entry is its position, the hash before it and its own hash, a number *)
(* no other entry has: contents, signatures and keys are left out.  One    *)
(* process uses the store at a time; the code has no lock.                 *)
(***************************************************************************)
EXTENDS Integers, Sequences

CONSTANTS
  MaxEntries,      \* bound on entries ever made
  MaxFaults,       \* bound on crashes, and on writes that raise
  FailureLeaves    \* what a write that raises may leave in the file

ASSUME StoreAssumption ==
  /\ MaxEntries \in Nat /\ MaxFaults \in Nat
  /\ FailureLeaves \subseteq {"nothing", "part", "whole"}

VARIABLES
  lines,        \* the file: its whole lines
  torn,         \* whether it ends in a part of a line
  at,           \* "dead" (no chain in memory), "idle" or "appending"
  entries,      \* the chain in memory
  made,         \* entries made so far; the next one's hash
  acked,        \* history: the entries whose append returned, or load showed
  checkpoints,  \* history: the checkpoints taken
  faults        \* faults so far

file == <<lines, torn>>
memory == <<at, entries>>
history == <<acked, checkpoints>>
vars == <<file, memory, made, history, faults>>

GenesisHash == 0
Header == [kind |-> "header"]
Unreadable == [kind |-> "unreadable"]
Entry == [kind : {"entry"}, seq : Nat, prev : Nat, hash : Nat \ {0}]

HeadHash(chain) == IF chain = <<>> THEN GenesisHash ELSE chain[Len(chain)].hash

EntryAfter(chain, hash) ==
  [kind |-> "entry", seq |-> Len(chain), prev |-> HeadHash(chain), hash |-> hash]

TypeOK ==
  /\ lines \in Seq(Entry \cup {Header, Unreadable})
  /\ torn \in BOOLEAN
  /\ at \in {"dead", "idle", "appending"}
  /\ entries \in Seq(Entry)
  /\ made \in 0 .. MaxEntries
  /\ acked \in Seq(Entry)
  /\ \A cp \in checkpoints : cp.length \in Nat /\ cp.head \in Nat
  /\ faults \in 0 .. MaxFaults

Init ==
  /\ lines = <<>> /\ torn = FALSE
  /\ at = "dead" /\ entries = <<>>
  /\ made = 0
  /\ acked = <<>> /\ checkpoints = {}
  /\ faults = 0

(***************************************************************************)
(* Writing a line: the file is opened for appending, so what a write left  *)
(* of an earlier line becomes the beginning of this one.                   *)
(***************************************************************************)
Writes(line) ==
  /\ lines' = Append(lines, IF torn THEN Unreadable ELSE line)
  /\ torn' = FALSE

Leaves(what, line) ==
  \/ what = "nothing" /\ UNCHANGED file
  \/ what = "part" /\ torn' = TRUE /\ UNCHANGED lines
  \/ what = "whole" /\ Writes(line)

Fault == faults < MaxFaults /\ faults' = faults + 1

\* A crash, unlike a write that raises, may always cut a write anywhere.
CutAnywhere == {"nothing", "part", "whole"}

(***************************************************************************)
(* with_key: a new chain, in a file that is missing or empty.              *)
(***************************************************************************)
Empty == lines = <<>> /\ ~torn

Creates ==
  /\ at = "dead"
  /\ Empty
  /\ Writes(Header)
  /\ at' = "idle" /\ entries' = <<>>
  /\ UNCHANGED <<made, history, faults>>

CreateCut ==
  /\ at = "dead"
  /\ Empty
  /\ Fault
  /\ \E what \in CutAnywhere : Leaves(what, Header)
  /\ UNCHANGED <<memory, made, history>>

(***************************************************************************)
(* load: the torn tail is trimmed first, then the lines are read and       *)
(* verified.                                                               *)
(***************************************************************************)
Links(chain) ==
  \A i \in DOMAIN chain :
    /\ chain[i].seq = i - 1
    /\ chain[i].prev = IF i = 1 THEN GenesisHash ELSE chain[i - 1].hash

Loadable ==
  /\ lines # <<>> /\ lines[1] = Header
  /\ \A i \in 2 .. Len(lines) : lines[i].kind = "entry"
  /\ Links(Tail(lines))

\* Mutants of Loads: the tail is left in the file; the header is read before
\* the tail is trimmed.
LoadsUntrimmed ==
  /\ at = "dead"
  /\ ~Empty
  /\ UNCHANGED file
  /\ Loadable
  /\ at' = "idle" /\ entries' = Tail(lines) /\ acked' = Tail(lines)
  /\ UNCHANGED <<made, checkpoints, faults>>

ReadsBeforeTrimming ==
  /\ at = "dead"
  /\ ~Empty
  /\ Loadable
  /\ torn' = FALSE /\ UNCHANGED lines
  /\ at' = "idle" /\ entries' = Tail(lines) /\ acked' = Tail(lines)
  /\ UNCHANGED <<made, checkpoints, faults>>

Loads ==
  /\ at = "dead"
  /\ ~Empty
  /\ torn' = FALSE /\ UNCHANGED lines
  /\ IF Loadable
       THEN at' = "idle" /\ entries' = Tail(lines) /\ acked' = Tail(lines)
       ELSE UNCHANGED <<memory, acked>>
  /\ UNCHANGED <<made, checkpoints, faults>>

(***************************************************************************)
(* append: the entry is made from the chain in memory, written and synced; *)
(* "memory only follows the disk".                                         *)
(***************************************************************************)
NewEntry == EntryAfter(entries, made)

Appends ==
  /\ at = "idle"
  /\ made < MaxEntries
  /\ made' = made + 1
  /\ at' = "appending"
  /\ UNCHANGED <<file, entries, history, faults>>

\* Mutant of Returns: the line is not synced, so it may still be lost.
ReturnsUnsynced ==
  /\ at = "appending"
  /\ \E what \in CutAnywhere : Leaves(what, NewEntry)
  /\ at' = "idle" /\ entries' = Append(entries, NewEntry)
  /\ acked' = Append(acked, NewEntry)
  /\ UNCHANGED <<made, checkpoints, faults>>

Returns ==
  /\ at = "appending"
  /\ Writes(NewEntry)
  /\ at' = "idle" /\ entries' = Append(entries, NewEntry)
  /\ acked' = Append(acked, NewEntry)
  /\ UNCHANGED <<made, checkpoints, faults>>

\* The write or the sync raises; the process lives on with the chain it has.
Raises ==
  /\ at = "appending"
  /\ Fault
  /\ \E what \in FailureLeaves : Leaves(what, NewEntry)
  /\ at' = "idle"
  /\ UNCHANGED <<entries, made, history>>

(***************************************************************************)
(* The process ends: between calls, or in the middle of an append.         *)
(***************************************************************************)
Ends ==
  /\ at = "idle"
  /\ at' = "dead" /\ entries' = <<>>
  /\ UNCHANGED <<file, made, history, faults>>

Crashes ==
  /\ at = "appending"
  /\ Fault
  /\ \E what \in CutAnywhere : Leaves(what, NewEntry)
  /\ at' = "dead" /\ entries' = <<>>
  /\ UNCHANGED <<made, history>>

(***************************************************************************)
(* checkpoint, and what verify_packet accepts when it is given one.        *)
(***************************************************************************)
TakesCheckpoint ==
  /\ at = "idle"
  /\ checkpoints' = checkpoints \cup
       {[length |-> Len(entries), head |-> HeadHash(entries), covers |-> entries]}
  /\ UNCHANGED <<file, memory, made, acked, faults>>

\* Mutant of Extends: the committed head is not compared.
LongEnough(packet, cp) == Len(packet) >= cp.length

Extends(packet, cp) ==
  /\ Len(packet) >= cp.length
  /\ cp.length > 0 => packet[cp.length].hash = cp.head

Accepts(packet, cp) == Links(packet) /\ Extends(packet, cp)

Opens == Creates \/ Loads
Recording == Appends \/ Returns \/ Raises
Next == Opens \/ CreateCut \/ Recording \/ Ends \/ Crashes \/ TakesCheckpoint

Spec == Init /\ [][Next]_vars

\* Whoever needs the chain opens its store again, by with_key or by load as the
\* file has it.
FairSpec == Spec /\ WF_vars(Opens)

(***************************************************************************)
(* Properties.                                                             *)
(***************************************************************************)
IsPrefixOf(s, t) == Len(s) <= Len(t) /\ SubSeq(t, 1, Len(s)) = s

\* "a crash never loses an entry the caller was told was recorded"
\* (evidence/chain.py:216): the store, if opened now, would give back every
\* acknowledged entry, in order, and at most the one that was being appended.
AcknowledgedSurvives ==
  acked # <<>> =>
    /\ Loadable
    /\ IsPrefixOf(acked, Tail(lines))
    /\ Len(Tail(lines)) <= Len(acked) + 1

\* A checkpoint given away is never contradicted by its own chain: whatever
\* crash lies between, the chain in memory extends it.
CheckpointsHold ==
  at # "dead" => \A cp \in checkpoints : Accepts(entries, cp)

\* What somebody with the signing key can export: the first entries of the chain
\* in memory, then others, well linked.
Forged(kept, minted) ==
  LET hash(n) == IF n <= kept THEN entries[n].hash ELSE MaxEntries + n - kept
  IN  [n \in 1 .. kept + minted |->
         IF n <= kept THEN entries[n]
         ELSE [kind |-> "entry", seq |-> n - 1,
               prev |-> IF n = 1 THEN GenesisHash ELSE hash(n - 1), hash |-> hash(n)]]
Forgeries ==
  { Forged(kept, minted) : kept \in 0 .. Len(entries), minted \in 0 .. 2 }

\* A packet accepted against a checkpoint holds every entry the checkpoint covers,
\* even one re-signed by the holder of the key ("a shorter packet (truncation) and
\* a rewritten history both fail", evidence/chain.py:163).
CheckpointsBind ==
  \A cp \in checkpoints, packet \in Forgeries :
    Accepts(packet, cp) => IsPrefixOf(cp.covers, packet)

\* What the store promises is an EvidenceLog, a record known by its hash: whatever
\* is written, cut or read back, the file gains one new entry at its end or none,
\* and whoever was told that an entry is recorded was told so of one that is.
Recorded == IF lines = <<>> THEN <<>> ELSE Tail(lines)
Log == INSTANCE EvidenceLog WITH
         Streams <- {"chain"},
         Records <- 1 .. MaxEntries,
         log <- [s \in {"chain"} |-> [i \in DOMAIN Recorded |-> Recorded[i].hash]],
         told <- {acked[i].hash : i \in DOMAIN acked}
ImplementsLog == Log!Spec

\* A store is never left in a state that neither with_key nor load gets out of.
StoreOpens == at = "dead" ~> at # "dead"

=============================================================================
