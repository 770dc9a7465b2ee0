------------------------- MODULE EvidenceChainProofs -------------------------
(***************************************************************************)
(* If a write that raises leaves nothing in the file, the store of a chain *)
(* loses no acknowledged entry and contradicts no checkpoint, however long *)
(* the chain and however many crashes.  Whatever a write leaves, no packet *)
(* that a checkpoint accepts lacks an entry the checkpoint covers.         *)
(***************************************************************************)
EXTENDS EvidenceChain, SequenceTheorems, SumProofs

USE StoreAssumption

\* A process with a chain in memory has a file that ends with its last entry.
MemoryFollowsDisk == at # "dead" => ~torn /\ lines # <<>> /\ entries = acked

\* The file is empty and nothing was promised, or it loads and gives back what
\* was acknowledged, and after a crash perhaps the entry it interrupted.
DiskSound ==
  /\ lines = <<>> => acked = <<>> /\ checkpoints = {}
  /\ lines # <<>> =>
       /\ Loadable
       /\ \/ Tail(lines) = acked
          \/ at = "dead" /\ \E e \in Entry : Tail(lines) = Append(acked, e)

\* The entry being appended has a hash, which no checkpoint of nothing has.
EntryIsMade == at = "appending" => made > 0

CheckpointsSound == \A cp \in checkpoints : Extends(acked, cp)

StoreInv ==
  TypeOK /\ MemoryFollowsDisk /\ DiskSound /\ EntryIsMade /\ CheckpointsSound

Line == Entry \cup {Header, Unreadable}

(***************************************************************************)
(* Entries, links and lines.                                               *)
(***************************************************************************)
LEMMA EntryAfterIsEntry ==
  ASSUME NEW chain \in Seq(Entry), NEW hash \in Nat \ {0}
  PROVE  EntryAfter(chain, hash) \in Entry
<1>1. HeadHash(chain) \in Nat
  <2>1. CASE chain = <<>>
    BY <2>1 DEF HeadHash, GenesisHash
  <2>2. CASE chain # <<>>
    <3>1. chain[Len(chain)] \in Entry
      BY <2>2
    <3>. QED BY <2>2, <3>1 DEF HeadHash, Entry
  <2>. QED BY <2>1, <2>2
<1>2. Len(chain) \in Nat
  OBVIOUS
<1>. QED BY <1>1, <1>2 DEF EntryAfter, Entry

LEMMA LinksGrow ==
  ASSUME NEW chain \in Seq(Entry), NEW hash \in Nat \ {0}, Links(chain)
  PROVE  Links(Append(chain, EntryAfter(chain, hash)))
<1> DEFINE e == EntryAfter(chain, hash)
           longer == Append(chain, e)
<1>1. /\ e.seq = Len(chain)
      /\ e.prev = IF chain = <<>> THEN GenesisHash ELSE chain[Len(chain)].hash
  BY DEF EntryAfter, HeadHash
<1>2. /\ e \in Entry /\ Len(chain) \in Nat
      /\ DOMAIN longer = 1 .. Len(chain) + 1
      /\ \A i \in 1 .. Len(chain) : longer[i] = chain[i]
      /\ longer[Len(chain) + 1] = e
      /\ chain = <<>> <=> Len(chain) = 0
  BY EntryAfterIsEntry
<1>3. ASSUME NEW i \in DOMAIN longer
      PROVE  /\ longer[i].seq = i - 1
             /\ longer[i].prev = IF i = 1 THEN GenesisHash ELSE longer[i - 1].hash
  <2>1. CASE i \in 1 .. Len(chain)
    BY <1>2, <2>1 DEF Links
  <2>2. CASE i = Len(chain) + 1
    BY <1>1, <1>2, <2>2
  <2>. QED BY <1>2, <2>1, <2>2
<1>. QED BY <1>3 DEF Links

LEMMA TailIsEntries ==
  ASSUME lines \in Seq(Line), lines # <<>>, Loadable
  PROVE  /\ Tail(lines) \in Seq(Entry)
         /\ Links(Tail(lines))
<1>1. /\ Tail(lines) \in Seq(Line)
      /\ Len(Tail(lines)) = Len(lines) - 1
      /\ \A i \in 1 .. Len(Tail(lines)) : Tail(lines)[i] = lines[i + 1]
  BY HeadTailProperties
<1>2. ASSUME NEW i \in 1 .. Len(Tail(lines)) PROVE Tail(lines)[i] \in Entry
  <2>1. i + 1 \in 2 .. Len(lines) /\ lines[i + 1] \in Line
    BY <1>1
  <2>2. lines[i + 1].kind = "entry"
    BY <2>1 DEF Loadable
  <2>. QED BY <1>1, <2>1, <2>2 DEF Line, Header, Unreadable
<1>3. Tail(lines) \in Seq(Entry)
  <2> DEFINE n == Len(Tail(lines))
  <2>1. n \in Nat /\ Tail(lines) \in [1 .. n -> Line]
    BY <1>1, LenProperties
  <2>2. Tail(lines) \in [1 .. n -> Entry]
    BY <1>2, <2>1
  <2>3. Seq(Entry) = UNION {[1 .. k -> Entry] : k \in Nat}
    BY SeqDef
  <2>. QED BY <2>1, <2>2, <2>3, Zenon
<1>. QED BY <1>3 DEF Loadable

LEMMA OneMoreLine ==
  ASSUME lines \in Seq(Line), lines # <<>>, Loadable, ~torn,
         NEW e \in Entry, Links(Append(Tail(lines), e)), Writes(e)
  PROVE  /\ lines' \in Seq(Line) /\ lines' # <<>> /\ torn' = FALSE
         /\ Tail(lines') = Append(Tail(lines), e)
         /\ Loadable'
<1>1. lines' = Append(lines, e) /\ torn' = FALSE
  BY DEF Writes
<1>2. /\ lines' \in Seq(Line) /\ lines' # <<>>
      /\ Len(lines') = Len(lines) + 1 /\ Len(lines) \in Nat /\ Len(lines) > 0
      /\ \A i \in 1 .. Len(lines) : lines'[i] = lines[i]
      /\ lines'[Len(lines) + 1] = e
  BY <1>1, AppendProperties DEF Line
<1>3. Tail(lines') = Append(Tail(lines), e)
  BY <1>1, HeadTailAppend
<1>4. e.kind = "entry"
  BY DEF Entry
<1>5. lines'[1] = Header /\ \A i \in 2 .. Len(lines') : lines'[i].kind = "entry"
  BY <1>2, <1>4 DEF Loadable
<1>. QED BY <1>1, <1>2, <1>3, <1>5 DEF Loadable

LEMMA ExtendsGrow ==
  ASSUME NEW chain \in Seq(Entry), NEW e \in Entry, NEW cp, cp.length \in Nat,
         Extends(chain, cp)
  PROVE  Extends(Append(chain, e), cp)
BY AppendProperties DEF Extends

(***************************************************************************)
(* The inductive invariant.                                                *)
(***************************************************************************)
LEMMA StoreInit == Init => StoreInv
<1>1. SUFFICES ASSUME Init PROVE StoreInv
  OBVIOUS
<1>2. lines \in Seq(Entry \cup {Header, Unreadable}) /\ entries \in Seq(Entry) /\ acked \in Seq(Entry)
  BY <1>1 DEF Init
<1>3. TypeOK
  <2>1. torn \in BOOLEAN /\ at \in {"dead", "idle", "appending"} /\ checkpoints = {}
    BY <1>1 DEF Init
  <2>2. made \in 0 .. MaxEntries /\ faults \in 0 .. MaxFaults
    BY <1>1 DEF Init
  <2>. QED BY <1>2, <2>1, <2>2 DEF TypeOK
<1>. QED BY <1>1, <1>3 DEF Init, StoreInv, MemoryFollowsDisk, DiskSound, EntryIsMade,
                           CheckpointsSound

LEMMA CreatesKeeps ==
  ASSUME StoreInv, Creates
  PROVE  StoreInv'
<1>1. /\ lines = <<>> /\ lines' = <<Header>> /\ torn' = FALSE
      /\ at' = "idle" /\ entries' = <<>> /\ acked = <<>> /\ checkpoints = {}
      /\ UNCHANGED <<made, acked, checkpoints, faults>>
  BY DEF Creates, Empty, Writes, history, StoreInv, DiskSound
<1>2. /\ lines' \in Seq(Line) /\ lines' # <<>> /\ Tail(lines') = <<>>
      /\ lines'[1] = Header /\ Len(lines') = 1
  BY <1>1 DEF Line
<1>3. TypeOK'
  BY <1>1, <1>2 DEF StoreInv, TypeOK, Line
<1>4. Loadable'
  BY <1>2 DEF Loadable, Links
<1>. QED BY <1>1, <1>2, <1>3, <1>4
         DEF StoreInv, MemoryFollowsDisk, DiskSound, EntryIsMade, CheckpointsSound

LEMMA CreateCutKeeps ==
  ASSUME StoreInv, CreateCut
  PROVE  StoreInv'
<1>1. /\ lines = <<>> /\ torn = FALSE /\ at = "dead" /\ acked = <<>> /\ checkpoints = {}
      /\ UNCHANGED <<at, entries, made, acked, checkpoints>>
      /\ faults' \in 0 .. MaxFaults
  BY DEF CreateCut, Empty, Fault, memory, history, StoreInv, DiskSound, TypeOK
<1>2. \/ lines' = <<>> /\ torn' \in BOOLEAN
      \/ lines' = <<Header>> /\ torn' = FALSE
  <2>1. PICK what \in CutAnywhere : Leaves(what, Header)
    BY DEF CreateCut
  <2>2. CASE what = "nothing"
    BY <1>1, <2>1, <2>2 DEF Leaves, file
  <2>3. CASE what = "part"
    BY <1>1, <2>1, <2>3 DEF Leaves
  <2>4. CASE what = "whole"
    BY <1>1, <2>1, <2>4 DEF Leaves, Writes
  <2>. QED BY <2>2, <2>3, <2>4 DEF CutAnywhere
<1>3. CASE lines' = <<>> /\ torn' \in BOOLEAN
  <2>1. TypeOK'
    BY <1>1, <1>3 DEF StoreInv, TypeOK
  <2>. QED BY <1>1, <1>3, <2>1
           DEF StoreInv, MemoryFollowsDisk, DiskSound, EntryIsMade, CheckpointsSound
<1>4. CASE lines' = <<Header>> /\ torn' = FALSE
  <2>1. /\ lines' \in Seq(Line) /\ lines' # <<>> /\ Tail(lines') = <<>>
        /\ lines'[1] = Header /\ Len(lines') = 1
    BY <1>4 DEF Line
  <2>2. TypeOK'
    BY <1>1, <1>4, <2>1 DEF StoreInv, TypeOK, Line
  <2>3. Loadable'
    BY <2>1 DEF Loadable, Links
  <2>. QED BY <1>1, <1>4, <2>1, <2>2, <2>3
           DEF StoreInv, MemoryFollowsDisk, DiskSound, EntryIsMade, CheckpointsSound
<1>. QED BY <1>2, <1>3, <1>4

LEMMA LoadsKeeps ==
  ASSUME StoreInv, Loads
  PROVE  StoreInv'
<1>1. at = "dead" /\ torn' = FALSE /\ UNCHANGED <<lines, made, checkpoints, faults>>
  BY DEF Loads
<1>2. CASE lines = <<>>
  <2>1. ~Loadable
    BY <1>2 DEF Loadable
  <2>2. UNCHANGED <<at, entries, acked>>
    BY <2>1 DEF Loads, memory
  <2>. QED BY <1>1, <1>2, <2>2
           DEF StoreInv, TypeOK, MemoryFollowsDisk, DiskSound, EntryIsMade, CheckpointsSound
<1>3. CASE lines # <<>>
  <2>1. lines \in Seq(Line) /\ Loadable
    BY <1>3 DEF StoreInv, TypeOK, DiskSound, Line
  <2>2. /\ at' = "idle" /\ entries' = Tail(lines) /\ acked' = Tail(lines)
        /\ Tail(lines) \in Seq(Entry)
    BY <1>3, <2>1, TailIsEntries DEF Loads
  <2>3. TypeOK'
    BY <1>1, <2>2 DEF StoreInv, TypeOK
  <2>4. Loadable' /\ Tail(lines') = acked'
    BY <1>1, <2>1, <2>2 DEF Loadable, Links
  <2>5. CheckpointsSound'
    <3>1. SUFFICES ASSUME NEW cp \in checkpoints PROVE Extends(Tail(lines), cp)
      BY <1>1, <2>2 DEF CheckpointsSound
    <3>2. cp.length \in Nat /\ Extends(acked, cp) /\ acked \in Seq(Entry)
      BY DEF StoreInv, TypeOK, CheckpointsSound
    <3>. QED BY <1>3, <3>2, ExtendsGrow DEF StoreInv, DiskSound
  <2>. QED BY <1>1, <1>3, <2>2, <2>3, <2>4, <2>5 DEF StoreInv, MemoryFollowsDisk, DiskSound, EntryIsMade
<1>. QED BY <1>2, <1>3

LEMMA AppendsKeeps ==
  ASSUME StoreInv, Appends
  PROVE  StoreInv'
<1>1. /\ at = "idle" /\ at' = "appending" /\ made' = made + 1 /\ made < MaxEntries
      /\ UNCHANGED <<lines, torn, entries, acked, checkpoints, faults>>
  BY DEF Appends, file, history
<1>2. TypeOK' /\ made + 1 > 0
  BY <1>1 DEF StoreInv, TypeOK
<1>. QED BY <1>1, <1>2 DEF StoreInv, MemoryFollowsDisk, DiskSound, EntryIsMade,
                           CheckpointsSound, Loadable, Links

\* The entry an append makes, and what the file says once it holds it.
LEMMA NewEntryFits ==
  ASSUME StoreInv, at = "appending"
  PROVE  /\ NewEntry \in Entry
         /\ lines \in Seq(Line) /\ lines # <<>> /\ Loadable /\ ~torn
         /\ Tail(lines) = acked /\ entries = acked /\ acked \in Seq(Entry)
         /\ Links(Append(Tail(lines), NewEntry))
<1>1. /\ lines \in Seq(Line) /\ lines # <<>> /\ Loadable /\ ~torn
      /\ Tail(lines) = acked /\ entries = acked /\ acked \in Seq(Entry)
  BY DEF StoreInv, TypeOK, MemoryFollowsDisk, DiskSound, Line
<1>2. Links(acked)
  BY <1>1 DEF Loadable
<1>3. made \in Nat \ {0}
  BY DEF StoreInv, TypeOK, EntryIsMade
<1>4. NewEntry \in Entry
  BY <1>1, <1>3, EntryAfterIsEntry DEF NewEntry
<1>5. Links(Append(Tail(lines), NewEntry))
  BY <1>1, <1>2, <1>3, LinksGrow DEF NewEntry
<1>. QED BY <1>1, <1>4, <1>5

LEMMA ReturnsKeeps ==
  ASSUME StoreInv, Returns
  PROVE  StoreInv'
<1> DEFINE e == NewEntry
<1>1. /\ at = "appending" /\ at' = "idle" /\ Writes(e)
      /\ entries' = Append(entries, e) /\ acked' = Append(acked, e)
      /\ UNCHANGED <<made, checkpoints, faults>>
  BY DEF Returns
<1>2. /\ e \in Entry /\ acked \in Seq(Entry) /\ entries = acked /\ Tail(lines) = acked
      /\ lines' \in Seq(Line) /\ lines' # <<>> /\ torn' = FALSE
      /\ Tail(lines') = Append(acked, e)
      /\ Loadable'
  BY <1>1, NewEntryFits, OneMoreLine
<1>3. TypeOK'
  <2>1. acked' \in Seq(Entry) /\ entries' \in Seq(Entry)
    BY <1>1, <1>2
  <2>. QED BY <1>1, <1>2, <2>1 DEF StoreInv, TypeOK, Line
<1>4. CheckpointsSound'
  <2>1. SUFFICES ASSUME NEW cp \in checkpoints PROVE Extends(Append(acked, e), cp)
    BY <1>1 DEF CheckpointsSound
  <2>2. cp.length \in Nat /\ Extends(acked, cp)
    BY DEF StoreInv, TypeOK, CheckpointsSound
  <2>. QED BY <1>2, <2>2, ExtendsGrow
<1>5. MemoryFollowsDisk' /\ DiskSound' /\ EntryIsMade'
  BY <1>1, <1>2 DEF MemoryFollowsDisk, DiskSound, EntryIsMade
<1>. QED BY <1>3, <1>4, <1>5 DEF StoreInv

LEMMA RaisesKeeps ==
  ASSUME StoreInv, Raises, FailureLeaves \subseteq {"nothing"}
  PROVE  StoreInv'
<1>1. /\ at = "appending" /\ at' = "idle"
      /\ UNCHANGED <<lines, torn, entries, made, acked, checkpoints>>
      /\ faults' \in 0 .. MaxFaults
  BY DEF Raises, Leaves, Fault, file, history, StoreInv, TypeOK
<1>2. TypeOK'
  BY <1>1 DEF StoreInv, TypeOK
<1>. QED BY <1>1, <1>2 DEF StoreInv, MemoryFollowsDisk, DiskSound, EntryIsMade,
                           CheckpointsSound, Loadable, Links

LEMMA EndsKeeps ==
  ASSUME StoreInv, Ends
  PROVE  StoreInv'
<1>1. /\ at = "idle" /\ at' = "dead" /\ entries' = <<>>
      /\ UNCHANGED <<lines, torn, made, acked, checkpoints, faults>>
  BY DEF Ends, file, history
<1>2. TypeOK'
  <2>1. entries' \in Seq(Entry)
    BY <1>1
  <2>. QED BY <1>1, <2>1 DEF StoreInv, TypeOK
<1>. QED BY <1>1, <1>2 DEF StoreInv, MemoryFollowsDisk, DiskSound, EntryIsMade,
                           CheckpointsSound, Loadable, Links

LEMMA CrashesKeeps ==
  ASSUME StoreInv, Crashes
  PROVE  StoreInv'
<1> DEFINE e == NewEntry
<1>1. /\ at = "appending" /\ at' = "dead" /\ entries' = <<>>
      /\ UNCHANGED <<made, acked, checkpoints>>
      /\ faults' \in 0 .. MaxFaults
  BY DEF Crashes, Fault, history, StoreInv, TypeOK
<1>2. entries' \in Seq(Entry)
  BY <1>1
<1>3. PICK what \in CutAnywhere : Leaves(what, e)
  BY DEF Crashes
<1>4. CASE what \in {"nothing", "part"}
  <2>1. UNCHANGED lines /\ torn' \in BOOLEAN
    BY <1>3, <1>4 DEF Leaves, file, StoreInv, TypeOK
  <2>2. TypeOK'
    BY <1>1, <1>2, <2>1 DEF StoreInv, TypeOK
  <2>. QED BY <1>1, <2>1, <2>2 DEF StoreInv, MemoryFollowsDisk, DiskSound, EntryIsMade,
                                   CheckpointsSound, Loadable, Links
<1>5. CASE what = "whole"
  <2>1. Writes(e)
    BY <1>3, <1>5 DEF Leaves
  <2>2. /\ e \in Entry /\ lines' \in Seq(Line) /\ lines' # <<>> /\ torn' = FALSE
        /\ Tail(lines') = Append(acked, e)
        /\ Loadable'
    BY <1>1, <2>1, NewEntryFits, OneMoreLine
  <2>3. TypeOK'
    BY <1>1, <1>2, <2>2 DEF StoreInv, TypeOK, Line
  <2>4. DiskSound'
    BY <1>1, <2>2 DEF DiskSound
  <2>. QED BY <1>1, <2>3, <2>4 DEF StoreInv, MemoryFollowsDisk, EntryIsMade, CheckpointsSound
<1>. QED BY <1>3, <1>4, <1>5 DEF CutAnywhere

LEMMA TakesCheckpointKeeps ==
  ASSUME StoreInv, TakesCheckpoint
  PROVE  StoreInv'
<1> DEFINE new == [length |-> Len(entries), head |-> HeadHash(entries), covers |-> entries]
<1>1. /\ at = "idle" /\ checkpoints' = checkpoints \cup {new}
      /\ UNCHANGED <<lines, torn, at, entries, made, acked, faults>>
  BY DEF TakesCheckpoint, file, memory
<1>2. entries \in Seq(Entry) /\ entries = acked /\ lines # <<>>
  BY <1>1 DEF StoreInv, TypeOK, MemoryFollowsDisk
<1>3. HeadHash(entries) \in Nat
  <2>1. CASE entries = <<>>
    BY <2>1 DEF HeadHash, GenesisHash
  <2>2. CASE entries # <<>>
    <3>1. entries[Len(entries)] \in Entry
      BY <1>2, <2>2
    <3>. QED BY <2>2, <3>1 DEF HeadHash, Entry
  <2>. QED BY <2>1, <2>2
<1>4. new.length \in Nat /\ new.head \in Nat
  BY <1>2, <1>3
<1>5. TypeOK'
  BY <1>1, <1>4 DEF StoreInv, TypeOK
<1>6. Extends(acked, new)
  BY <1>2 DEF Extends, HeadHash
<1>7. CheckpointsSound'
  BY <1>1, <1>6 DEF StoreInv, CheckpointsSound
<1>. QED BY <1>1, <1>2, <1>5, <1>7 DEF StoreInv, MemoryFollowsDisk, DiskSound, EntryIsMade,
                                       Loadable, Links

LEMMA StoreNext ==
  ASSUME FailureLeaves \subseteq {"nothing"}
  PROVE  StoreInv /\ [Next]_vars => StoreInv'
<1>1. SUFFICES ASSUME StoreInv, [Next]_vars PROVE StoreInv'
  OBVIOUS
<1>2. CASE Opens
  BY <1>1, <1>2, CreatesKeeps, LoadsKeeps DEF Opens
<1>3. CASE CreateCut
  BY <1>1, <1>3, CreateCutKeeps
<1>4. CASE Recording
  BY <1>1, <1>4, AppendsKeeps, ReturnsKeeps, RaisesKeeps DEF Recording
<1>5. CASE Ends
  BY <1>1, <1>5, EndsKeeps
<1>6. CASE Crashes
  BY <1>1, <1>6, CrashesKeeps
<1>7. CASE TakesCheckpoint
  BY <1>1, <1>7, TakesCheckpointKeeps
<1>8. CASE UNCHANGED vars
  BY <1>1, <1>8 DEF vars, file, memory, history, StoreInv, TypeOK, MemoryFollowsDisk,
     DiskSound, EntryIsMade, CheckpointsSound, Loadable, Links
<1>. QED BY <1>1, <1>2, <1>3, <1>4, <1>5, <1>6, <1>7, <1>8 DEF Next

(***************************************************************************)
(* What the invariant says.                                                *)
(***************************************************************************)
LEMMA StoreInvSurvives == StoreInv => AcknowledgedSurvives
<1>1. SUFFICES ASSUME StoreInv, acked # <<>>
               PROVE  /\ Loadable
                      /\ IsPrefixOf(acked, Tail(lines))
                      /\ Len(Tail(lines)) <= Len(acked) + 1
  BY DEF AcknowledgedSurvives
<1>2. Loadable /\ acked \in Seq(Entry)
  BY <1>1 DEF StoreInv, DiskSound, TypeOK
<1>3. CASE Tail(lines) = acked
  <2>1. SubSeq(acked, 1, Len(acked)) = acked /\ Len(acked) \in Nat
    BY <1>2
  <2>2. IsPrefixOf(acked, acked) /\ Len(acked) <= Len(acked) + 1
    BY <2>1 DEF IsPrefixOf
  <2>. QED BY <1>2, <1>3, <2>2
<1>4. CASE \E e \in Entry : Tail(lines) = Append(acked, e)
  <2>1. PICK e \in Entry : Tail(lines) = Append(acked, e)
    BY <1>4
  <2>2. SubSeq(Append(acked, e), 1, Len(acked)) = acked /\ Len(Append(acked, e)) = Len(acked) + 1
    BY <1>2
  <2>. QED BY <1>2, <2>1, <2>2 DEF IsPrefixOf
<1>. QED BY <1>1, <1>3, <1>4 DEF StoreInv, DiskSound

LEMMA StoreInvHolds == StoreInv => CheckpointsHold
<1>1. SUFFICES ASSUME StoreInv, at # "dead", NEW cp \in checkpoints
               PROVE  Accepts(entries, cp)
  BY DEF CheckpointsHold
<1>2. entries = acked /\ Tail(lines) = acked /\ Loadable
  BY <1>1 DEF StoreInv, MemoryFollowsDisk, DiskSound
<1>. QED BY <1>1, <1>2 DEF Accepts, Loadable, StoreInv, CheckpointsSound

(***************************************************************************)
(* The theorems.                                                           *)
(***************************************************************************)

\* When a write that raises leaves nothing behind, the strengthening holds in
\* every reachable state of the store.
THEOREM StoreInductive ==
  ASSUME FailureLeaves \subseteq {"nothing"}
  PROVE  Spec => []StoreInv
BY StoreInit, StoreNext, PTL DEF Spec

\* Then a crash never loses an entry that append returned, nor brings back more
\* than the one it interrupted.
THEOREM NothingAcknowledgedIsLost ==
  ASSUME FailureLeaves \subseteq {"nothing"}
  PROVE  Spec => []AcknowledgedSurvives
BY StoreInductive, StoreInvSurvives, PTL

\* And no checkpoint ever taken is contradicted by the chain a process holds.
THEOREM NoCheckpointContradicted ==
  ASSUME FailureLeaves \subseteq {"nothing"}
  PROVE  Spec => []CheckpointsHold
BY StoreInductive, StoreInvHolds, PTL

(***************************************************************************)
(* What a hash commits to.  None of this needs the file to be sound.       *)
(***************************************************************************)
InFile == {lines[i] : i \in {j \in DOMAIN lines : lines[j].kind = "entry"}}
InMemory == {entries[i] : i \in DOMAIN entries}
Covered == UNION {{cp.covers[i] : i \in DOMAIN cp.covers} : cp \in checkpoints}
Known == InFile \cup InMemory \cup Covered

\* Whatever is in the file, in memory or behind a checkpoint, a hash names one
\* entry, and the entry being appended has a hash of its own.
HashesName ==
  /\ \A a, b \in Known : a.hash = b.hash => a = b
  /\ \A a \in Known : /\ a \in Entry /\ a.hash <= made
                      /\ at = "appending" => a.hash < made

IsCheckpoint(cp) ==
  /\ cp.covers \in Seq(Entry) /\ Links(cp.covers)
  /\ cp.length = Len(cp.covers) /\ cp.head = HeadHash(cp.covers)

ChainsLink ==
  /\ lines \in Seq(Line) /\ entries \in Seq(Entry) /\ Links(entries)
  /\ made \in 0 .. MaxEntries
  /\ at = "appending" => made > 0
  /\ \A cp \in checkpoints : IsCheckpoint(cp)

LEMMA LinkAt ==
  ASSUME NEW c, Links(c), NEW i \in DOMAIN c, i # 1
  PROVE  c[i].prev = c[i - 1].hash
BY DEF Links

\* Two linked chains with one entry in common, where a hash names one entry,
\* have all the entries before it in common.
LEMMA LinkedAlike ==
  ASSUME NEW c \in Seq(Entry), NEW d \in Seq(Entry), Links(c), Links(d),
         NEW n \in 1 .. Len(c), n <= Len(d), c[n].hash = d[n].hash,
         \A i \in DOMAIN c, j \in DOMAIN d : c[i].hash = d[j].hash => c[i] = d[j]
  PROVE  \A i \in 1 .. n : c[i] = d[i]
<1> DEFINE T == {k \in 0 .. n - 1 : c[n - k] # d[n - k]}
<1>1. /\ n \in Nat /\ DOMAIN c = 1 .. Len(c) /\ DOMAIN d = 1 .. Len(d)
      /\ Len(c) \in Nat /\ Len(d) \in Nat
  OBVIOUS
<1>2. T = {}
  <2>1. SUFFICES ASSUME T # {} PROVE FALSE
    OBVIOUS
  <2>2. T \in SUBSET Nat
    BY <1>1
  <2>3. PICK k \in T : \A l \in T : k <= l
    BY <2>1, <2>2, NatHasLeast
  <2>4. k \in 0 .. n - 1 /\ c[n - k] # d[n - k]
    BY <2>3
  <2>5. n \in DOMAIN c /\ n \in DOMAIN d
    BY <1>1
  <2>6. c[n] = d[n]
    BY <2>5
  <2>7. k - 1 \in 0 .. n - 1 /\ k - 1 \notin T
    <3>1. k # 0
      <4>1. n - 0 = n
        BY <1>1
      <4>. QED BY <2>4, <2>6, <4>1
    <3>2. k - 1 \in 0 .. n - 1 /\ ~(k <= k - 1)
      BY <1>1, <2>4, <3>1
    <3>. QED BY <2>3, <3>2
  <2>8. c[n - (k - 1)] = d[n - (k - 1)]
    BY <2>7
  <2> DEFINE m == n - k
  <2>9. m \in 1 .. n - 1 /\ n - (k - 1) = m + 1
    BY <1>1, <2>4, <2>7
  <2>10. c[m + 1] = d[m + 1]
    BY <2>8, <2>9
  <2> HIDE DEF m
  <2>11. m + 1 \in DOMAIN c /\ m + 1 \in DOMAIN d /\ m + 1 # 1 /\ (m + 1) - 1 = m
         /\ m \in DOMAIN c /\ m \in DOMAIN d
    BY <1>1, <2>9
  <2>12. c[m + 1].prev = c[m].hash /\ d[m + 1].prev = d[m].hash
    <3>1. c[m + 1].prev = c[(m + 1) - 1].hash
      BY <2>11, LinkAt
    <3>2. d[m + 1].prev = d[(m + 1) - 1].hash
      BY <2>11, LinkAt
    <3>. QED BY <2>11, <3>1, <3>2, Zenon
  <2>13. c[m] = d[m]
    BY <2>10, <2>11, <2>12
  <2>. QED BY <2>4, <2>13 DEF m
<1>3. ASSUME NEW i \in 1 .. n PROVE c[i] = d[i]
  <2>1. n - i \in 0 .. n - 1 /\ n - (n - i) = i
    BY <1>1
  <2>2. n - i \notin T
    BY <1>2
  <2>. QED BY <2>1, <2>2
<1>. QED BY <1>3

\* What a write leaves in the file.
LEMMA Leaving ==
  ASSUME lines \in Seq(Line), NEW line \in Line, NEW what, Leaves(what, line)
  PROVE  /\ lines' \in Seq(Line)
         /\ InFile' \subseteq InFile \cup ({line} \cap {l \in Line : l.kind = "entry"})
<1>1. CASE UNCHANGED lines
  BY <1>1 DEF InFile
<1>2. CASE Writes(line)
  <2> DEFINE l == IF torn THEN Unreadable ELSE line
             k == Len(lines) + 1
  <2>1. l \in Line /\ lines' = Append(lines, l)
    BY <1>2 DEF Writes, Line
  <2>2. l.kind = "entry" => l = line
    BY DEF Unreadable
  <2> HIDE DEF l
  <2>3. /\ lines' \in Seq(Line) /\ DOMAIN lines' = DOMAIN lines \cup {k}
        /\ lines'[k] = l /\ \A i \in DOMAIN lines : lines'[i] = lines[i]
    BY <2>1
  <2> HIDE DEF k
  <2>4. ASSUME NEW e \in InFile'
        PROVE  e \in InFile \cup ({line} \cap {x \in Line : x.kind = "entry"})
    <3>1. PICK i \in DOMAIN lines' : lines'[i] = e /\ e.kind = "entry"
      BY DEF InFile
    <3>2. CASE i \in DOMAIN lines
      BY <2>3, <3>1, <3>2 DEF InFile
    <3>3. CASE i = k
      BY <2>1, <2>2, <2>3, <3>1, <3>3
    <3>. QED BY <2>3, <3>1, <3>2, <3>3
  <2>. QED BY <2>3, <2>4
<1>. QED BY <1>1, <1>2 DEF Leaves, file

LEMMA HeaderIsLine == Header \in Line /\ Header.kind # "entry"
BY DEF Line, Header

LEMMA NewEntryIsLine ==
  ASSUME ChainsLink, at = "appending"
  PROVE  /\ NewEntry \in Entry /\ NewEntry \in Line /\ NewEntry.hash = made
         /\ Links(Append(entries, NewEntry)) /\ Append(entries, NewEntry) \in Seq(Entry)
<1>1. made \in Nat \ {0} /\ entries \in Seq(Entry) /\ Links(entries)
  BY DEF ChainsLink
<1>2. NewEntry \in Entry /\ NewEntry.hash = made
  BY <1>1, EntryAfterIsEntry DEF NewEntry, EntryAfter
<1>3. Links(Append(entries, NewEntry))
  BY <1>1, LinksGrow DEF NewEntry
<1>. QED BY <1>1, <1>2, <1>3 DEF Line

\* A step knows no entry that was not known or being appended.
KnownGrows == Known' \subseteq Known \cup (IF at = "appending" THEN {NewEntry} ELSE {})

LEMMA OpeningLinks ==
  ASSUME ChainsLink, Opens \/ CreateCut
  PROVE  ChainsLink' /\ KnownGrows
<1>1. UNCHANGED <<made, checkpoints>> /\ at = "dead" /\ at' # "appending"
  BY DEF Opens, Creates, Loads, CreateCut, history, memory
<1>2. Covered' = Covered /\ \A cp \in checkpoints' : IsCheckpoint(cp)
  BY <1>1 DEF Covered, ChainsLink
<1>3. lines \in Seq(Line)
  BY DEF ChainsLink
<1>4. CASE Creates \/ CreateCut
  <2>1. PICK what : Leaves(what, Header)
    BY <1>4 DEF Creates, CreateCut, Leaves
  <2>2. lines' \in Seq(Line) /\ InFile' \subseteq InFile
    BY <1>3, <2>1, HeaderIsLine, Leaving
  <2>3. entries' = <<>> \/ entries' = entries
    BY <1>4 DEF Creates, CreateCut, memory
  <2>4. /\ entries' \in Seq(Entry) /\ Links(entries') /\ InMemory' \subseteq InMemory
    <3>1. CASE entries' = <<>>
      <4>1. /\ <<>> \in Seq(Entry) /\ DOMAIN <<>> = {}
        OBVIOUS
      <4>. QED BY <3>1, <4>1 DEF Links, InMemory
    <3>2. CASE entries' = entries
      BY <3>2 DEF InMemory, ChainsLink
    <3>. QED BY <2>3, <3>1, <3>2
  <2>. QED BY <1>1, <1>2, <2>2, <2>4 DEF ChainsLink, KnownGrows, Known
<1>5. CASE Loads
  <2>1. lines' = lines /\ InFile' = InFile
    BY <1>5 DEF Loads, InFile
  <2>2. CASE Loadable
    <3>1. entries' = Tail(lines) /\ lines # <<>>
      BY <1>5, <2>2 DEF Loads, Loadable
    <3>2. Tail(lines) \in Seq(Entry) /\ Links(Tail(lines))
      BY <1>3, <2>2, <3>1, TailIsEntries
    <3>3. ASSUME NEW i \in DOMAIN Tail(lines) PROVE Tail(lines)[i] \in InFile
      <4>1. Tail(lines)[i] = lines[i + 1] /\ i + 1 \in DOMAIN lines
        BY <1>3, <3>1, HeadTailProperties
      <4>2. Tail(lines)[i] \in Entry
        BY <3>2
      <4>. QED BY <4>1, <4>2 DEF InFile, Entry
    <3>4. InMemory' \subseteq InFile
      BY <3>1, <3>3 DEF InMemory
    <3>. QED BY <1>1, <1>2, <1>3, <2>1, <3>1, <3>2, <3>4 DEF ChainsLink, KnownGrows, Known
  <2>3. CASE ~Loadable
    <3>1. entries' = entries /\ InMemory' = InMemory
      BY <1>5, <2>3 DEF Loads, memory, InMemory
    <3>. QED BY <1>1, <1>2, <1>3, <2>1, <3>1 DEF ChainsLink, KnownGrows, Known
  <2>. QED BY <2>2, <2>3
<1>. QED BY <1>4, <1>5 DEF Opens

LEMMA RecordingLinks ==
  ASSUME ChainsLink, Recording \/ Ends \/ Crashes
  PROVE  ChainsLink' /\ KnownGrows
<1>1. UNCHANGED checkpoints
  BY DEF Recording, Appends, Returns, Raises, Ends, Crashes, history
<1>2. Covered' = Covered /\ \A cp \in checkpoints' : IsCheckpoint(cp)
  BY <1>1 DEF Covered, ChainsLink
<1>3. lines \in Seq(Line) /\ entries \in Seq(Entry)
  BY DEF ChainsLink
<1>4. CASE Appends
  <2>1. /\ UNCHANGED <<lines, entries>> /\ made' = made + 1 /\ made < MaxEntries
    BY <1>4 DEF Appends, file
  <2>2. InFile' = InFile /\ InMemory' = InMemory
    BY <2>1 DEF InFile, InMemory
  <2>. QED BY <1>2, <2>1, <2>2 DEF ChainsLink, KnownGrows, Known
<1>5. CASE Ends
  <2>1. UNCHANGED <<lines, made>> /\ entries' = <<>> /\ at' = "dead"
    BY <1>5 DEF Ends, file
  <2>2. entries' \in Seq(Entry) /\ DOMAIN entries' = {}
    BY <2>1
  <2>3. InFile' = InFile /\ InMemory' = {} /\ Links(entries)'
    BY <2>1, <2>2 DEF InFile, InMemory, Links
  <2>. QED BY <1>2, <2>1, <2>2, <2>3 DEF ChainsLink, KnownGrows, Known
<1>6. CASE Returns \/ Raises \/ Crashes
  <2>1. at = "appending" /\ at' # "appending" /\ made' = made
    BY <1>6 DEF Returns, Raises, Crashes
  <2>2. /\ NewEntry \in Entry /\ NewEntry \in Line
        /\ Links(Append(entries, NewEntry)) /\ Append(entries, NewEntry) \in Seq(Entry)
    BY <2>1, NewEntryIsLine
  <2>3. PICK what : Leaves(what, NewEntry)
    BY <1>6 DEF Returns, Raises, Crashes, Leaves
  <2>4. lines' \in Seq(Line) /\ InFile' \subseteq InFile \cup {NewEntry}
    BY <1>3, <2>2, <2>3, Leaving
  <2>5. entries' \in {entries, <<>>, Append(entries, NewEntry)}
    BY <1>6 DEF Returns, Raises, Crashes
  <2>6. /\ entries' \in Seq(Entry) /\ Links(entries)'
        /\ InMemory' \subseteq InMemory \cup {NewEntry}
    <3>1. CASE entries' = <<>>
      <4>1. /\ <<>> \in Seq(Entry) /\ DOMAIN <<>> = {}
        OBVIOUS
      <4>. QED BY <3>1, <4>1 DEF Links, InMemory
    <3>2. CASE entries' = entries
      BY <3>2 DEF InMemory, ChainsLink, Links
    <3>3. CASE entries' = Append(entries, NewEntry)
      <4> DEFINE e == NewEntry
      <4> HIDE DEF e
      <4>1. \A i \in DOMAIN Append(entries, e) :
              (i \in DOMAIN entries /\ Append(entries, e)[i] = entries[i])
                \/ Append(entries, e)[i] = e
        BY <1>3
      <4>. QED BY <2>2, <3>3, <4>1 DEF InMemory, Links, e
    <3>. QED BY <2>5, <3>1, <3>2, <3>3
  <2>. QED BY <1>2, <2>1, <2>4, <2>6 DEF ChainsLink, KnownGrows, Known
<1>. QED BY <1>4, <1>5, <1>6 DEF Recording

LEMMA CheckpointLinks ==
  ASSUME ChainsLink, TakesCheckpoint
  PROVE  ChainsLink' /\ KnownGrows
<1> DEFINE new == [length |-> Len(entries), head |-> HeadHash(entries), covers |-> entries]
<1>1. /\ checkpoints' = checkpoints \cup {new} /\ at = "idle"
      /\ UNCHANGED <<lines, entries, made, at>>
  BY DEF TakesCheckpoint, file, memory
<1>2. IsCheckpoint(new) /\ new.covers = entries
  BY DEF IsCheckpoint, ChainsLink
<1> HIDE DEF new
<1>3. InFile' = InFile /\ InMemory' = InMemory
  BY <1>1 DEF InFile, InMemory
<1>4. Covered' \subseteq Covered \cup InMemory
  BY <1>1, <1>2 DEF Covered, InMemory
<1>5. \A cp \in checkpoints' : IsCheckpoint(cp)
  BY <1>1, <1>2 DEF ChainsLink
<1>. QED BY <1>1, <1>3, <1>4, <1>5 DEF ChainsLink, KnownGrows, Known, Links

LEMMA StepLinks ==
  ASSUME ChainsLink, [Next]_vars
  PROVE  ChainsLink' /\ KnownGrows
<1>1. CASE UNCHANGED vars
  BY <1>1 DEF vars, file, memory, history, ChainsLink, KnownGrows, Known, InFile,
              InMemory, Covered, Links
<1>. QED BY <1>1, OpeningLinks, RecordingLinks, CheckpointLinks DEF Next

LEMMA StepNames ==
  ASSUME ChainsLink, HashesName, [Next]_vars
  PROVE  HashesName'
<1>1. KnownGrows
  BY StepLinks
<1>2. /\ \/ UNCHANGED <<at, made>> /\ UNCHANGED <<file, memory, history>>
         \/ at # "appending" /\ made' = made /\ at' # "appending"
         \/ at # "appending" /\ made' = made + 1 /\ at' = "appending"
         \/ at = "appending" /\ made' = made /\ at' # "appending"
      /\ made \in Nat
  BY DEF Next, Opens, Creates, Loads, CreateCut, Recording, Appends, Returns, Raises, Ends,
         Crashes, TakesCheckpoint, vars, memory, history, ChainsLink
<1>3. CASE UNCHANGED <<at, made>> /\ UNCHANGED <<file, memory, history>>
  <2>1. Known' = Known
    BY <1>3 DEF file, memory, history, Known, InFile, InMemory, Covered
  <2>. QED BY <1>3, <2>1 DEF HashesName
<1>4. CASE at # "appending"
  <2>1. Known' \subseteq Known
    BY <1>1, <1>4 DEF KnownGrows
  <2>2. \A a \in Known : a.hash \in Nat
    BY DEF HashesName, Entry
  <2>. QED BY <1>2, <1>4, <2>1, <2>2 DEF HashesName
<1>5. CASE at = "appending" /\ made' = made /\ at' # "appending"
  <2> DEFINE e == NewEntry
  <2>1. e \in Entry /\ e.hash = made
    BY <1>5, NewEntryIsLine
  <2> HIDE DEF e
  <2>2. Known' \subseteq Known \cup {e}
    BY <1>1, <1>5 DEF KnownGrows, e
  <2>3. \A a \in Known : a.hash \in Nat /\ a.hash < made
    BY <1>5 DEF HashesName, Entry
  <2>4. \A a \in Known : a.hash # e.hash
    BY <1>2, <2>1, <2>3
  <2>5. \A a, b \in Known' : a.hash = b.hash => a = b
    BY <2>2, <2>4 DEF HashesName
  <2>6. \A a \in Known' : a \in Entry /\ a.hash <= made
    BY <1>2, <2>1, <2>2, <2>3 DEF HashesName
  <2>. QED BY <1>5, <2>5, <2>6 DEF HashesName
<1>. QED BY <1>2, <1>3, <1>4, <1>5

LEMMA HashesBind ==
  ASSUME ChainsLink, HashesName
  PROVE  CheckpointsBind
<1>1. SUFFICES ASSUME NEW cp \in checkpoints,
                      NEW kept \in 0 .. Len(entries), NEW minted \in 0 .. 2,
                      Accepts(Forged(kept, minted), cp)
               PROVE  IsPrefixOf(cp.covers, Forged(kept, minted))
  BY DEF CheckpointsBind, Forgeries
<1> DEFINE packet == Forged(kept, minted)
           n == cp.length
<1>2. /\ IsCheckpoint(cp) /\ entries \in Seq(Entry) /\ Links(entries) /\ made <= MaxEntries
      /\ made \in Nat /\ MaxEntries \in Nat
  BY DEF ChainsLink
<1>3. /\ cp.covers \in Seq(Entry) /\ Links(cp.covers) /\ n = Len(cp.covers)
      /\ cp.head = HeadHash(cp.covers)
  BY <1>2 DEF IsCheckpoint
<1>4. /\ n \in Nat /\ kept \in Nat /\ kept <= Len(entries) /\ minted \in Nat
      /\ DOMAIN cp.covers = 1 .. n /\ DOMAIN entries = 1 .. Len(entries)
      /\ Len(entries) \in Nat
  BY <1>2, <1>3
<1>5. /\ DOMAIN packet = 1 .. kept + minted
      /\ \A i \in 1 .. kept : packet[i] = entries[i]
      /\ \A i \in kept + 1 .. kept + minted : packet[i].hash = MaxEntries + i - kept
      /\ packet = [i \in 1 .. kept + minted |-> packet[i]]
  <2>1. /\ \A i \in 1 .. kept : i \in 1 .. kept + minted /\ i <= kept
        /\ \A i \in kept + 1 .. kept + minted : i \in 1 .. kept + minted /\ ~(i <= kept)
    BY <1>4
  <2>2. /\ DOMAIN packet = 1 .. kept + minted
        /\ packet = [i \in 1 .. kept + minted |-> packet[i]]
    BY DEF Forged
  <2>3. \A i \in 1 .. kept : packet[i] = entries[i]
    BY <2>1 DEF Forged
  <2>4. \A i \in kept + 1 .. kept + minted : packet[i].hash = MaxEntries + i - kept
    BY <2>1 DEF Forged
  <2>. QED BY <2>2, <2>3, <2>4
<1>6. Len(packet) = kept + minted
  BY <1>4, <1>5
<1>7. /\ Len(packet) >= n
      /\ n > 0 => packet[n].hash = cp.head
  BY <1>1 DEF Accepts, Extends
<1> HIDE DEF packet, n
<1>8. n <= kept /\ \A i \in 1 .. n : packet[i] = cp.covers[i]
  <2>1. CASE n = 0
    BY <1>4, <2>1
  <2>2. CASE n > 0
    <3>1. n \in DOMAIN cp.covers /\ cp.head = cp.covers[n].hash
      BY <1>3, <1>4, <2>2 DEF HeadHash
    <3>2. cp.covers[n] \in Known
      BY <3>1 DEF Known, Covered
    <3>3. cp.head <= made /\ cp.head \in Nat
      BY <3>1, <3>2 DEF HashesName, Entry
    <3>4. n <= kept
      <4>1. SUFFICES ASSUME n > kept PROVE FALSE
        BY <1>4
      <4>2. n \in kept + 1 .. kept + minted
        BY <1>4, <1>6, <1>7, <4>1
      <4>3. cp.head = MaxEntries + n - kept
        BY <1>5, <1>7, <2>2, <4>2
      <4>. QED BY <1>2, <1>4, <3>3, <4>1, <4>3
    <3>5. n \in 1 .. Len(cp.covers) /\ n <= Len(entries) /\ cp.covers[n].hash = entries[n].hash
      <4>1. n \in 1 .. kept /\ n <= Len(entries)
        BY <1>4, <2>2, <3>4
      <4>2. n \in 1 .. Len(cp.covers)
        BY <1>3, <1>4, <2>2
      <4>3. packet[n] = entries[n]
        BY <1>5, <4>1
      <4>. QED BY <1>7, <2>2, <3>1, <4>1, <4>2, <4>3
    <3>6. \A i \in DOMAIN cp.covers, j \in DOMAIN entries :
            cp.covers[i].hash = entries[j].hash => cp.covers[i] = entries[j]
      BY DEF HashesName, Known, Covered, InMemory
    <3>7. \A i \in 1 .. n : cp.covers[i] = entries[i]
      BY <1>2, <1>3, <3>5, <3>6, LinkedAlike
    <3>. QED BY <1>4, <1>5, <3>4, <3>7
  <2>. QED BY <1>4, <2>1, <2>2
<1>9. SubSeq(packet, 1, n) = [i \in 1 .. n |-> packet[i]]
  BY <1>4 DEF n
<1>10. cp.covers = [i \in 1 .. n |-> cp.covers[i]]
  BY <1>3, <1>4
<1>11. SubSeq(packet, 1, n) = cp.covers
  BY <1>8, <1>9, <1>10
<1>. QED BY <1>3, <1>7, <1>11 DEF IsPrefixOf, packet

LEMMA HashesAlwaysName == Spec => [](ChainsLink /\ HashesName)
<1>1. Init => ChainsLink /\ HashesName
  <2>1. SUFFICES ASSUME Init PROVE ChainsLink /\ HashesName
    OBVIOUS
  <2>2. /\ lines \in Seq(Line) /\ entries \in Seq(Entry)
        /\ DOMAIN lines = {} /\ DOMAIN entries = {}
    BY <2>1 DEF Init
  <2>3. Known = {}
    BY <2>1, <2>2 DEF Init, Known, InFile, InMemory, Covered
  <2>. QED BY <2>1, <2>2, <2>3 DEF Init, ChainsLink, HashesName, Links
<1>2. ChainsLink /\ HashesName /\ [Next]_vars => (ChainsLink /\ HashesName)'
  BY StepLinks, StepNames
<1>. QED BY <1>1, <1>2, PTL DEF Spec

\* A packet accepted against a checkpoint holds every entry the checkpoint
\* covers, even one re-signed by the holder of the key, after any crash and
\* any half-written line (verify_packet, checkpoint).
THEOREM CheckpointBindsHolder == Spec => []CheckpointsBind
BY HashesAlwaysName, HashesBind, PTL

(***************************************************************************)
(* The store implements what a store of evidence promises.                 *)
(***************************************************************************)
HashesIn(chain) == [i \in DOMAIN chain |-> chain[i].hash]
Logs == [s \in {"chain"} |-> HashesIn(Recorded)]
HashSet(chain) == {chain[i].hash : i \in DOMAIN chain}
Told == HashSet(acked)

LEMMA HashesGrow ==
  ASSUME NEW chain \in Seq(Entry), NEW e \in Entry
  PROVE  /\ HashesIn(Append(chain, e)) = Append(HashesIn(chain), e.hash)
         /\ HashSet(Append(chain, e)) = HashSet(chain) \cup {e.hash}
<1> DEFINE n == Len(chain)
           longer == Append(chain, e)
<1>1. /\ n \in Nat /\ DOMAIN chain = 1 .. n /\ DOMAIN longer = 1 .. n + 1
      /\ \A i \in 1 .. n : longer[i] = chain[i]
      /\ longer[n + 1] = e
  OBVIOUS
<1> HIDE DEF n, longer
<1>2. \A i \in 1 .. n + 1 : i \in 1 .. n \/ i = n + 1
  BY <1>1
<1>3. HashesIn(chain) \in Seq({chain[i].hash : i \in 1 .. n}) /\ Len(HashesIn(chain)) = n
  BY <1>1, SeqDef, LenProperties DEF HashesIn
<1>4. Append(HashesIn(chain), e.hash)
        = [i \in 1 .. n + 1 |-> IF i = n + 1 THEN e.hash ELSE HashesIn(chain)[i]]
  BY <1>1, <1>3
<1>5. HashesIn(longer) = [i \in 1 .. n + 1 |-> longer[i].hash]
  BY <1>1 DEF HashesIn
<1>6. \A i \in 1 .. n + 1 :
        longer[i].hash = IF i = n + 1 THEN e.hash ELSE HashesIn(chain)[i]
  BY <1>1, <1>2 DEF HashesIn
<1>7. HashSet(longer) = HashSet(chain) \cup {e.hash}
  BY <1>1, <1>2 DEF HashSet
<1>. QED BY <1>4, <1>5, <1>6, <1>7 DEF longer

LEMMA KeptIs ==
  Log!Kept = HashSet(Recorded)
BY DEF Log!Kept, Log!Range, HashSet

\* The entry being appended arrives whole, and whoever appends it is told or not.
LEMMA ArrivalAdds ==
  ASSUME StoreInv, HashesName, at = "appending", Writes(NewEntry),
         acked' = acked \/ acked' = Append(acked, NewEntry)
  PROVE  /\ made \notin Log!Kept
         /\ Logs' = [Logs EXCEPT !["chain"] = Append(@, made)]
         /\ Told' \in {Told, Told \cup {made}}
<1>1. /\ Tail(lines) = acked /\ acked \in Seq(Entry) /\ NewEntry \in Entry
      /\ lines # <<>> /\ lines' # <<>> /\ Tail(lines') = Append(acked, NewEntry)
  BY NewEntryFits, OneMoreLine
<1>2. NewEntry.hash = made
  BY DEF NewEntry, EntryAfter
<1>3. Recorded = acked /\ Recorded' = Append(acked, NewEntry)
  BY <1>1 DEF Recorded
<1>4. Logs' = [Logs EXCEPT !["chain"] = Append(@, made)]
  <2>1. HashesIn(Recorded') = Append(HashesIn(Recorded), made)
    BY <1>1, <1>2, <1>3, HashesGrow
  <2>. QED BY <2>1 DEF Logs, HashesIn
<1>5. Told' \in {Told, Told \cup {made}}
  <2>1. CASE acked' = acked
    BY <2>1 DEF Told
  <2>2. CASE acked' = Append(acked, NewEntry)
    BY <1>1, <1>2, <2>2, HashesGrow DEF Told
  <2>. QED BY <2>1, <2>2
<1>6. made \notin Log!Kept
  <2>1. SUFFICES ASSUME NEW i \in DOMAIN acked PROVE acked[i].hash # made
    BY <1>3, KeptIs DEF HashSet
  <2>2. /\ lines \in Seq(Line) /\ i \in 1 .. Len(Tail(lines)) /\ Loadable
    BY <1>1 DEF StoreInv, TypeOK, Line, DiskSound
  <2>3. Tail(lines)[i] = lines[i + 1] /\ Len(Tail(lines)) = Len(lines) - 1 /\ Len(lines) \in Nat
    BY <1>1, <2>2, HeadTailProperties
  <2>4. i + 1 \in DOMAIN lines /\ lines[i + 1].kind = "entry"
    BY <2>2, <2>3 DEF Loadable
  <2>5. acked[i] \in Known
    BY <1>1, <2>3, <2>4 DEF Known, InFile
  <2>6. acked[i].hash < made /\ acked[i].hash \in Nat /\ made \in Nat
    BY <2>5 DEF HashesName, Entry, StoreInv, TypeOK
  <2>. QED BY <2>6
<1>. QED BY <1>4, <1>5, <1>6

\* Loading shows what the file has, which is no less than anybody was told.
LEMMA LoadingTells ==
  ASSUME StoreInv, Loads, Loadable
  PROVE  Logs' = Logs /\ Told \subseteq Told' /\ Told' = Log!Kept
<1>1. lines' = lines /\ acked' = Tail(lines) /\ lines # <<>> /\ Recorded = Tail(lines)
  BY DEF Loads, Loadable, Recorded
<1>2. Told' = Log!Kept
  BY <1>1, KeptIs DEF Told
<1>3. acked \in Seq(Entry)
      /\ (Tail(lines) = acked \/ \E e \in Entry : Tail(lines) = Append(acked, e))
  BY <1>1 DEF StoreInv, DiskSound, TypeOK
<1>4. Told \subseteq Told'
  <2>1. CASE Tail(lines) = acked
    BY <1>1, <2>1 DEF Told
  <2>2. CASE \E e \in Entry : Tail(lines) = Append(acked, e)
    <3>1. PICK e \in Entry : acked' = Append(acked, e)
      BY <1>1, <2>2
    <3>. QED BY <1>3, <3>1, HashesGrow DEF Told
  <2>. QED BY <1>3, <2>1, <2>2
<1>5. Logs' = Logs
  BY <1>1 DEF Logs, HashesIn, Recorded
<1>. QED BY <1>2, <1>4, <1>5

LEMMA StepLogs ==
  ASSUME StoreInv, HashesName, [Next]_vars, FailureLeaves \subseteq {"nothing"}
  PROVE  Log!Next \/ (Logs' = Logs /\ Told' = Told)
<1>1. ASSUME lines' = lines, acked' = acked
      PROVE  Logs' = Logs /\ Told' = Told
  BY <1>1 DEF Logs, HashesIn, Recorded, Told
<1>2. CASE Returns \/ Crashes
  <2>1. at = "appending" /\ (acked' = acked \/ acked' = Append(acked, NewEntry))
    BY <1>2 DEF Returns, Crashes, history
  <2>2. Writes(NewEntry) \/ (lines' = lines /\ acked' = acked)
    BY <1>2 DEF Returns, Crashes, Leaves, file, history
  <2>3. PICK hash \in 1 .. MaxEntries : hash = made
    BY <2>1 DEF StoreInv, TypeOK, EntryIsMade
  <2>4. ASSUME Writes(NewEntry)
        PROVE  Log!Adds("chain", hash)
    BY <2>1, <2>3, <2>4, ArrivalAdds DEF Log!Adds, Logs, HashesIn, Told, HashSet
  <2>5. Log!Adds("chain", hash) => Log!Next
    BY DEF Log!Next
  <2>. QED BY <1>1, <2>2, <2>4, <2>5
<1>3. CASE Loads
  <2>1. CASE Loadable
    <3>1. Logs' = Logs /\ Told \subseteq Told' /\ Told' = Log!Kept
      BY <1>3, <2>1, LoadingTells
    <3>2. Told' # Told => Log!Tells
      BY <3>1 DEF Log!Tells, Logs, HashesIn, Told, HashSet
    <3>. QED BY <3>1, <3>2 DEF Log!Next
  <2>2. CASE ~Loadable
    BY <1>1, <1>3, <2>2 DEF Loads
  <2>. QED BY <2>1, <2>2
<1>4. CASE Creates \/ CreateCut
  <2>1. /\ lines = <<>> /\ acked' = acked
        /\ lines' = <<>> \/ \E line : lines' = <<line>>
    <3>1. \A line : Append(<<>>, line) = <<line>>
      OBVIOUS
    <3>. QED BY <1>4, <3>1 DEF Creates, CreateCut, Empty, Leaves, Writes, file, history
  <2>2. Recorded = <<>> /\ Recorded' = <<>>
    <3>1. \A line : <<line>> # <<>> /\ Tail(<<line>>) = <<>>
      OBVIOUS
    <3>. QED BY <2>1, <3>1 DEF Recorded
  <2>. QED BY <2>1, <2>2 DEF Logs, HashesIn, Told
<1>5. CASE Appends \/ Raises \/ Ends \/ TakesCheckpoint \/ UNCHANGED vars
  <2>1. lines' = lines /\ acked' = acked
    BY <1>5 DEF Appends, Raises, Ends, TakesCheckpoint, vars, file, memory, history, Leaves
  <2>. QED BY <1>1, <2>1
<1>. QED BY <1>2, <1>3, <1>4, <1>5 DEF Next, Opens, Recording

\* If a write that raises leaves nothing behind, the chain's store does what an
\* evidence log promises, however long the chain and however many crashes: the
\* file gains one new entry at its end or none, and what a caller was told is
\* recorded is in it.
THEOREM StoreKeepsLog ==
  ASSUME FailureLeaves \subseteq {"nothing"}
  PROVE  Spec => ImplementsLog
<1>1. Init => Log!Init
  <2>1. SUFFICES ASSUME Init PROVE Logs = [s \in {"chain"} |-> <<>>] /\ Told = {}
    BY DEF Log!Init, Logs, HashesIn, Told, HashSet
  <2>. QED BY <2>1 DEF Init, Logs, HashesIn, Recorded, Told, HashSet
<1>2. StoreInv /\ HashesName /\ [Next]_vars => [Log!Next]_<<Logs, Told>>
  BY StepLogs
<1>. QED BY <1>1, <1>2, HashesAlwaysName, StoreInductive, PTL
         DEF Spec, ImplementsLog, Log!Spec, Logs, HashesIn, Told, HashSet

=============================================================================
