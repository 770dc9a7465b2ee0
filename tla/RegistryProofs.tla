--------------------------- MODULE RegistryProofs ---------------------------
(* The evidence of the registry, for any writers, pages, rows and sandbox.
   The store: what any number of writers append, stop in the middle of or fail
   at stays one chain, and every export is behind the checkpoint it publishes
   (StoreInv, ExportInv).  The watcher: a verdict is what the page showed, and
   a quotation that is verified is on the page (WatchInv).  The probes: what a
   run that is over has found is what the sandbox permits, each of the twelve
   probes by its own rules (ProbeInv), so a published disagreement with the
   table is real.  Each is kept by every step of the registry.               *)
EXTENDS Registry, SequenceTheorems, SumProofs

USE StoreAssumption

LinePlaces == {"idle", "ready", "locked", "writing", "written", "recorded", "refused", "dead"}

IsFile(r) == \E L : r \in [lines: Seq(L), torn: Procs \cup {Nobody}]

IsWriter(r) ==
  \E D, L : r \in [at: LinePlaces, stream: Streams \cup {"none"}, data: Seq(D), line: Seq(L)]

\* Lines and data are of no set given beforehand.
StoreShape ==
  /\ file = [s \in Streams |-> file[s]]
  /\ \A s \in Streams : IsFile(file[s])
  /\ lock \in [Streams -> Procs \cup {Nobody}]
  /\ writer = [p \in Procs |-> writer[p]]
  /\ \A p \in Procs : /\ IsWriter(writer[p])
                      /\ ~At(p, "idle") => writer[p].stream \in Streams

FileOf(p) == file[writer[p].stream]

\* The line in hand is the one that comes next, and p's.
LineIsNext(p) ==
  LET lines == FileOf(p).lines
  IN  \E e : /\ writer[p].line = <<e>>
             /\ e.seq = Len(lines) + 1
             /\ e.prev = HashAt(lines, Len(lines))
             /\ e.by = p

\* Who is between flock and the return holds the lock, and finds the file as
\* he left it.
LockProtects ==
  \A p \in Procs :
    /\ writer[p].at \in {"locked", "writing", "written"} => lock[writer[p].stream] = p
    /\ At(p, "locked") => FileOf(p).torn = Nobody /\ LineIsNext(p)
    /\ At(p, "writing") => FileOf(p).torn = p /\ LineIsNext(p)
    /\ At(p, "written") => FileOf(p).torn = Nobody

\* A torn line is that of a writer in the middle of it, or of one that stopped.
TornBySomebody ==
  \A s \in Streams : file[s].torn # Nobody =>
    /\ writer[file[s].torn].stream = s
    /\ writer[file[s].torn].at \in {"writing", "refused", "dead"}

\* Nobody has two lines, and who has one is past writing it.
LinesAreEnded ==
  \A s \in Streams : \A n \in DOMAIN file[s].lines :
    LET q == file[s].lines[n].by
    IN  /\ q \in Procs /\ writer[q].stream = s
        /\ writer[q].at \in {"written", "recorded", "refused", "dead"}
        /\ \A m \in DOMAIN file[s].lines : file[s].lines[m].by = q => m = n

EndedIsThere ==
  \A p \in Procs : writer[p].at \in {"written", "recorded"} =>
    \E n \in DOMAIN FileOf(p).lines : FileOf(p).lines[n].by = p

StoreInv ==
  /\ StoreShape /\ LockProtects /\ TornBySomebody /\ LinesAreEnded /\ EndedIsThere
  /\ ChainIsWhole

\* A step of a writer.
WriterStep(p) ==
  (\E s \in Streams : \E data : Wants(p, s, data)) \/ Appends(p) \/ WriteFails(p) \/ Dies(p)

(***************************************************************************)
(* Shapes.                                                                 *)
(***************************************************************************)
LEMMA OneLonger ==
  ASSUME NEW L, NEW lines \in Seq(L), NEW e
  PROVE  LET longer == lines \o <<e>>
         IN  /\ longer \in Seq(L \cup {e})
             /\ Len(longer) = Len(lines) + 1
             /\ Len(lines) \in Nat
             /\ DOMAIN lines = 1 .. Len(lines)
             /\ DOMAIN longer = 1 .. Len(lines) + 1
             /\ \A i \in 1 .. Len(lines) : longer[i] = lines[i]
             /\ longer[Len(lines) + 1] = e
<1> DEFINE M == L \cup {e}
<1>1. lines \in Seq(M)
  <2>1. PICK n \in Nat : lines \in [1 .. n -> L]
    BY SeqDef
  <2>2. lines \in [1 .. n -> M]
    BY <2>1
  <2>3. Seq(M) = UNION {[1 .. k -> M] : k \in Nat}
    BY SeqDef
  <2>. HIDE DEF M
  <2>. QED BY <2>2, <2>3, Zenon
<1>2. <<e>> \in Seq(M) /\ Len(<<e>>) = 1 /\ <<e>>[1] = e
  OBVIOUS
<1>. HIDE DEF M
<1>3. /\ lines \o <<e>> \in Seq(M)
      /\ Len(lines \o <<e>>) = Len(lines) + Len(<<e>>)
      /\ \A i \in 1 .. Len(lines) + Len(<<e>>) :
           (lines \o <<e>>)[i] = IF i <= Len(lines) THEN lines[i] ELSE <<e>>[i - Len(lines)]
  BY <1>1, <1>2, ConcatProperties
<1>4. Len(lines) \in Nat /\ DOMAIN lines = 1 .. Len(lines)
  BY <1>1, LenProperties
<1>5. DOMAIN (lines \o <<e>>) = 1 .. Len(lines \o <<e>>)
  BY <1>3, LenProperties
<1>. QED BY <1>1, <1>2, <1>3, <1>4, <1>5 DEF M

\* A process goes to another place.
LEMMA Moves ==
  ASSUME StoreShape, NEW p \in Procs, NEW where \in LinePlaces, ~At(p, "idle"), GoesTo(p, where)
  PROVE  /\ writer' = [q \in Procs |-> writer'[q]]
         /\ \A q \in Procs : /\ IsWriter(writer'[q])
                             /\ writer'[q].stream = writer[q].stream
                             /\ writer'[q].line = writer[q].line
                             /\ ~(writer'[q].at = "idle") => writer'[q].stream \in Streams
         /\ writer'[p].at = where
         /\ \A q \in Procs \ {p} : writer'[q] = writer[q]
<1>1. writer = [q \in Procs |-> writer[q]] /\ writer' = [writer EXCEPT ![p].at = where]
  BY DEF StoreShape, GoesTo
<1>2. PICK D, L : writer[p] \in [at: LinePlaces, stream: Streams \cup {"none"}, data: Seq(D), line: Seq(L)]
  BY DEF StoreShape, IsWriter
<1>3. /\ writer'[p] = [writer[p] EXCEPT !.at = where]
      /\ \A q \in Procs \ {p} : writer'[q] = writer[q]
      /\ writer' = [q \in Procs |-> writer'[q]]
  BY <1>1
<1>4. /\ writer'[p] \in [at: LinePlaces, stream: Streams \cup {"none"}, data: Seq(D), line: Seq(L)]
      /\ writer'[p].stream = writer[p].stream
      /\ writer'[p].line = writer[p].line
      /\ writer'[p].at = where
  BY <1>2, <1>3
<1>5. IsWriter(writer'[p])
  BY <1>4 DEF IsWriter
<1>. QED BY <1>3, <1>4, <1>5 DEF StoreShape, At

LEMMA Unlocking ==
  ASSUME StoreShape, NEW p \in Procs
  PROVE  /\ Unlocked(p) \in [Streams -> Procs \cup {Nobody}]
         /\ \A s \in Streams, q \in Procs \ {p} : Unlocked(p)[s] = q <=> lock[s] = q
BY DEF StoreShape, Unlocked

(***************************************************************************)
(* Every step of a writer keeps the invariant.                             *)
(***************************************************************************)
LEMMA WantsKeeps ==
  ASSUME StoreInv, NEW p \in Procs, NEW s \in Streams, NEW data, Wants(p, s, data)
  PROVE  StoreInv'
<1> DEFINE ready == [at |-> "ready", stream |-> s, data |-> <<data>>, line |-> <<>>]
<1>1. /\ file' = file /\ lock' = lock /\ writer[p].at = "idle"
      /\ writer' = [q \in Procs |-> writer'[q]] /\ writer'[p] = ready
      /\ \A q \in Procs \ {p} : writer'[q] = writer[q]
  BY DEF Wants, At, StoreInv, StoreShape
<1>2. /\ ready.at = "ready" /\ ready.stream = s
      /\ IsWriter(ready)
  <2>1. <<data>> \in Seq({data}) /\ <<>> \in Seq({data})
    OBVIOUS
  <2>2. ready \in [at: LinePlaces, stream: Streams \cup {"none"}, data: Seq({data}), line: Seq({data})]
    BY <2>1 DEF LinePlaces
  <2>. QED BY <2>2, Zenon DEF IsWriter
<1>. HIDE DEF ready
<1>3. StoreShape'
  <2>1. file' = [x \in Streams |-> file'[x]] /\ lock' \in [Streams -> Procs \cup {Nobody}]
        /\ \A x \in Streams : IsFile(file'[x])
    BY <1>1 DEF StoreInv, StoreShape
  <2>2. ASSUME NEW q \in Procs
        PROVE  IsWriter(writer'[q]) /\ (~(writer'[q].at = "idle") => writer'[q].stream \in Streams)
    BY <1>1, <1>2 DEF StoreInv, StoreShape, At
  <2>. QED BY <1>1, <2>1, <2>2 DEF StoreShape, At
<1>4. LockProtects'
  <2>1. ASSUME NEW q \in Procs
        PROVE  q # p => /\ FileOf(q)' = FileOf(q) /\ (LineIsNext(q) => LineIsNext(q)')
    BY <1>1 DEF FileOf, LineIsNext, HashAt, line_hash
  <2>. QED BY <1>1, <1>2, <2>1 DEF StoreInv, LockProtects, At
<1>5. TornBySomebody'
  BY <1>1 DEF StoreInv, TornBySomebody, StoreShape, IsFile
<1>6. LinesAreEnded'
  BY <1>1 DEF StoreInv, LinesAreEnded
<1>7. EndedIsThere'
  <2>1. ASSUME NEW q \in Procs, writer'[q].at \in {"written", "recorded"}
        PROVE  \E n \in DOMAIN FileOf(q).lines' : FileOf(q).lines'[n].by = q
    BY <1>1, <1>2, <2>1 DEF StoreInv, EndedIsThere, FileOf
  <2>. QED BY <2>1 DEF EndedIsThere
<1>8. ChainIsWhole'
  BY <1>1 DEF StoreInv, ChainIsWhole, IsChain, HashAt, line_hash
<1>. QED BY <1>3, <1>4, <1>5, <1>6, <1>7, <1>8 DEF StoreInv

\* A process moves on without touching the file.
LEMMA MovesOnKeeps ==
  ASSUME StoreInv, NEW p \in Procs, NEW where \in {"recorded", "refused", "dead"},
         GoesTo(p, where), UNCHANGED file, ~At(p, "idle"),
         lock' = Unlocked(p) \/ (lock' = lock /\ At(p, "ready")),
         where = "recorded" => At(p, "written"),
         writer[p].at \in {"ready", "locked", "writing", "written"}
  PROVE  StoreInv'
<1>1. /\ writer' = [q \in Procs |-> writer'[q]]
      /\ \A q \in Procs : /\ IsWriter(writer'[q])
                          /\ writer'[q].stream = writer[q].stream
                          /\ writer'[q].line = writer[q].line
                          /\ ~(writer'[q].at = "idle") => writer'[q].stream \in Streams
      /\ writer'[p].at = where
      /\ \A q \in Procs \ {p} : writer'[q] = writer[q]
  BY Moves DEF StoreInv, LinePlaces
<1>2. /\ lock' \in [Streams -> Procs \cup {Nobody}]
      /\ \A s \in Streams, q \in Procs \ {p} : lock[s] = q => lock'[s] = q
  BY Unlocking DEF StoreInv, StoreShape
<1>3. StoreShape'
  BY <1>1, <1>2 DEF StoreInv, StoreShape, At
<1>4. LockProtects'
  <2>1. ASSUME NEW q \in Procs
        PROVE  FileOf(q)' = FileOf(q) /\ (LineIsNext(q) => LineIsNext(q)')
    BY <1>1 DEF FileOf, LineIsNext, HashAt, line_hash
  <2>2. ASSUME NEW q \in Procs, writer'[q].at \in {"locked", "writing", "written"}
        PROVE  q # p /\ writer[q].at = writer'[q].at /\ lock'[writer'[q].stream] = q
    BY <1>1, <1>2, <2>2 DEF StoreInv, LockProtects, StoreShape, At
  <2>. QED BY <1>1, <2>1, <2>2 DEF StoreInv, LockProtects, At
<1>5. TornBySomebody'
  <2>1. ASSUME NEW s \in Streams, file[s].torn # Nobody
        PROVE  /\ writer'[file[s].torn].stream = s
               /\ writer'[file[s].torn].at \in {"writing", "refused", "dead"}
    <3>1. file[s].torn \in Procs
      BY <2>1 DEF StoreInv, StoreShape, IsFile
    <3>2. /\ writer[file[s].torn].stream = s
          /\ writer[file[s].torn].at \in {"writing", "refused", "dead"}
      BY <2>1 DEF StoreInv, TornBySomebody
    <3>. QED BY <1>1, <3>1, <3>2 DEF At
  <2>. QED BY <2>1 DEF TornBySomebody
<1>6. LinesAreEnded'
  <2>1. ASSUME NEW s \in Streams, NEW n \in DOMAIN file[s].lines, NEW q, q = file[s].lines[n].by
        PROVE  /\ q \in Procs /\ writer'[q].stream = s
               /\ writer'[q].at \in {"written", "recorded", "refused", "dead"}
               /\ \A m \in DOMAIN file[s].lines : file[s].lines[m].by = q => m = n
    <3>1. /\ q \in Procs /\ writer[q].stream = s
          /\ writer[q].at \in {"written", "recorded", "refused", "dead"}
          /\ \A m \in DOMAIN file[s].lines : file[s].lines[m].by = q => m = n
      BY <2>1 DEF StoreInv, LinesAreEnded
    <3>. QED BY <1>1, <3>1
  <2>. QED BY <2>1 DEF LinesAreEnded
<1>7. EndedIsThere'
  <2>1. ASSUME NEW q \in Procs, writer'[q].at \in {"written", "recorded"}
        PROVE  \E n \in DOMAIN FileOf(q).lines' : FileOf(q).lines'[n].by = q
    <3>1. writer[q].at \in {"written", "recorded"} /\ FileOf(q)' = FileOf(q)
      BY <1>1, <2>1 DEF At, FileOf
    <3>. QED BY <3>1 DEF StoreInv, EndedIsThere
  <2>. QED BY <2>1 DEF EndedIsThere
<1>8. ChainIsWhole'
  BY DEF StoreInv, ChainIsWhole, IsChain, HashAt, line_hash
<1>. QED BY <1>3, <1>4, <1>5, <1>6, <1>7, <1>8 DEF StoreInv

LEMMA LeavesKeeps ==
  ASSUME StoreInv, NEW p \in Procs, Returns(p) \/ WriteFails(p) \/ Dies(p)
  PROVE  StoreInv'
<1>1. CASE Returns(p)
  BY <1>1, MovesOnKeeps DEF Returns, At
<1>2. CASE WriteFails(p)
  BY <1>2, MovesOnKeeps DEF WriteFails, At
<1>3. CASE Dies(p)
  BY <1>3, MovesOnKeeps DEF Dies, At
<1>. QED BY <1>1, <1>2, <1>3

LEMMA LocksKeeps ==
  ASSUME StoreInv, NEW p \in Procs, Locks(p)
  PROVE  StoreInv'
<1> DEFINE s == writer[p].stream
           e == NextLine(p)
<1>1. CASE ~Verifies(s)
  BY <1>1, MovesOnKeeps DEF Locks, At
<1>2. CASE Verifies(s)
  <2>1. /\ At(p, "ready") /\ lock[s] = Nobody /\ file[s].torn = Nobody
        /\ file' = file /\ lock' = [lock EXCEPT ![s] = p]
        /\ writer' = [writer EXCEPT ![p].at = "locked", ![p].line = <<e>>]
        /\ s \in Streams
    BY <1>2 DEF Locks, LockIsFree, Verifies, At, StoreInv, StoreShape
  <2>2. PICK D, L : writer[p] \in [at: LinePlaces, stream: Streams \cup {"none"}, data: Seq(D), line: Seq(L)]
    BY DEF StoreInv, StoreShape, IsWriter
  <2>3. /\ e.seq = Len(file[s].lines) + 1
        /\ e.prev = HashAt(file[s].lines, Len(file[s].lines))
        /\ e.by = p
    BY DEF NextLine, HeadOf
  <2>. HIDE DEF e
  <2>4. /\ writer'[p] = [writer[p] EXCEPT !.at = "locked", !.line = <<e>>]
        /\ \A q \in Procs \ {p} : writer'[q] = writer[q]
        /\ writer' = [q \in Procs |-> writer'[q]]
    BY <2>1 DEF StoreInv, StoreShape
  <2>5. /\ writer'[p] \in [at: LinePlaces, stream: Streams \cup {"none"}, data: Seq(D), line: Seq({e})]
        /\ writer'[p].at = "locked" /\ writer'[p].stream = s /\ writer'[p].line = <<e>>
    <3>1. writer'[p] = [at |-> "locked", stream |-> s, data |-> writer[p].data, line |-> <<e>>]
      BY <2>2, <2>4
    <3>2. /\ <<e>> \in Seq({e}) /\ writer[p].data \in Seq(D)
          /\ s \in Streams \cup {"none"} /\ "locked" \in LinePlaces
      BY <2>2 DEF LinePlaces
    <3>. QED BY <3>1, <3>2
  <2>6. IsWriter(writer'[p])
    BY <2>5 DEF IsWriter
  <2>7. /\ lock' \in [Streams -> Procs \cup {Nobody}] /\ lock'[s] = p
        /\ \A x \in Streams \ {s} : lock'[x] = lock[x]
    BY <2>1 DEF StoreInv, StoreShape
  <2>. HIDE DEF s
  <2>8. StoreShape'
    BY <2>1, <2>4, <2>5, <2>6, <2>7 DEF StoreInv, StoreShape, At
  <2>9. LockProtects'
    <3>1. ASSUME NEW q \in Procs \ {p}
          PROVE  /\ FileOf(q)' = FileOf(q) /\ (LineIsNext(q) => LineIsNext(q)')
                 /\ writer[q].at \in {"locked", "writing", "written"} => lock'[writer[q].stream] = q
      <4>1. FileOf(q)' = FileOf(q) /\ (LineIsNext(q) => LineIsNext(q)')
        BY <2>1, <2>4 DEF FileOf, LineIsNext, HashAt, line_hash
      <4>2. writer[q].at \in {"locked", "writing", "written"} =>
              writer[q].stream \in Streams /\ lock[writer[q].stream] = q
        BY DEF StoreInv, StoreShape, LockProtects, At
      <4>. QED BY <2>1, <2>7, <4>1, <4>2
    <3>2. FileOf(p)' = file[s] /\ FileOf(p).torn' = Nobody /\ LineIsNext(p)'
      <4>1. FileOf(p)' = file[s]
        BY <2>1, <2>5 DEF FileOf
      <4>. QED BY <2>1, <2>3, <2>5, <4>1 DEF FileOf, LineIsNext, HashAt, line_hash
    <3>3. ASSUME NEW q \in Procs \ {p}
          PROVE  /\ writer'[q].at \in {"locked", "writing", "written"} => lock'[writer'[q].stream] = q
                 /\ At(q, "locked")' => FileOf(q).torn' = Nobody /\ LineIsNext(q)'
                 /\ At(q, "writing")' => FileOf(q).torn' = q /\ LineIsNext(q)'
                 /\ At(q, "written")' => FileOf(q).torn' = Nobody
      BY <2>4, <3>1 DEF StoreInv, LockProtects, At
    <3>. QED BY <2>5, <2>7, <3>2, <3>3 DEF LockProtects, At
  <2>10. TornBySomebody'
    BY <2>1, <2>4 DEF StoreInv, StoreShape, IsFile, TornBySomebody, At
  <2>11. LinesAreEnded'
    <3>1. ASSUME NEW x \in Streams, NEW n \in DOMAIN file[x].lines, NEW q, q = file[x].lines[n].by
          PROVE  /\ q \in Procs /\ writer'[q].stream = x
                 /\ writer'[q].at \in {"written", "recorded", "refused", "dead"}
                 /\ \A m \in DOMAIN file[x].lines : file[x].lines[m].by = q => m = n
      <4>1. /\ q \in Procs /\ writer[q].stream = x
            /\ writer[q].at \in {"written", "recorded", "refused", "dead"}
            /\ \A m \in DOMAIN file[x].lines : file[x].lines[m].by = q => m = n
        BY <3>1 DEF StoreInv, LinesAreEnded
      <4>. QED BY <2>1, <2>4, <4>1 DEF At
    <3>2. file' = file
      BY <2>1
    <3>. QED BY <3>1, <3>2 DEF LinesAreEnded
  <2>12. EndedIsThere'
    <3>1. ASSUME NEW q \in Procs, writer'[q].at \in {"written", "recorded"}
          PROVE  \E n \in DOMAIN FileOf(q).lines' : FileOf(q).lines'[n].by = q
      <4>1. writer[q].at \in {"written", "recorded"} /\ FileOf(q)' = FileOf(q)
        BY <2>1, <2>4, <2>5, <3>1 DEF FileOf
      <4>. QED BY <4>1 DEF StoreInv, EndedIsThere
    <3>. QED BY <3>1 DEF EndedIsThere
  <2>13. ChainIsWhole'
    BY <2>1 DEF StoreInv, ChainIsWhole, IsChain, HashAt, line_hash
  <2>. QED BY <2>8, <2>9, <2>10, <2>11, <2>12, <2>13 DEF StoreInv
<1>. QED BY <1>1, <1>2

\* Nobody else is past the lock of p's stream.
LEMMA LockIsExclusive ==
  ASSUME StoreInv, NEW p \in Procs, writer[p].at \in {"locked", "writing", "written"},
         NEW q \in Procs \ {p}, writer[q].at \in {"locked", "writing", "written"}
  PROVE  writer[q].stream # writer[p].stream
BY DEF StoreInv, LockProtects

LEMMA BeginsKeeps ==
  ASSUME StoreInv, NEW p \in Procs, BeginsToWrite(p)
  PROVE  StoreInv'
<1> DEFINE s == writer[p].stream
<1>1. /\ writer[p].at = "locked" /\ lock' = lock /\ GoesTo(p, "writing") /\ s \in Streams
      /\ file' = [file EXCEPT ![s].torn = p] /\ LineIsNext(p) /\ lock[s] = p
  BY DEF BeginsToWrite, At, StoreInv, StoreShape, LockProtects
<1>2. /\ writer' = [q \in Procs |-> writer'[q]]
      /\ \A q \in Procs : /\ IsWriter(writer'[q])
                          /\ writer'[q].stream = writer[q].stream
                          /\ writer'[q].line = writer[q].line
                          /\ ~(writer'[q].at = "idle") => writer'[q].stream \in Streams
      /\ writer'[p].at = "writing"
      /\ \A q \in Procs \ {p} : writer'[q] = writer[q]
  BY <1>1, Moves DEF StoreInv, LinePlaces, At
<1>3. PICK L : file[s] \in [lines: Seq(L), torn: Procs \cup {Nobody}]
  BY <1>1 DEF StoreInv, StoreShape, IsFile
<1>4. /\ file' = [x \in Streams |-> file'[x]]
      /\ \A x \in Streams \ {s} : file'[x] = file[x]
      /\ file'[s] = [file[s] EXCEPT !.torn = p]
  BY <1>1 DEF StoreInv, StoreShape
<1>5. /\ file'[s] \in [lines: Seq(L), torn: Procs \cup {Nobody}]
      /\ file'[s].lines = file[s].lines /\ file'[s].torn = p
  BY <1>3, <1>4
<1>6. IsFile(file'[s])
  BY <1>5 DEF IsFile
<1>7. \A x \in Streams : file'[x].lines = file[x].lines
  BY <1>4, <1>5
<1>. HIDE DEF s
<1>8. StoreShape'
  BY <1>1, <1>2, <1>4, <1>6 DEF StoreInv, StoreShape, At
<1>9. LockProtects'
  <2>1. ASSUME NEW q \in Procs, writer[q].stream \in Streams
        PROVE  LineIsNext(q) => LineIsNext(q)'
    BY <1>2, <1>7, <2>1 DEF FileOf, LineIsNext, HashAt, line_hash
  <2>2. ASSUME NEW q \in Procs \ {p}, writer[q].at \in {"locked", "writing", "written"}
        PROVE  FileOf(q)' = FileOf(q) /\ writer[q].stream \in Streams
    BY <1>1, <1>2, <1>4, <2>2, LockIsExclusive DEF FileOf, StoreInv, StoreShape, At, s
  <2>3. FileOf(p)' = file'[s]
    BY <1>2 DEF FileOf, s
  <2>4. LineIsNext(p)' /\ FileOf(p).torn' = p /\ lock'[writer'[p].stream] = p
    BY <1>1, <1>2, <1>5, <2>1, <2>3 DEF FileOf, s
  <2>5. ASSUME NEW q \in Procs \ {p}
        PROVE  /\ writer'[q].at \in {"locked", "writing", "written"} => lock'[writer'[q].stream] = q
               /\ At(q, "locked")' => FileOf(q).torn' = Nobody /\ LineIsNext(q)'
               /\ At(q, "writing")' => FileOf(q).torn' = q /\ LineIsNext(q)'
               /\ At(q, "written")' => FileOf(q).torn' = Nobody
    BY <1>1, <1>2, <2>1, <2>2 DEF StoreInv, LockProtects, At
  <2>. QED BY <1>2, <2>4, <2>5 DEF LockProtects, At
<1>10. TornBySomebody'
  <2>1. ASSUME NEW x \in Streams \ {s}, file[x].torn # Nobody
        PROVE  writer'[file[x].torn] = writer[file[x].torn]
    BY <1>1, <1>2, <2>1 DEF StoreInv, StoreShape, IsFile, TornBySomebody, s
  <2>. QED BY <1>2, <1>4, <1>5, <2>1 DEF StoreInv, TornBySomebody, s
<1>11. LinesAreEnded'
  <2>1. ASSUME NEW x \in Streams, NEW n \in DOMAIN file[x].lines, NEW q, q = file[x].lines[n].by
        PROVE  /\ q \in Procs /\ writer'[q].stream = x
               /\ writer'[q].at \in {"written", "recorded", "refused", "dead"}
               /\ \A m \in DOMAIN file[x].lines : file[x].lines[m].by = q => m = n
    <3>1. /\ q \in Procs /\ writer[q].stream = x
          /\ writer[q].at \in {"written", "recorded", "refused", "dead"}
          /\ \A m \in DOMAIN file[x].lines : file[x].lines[m].by = q => m = n
      BY <2>1 DEF StoreInv, LinesAreEnded
    <3>. QED BY <1>1, <1>2, <3>1
  <2>. QED BY <1>7, <2>1 DEF LinesAreEnded
<1>12. EndedIsThere'
  <2>1. ASSUME NEW q \in Procs, writer'[q].at \in {"written", "recorded"}
        PROVE  \E n \in DOMAIN FileOf(q).lines' : FileOf(q).lines'[n].by = q
    <3>1. writer[q].at \in {"written", "recorded"} /\ writer[q].stream \in Streams
      BY <1>1, <1>2, <2>1 DEF StoreInv, StoreShape, At
    <3>2. FileOf(q).lines' = FileOf(q).lines
      BY <1>2, <1>7, <3>1 DEF FileOf
    <3>. QED BY <3>1, <3>2 DEF StoreInv, EndedIsThere
  <2>. QED BY <2>1 DEF EndedIsThere
<1>13. ChainIsWhole'
  BY <1>7 DEF StoreInv, ChainIsWhole, IsChain, HashAt, line_hash
<1>. QED BY <1>8, <1>9, <1>10, <1>11, <1>12, <1>13 DEF StoreInv

LEMMA EndsKeeps ==
  ASSUME StoreInv, NEW p \in Procs, EndsWriting(p)
  PROVE  StoreInv'
<1> DEFINE s == writer[p].stream
           n == Len(file[s].lines)
<1>1. /\ writer[p].at = "writing" /\ lock' = lock /\ GoesTo(p, "written") /\ s \in Streams
      /\ file' = [file EXCEPT ![s] = [lines |-> file[s].lines \o writer[p].line, torn |-> Nobody]]
      /\ LineIsNext(p) /\ lock[s] = p
  BY DEF EndsWriting, At, StoreInv, StoreShape, LockProtects
<1>2. /\ writer' = [q \in Procs |-> writer'[q]]
      /\ \A q \in Procs : /\ IsWriter(writer'[q])
                          /\ writer'[q].stream = writer[q].stream
                          /\ writer'[q].line = writer[q].line
                          /\ ~(writer'[q].at = "idle") => writer'[q].stream \in Streams
      /\ writer'[p].at = "written"
      /\ \A q \in Procs \ {p} : writer'[q] = writer[q]
  BY <1>1, Moves DEF StoreInv, LinePlaces, At
<1>3. PICK e : /\ writer[p].line = <<e>>
               /\ e.seq = n + 1 /\ e.prev = HashAt(file[s].lines, n) /\ e.by = p
  BY <1>1 DEF LineIsNext, FileOf
<1>4. PICK L : file[s] \in [lines: Seq(L), torn: Procs \cup {Nobody}]
  BY <1>1 DEF StoreInv, StoreShape, IsFile
<1>5. /\ file' = [x \in Streams |-> file'[x]]
      /\ \A x \in Streams \ {s} : file'[x] = file[x]
      /\ file'[s] = [lines |-> file[s].lines \o <<e>>, torn |-> Nobody]
  BY <1>1, <1>3 DEF StoreInv, StoreShape
<1>6. /\ file'[s].lines \in Seq(L \cup {e}) /\ n \in Nat
      /\ DOMAIN file[s].lines = 1 .. n
      /\ DOMAIN file'[s].lines = 1 .. n + 1
      /\ \A i \in 1 .. n : file'[s].lines[i] = file[s].lines[i]
      /\ file'[s].lines[n + 1] = e
      /\ file'[s].torn = Nobody
  <2> DEFINE l == file[s].lines
             k == l \o <<e>>
  <2>1. l \in Seq(L)
    BY <1>4
  <2>2. /\ k \in Seq(L \cup {e}) /\ Len(l) \in Nat
        /\ DOMAIN l = 1 .. Len(l) /\ DOMAIN k = 1 .. Len(l) + 1
        /\ \A i \in 1 .. Len(l) : k[i] = l[i]
        /\ k[Len(l) + 1] = e
    <3>. HIDE DEF l
    <3>. QED BY <2>1, OneLonger
  <2>. HIDE DEF k
  <2>3. file'[s] = [lines |-> k, torn |-> Nobody]
    BY <1>5 DEF k
  <2>4. file'[s].lines = k /\ file'[s].torn = Nobody
    BY <2>3
  <2>. QED BY <2>2, <2>4
<1>7. IsFile(file'[s])
  BY <1>5, <1>6 DEF IsFile
<1>8. \A i \in 1 .. n : file[s].lines[i].by # p
  <2>1. ASSUME NEW i \in 1 .. n, file[s].lines[i].by = p
        PROVE  writer[p].at \in {"written", "recorded", "refused", "dead"}
    <3>1. i \in DOMAIN file[s].lines /\ s \in Streams
      BY <1>1, <1>6, <2>1
    <3>. QED BY <2>1, <3>1 DEF StoreInv, LinesAreEnded
  <2>. QED BY <1>1, <2>1
<1>9. IsChain(file[s].lines)
  BY <1>1 DEF StoreInv, ChainIsWhole
<1>. HIDE DEF s, n
<1>10. StoreShape'
  BY <1>1, <1>2, <1>5, <1>7 DEF StoreInv, StoreShape, At
<1>11. LockProtects'
  <2>1. ASSUME NEW q \in Procs \ {p}, writer[q].at \in {"locked", "writing", "written"}
        PROVE  /\ FileOf(q)' = FileOf(q)
               /\ LineIsNext(q) => LineIsNext(q)'
    <3>1. writer[q].stream \in Streams \ {s}
      BY <1>1, <2>1, LockIsExclusive DEF StoreInv, StoreShape, At, s
    <3>. QED BY <1>2, <1>5, <3>1 DEF FileOf, LineIsNext, HashAt, line_hash
  <2>2. FileOf(p).torn' = Nobody /\ lock'[writer'[p].stream] = p
    BY <1>1, <1>2, <1>6 DEF FileOf, s
  <2>3. ASSUME NEW q \in Procs \ {p}
        PROVE  /\ writer'[q].at \in {"locked", "writing", "written"} => lock'[writer'[q].stream] = q
               /\ At(q, "locked")' => FileOf(q).torn' = Nobody /\ LineIsNext(q)'
               /\ At(q, "writing")' => FileOf(q).torn' = q /\ LineIsNext(q)'
               /\ At(q, "written")' => FileOf(q).torn' = Nobody
    BY <1>1, <1>2, <2>1 DEF StoreInv, LockProtects, At
  <2>. QED BY <1>2, <2>2, <2>3 DEF LockProtects, At
<1>12. TornBySomebody'
  <2>1. ASSUME NEW x \in Streams \ {s}, file[x].torn # Nobody
        PROVE  writer'[file[x].torn] = writer[file[x].torn]
    BY <1>1, <1>2, <2>1 DEF StoreInv, StoreShape, IsFile, TornBySomebody, s
  <2>2. ASSUME NEW x \in Streams, file'[x].torn # Nobody
        PROVE  /\ writer'[file'[x].torn].stream = x
               /\ writer'[file'[x].torn].at \in {"writing", "refused", "dead"}
    <3>1. x # s /\ file'[x] = file[x]
      BY <1>5, <1>6, <2>2
    <3>. QED BY <2>1, <2>2, <3>1 DEF StoreInv, TornBySomebody
  <2>. QED BY <2>2 DEF TornBySomebody
<1>13. LinesAreEnded'
  <2>1. ASSUME NEW x \in Streams, NEW i \in DOMAIN file[x].lines, NEW q, q = file[x].lines[i].by
        PROVE  /\ q \in Procs /\ q # p /\ writer'[q].stream = x
               /\ writer'[q].at \in {"written", "recorded", "refused", "dead"}
               /\ \A m \in DOMAIN file[x].lines : file[x].lines[m].by = q => m = i
    <3>1. /\ q \in Procs /\ writer[q].stream = x
          /\ writer[q].at \in {"written", "recorded", "refused", "dead"}
          /\ \A m \in DOMAIN file[x].lines : file[x].lines[m].by = q => m = i
      BY <2>1 DEF StoreInv, LinesAreEnded
    <3>2. q # p
      BY <1>1, <3>1
    <3>. QED BY <1>2, <3>1, <3>2
  <2>2. ASSUME NEW x \in Streams \ {s}, NEW i \in DOMAIN file'[x].lines, NEW q, q = file'[x].lines[i].by
        PROVE  /\ q \in Procs /\ writer'[q].stream = x
               /\ writer'[q].at \in {"written", "recorded", "refused", "dead"}
               /\ \A m \in DOMAIN file'[x].lines : file'[x].lines[m].by = q => m = i
    BY <1>5, <2>1, <2>2
  <2>3. ASSUME NEW i \in DOMAIN file'[s].lines, NEW q, q = file'[s].lines[i].by
        PROVE  /\ q \in Procs /\ writer'[q].stream = s
               /\ writer'[q].at \in {"written", "recorded", "refused", "dead"}
               /\ \A m \in DOMAIN file'[s].lines : file'[s].lines[m].by = q => m = i
    <3>1. CASE i \in 1 .. n
      <4>1. /\ q \in Procs /\ q # p /\ writer'[q].stream = s
            /\ writer'[q].at \in {"written", "recorded", "refused", "dead"}
            /\ \A m \in 1 .. n : file[s].lines[m].by = q => m = i
        <5>1. q = file[s].lines[i].by /\ i \in DOMAIN file[s].lines
          BY <1>6, <2>3, <3>1
        <5>. QED BY <1>1, <1>6, <2>1, <5>1
      <4>2. ASSUME NEW m \in 1 .. n + 1, file'[s].lines[m].by = q
            PROVE  m = i
        <5>1. m # n + 1
          BY <1>3, <1>6, <4>1, <4>2
        <5>2. m \in 1 .. n
          BY <1>6, <5>1
        <5>. QED BY <1>6, <4>1, <4>2, <5>2
      <4>. QED BY <1>6, <4>1, <4>2
    <3>2. CASE i = n + 1
      <4>1. q = p /\ writer'[q].stream = s
        BY <1>2, <1>3, <1>6, <2>3, <3>2 DEF s
      <4>. QED BY <1>2, <1>6, <1>8, <3>2, <4>1
    <3>. QED BY <1>6, <2>3, <3>1, <3>2
  <2>. QED BY <2>2, <2>3 DEF LinesAreEnded
<1>14. EndedIsThere'
  <2>1. ASSUME NEW q \in Procs \ {p}, writer[q].at \in {"written", "recorded"}
        PROVE  \E i \in DOMAIN FileOf(q).lines' : FileOf(q).lines'[i].by = q
    <3>1. writer[q].stream \in Streams
      BY <2>1 DEF StoreInv, StoreShape, At
    <3>2. PICK i \in DOMAIN FileOf(q).lines : FileOf(q).lines[i].by = q
      BY <2>1 DEF StoreInv, EndedIsThere
    <3>3. CASE writer[q].stream = s
      <4>1. FileOf(q) = file[s] /\ FileOf(q)' = file'[s]
        BY <1>2, <3>3 DEF FileOf
      <4>2. i \in 1 .. n /\ i \in 1 .. n + 1 /\ file'[s].lines[i].by = q
        BY <1>6, <3>2, <4>1
      <4>. QED BY <1>6, <4>1, <4>2
    <3>4. CASE writer[q].stream # s
      BY <1>2, <1>5, <3>1, <3>2, <3>4 DEF FileOf
    <3>. QED BY <3>3, <3>4
  <2>2. \E i \in DOMAIN FileOf(p).lines' : FileOf(p).lines'[i].by = p
    <3>1. FileOf(p)' = file'[s]
      BY <1>2 DEF FileOf, s
    <3>. QED BY <1>3, <1>6, <3>1
  <2>. QED BY <1>2, <2>1, <2>2 DEF EndedIsThere
<1>15. ChainIsWhole'
  <2>1. IsChain(file'[s].lines)
    <3>1. ASSUME NEW i \in 1 .. n + 1
          PROVE  file'[s].lines[i].seq = i /\ file'[s].lines[i].prev = HashAt(file'[s].lines, i - 1)
      <4>1. CASE i \in 1 .. n
        <5>1. /\ file[s].lines[i].seq = i /\ file[s].lines[i].prev = HashAt(file[s].lines, i - 1)
              /\ file'[s].lines[i] = file[s].lines[i]
          BY <1>6, <1>9, <4>1 DEF IsChain
        <5>2. CASE i = 1
          BY <5>1, <5>2 DEF HashAt
        <5>3. CASE i # 1
          <6>1. i - 1 \in 1 .. n /\ i - 1 # 0
            BY <1>6, <4>1, <5>3
          <6>. QED BY <1>6, <5>1, <6>1 DEF HashAt, line_hash
        <5>. QED BY <5>2, <5>3
      <4>2. CASE i = n + 1
        <5>1. n \in Nat /\ i - 1 = n /\ file'[s].lines[i] = e
          BY <1>6, <4>2
        <5>2. e.seq = i /\ e.prev = HashAt(file[s].lines, n)
          BY <1>3, <4>2
        <5>3. HashAt(file'[s].lines, n) = HashAt(file[s].lines, n)
          <6>1. n # 0 => n \in 1 .. n
            BY <5>1
          <6>. QED BY <1>6, <6>1 DEF HashAt
        <5>. QED BY <5>1, <5>2, <5>3
      <4>. QED BY <1>6, <4>1, <4>2
    <3>. QED BY <1>6, <3>1 DEF IsChain
  <2>2. \A x \in Streams \ {s} : IsChain(file'[x].lines)
    BY <1>5 DEF StoreInv, ChainIsWhole
  <2>. QED BY <2>1, <2>2 DEF ChainIsWhole
<1>. QED BY <1>10, <1>11, <1>12, <1>13, <1>14, <1>15 DEF StoreInv

LEMMA StoreStarts == InitStore => StoreInv
<1>1. SUFFICES ASSUME InitStore PROVE StoreInv
  OBVIOUS
<1>2. /\ \A s \in Streams : file[s] = Empty
      /\ \A p \in Procs : writer[p] = Unused
      /\ file = [s \in Streams |-> file[s]] /\ writer = [p \in Procs |-> writer[p]]
      /\ lock \in [Streams -> Procs \cup {Nobody}]
  BY <1>1 DEF InitStore
<1>3. Empty.lines = <<>> /\ Empty.torn = Nobody /\ DOMAIN Empty.lines = {} /\ IsFile(Empty)
  <2>1. Empty \in [lines: Seq({}), torn: Procs \cup {Nobody}]
    BY DEF Empty
  <2>. QED BY <2>1 DEF Empty, IsFile
<1>4. Unused.at = "idle" /\ IsWriter(Unused)
  <2>1. Unused \in [at: LinePlaces, stream: Streams \cup {"none"}, data: Seq({}), line: Seq({})]
    BY DEF Unused, LinePlaces
  <2>. QED BY <2>1 DEF Unused, IsWriter
<1>. QED BY <1>2, <1>3, <1>4 DEF StoreInv, StoreShape, LockProtects, TornBySomebody,
                                 LinesAreEnded, EndedIsThere, ChainIsWhole, IsChain, At

LEMMA StoreKeeps ==
  ASSUME StoreInv, NEW p \in Procs, WriterStep(p)
  PROVE  StoreInv'
BY WantsKeeps, LocksKeeps, BeginsKeeps, EndsKeeps, LeavesKeeps DEF WriterStep, Appends

LEMMA StoreRests ==
  ASSUME StoreInv, UNCHANGED store
  PROVE  StoreInv'
<1>1. file' = file /\ lock' = lock /\ writer' = writer
  BY DEF store
<1>2. StoreShape'
  BY <1>1 DEF StoreInv, StoreShape, At
<1>3. LockProtects'
  <2>1. ASSUME NEW p \in Procs
        PROVE  FileOf(p)' = FileOf(p) /\ (LineIsNext(p) => LineIsNext(p)')
    BY <1>1 DEF FileOf, LineIsNext, HashAt, line_hash
  <2>. QED BY <1>1, <2>1 DEF StoreInv, LockProtects, At
<1>4. TornBySomebody' /\ LinesAreEnded'
  BY <1>1 DEF StoreInv, TornBySomebody, LinesAreEnded
<1>5. EndedIsThere'
  BY <1>1 DEF StoreInv, EndedIsThere, FileOf
<1>6. ChainIsWhole'
  BY <1>1 DEF StoreInv, ChainIsWhole, IsChain, HashAt, line_hash
<1>. QED BY <1>2, <1>3, <1>4, <1>5, <1>6 DEF StoreInv

(***************************************************************************)
(* What follows from it.                                                   *)
(***************************************************************************)
LEMMA InvKeepsRecords == StoreInv => RecordedIsKept
<1>1. SUFFICES ASSUME StoreInv, NEW p \in Procs, At(p, "recorded")
               PROVE  \E n \in DOMAIN FileOf(p).lines :
                        {n} = {m \in DOMAIN FileOf(p).lines : FileOf(p).lines[m].by = p}
  BY DEF RecordedIsKept, FileOf
<1>2. PICK n \in DOMAIN FileOf(p).lines : FileOf(p).lines[n].by = p
  BY <1>1 DEF StoreInv, EndedIsThere, At
<1>3. \A m \in DOMAIN FileOf(p).lines : FileOf(p).lines[m].by = p => m = n
  <2>1. writer[p].stream \in Streams
    BY <1>1 DEF StoreInv, StoreShape, At
  <2> DEFINE s == writer[p].stream
  <2>2. \A i \in DOMAIN file[s].lines : \A m \in DOMAIN file[s].lines :
           file[s].lines[m].by = file[s].lines[i].by => m = i
    BY <1>1, <2>1 DEF StoreInv, LinesAreEnded
  <2>. QED BY <1>2, <2>2 DEF FileOf
<1>. QED BY <1>2, <1>3

\* A step of a writer leaves a stopped writer's torn line alone.
LEMMA TornIsLeftAlone ==
  ASSUME StoreInv, NEW p \in Procs, WriterStep(p),
         NEW s \in Streams, file[s].torn # Nobody, ~At(file[s].torn, "writing")
  PROVE  file'[s] = file[s]
<1>1. CASE BeginsToWrite(p)
  <2>1. writer[p].stream # s /\ writer[p].stream \in Streams
    BY <1>1 DEF BeginsToWrite, StoreInv, StoreShape, LockProtects, FileOf, At
  <2>. QED BY <1>1, <2>1 DEF BeginsToWrite, StoreInv, StoreShape
<1>2. CASE EndsWriting(p)
  <2>1. writer[p].stream # s /\ writer[p].stream \in Streams
    BY <1>2 DEF EndsWriting, StoreInv, StoreShape, LockProtects, FileOf, At
  <2>. QED BY <1>2, <2>1 DEF EndsWriting, StoreInv, StoreShape
<1>. QED BY <1>1, <1>2 DEF WriterStep, Appends, Wants, Locks, Returns, WriteFails, Dies

\* Lines are only added.
LEMMA LinesGrow ==
  ASSUME StoreInv, NEW p \in Procs, WriterStep(p), NEW s \in Streams
  PROVE  /\ Len(file[s].lines) \in Nat /\ DOMAIN file[s].lines = 1 .. Len(file[s].lines)
         /\ Len(file'[s].lines) \in Nat /\ Len(file'[s].lines) >= Len(file[s].lines)
         /\ \A i \in 1 .. Len(file[s].lines) : file'[s].lines[i] = file[s].lines[i]
<1>1. PICK L : file[s] \in [lines: Seq(L), torn: Procs \cup {Nobody}]
  BY DEF StoreInv, StoreShape, IsFile
<1>2. Len(file[s].lines) \in Nat /\ DOMAIN file[s].lines = 1 .. Len(file[s].lines)
  BY <1>1
<1>3. CASE BeginsToWrite(p)
  <2>1. file'[s].lines = file[s].lines
    BY <1>1, <1>3 DEF BeginsToWrite, StoreInv, StoreShape
  <2>. QED BY <1>2, <2>1
<1>4. CASE EndsWriting(p)
  <2>1. CASE writer[p].stream = s
    <3>1. PICK e : writer[p].line = <<e>>
      BY <1>4 DEF EndsWriting, StoreInv, LockProtects, LineIsNext
    <3>2. file'[s].lines = file[s].lines \o <<e>>
      BY <1>4, <2>1, <3>1 DEF EndsWriting, StoreInv, StoreShape
    <3>. QED BY <1>1, <1>2, <3>2, OneLonger
  <2>2. CASE writer[p].stream # s
    <3>1. file'[s] = file[s]
      <4>1. file = [x \in Streams |-> file[x]]
        BY DEF StoreInv, StoreShape
      <4>. QED BY <1>4, <2>2, <4>1 DEF EndsWriting
    <3>. QED BY <1>2, <3>1
  <2>. QED BY <2>1, <2>2
<1>5. CASE UNCHANGED file
  BY <1>2, <1>5
<1>. QED BY <1>3, <1>4, <1>5 DEF WriterStep, Appends, Wants, Locks, Returns, WriteFails, Dies

USE RegistryAssumption

CommandedTyped == commanded \in Procs \cup {Nobody}

(***************************************************************************)
(* What the registry does to the store: steps of one writer, or nothing.   *)
(***************************************************************************)
LEMMA CommandsAreTyped ==
  ASSUME CommandedTyped, [Next]_vars
  PROVE  CommandedTyped'
<1>1. ASSUME NEW p \in Procs, StartsProbe(p) \/ StartsWatch(p)
      PROVE  CommandedTyped'
  BY <1>1 DEF CommandedTyped, StartsProbe, StartsWatch
<1>2. RunsProbe \/ ChecksRow \/ Exports \/ World \/ Stores => UNCHANGED commanded
  BY DEF RunsProbe, ChecksRow, Exports, World, PageChanges, RowIsEdited, Stores
<1>3. RecordsProbe \/ RecordsWatch => commanded' = Nobody
  BY DEF RecordsProbe, RecordsWatch
<1>. QED BY <1>1, <1>2, <1>3, Zenon DEF Next, Commands, vars, CommandedTyped

LEMMA StoreSteps ==
  ASSUME CommandedTyped, [Next]_vars
  PROVE  UNCHANGED store \/ \E p \in Procs : WriterStep(p)
<1>1. ASSUME NEW p \in Procs, StartsProbe(p) \/ StartsWatch(p)
      PROVE  UNCHANGED store
  BY <1>1 DEF StartsProbe, StartsWatch
<1>2. RunsProbe \/ ChecksRow \/ Exports \/ World => UNCHANGED store
  BY DEF RunsProbe, ChecksRow, Exports, World, PageChanges, RowIsEdited
<1>3. ASSUME RecordsProbe
      PROVE  \E p \in Procs : WriterStep(p)
  <2>1. commanded \in Procs /\ "probes" \in Streams
        /\ Wants(commanded, "probes", Findings(probe, run.by_step))
    BY <1>3 DEF RecordsProbe, CommandedTyped, NobodyRuns
  <2>. QED BY <2>1, Zenon DEF WriterStep
<1>4. ASSUME RecordsWatch
      PROVE  \E p \in Procs : WriterStep(p)
  <2>1. commanded \in Procs /\ "watch" \in Streams /\ Wants(commanded, "watch", check.results)
    BY <1>4 DEF RecordsWatch, IsWatching, CommandedTyped
  <2>. QED BY <2>1, Zenon DEF WriterStep
<1>5. ASSUME Stores
      PROVE  \E p \in Procs : WriterStep(p)
  BY <1>5, Zenon DEF Stores, WriterStep
<1>6. vars' = vars => UNCHANGED store
  BY DEF vars
<1>. QED BY <1>1, <1>2, <1>3, <1>4, <1>5, <1>6, Zenon DEF Next, Commands

\* The strengthening: the store is sound and a command is of a process.
THEOREM StoreIsSound == Spec => [](StoreInv /\ CommandedTyped)
<1>1. Init => StoreInv /\ CommandedTyped
  BY StoreStarts DEF Init, CommandedTyped
<1>2. StoreInv /\ CommandedTyped /\ [Next]_vars => (StoreInv /\ CommandedTyped)'
  BY StoreSteps, CommandsAreTyped, StoreKeeps, StoreRests, Zenon
<1>. QED BY <1>1, <1>2, PTL DEF Spec

\* "Two writers cannot both take the same seq": the lines of a store are one
\* chain, whoever appends, dies or fails.
THEOREM OneChain == Spec => []ChainIsWhole
<1>1. StoreInv => ChainIsWhole
  BY DEF StoreInv
<1>. QED BY <1>1, StoreIsSound, PTL

\* A record whose hash append returned is in its file, once.
THEOREM NoRecordIsLost == Spec => []RecordedIsKept
BY InvKeepsRecords, StoreIsSound, PTL

\* "A broken store is never extended."
THEOREM BrokenStaysBroken == Spec => BrokenIsNeverExtended
<1>1. StoreInv /\ CommandedTyped /\ [Next]_vars =>
        [\A s \in Streams : file[s].torn # Nobody =>
           At(file[s].torn, "writing") \/ file'[s] = file[s]]_store
  <2>1. SUFFICES ASSUME StoreInv, CommandedTyped, [Next]_vars, store' # store,
                        NEW s \in Streams, file[s].torn # Nobody, ~At(file[s].torn, "writing")
                 PROVE  file'[s] = file[s]
    OBVIOUS
  <2>2. PICK p \in Procs : WriterStep(p)
    BY <2>1, StoreSteps
  <2>. QED BY <2>1, <2>2, TornIsLeftAlone
<1>. QED BY <1>1, StoreIsSound, PTL DEF Spec, BrokenIsNeverExtended

(***************************************************************************)
(* The store implements what a store of evidence promises.                 *)
(***************************************************************************)
Logged(lines) == [n \in DOMAIN lines |-> lines[n].by]
Logs == [s \in Streams |-> Logged(file[s].lines)]
Told == {p \in Procs : At(p, "recorded")}

LEMMA LoggedGrows ==
  ASSUME NEW L, NEW lines \in Seq(L), NEW e
  PROVE  Logged(lines \o <<e>>) = Append(Logged(lines), e.by)
<1> DEFINE longer == lines \o <<e>>
           n == Len(lines)
<1>1. /\ n \in Nat /\ DOMAIN lines = 1 .. n /\ DOMAIN longer = 1 .. n + 1
      /\ \A i \in 1 .. n : longer[i] = lines[i]
      /\ longer[n + 1] = e
  BY OneLonger
<1> HIDE DEF longer, n
<1>2. \A i \in 1 .. n + 1 : i \in 1 .. n \/ i = n + 1
  BY <1>1
<1>3. Logged(lines) \in Seq({lines[i].by : i \in 1 .. n}) /\ Len(Logged(lines)) = n
  BY <1>1, SeqDef, LenProperties DEF Logged
<1>4. Append(Logged(lines), e.by)
        = [i \in 1 .. n + 1 |-> IF i = n + 1 THEN e.by ELSE Logged(lines)[i]]
  BY <1>1, <1>3
<1>5. Logged(longer) = [i \in 1 .. n + 1 |-> longer[i].by]
  BY <1>1 DEF Logged
<1>6. \A i \in 1 .. n + 1 : longer[i].by = IF i = n + 1 THEN e.by ELSE Logged(lines)[i]
  BY <1>1, <1>2 DEF Logged
<1>. QED BY <1>4, <1>5, <1>6 DEF longer

\* Who is told is told of a record that is there; who is writing has none there.
LEMMA ToldIsLogged ==
  ASSUME StoreInv, NEW p \in Procs
  PROVE  /\ writer[p].at \in {"written", "recorded"} =>
              \E s \in Streams : p \in {Logs[s][n] : n \in DOMAIN Logs[s]}
         /\ At(p, "writing") => \A s \in Streams : p \notin {Logs[s][n] : n \in DOMAIN Logs[s]}
<1>1. \A s \in Streams : /\ DOMAIN Logs[s] = DOMAIN file[s].lines
                         /\ \A n \in DOMAIN file[s].lines : Logs[s][n] = file[s].lines[n].by
  BY DEF Logs, Logged
<1>2. ASSUME writer[p].at \in {"written", "recorded"}
      PROVE  \E s \in Streams : p \in {Logs[s][n] : n \in DOMAIN Logs[s]}
  <2>1. writer[p].stream \in Streams
    BY <1>2 DEF StoreInv, StoreShape, At
  <2>2. PICK n \in DOMAIN file[writer[p].stream].lines : file[writer[p].stream].lines[n].by = p
    BY <1>2 DEF StoreInv, EndedIsThere, FileOf
  <2>. QED BY <1>1, <2>1, <2>2
<1>3. ASSUME At(p, "writing"), NEW s \in Streams, NEW n \in DOMAIN Logs[s]
      PROVE  Logs[s][n] # p
  BY <1>1, <1>3 DEF StoreInv, LinesAreEnded, At
<1>. QED BY <1>2, <1>3

LEMMA KeptIs ==
  ASSUME NEW r
  PROVE  r \in Log!Kept <=> \E s \in Streams : r \in {Logs[s][n] : n \in DOMAIN Logs[s]}
BY DEF Log!Kept, Log!Range, Logs, Logged

LEMMA WriterLogs ==
  ASSUME StoreInv, NEW p \in Procs, WriterStep(p)
  PROVE  Log!Next \/ (Logs' = Logs /\ Told' = Told)
<1> DEFINE s == writer[p].stream
<1>1. \A q \in Procs \ {p} : writer'[q] = writer[q]
  BY DEF WriterStep, Wants, Appends, Locks, BeginsToWrite, EndsWriting, Returns, WriteFails, Dies,
         GoesTo, StoreInv, StoreShape
<1>2. CASE EndsWriting(p)
  <2>1. /\ At(p, "writing") /\ s \in Streams /\ LineIsNext(p)
        /\ file' = [file EXCEPT ![s] = [lines |-> file[s].lines \o writer[p].line, torn |-> Nobody]]
        /\ GoesTo(p, "written")
    BY <1>2 DEF EndsWriting, At, StoreInv, StoreShape, LockProtects
  <2>2. PICK e : writer[p].line = <<e>> /\ e.by = p
    BY <2>1 DEF LineIsNext
  <2>3. PICK L : file[s].lines \in Seq(L)
    BY <2>1 DEF StoreInv, StoreShape, IsFile
  <2>4. Logged(file'[s].lines) = Append(Logged(file[s].lines), p)
    <3>1. file'[s].lines = file[s].lines \o <<e>>
      BY <2>1, <2>2 DEF StoreInv, StoreShape
    <3>. QED BY <2>2, <2>3, <3>1, LoggedGrows
  <2>5. \A x \in Streams \ {s} : file'[x] = file[x]
    BY <2>1 DEF StoreInv, StoreShape
  <2>6. Logs' = [Logs EXCEPT ![s] = Append(@, p)]
    <3>1. \A x \in Streams : Logged(file'[x].lines)
                              = IF x = s THEN Append(Logs[s], p) ELSE Logs[x]
      <4>1. \A x \in Streams : Logs[x] = Logged(file[x].lines)
        BY DEF Logs
      <4>. QED BY <2>1, <2>4, <2>5, <4>1
    <3>2. Logs' = [x \in Streams |-> Logged(file'[x].lines)]
      BY DEF Logs
    <3>3. DOMAIN Logs = Streams
      BY DEF Logs
    <3>4. [Logs EXCEPT ![s] = Append(@, p)]
            = [x \in Streams |-> IF x = s THEN Append(Logs[s], p) ELSE Logs[x]]
      BY <3>3
    <3>. QED BY <3>1, <3>2, <3>4
  <2>7. writer'[p].at = "written"
    BY <2>1, Moves DEF StoreInv, LinePlaces, At
  <2>8. Told' = Told
    BY <1>1, <2>1, <2>7 DEF Told, At
  <2>9. p \notin Log!Kept
    BY <2>1, ToldIsLogged, KeptIs
  <2>10. PICK stream \in Streams : stream = s
    BY <2>1
  <2>11. Log!Adds(stream, p)
    BY <2>6, <2>8, <2>9, <2>10 DEF Log!Adds, Logs, Logged, Told
  <2>. QED BY <2>11, Zenon DEF Log!Next
<1>3. CASE Returns(p)
  <2>1. At(p, "written") /\ file' = file /\ GoesTo(p, "recorded")
    BY <1>3 DEF Returns
  <2>2. writer'[p].at = "recorded"
    BY <2>1, Moves DEF StoreInv, LinePlaces, At
  <2>3. Logs' = Logs
    BY <2>1 DEF Logs, Logged
  <2>4. Told' = Told \cup {p} /\ p \notin Told
    BY <1>1, <2>1, <2>2 DEF Told, At
  <2>5. Told \cup {p} \subseteq Log!Kept
    BY <2>1, ToldIsLogged, KeptIs DEF Told, At
  <2>6. Log!Tells
    BY <2>3, <2>4, <2>5 DEF Log!Tells, Logs, Logged, Told
  <2>. QED BY <2>6 DEF Log!Next
<1>4. CASE BeginsToWrite(p)
  <2>1. At(p, "locked") /\ s \in Streams /\ GoesTo(p, "writing")
        /\ file' = [file EXCEPT ![s].torn = p]
    BY <1>4 DEF BeginsToWrite, At, StoreInv, StoreShape
  <2>2. \A x \in Streams : file'[x].lines = file[x].lines
    BY <2>1 DEF StoreInv, StoreShape, IsFile
  <2>3. writer'[p].at = "writing"
    BY <2>1, Moves DEF StoreInv, LinePlaces, At
  <2>. QED BY <1>1, <2>1, <2>2, <2>3 DEF Logs, Told, At
<1>5. CASE (\E x \in Streams : \E data : Wants(p, x, data)) \/ Locks(p) \/ WriteFails(p) \/ Dies(p)
  <2>1. file' = file /\ writer[p].at # "recorded"
    BY <1>5 DEF Wants, Locks, WriteFails, Dies, At
  <2>2. writer'[p].at # "recorded"
    <3>1. CASE \E x \in Streams : \E data : Wants(p, x, data)
      <4>1. writer'[p].at = "ready"
        BY <3>1 DEF Wants, StoreInv, StoreShape
      <4>. QED BY <4>1
    <3>2. CASE \E where \in {"refused", "dead"} : GoesTo(p, where) /\ ~At(p, "idle")
      BY <3>2, Moves DEF StoreInv, LinePlaces
    <3>3. CASE writer' = [writer EXCEPT ![p].at = "locked", ![p].line = <<NextLine(p)>>]
      <4>1. PICK w : w = writer[p] /\ \E D, L : w \in [at: LinePlaces, stream: Streams \cup {"none"}, data: Seq(D), line: Seq(L)]
        BY DEF StoreInv, StoreShape, IsWriter
      <4>2. writer'[p] = [[w EXCEPT !.at = "locked"] EXCEPT !.line = <<NextLine(p)>>]
        BY <3>3, <4>1 DEF StoreInv, StoreShape
      <4>. QED BY <4>1, <4>2
    <3>. QED BY <1>5, <3>1, <3>2, <3>3 DEF Locks, WriteFails, Dies, At
  <2>. QED BY <1>1, <2>1, <2>2 DEF Logs, Told, At
<1>. QED BY <1>2, <1>3, <1>4, <1>5 DEF WriterStep, Appends

\* Whoever writes at the same time, fails or dies, the registry's store does what
\* an evidence log promises: a file gains one new record at its end or none, and
\* a hash is returned only for a record that is there.
THEOREM StoreKeepsLog == Spec => ImplementsLog
<1>1. Init => Log!Init
  <2>1. SUFFICES ASSUME Init PROVE Logs = [s \in Streams |-> <<>>] /\ Told = {}
    BY DEF Log!Init, Logs, Logged, Told
  <2>2. /\ \A s \in Streams : file[s].lines = <<>>
        /\ \A p \in Procs : writer[p].at = "idle"
    BY <2>1 DEF Init, InitStore, Empty, Unused
  <2>3. \A s \in Streams : Logged(file[s].lines) = <<>>
    BY <2>2 DEF Logged
  <2>. QED BY <2>2, <2>3 DEF Logs, Told, At
<1>2. StoreInv /\ CommandedTyped /\ [Next]_vars => [Log!Next]_<<Logs, Told>>
  <2>1. SUFFICES ASSUME StoreInv, CommandedTyped, [Next]_vars
                 PROVE  Log!Next \/ (Logs' = Logs /\ Told' = Told)
    OBVIOUS
  <2>2. UNCHANGED store => Logs' = Logs /\ Told' = Told
    BY DEF store, Logs, Logged, Told, At
  <2>. QED BY <2>1, <2>2, StoreSteps, WriterLogs
<1>. QED BY <1>1, <1>2, StoreIsSound, PTL DEF Spec, ImplementsLog, Log!Spec, Logs, Logged, Told

(***************************************************************************)
(* An export: what it read is the beginning of the file, and a checkpoint  *)
(* it took is of a later moment.                                           *)
(***************************************************************************)
StreamHead == [length: Nat, hash: Procs \cup {GENESIS}]

ExportShape ==
  \E R, W : export \in [at: 0 .. 6, verified: BOOLEAN, read: [Streams -> R], rows: W,
                        heads: [Streams -> StreamHead]]

IsRead(s) ==
  LET read == export.read[s]
      lines == file[s].lines
  IN  /\ \E L : read \in Seq(L)
      /\ Len(read) <= Len(lines)
      /\ \A i \in 1 .. Len(read) : read[i] = lines[i]

Pinned == CASE export.at = 4 -> {"probes"} [] export.at = 5 -> Streams [] OTHER -> {}

IsPinned(s) ==
  LET head == export.heads[s]
  IN  /\ Len(export.read[s]) <= head.length
      /\ head.length <= Len(file[s].lines)
      /\ head.hash = HashAt(file[s].lines, head.length)

ExportInv ==
  /\ ExportShape
  /\ \A s \in Streams : IsRead(s)
  /\ \A s \in Pinned : IsPinned(s)

LEMMA BuildSteps ==
  ASSUME Builds
  PROVE  \/ export.at = 1 /\ ReadsHistory("watch")
         \/ export.at = 2 /\ ReadsHistory("probes")
         \/ export.at = 3 /\ Pins("probes")
         \/ export.at = 4 /\ Pins("watch")
BY DEF Builds, BuildOrder

LEMMA LinesAreTyped ==
  ASSUME StoreInv, NEW s \in Streams
  PROVE  /\ \E L : file[s].lines \in Seq(L)
         /\ Len(file[s].lines) \in Nat /\ DOMAIN file[s].lines = 1 .. Len(file[s].lines)
         /\ \A n \in 0 .. Len(file[s].lines) : HashAt(file[s].lines, n) \in Procs \cup {GENESIS}
<1>1. PICK L : file[s] \in [lines: Seq(L), torn: Procs \cup {Nobody}]
  BY DEF StoreInv, StoreShape, IsFile
<1>2. /\ file[s].lines \in Seq(L)
      /\ Len(file[s].lines) \in Nat /\ DOMAIN file[s].lines = 1 .. Len(file[s].lines)
  BY <1>1
<1>3. ASSUME NEW n \in 1 .. Len(file[s].lines)
      PROVE  file[s].lines[n].by \in Procs
  BY <1>2 DEF StoreInv, LinesAreEnded
<1>. QED BY <1>2, <1>3 DEF HashAt, line_hash

\* Other steps only add to the files.
LEMMA ExportOutlives ==
  ASSUME StoreInv, ExportInv, UNCHANGED export,
         UNCHANGED store \/ \E p \in Procs : WriterStep(p)
  PROVE  ExportInv'
<1>1. ASSUME NEW s \in Streams
      PROVE  /\ Len(file[s].lines) \in Nat /\ Len(file'[s].lines) \in Nat
             /\ Len(file[s].lines) <= Len(file'[s].lines)
             /\ \A i \in 1 .. Len(file[s].lines) : file'[s].lines[i] = file[s].lines[i]
  <2>1. CASE UNCHANGED store
    BY <2>1, LinesAreTyped DEF store
  <2>2. CASE \E p \in Procs : WriterStep(p)
    BY <2>2, LinesGrow
  <2>. QED BY <2>1, <2>2
<1>2. ExportShape' /\ Pinned' = Pinned
  BY DEF ExportInv, ExportShape, Pinned
<1>3. ASSUME NEW s \in Streams
      PROVE  IsRead(s)'
  <2>1. PICK L : export.read[s] \in Seq(L)
    BY DEF ExportInv, IsRead
  <2>2. /\ Len(export.read[s]) \in Nat /\ Len(export.read[s]) <= Len(file[s].lines)
        /\ \A i \in 1 .. Len(export.read[s]) : export.read[s][i] = file[s].lines[i]
    BY <2>1 DEF ExportInv, IsRead
  <2>3. /\ Len(export.read[s]) <= Len(file'[s].lines)
        /\ \A i \in 1 .. Len(export.read[s]) : export.read[s][i] = file'[s].lines[i]
    <3> DEFINE n == Len(export.read[s])
               k == Len(file[s].lines)
               l == Len(file'[s].lines)
    <3>1. n \in Nat /\ k \in Nat /\ l \in Nat /\ n <= k /\ k <= l
      BY <1>1, <2>2
    <3>2. ASSUME NEW i \in 1 .. n PROVE export.read[s][i] = file'[s].lines[i]
      <4>1. export.read[s][i] = file[s].lines[i]
        BY <2>2
      <4>2. i \in 1 .. k
        <5>. HIDE DEF n, k, l
        <5>. QED BY <3>1
      <4>. QED BY <1>1, <4>1, <4>2
    <3>3. n <= l
      <4>. HIDE DEF n, k, l
      <4>. QED BY <3>1
    <3>. QED BY <3>2, <3>3
  <2>. QED BY <2>1, <2>3 DEF IsRead
<1>4. ASSUME NEW s \in Pinned
      PROVE  IsPinned(s)'
  <2>1. s \in Streams /\ IsPinned(s)
    BY DEF ExportInv, Pinned
  <2>2. export.heads[s].length \in Nat
    BY <2>1 DEF ExportInv, ExportShape, StreamHead
  <2>3. HashAt(file'[s].lines, export.heads[s].length) = HashAt(file[s].lines, export.heads[s].length)
    <3> DEFINE n == export.heads[s].length
    <3>1. n \in Nat /\ n <= Len(file[s].lines) /\ Len(file[s].lines) \in Nat
      BY <1>1, <2>1, <2>2 DEF IsPinned
    <3>. HIDE DEF n
    <3>2. CASE n = 0
      BY <3>2 DEF HashAt, n
    <3>3. CASE n # 0
      <4>1. n \in 1 .. Len(file[s].lines)
        BY <3>1, <3>3
      <4>. QED BY <1>1, <2>1, <3>3, <4>1 DEF HashAt, line_hash, n
    <3>. QED BY <3>2, <3>3
  <2>. QED BY <1>1, <2>1, <2>2, <2>3 DEF IsPinned
<1>. QED BY <1>2, <1>3, <1>4 DEF ExportInv

\* Steps of the export.
LEMMA StartKeeps ==
  ASSUME StoreInv, ExportInv, StartsExport, UNCHANGED store
  PROVE  ExportInv'
<1>1. file' = file
  BY DEF store
<1>2. /\ export'.at = 1 /\ \A s \in Streams : export'.read[s] = <<>>
      /\ ExportShape'
  <2>1. export' = [at |-> 1, verified |-> FALSE, read |-> Unread, rows |-> rows,
                   heads |-> NoExport.heads]
    BY DEF StartsExport, NoExport
  <2>2. NoExport.heads \in [Streams -> StreamHead] /\ Unread \in [Streams -> {<<>>}]
    BY DEF NoExport, StreamHead, Unread
  <2>. HIDE DEF Unread
  <2>3. export' \in [at: 0 .. 6, verified: BOOLEAN, read: [Streams -> {<<>>}], rows: {rows},
                     heads: [Streams -> StreamHead]]
    BY <2>1, <2>2
  <2>. QED BY <2>1, <2>3 DEF ExportShape, Unread
<1>3. ASSUME NEW s \in Streams PROVE IsRead(s)'
  <2>1. export'.read[s] = <<>> /\ <<>> \in Seq({}) /\ Len(<<>>) = 0
    BY <1>2
  <2>2. Len(file[s].lines) \in Nat
    BY LinesAreTyped
  <2>. QED BY <1>1, <2>1, <2>2 DEF IsRead
<1>. QED BY <1>2, <1>3 DEF ExportInv, Pinned

LEMMA ReadKeeps ==
  ASSUME StoreInv, ExportInv, NEW s \in Streams, ReadsHistory(s), UNCHANGED store,
         export.at \in {1, 2}
  PROVE  ExportInv'
<1>1. PICK R, W : export \in [at: 0 .. 6, verified: BOOLEAN, read: [Streams -> R], rows: W,
                              heads: [Streams -> StreamHead]]
  BY DEF ExportInv, ExportShape
<1>2. file' = file
  BY DEF store
<1>3. CASE export' = [export EXCEPT !.verified = TRUE] \/ export' = [export EXCEPT !.at = 6]
  <2>1. /\ export' \in [at: 0 .. 6, verified: BOOLEAN, read: [Streams -> R], rows: W,
                        heads: [Streams -> StreamHead]]
        /\ export'.read = export.read /\ export'.at \in {1, 2, 6}
    <3>1. CASE export' = [export EXCEPT !.verified = TRUE]
      BY <1>1, <3>1
    <3>2. CASE export' = [export EXCEPT !.at = 6]
      BY <1>1, <3>2
    <3>. QED BY <1>3, <3>1, <3>2
  <2>2. ExportShape' /\ Pinned' = {}
    BY <2>1 DEF ExportShape, Pinned
  <2>. QED BY <1>2, <2>1, <2>2 DEF ExportInv, IsRead
<1>4. CASE GoesOn([export EXCEPT !.read[s] = file[s].lines])
  <2> DEFINE lines == file[s].lines
             read == [export.read EXCEPT ![s] = lines]
  <2>1. read \in [Streams -> R \cup {lines}] /\ read[s] = lines
        /\ \A x \in Streams \ {s} : read[x] = export.read[x]
    BY <1>1
  <2>2. export' = [at |-> export.at + 1, verified |-> FALSE, read |-> read, rows |-> export.rows,
                   heads |-> export.heads]
    BY <1>1, <1>4 DEF GoesOn
  <2>. HIDE DEF read
  <2>3. /\ export' \in [at: 0 .. 6, verified: BOOLEAN, read: [Streams -> R \cup {lines}], rows: W,
                        heads: [Streams -> StreamHead]]
        /\ export'.read = read /\ export'.at \in {2, 3}
    BY <1>1, <2>1, <2>2
  <2>4. ExportShape' /\ Pinned' = {}
    <3> DEFINE Q == R \cup {lines}
    <3>1. export' \in [at: 0 .. 6, verified: BOOLEAN, read: [Streams -> Q], rows: W,
                       heads: [Streams -> StreamHead]]
      BY <2>3
    <3>. HIDE DEF Q
    <3>2. ExportShape'
      BY <3>1 DEF ExportShape
    <3>. QED BY <2>3, <3>2 DEF Pinned
  <2>5. ASSUME NEW x \in Streams \ {s} PROVE IsRead(x)'
    BY <1>2, <2>1, <2>3 DEF ExportInv, IsRead
  <2>6. IsRead(s)'
    <3>1. PICK L : lines \in Seq(L)
      BY LinesAreTyped
    <3>2. export'.read[s] = lines /\ Len(lines) \in Nat
      BY <2>1, <2>3, <3>1
    <3>. QED BY <1>2, <3>1, <3>2 DEF IsRead
  <2>. QED BY <2>4, <2>5, <2>6 DEF ExportInv
<1>. QED BY <1>3, <1>4 DEF ReadsHistory, Fails, Failed

LEMMA PinKeeps ==
  ASSUME StoreInv, ExportInv, NEW s \in Streams, Pins(s), UNCHANGED store,
         (export.at = 3 /\ s = "probes") \/ (export.at = 4 /\ s = "watch")
  PROVE  ExportInv'
<1>1. PICK R, W : export \in [at: 0 .. 6, verified: BOOLEAN, read: [Streams -> R], rows: W,
                              heads: [Streams -> StreamHead]]
  BY DEF ExportInv, ExportShape
<1>2. file' = file
  BY DEF store
<1>3. CASE Fails
  <2>1. /\ export' \in [at: 0 .. 6, verified: BOOLEAN, read: [Streams -> R], rows: W,
                        heads: [Streams -> StreamHead]]
        /\ export'.read = export.read /\ export'.at = 6
    BY <1>1, <1>3 DEF Fails, Failed
  <2>2. ExportShape' /\ Pinned' = {}
    BY <2>1 DEF ExportShape, Pinned
  <2>. QED BY <1>2, <2>1, <2>2 DEF ExportInv, IsRead
<1>4. CASE GoesOn([export EXCEPT !.heads[s] = HeadOf(s)])
  <2> DEFINE head == HeadOf(s)
             heads == [export.heads EXCEPT ![s] = head]
  <2>1. /\ head \in StreamHead /\ head.length = Len(file[s].lines)
        /\ head.hash = HashAt(file[s].lines, Len(file[s].lines))
    <3>1. Len(file[s].lines) \in Nat
          /\ HashAt(file[s].lines, Len(file[s].lines)) \in Procs \cup {GENESIS}
      BY LinesAreTyped
    <3>. QED BY <3>1 DEF HeadOf, StreamHead
  <2>. HIDE DEF head
  <2>2. heads \in [Streams -> StreamHead] /\ heads[s] = head
        /\ \A x \in Streams \ {s} : heads[x] = export.heads[x]
    BY <1>1, <2>1
  <2>3. export' = [at |-> export.at + 1, verified |-> FALSE, read |-> export.read,
                   rows |-> export.rows, heads |-> heads]
    BY <1>1, <1>4 DEF GoesOn, head
  <2>. HIDE DEF heads
  <2>4. /\ export' \in [at: 0 .. 6, verified: BOOLEAN, read: [Streams -> R], rows: W,
                        heads: [Streams -> StreamHead]]
        /\ export'.read = export.read /\ export'.heads = heads
        /\ export'.at = export.at + 1
    BY <1>1, <2>2, <2>3
  <2>5. ExportShape'
    BY <2>4 DEF ExportShape
  <2>6. Pinned' = Pinned \cup {s}
    BY <2>4 DEF Pinned
  <2>7. \A x \in Streams : IsRead(x)'
    BY <1>2, <2>4 DEF ExportInv, IsRead
  <2>8. IsPinned(s)'
    <3>1. Len(export.read[s]) <= Len(file[s].lines) /\ Len(file[s].lines) \in Nat
      BY LinesAreTyped DEF ExportInv, IsRead
    <3>. QED BY <1>2, <2>1, <2>2, <2>4, <3>1 DEF IsPinned
  <2>9. ASSUME NEW x \in Pinned, x # s PROVE IsPinned(x)'
    <3>1. x \in Streams /\ IsPinned(x)
      BY <2>9 DEF ExportInv, Pinned
    <3>2. export'.heads[x] = export.heads[x] /\ export'.read[x] = export.read[x]
      BY <2>2, <2>4, <2>9, <3>1
    <3>. QED BY <1>2, <3>1, <3>2 DEF IsPinned
  <2>. QED BY <2>5, <2>6, <2>7, <2>8, <2>9 DEF ExportInv
<1>. QED BY <1>3, <1>4 DEF Pins

LEMMA ExportKeeps ==
  ASSUME StoreInv, CommandedTyped, ExportInv, [Next]_vars
  PROVE  ExportInv'
<1>1. CASE Exports
  <2>1. UNCHANGED store /\ (StartsExport \/ Builds)
    BY <1>1 DEF Exports
  <2>2. "probes" \in Streams /\ "watch" \in Streams
    OBVIOUS
  <2>3. CASE Builds
    <3>1. CASE export.at = 1 /\ ReadsHistory("watch")
      BY <2>1, <2>2, <3>1, ReadKeeps
    <3>2. CASE export.at = 2 /\ ReadsHistory("probes")
      BY <2>1, <2>2, <3>2, ReadKeeps
    <3>3. CASE export.at = 3 /\ Pins("probes")
      BY <2>1, <2>2, <3>3, PinKeeps
    <3>4. CASE export.at = 4 /\ Pins("watch")
      BY <2>1, <2>2, <3>4, PinKeeps
    <3>. QED BY <2>3, <3>1, <3>2, <3>3, <3>4, BuildSteps
  <2>. QED BY <2>1, <2>3, StartKeeps
<1>2. CASE ~Exports
  <2>1. UNCHANGED export
    <3>1. ASSUME NEW p \in Procs, StartsProbe(p) \/ StartsWatch(p)
          PROVE  UNCHANGED export
      BY <3>1 DEF StartsProbe, StartsWatch
    <3>2. RunsProbe \/ ChecksRow \/ RecordsProbe \/ RecordsWatch \/ Stores \/ World
            => UNCHANGED export
      BY DEF RunsProbe, ChecksRow, RecordsProbe, RecordsWatch, Stores, World, PageChanges, RowIsEdited
    <3>3. UNCHANGED vars => UNCHANGED export
      BY DEF vars
    <3>. QED BY <1>2, <3>1, <3>2, <3>3, Zenon DEF Next, Commands
  <2>. QED BY <2>1, StoreSteps, ExportOutlives
<1>. QED BY <1>1, <1>2

LEMMA ExportStarts == InitStore /\ export = NoExport => ExportInv
<1>1. SUFFICES ASSUME InitStore, export = NoExport PROVE ExportInv
  OBVIOUS
<1>2. /\ export = [at |-> 0, verified |-> FALSE, read |-> Unread, rows |-> CitedRows,
                   heads |-> NoExport.heads]
      /\ NoExport.heads \in [Streams -> StreamHead] /\ Unread \in [Streams -> {<<>>}]
  BY <1>1 DEF NoExport, StreamHead, Unread
<1>3. \A s \in Streams : export.read[s] = <<>> /\ Len(file[s].lines) = 0
  BY <1>1, <1>2 DEF Unread, InitStore, Empty
<1>. HIDE DEF Unread
<1>4. export \in [at: 0 .. 6, verified: BOOLEAN, read: [Streams -> {<<>>}], rows: {CitedRows},
                  heads: [Streams -> StreamHead]]
  BY <1>2
<1>5. ExportShape /\ Pinned = {}
  <2> DEFINE R == {<<>>}
             W == {CitedRows}
  <2>1. export \in [at: 0 .. 6, verified: BOOLEAN, read: [Streams -> R], rows: W,
                    heads: [Streams -> StreamHead]]
    BY <1>4
  <2>. HIDE DEF R, W
  <2>2. ExportShape
    BY <2>1 DEF ExportShape
  <2>. QED BY <1>2, <2>2 DEF Pinned
<1>6. ASSUME NEW s \in Streams PROVE IsRead(s)
  <2>1. export.read[s] = <<>> /\ <<>> \in Seq({}) /\ Len(<<>>) = 0 /\ Len(file[s].lines) = 0
    BY <1>3
  <2>. QED BY <2>1 DEF IsRead
<1>. QED BY <1>5, <1>6 DEF ExportInv

LEMMA InvPins == StoreInv /\ ExportInv => ExportIsPinned
<1>1. SUFFICES ASSUME StoreInv, ExportInv, export.at = 5, NEW s \in Streams
               PROVE  /\ Len(export.read[s]) <= export.heads[s].length
                      /\ Extends(file[s].lines, export.heads[s])
                      /\ export.read[s] = SubSeq(file[s].lines, 1, Len(export.read[s]))
  BY DEF ExportIsPinned, IsExported, Done
<1>2. IsPinned(s) /\ export.heads[s].length \in Nat
  BY <1>1 DEF ExportInv, ExportShape, Pinned, StreamHead
<1>3. Extends(file[s].lines, export.heads[s])
  BY <1>2 DEF Extends, IsPinned, HashAt
<1>4. export.read[s] = SubSeq(file[s].lines, 1, Len(export.read[s]))
  <2> DEFINE read == export.read[s]
             lines == file[s].lines
  <2>1. PICK L : read \in Seq(L)
    BY <1>1 DEF ExportInv, IsRead
  <2>2. PICK M : lines \in Seq(M)
    BY <1>1, LinesAreTyped
  <2>3. Len(read) <= Len(lines) /\ \A i \in 1 .. Len(read) : read[i] = lines[i]
    BY <1>1 DEF ExportInv, IsRead
  <2>. HIDE DEF read, lines
  <2> DEFINE n == Len(read)
             prefix == SubSeq(lines, 1, n)
  <2>4. /\ n \in Nat /\ \A i \in 1 .. n : lines[i] \in M /\ read[i] = lines[i]
        /\ read = [i \in 1 .. n |-> read[i]]
    <3>1. Len(lines) \in Nat /\ Len(read) \in Nat /\ \A i \in 1 .. Len(lines) : lines[i] \in M
      BY <2>1, <2>2
    <3>. QED BY <2>1, <2>3, <3>1
  <2>5. read \in Seq(M)
    <3>. HIDE DEF n
    <3>1. read \in [1 .. n -> M]
      BY <2>4
    <3>2. Seq(M) = UNION {[1 .. k -> M] : k \in Nat}
      BY SeqDef
    <3>. QED BY <2>4, <3>1, <3>2, Zenon
  <2>6. /\ prefix \in Seq(M) /\ Len(prefix) = n
        /\ \A i \in 1 .. n : prefix[i] = lines[i]
    <3>. HIDE DEF n
    <3>1. 1 \in Int /\ n \in Int /\ \A i \in 1 .. n : lines[i] \in M
      BY <2>4
    <3>2. /\ prefix \in Seq(M) /\ Len(prefix) = IF 1 <= n THEN n - 1 + 1 ELSE 0
          /\ \A i \in 1 .. n - 1 + 1 : prefix[i] = lines[1 + i - 1]
      BY <3>1, SubSeqProperties
    <3>. HIDE DEF prefix
    <3>. QED BY <2>4, <3>2
  <2>7. read = prefix
    <3>. HIDE DEF prefix
    <3>. QED BY <2>4, <2>5, <2>6, SeqEqual
  <2>. QED BY <2>7 DEF read, lines
<1>. QED BY <1>2, <1>3, <1>4 DEF IsPinned

\* "An older export pins the history behind it": every record an export read
\* is behind the checkpoint it publishes, and the store extends that for ever.
THEOREM ExportsArePinned == Spec => []ExportIsPinned
<1>1. Init => ExportInv
  BY ExportStarts DEF Init
<1>2. StoreInv /\ CommandedTyped /\ ExportInv /\ [Next]_vars => ExportInv'
  BY ExportKeeps
<1>3. Spec => []ExportInv
  BY <1>1, <1>2, StoreIsSound, PTL DEF Spec
<1>. QED BY <1>3, StoreIsSound, InvPins, PTL

(***************************************************************************)
(* match_quote: the earliest place is enough.                              *)
(***************************************************************************)
Text == Seq(STRING)

\* What AfterAll computes: the position after each fragment.
IsScan(g, text, quote, m) ==
  g = [n \in 0 .. m |-> IF n = 0 THEN 1 ELSE After(text, g[n - 1], quote[n])]

\* What holds of 0, and of the next whenever it holds of a number, holds of all:
\* induction, with the set of numbers for the predicate.
LEMMA Induction ==
  ASSUME NEW S, 0 \in S, \A n \in Nat : n \in S => n + 1 \in S
  PROVE  Nat \subseteq S
<1> SUFFICES ASSUME Nat \ S # {} PROVE FALSE
  OBVIOUS
<1>1. PICK x \in Nat \ S : \A y \in Nat \ S : x <= y
  BY NatHasLeast
<1>2. x # 0 /\ x - 1 \in Nat
  OBVIOUS
<1>3. x - 1 \in S
  BY <1>1, <1>2
<1>4. x - 1 + 1 = x
  OBVIOUS
<1>. QED BY <1>2, <1>3, <1>4

LEMMA ScanExists ==
  ASSUME NEW text, NEW quote, NEW m \in Nat
  PROVE  \E g : IsScan(g, text, quote, m)
<1> DEFINE S == {n \in Nat : \E g : IsScan(g, text, quote, n)}
<1>1. 0 \in S
  <2>1. IsScan([n \in 0 .. 0 |-> 1], text, quote, 0)
    BY DEF IsScan
  <2>. QED BY <2>1
<1>2. ASSUME NEW n \in Nat, n \in S
      PROVE  n + 1 \in S
  <2>1. PICK g : IsScan(g, text, quote, n)
    BY <1>2
  <2> DEFINE h == [k \in 0 .. n + 1 |-> IF k = 0 THEN 1
                     ELSE After(text, IF k <= n THEN g[k - 1] ELSE g[n], quote[k])]
  <2>2. \A k \in 0 .. n : h[k] = g[k]
    BY <2>1 DEF IsScan
  <2>3. \A k \in 1 .. n + 1 : h[k - 1] = (IF k <= n THEN g[k - 1] ELSE g[n])
    <3> SUFFICES ASSUME NEW k \in 1 .. n + 1
                 PROVE  h[k - 1] = (IF k <= n THEN g[k - 1] ELSE g[n])
      OBVIOUS
    <3>1. k - 1 \in 0 .. n /\ (k <= n \/ k = n + 1)
      OBVIOUS
    <3>2. h[k - 1] = g[k - 1]
      <4> HIDE DEF h
      <4>. QED BY <2>2, <3>1
    <3> HIDE DEF h
    <3>. QED BY <3>1, <3>2
  <2>4. IsScan(h, text, quote, n + 1)
    <3>1. \A k \in 0 .. n + 1 : k = 0 \/ k \in 1 .. n + 1
      OBVIOUS
    <3>2. \A k \in 0 .. n + 1 :
            (IF k = 0 THEN 1 ELSE After(text, IF k <= n THEN g[k - 1] ELSE g[n], quote[k]))
              = IF k = 0 THEN 1 ELSE After(text, h[k - 1], quote[k])
      <4> HIDE DEF h
      <4>. QED BY <2>3, <3>1
    <3>. QED BY <3>2, Zenon DEF IsScan
  <2>. QED BY <2>4
<1>3. Nat \subseteq S
  <2> HIDE DEF S
  <2>. QED BY <1>1, <1>2, Induction
<1>. QED BY <1>3

LEMMA AfterAllScans ==
  ASSUME NEW text, NEW quote, Len(quote) \in Nat
  PROVE  \E g : IsScan(g, text, quote, Len(quote)) /\ AfterAll(text, quote) = g[Len(quote)]
<1> DEFINE P(g) == g = [n \in 0 .. Len(quote) |->
                          IF n = 0 THEN 1 ELSE After(text, g[n - 1], quote[n])]
<1>1. \E g : P(g)
  <2>1. \E g : IsScan(g, text, quote, Len(quote))
    BY ScanExists
  <2>. QED BY <2>1 DEF IsScan
<1>2. P(CHOOSE g : P(g))
  <2> HIDE DEF P
  <2>. QED BY <1>1, Zenon
<1>3. AfterAll(text, quote) = (CHOOSE g : P(g))[Len(quote)]
  BY DEF AfterAll
<1>. QED BY <1>2, <1>3 DEF IsScan

LEMMA EarliestIsFirst ==
  ASSUME NEW places, places \subseteq Nat, places # {}
  PROVE  Earliest(places) \in places /\ \A i \in places : Earliest(places) <= i
<1>1. \E i \in places : \A j \in places : i <= j
  BY NatHasLeast
<1>. QED BY <1>1 DEF Earliest

\* One fragment: its earliest place after a position, if it has one.
LEMMA AfterOne ==
  ASSUME NEW text \in Text, NEW fragment \in Text, NEW from \in Nat
  PROVE  LET to == After(text, from, fragment)
         IN  /\ to \in Nat
             /\ to # NotFound => /\ from # NotFound
                                 /\ to - Len(fragment) \in Places(fragment, text, from)
             /\ from # NotFound =>
                  \A i \in Places(fragment, text, from) : to # NotFound /\ to <= i + Len(fragment)
<1> DEFINE S == Places(fragment, text, from)
<1>1. Len(fragment) \in Nat /\ Len(text) \in Nat
  BY DEF Text
<1>2. S \subseteq Nat /\ \A i \in S : i >= from
  BY <1>1 DEF Places
<1>3. CASE from = NotFound
  BY <1>3 DEF After, NotFound
<1>4. CASE from # NotFound /\ S = {}
  BY <1>4 DEF After, NotFound
<1>5. CASE from # NotFound /\ S # {}
  <2>1. PICK e : e = Earliest(S)
    OBVIOUS
  <2>2. e \in S /\ \A i \in S : e <= i
    BY <1>2, <1>5, <2>1, EarliestIsFirst
  <2>3. After(text, from, fragment) = e + Len(fragment)
    BY <1>5, <2>1 DEF After
  <2> HIDE DEF S
  <2>4. e \in Nat /\ e >= from /\ e # 0
    BY <1>2, <1>5, <2>2 DEF NotFound
  <2>5. e + Len(fragment) \in Nat /\ e + Len(fragment) # 0 /\ e + Len(fragment) - Len(fragment) = e
    BY <1>1, <2>4
  <2>6. \A i \in S : e + Len(fragment) <= i + Len(fragment)
    BY <1>1, <1>2, <2>2, <2>4
  <2>7. PICK to : to = After(text, from, fragment)
    OBVIOUS
  <2>8. /\ to \in Nat /\ to # NotFound /\ to - Len(fragment) \in S
        /\ \A i \in S : to <= i + Len(fragment)
    <3>1. to = e + Len(fragment)
      BY <2>3, <2>7
    <3>2. to \in Nat /\ to # NotFound
      BY <3>1, <2>5 DEF NotFound
    <3>3. to - Len(fragment) \in S
      <4>1. to - Len(fragment) = e
        BY <3>1, <2>4, <1>1
      <4>2. e \in S
        BY <2>2
      <4>. QED BY <4>1, <4>2
    <3>4. \A i \in S : to <= i + Len(fragment)
      BY <3>1, <2>6, Zenon
    <3>. QED BY <3>2, <3>3, <3>4
  <2>9. /\ to \in Nat
        /\ to # NotFound => from # NotFound /\ to - Len(fragment) \in S
        /\ from # NotFound => \A i \in S : to # NotFound /\ to <= i + Len(fragment)
    BY <1>5, <2>8
  <2>. QED BY <2>7, <2>9 DEF S
<1>. QED BY <1>3, <1>4, <1>5

\* Fragments one after the other.
InOrder(text, quote, at) ==
  \A i \in DOMAIN quote :
    /\ at[i] \in Places(quote[i], text, 1)
    /\ i > 1 => at[i] >= at[i - 1] + Len(quote[i - 1])

LEMMA ScanStep ==
  ASSUME NEW text \in Text, NEW quote \in Seq(Text), NEW g,
         IsScan(g, text, quote, Len(quote)), NEW n \in DOMAIN quote
  PROVE  /\ n \in 1 .. Len(quote) /\ n \in 0 .. Len(quote) /\ n - 1 \in 0 .. Len(quote)
         /\ quote[n] \in Text /\ Len(quote[n]) \in Nat
         /\ g[n] = After(text, g[n - 1], quote[n])
<1>1. Len(quote) \in Nat /\ DOMAIN quote = 1 .. Len(quote) /\ quote[n] \in Text
  OBVIOUS
<1>2. n \in 0 .. Len(quote) /\ n - 1 \in 0 .. Len(quote) /\ n # 0
  BY <1>1
<1>3. Len(quote[n]) \in Nat
  BY <1>1 DEF Text
<1>4. g[n] = After(text, g[n - 1], quote[n])
  BY <1>2 DEF IsScan
<1>. QED BY <1>1, <1>2, <1>3, <1>4

\* What the scan has found, it has found in order; and once it has found
\* nothing it finds nothing more.
LEMMA ScanIsTyped ==
  ASSUME NEW text \in Text, NEW quote \in Seq(Text), NEW g,
         IsScan(g, text, quote, Len(quote)), NEW n \in 0 .. Len(quote)
  PROVE  g[n] \in Nat
<1> DEFINE S == {k \in Nat : k <= Len(quote) => g[k] \in Nat}
<1>1. Len(quote) \in Nat /\ DOMAIN quote = 1 .. Len(quote)
  OBVIOUS
<1>2. 0 \in S
  <2>1. 0 \in 0 .. Len(quote)
    BY <1>1
  <2>2. g[0] = 1
    BY <2>1 DEF IsScan
  <2>. QED BY <2>2
<1>3. ASSUME NEW k \in Nat, k \in S
      PROVE  k + 1 \in S
  <2> SUFFICES ASSUME k + 1 <= Len(quote) PROVE g[k + 1] \in Nat
    OBVIOUS
  <2>1. k + 1 \in DOMAIN quote /\ k + 1 - 1 = k /\ g[k] \in Nat
    BY <1>1, <1>3
  <2>2. quote[k + 1] \in Text /\ g[k + 1] = After(text, g[k], quote[k + 1])
    <3> HIDE DEF S
    <3>1. g[k + 1] = After(text, g[k + 1 - 1], quote[k + 1]) /\ quote[k + 1] \in Text
      BY <2>1, ScanStep
    <3>. QED BY <2>1, <3>1
  <2>3. After(text, g[k], quote[k + 1]) \in Nat
    <3> HIDE DEF S
    <3>. QED BY <2>1, <2>2, AfterOne
  <2>. QED BY <2>2, <2>3
<1>4. Nat \subseteq S
  <2> HIDE DEF S
  <2>. QED BY <1>2, <1>3, Induction
<1>5. n \in Nat /\ n <= Len(quote)
  BY <1>1
<1>. QED BY <1>4, <1>5

LEMMA ScanGoesOn ==
  ASSUME NEW text \in Text, NEW quote \in Seq(Text), NEW g,
         IsScan(g, text, quote, Len(quote)), NEW n \in DOMAIN quote
  PROVE  /\ g[n - 1] \in Nat /\ g[n] \in Nat
         /\ g[n] # NotFound => /\ g[n - 1] # NotFound
                               /\ g[n] - Len(quote[n]) \in Places(quote[n], text, g[n - 1])
         /\ g[n - 1] # NotFound =>
              \A i \in Places(quote[n], text, g[n - 1]) :
                g[n] # NotFound /\ g[n] <= i + Len(quote[n])
<1>1. /\ n \in 0 .. Len(quote) /\ n - 1 \in 0 .. Len(quote)
      /\ quote[n] \in Text /\ g[n] = After(text, g[n - 1], quote[n])
  BY ScanStep
<1>2. g[n - 1] \in Nat /\ g[n] \in Nat
  BY <1>1, ScanIsTyped
<1>3. LET to == After(text, g[n - 1], quote[n])
      IN  /\ to # NotFound => /\ g[n - 1] # NotFound
                              /\ to - Len(quote[n]) \in Places(quote[n], text, g[n - 1])
          /\ g[n - 1] # NotFound =>
               \A i \in Places(quote[n], text, g[n - 1]) : to # NotFound /\ to <= i + Len(quote[n])
  BY <1>1, <1>2, AfterOne
<1>. QED BY <1>1, <1>2, <1>3

LEMMA PlacesAreIn ==
  ASSUME NEW text \in Text, NEW fragment \in Text, NEW from \in Nat, from # NotFound,
         Len(fragment) >= 1, NEW i
  PROVE  i \in Places(fragment, text, from)
           <=> i \in Places(fragment, text, 1) /\ i \in DOMAIN text /\ i >= from
<1>1. Len(text) \in Nat /\ Len(fragment) \in Nat /\ DOMAIN text = 1 .. Len(text)
  BY DEF Text
<1>2. i \in from .. Len(text) - Len(fragment) + 1
        <=> /\ i \in 1 .. Len(text) - Len(fragment) + 1 /\ i \in 1 .. Len(text) /\ i >= from
  BY <1>1 DEF NotFound
<1>3. /\ i \in Places(fragment, text, from)
           <=> i \in from .. Len(text) - Len(fragment) + 1 /\ IsAt(fragment, text, i)
      /\ i \in Places(fragment, text, 1)
           <=> i \in 1 .. Len(text) - Len(fragment) + 1 /\ IsAt(fragment, text, i)
  BY DEF Places
<1>. QED BY <1>1, <1>2, <1>3

\* If the scan ends at a place, the fragments are there in order.
LEMMA FoundIsThere ==
  ASSUME NEW text \in Text, NEW quote \in Seq(Text), Len(quote) > 1,
         \A i \in DOMAIN quote : Len(quote[i]) >= 1,
         AfterAll(text, quote) # NotFound
  PROVE  \E at \in [DOMAIN quote -> DOMAIN text] : InOrder(text, quote, at)
<1>1. Len(quote) \in Nat /\ DOMAIN quote = 1 .. Len(quote)
  OBVIOUS
<1>2. PICK g : IsScan(g, text, quote, Len(quote)) /\ AfterAll(text, quote) = g[Len(quote)]
  BY <1>1, AfterAllScans
<1> DEFINE S == {k \in Nat : k <= Len(quote) => g[Len(quote) - k] # NotFound}
           at == [i \in DOMAIN quote |-> g[i] - Len(quote[i])]
<1>3. 0 \in S
  BY <1>1, <1>2
<1>4. ASSUME NEW k \in Nat, k \in S
      PROVE  k + 1 \in S
  <2> SUFFICES ASSUME k + 1 <= Len(quote) PROVE g[Len(quote) - (k + 1)] # NotFound
    OBVIOUS
  <2>1. /\ Len(quote) - k \in DOMAIN quote /\ g[Len(quote) - k] # NotFound
        /\ Len(quote) - k - 1 = Len(quote) - (k + 1)
    BY <1>1, <1>4
  <2>2. g[Len(quote) - k - 1] # NotFound
    <3> HIDE DEF S
    <3>. QED BY <1>2, <2>1, ScanGoesOn
  <2>. QED BY <2>1, <2>2
<1>5. Nat \subseteq S
  <2> HIDE DEF S
  <2>. QED BY <1>3, <1>4, Induction
<1>6. ASSUME NEW n \in 0 .. Len(quote)
      PROVE  g[n] # NotFound
  <2>1. Len(quote) - n \in Nat /\ Len(quote) - n <= Len(quote) /\ Len(quote) - (Len(quote) - n) = n
    BY <1>1
  <2>. QED BY <1>5, <2>1
<1> HIDE DEF S
<1>7. ASSUME NEW n \in DOMAIN quote
      PROVE  /\ g[n - 1] \in Nat /\ g[n] \in Nat /\ n - 1 \in 0 .. Len(quote)
             /\ quote[n] \in Text /\ Len(quote[n]) \in Nat
             /\ at[n] \in Places(quote[n], text, 1) /\ at[n] \in DOMAIN text
             /\ at[n] >= g[n - 1]
  <2>1. /\ n \in 0 .. Len(quote) /\ n - 1 \in 0 .. Len(quote)
        /\ quote[n] \in Text /\ Len(quote[n]) \in Nat
    BY <1>2, ScanStep
  <2>2. g[n] # NotFound /\ g[n - 1] # NotFound
    BY <1>6, <2>1
  <2>3. /\ g[n - 1] \in Nat /\ g[n] \in Nat
        /\ g[n] - Len(quote[n]) \in Places(quote[n], text, g[n - 1])
    BY <1>2, <2>2, ScanGoesOn
  <2>4. at[n] = g[n] - Len(quote[n])
    OBVIOUS
  <2>5. at[n] \in Places(quote[n], text, 1) /\ at[n] \in DOMAIN text /\ at[n] >= g[n - 1]
    <3> HIDE DEF at
    <3>. QED BY <2>1, <2>2, <2>3, <2>4, PlacesAreIn
  <2>. QED BY <2>1, <2>3, <2>5
<1>8. ASSUME NEW n \in DOMAIN quote, n > 1
      PROVE  at[n] >= at[n - 1] + Len(quote[n - 1])
  <2>1. n - 1 \in DOMAIN quote
    BY <1>1, <1>8
  <2>2. g[n - 1] \in Nat /\ Len(quote[n - 1]) \in Nat /\ at[n] >= g[n - 1]
    <3> HIDE DEF at
    <3>. QED BY <1>7, <2>1
  <2>3. at[n - 1] = g[n - 1] - Len(quote[n - 1])
    BY <2>1
  <2>4. at[n - 1] + Len(quote[n - 1]) = g[n - 1]
    <3> HIDE DEF at
    <3>. QED BY <2>2, <2>3
  <2>. QED BY <2>2, <2>4
<1>9. at \in [DOMAIN quote -> DOMAIN text]
  <2>1. \A n \in DOMAIN quote : g[n] - Len(quote[n]) \in DOMAIN text
    BY <1>7
  <2>. QED BY <2>1
<1>10. InOrder(text, quote, at)
  <2> HIDE DEF at
  <2>. QED BY <1>7, <1>8 DEF InOrder
<1>. QED BY <1>9, <1>10

\* If they are there in order, the scan ends at a place: it is never ahead of
\* them.
LEMMA ThereIsFound ==
  ASSUME NEW text \in Text, NEW quote \in Seq(Text),
         \A i \in DOMAIN quote : Len(quote[i]) >= 1,
         NEW at \in [DOMAIN quote -> DOMAIN text], InOrder(text, quote, at)
  PROVE  AfterAll(text, quote) # NotFound
<1>1. Len(quote) \in Nat /\ DOMAIN quote = 1 .. Len(quote)
  OBVIOUS
<1>2. PICK g : IsScan(g, text, quote, Len(quote)) /\ AfterAll(text, quote) = g[Len(quote)]
  BY <1>1, AfterAllScans
<1> DEFINE S == {k \in Nat : k <= Len(quote) =>
                   g[k] # NotFound /\ (k < Len(quote) => g[k] <= at[k + 1])}
<1>3. ASSUME NEW n \in DOMAIN quote
      PROVE  /\ at[n] \in Nat /\ at[n] >= 1 /\ at[n] \in DOMAIN text
             /\ at[n] \in Places(quote[n], text, 1)
             /\ n > 1 => at[n] >= at[n - 1] + Len(quote[n - 1])
             /\ quote[n] \in Text /\ Len(quote[n]) \in Nat /\ Len(quote[n]) >= 1
  <2>1. at[n] \in DOMAIN text /\ DOMAIN text = 1 .. Len(text) /\ Len(text) \in Nat
    BY DEF Text
  <2>2. quote[n] \in Text /\ Len(quote[n]) \in Nat
    BY <1>2, ScanStep
  <2>. QED BY <2>1, <2>2 DEF InOrder
<1>4. 0 \in S
  <2>1. 0 \in 0 .. Len(quote)
    BY <1>1
  <2>2. g[0] = 1
    BY <1>2, <2>1 DEF IsScan
  <2>3. 0 < Len(quote) => at[0 + 1] >= 1 /\ at[0 + 1] \in Nat
    BY <1>1, <1>3
  <2>. QED BY <2>2, <2>3 DEF NotFound
<1>5. ASSUME NEW k \in Nat, k \in S
      PROVE  k + 1 \in S
  <2> SUFFICES ASSUME k + 1 <= Len(quote)
               PROVE  /\ g[k + 1] # NotFound
                      /\ k + 1 < Len(quote) => g[k + 1] <= at[k + 1 + 1]
    OBVIOUS
  <2>1. PICK m : m = k + 1
    OBVIOUS
  <2>2. /\ m \in DOMAIN quote /\ m - 1 = k /\ g[k] # NotFound /\ g[k] <= at[m]
    BY <1>1, <1>5, <2>1
  <2> HIDE DEF S
  <2>3. /\ g[k] \in Nat /\ g[m] \in Nat
        /\ \A i \in Places(quote[m], text, g[k]) : g[m] # NotFound /\ g[m] <= i + Len(quote[m])
    BY <1>2, <2>2, ScanGoesOn
  <2>4. at[m] \in Places(quote[m], text, g[k])
    BY <1>3, <2>2, <2>3, PlacesAreIn
  <2>5. g[m] # NotFound /\ g[m] <= at[m] + Len(quote[m])
    BY <2>3, <2>4
  <2>6. ASSUME m < Len(quote)
        PROVE  g[m] <= at[m + 1]
    <3>1. m + 1 \in DOMAIN quote /\ m + 1 > 1 /\ m + 1 - 1 = m
      BY <1>1, <2>1, <2>6
    <3>2. at[m + 1] >= at[m] + Len(quote[m]) /\ at[m + 1] \in Nat
      <4>1. PICK j : j = m + 1
        OBVIOUS
      <4>2. j \in DOMAIN quote /\ j > 1 /\ j - 1 = m
        BY <1>1, <2>1, <2>6, <4>1
      <4>3. at[j] >= at[j - 1] + Len(quote[j - 1]) /\ at[j] \in Nat
        BY <1>3, <4>2
      <4>4. at[j] >= at[m] + Len(quote[m]) /\ at[j] \in Nat
        BY <4>2, <4>3, Zenon
      <4>. QED BY <4>1, <4>4
    <3>3. at[m] \in Nat /\ Len(quote[m]) \in Nat
      BY <1>3, <2>2
    <3>. QED BY <2>3, <2>5, <3>2, <3>3
  <2>. QED BY <2>1, <2>5, <2>6
<1>6. Nat \subseteq S
  <2> HIDE DEF S
  <2>. QED BY <1>4, <1>5, Induction
<1>. QED BY <1>1, <1>2, <1>6

\* match_quote says exactly what Says says (registry/watch.py:186).
LEMMA MatchIsSays ==
  ASSUME NEW text \in Text, NEW quote \in Seq(Text)
  PROVE  /\ match_quote(text, quote) \in {"verified", "verified_fragments", "not_found"}
         /\ match_quote(text, quote) = "not_found" <=> ~Says(text, quote)
<1> DEFINE whole == Places(Whole(quote), text, 1) # {}
           short == Len(quote) < 2 \/ (\E i \in DOMAIN quote : Len(quote[i]) < MIN_FRAGMENT)
           lost == AfterAll(text, quote) = NotFound
           there == \E at \in [DOMAIN quote -> DOMAIN text] : InOrder(text, quote, at)
<1>1. Len(quote) \in Nat /\ \A i \in DOMAIN quote : Len(quote[i]) \in Nat
  BY DEF Text
<1>2. short <=> ~(Len(quote) > 1 /\ \A i \in DOMAIN quote : Len(quote[i]) >= MIN_FRAGMENT)
  BY <1>1, WatchAssumption
<1>3. Says(text, quote) <=> whole \/ (~short /\ there)
  <2>1. Says(text, quote) <=>
          whole \/ (/\ Len(quote) > 1 /\ \A i \in DOMAIN quote : Len(quote[i]) >= MIN_FRAGMENT
                    /\ there)
    BY DEF Says, InOrder
  <2> HIDE DEF whole, there, short
  <2>. QED BY <1>2, <2>1
<1>4. ~short => (lost <=> ~there)
  <2> SUFFICES ASSUME ~short PROVE lost <=> ~there
    OBVIOUS
  <2>1. Len(quote) > 1 /\ \A i \in DOMAIN quote : Len(quote[i]) >= 1
    BY <1>1, <1>2, WatchAssumption
  <2>2. ~lost => there
    BY <2>1, FoundIsThere
  <2>3. there => ~lost
    BY <2>1, ThereIsFound
  <2> HIDE DEF lost, there
  <2>. QED BY <2>2, <2>3
<1>5. match_quote(text, quote) = IF whole THEN "verified"
                                 ELSE IF short THEN "not_found"
                                 ELSE IF lost THEN "not_found"
                                 ELSE "verified_fragments"
  BY Zenon DEF match_quote
<1> HIDE DEF whole, short, lost, there
<1>. QED BY <1>3, <1>4, <1>5

(***************************************************************************)
(* The watcher's run.                                                      *)
(***************************************************************************)
\* What a check says of the page it fetched.
IsSound(r) ==
  /\ r.verdict \in {"verified", "verified_fragments"} => Says(r.content.text, r.quote)
  /\ r.verdict = "not_found" =>
       r.status = 200 /\ r.content.text # <<>> /\ ~Says(r.content.text, r.quote)
  /\ r.verdict = "document_changed" => r.content.digest \notin copies
  /\ r.verdict = "verified_by_copy" => r.content.digest \in copies

AreSound(results) == \A name \in DOMAIN results : IsSound(results[name])

\* Each row that is left has a page to be fetched, each page kept can be
\* read, and what was said of the rows before is so.
WatchInv ==
  /\ DOMAIN rows = DOMAIN CitedRows /\ \A name \in DOMAIN rows : IsRow(rows[name])
  /\ asked = "pages" => pages \in [Urls -> Pages]
  /\ check = [left |-> check.left, cache |-> check.cache, results |-> check.results]
  /\ check.left \in Seq(DOMAIN rows) /\ (check.left # <<>> => asked = "pages")
  /\ \A url \in DOMAIN check.cache : IsPage(check.cache[url])
  /\ AreSound(check.results)

HIDE RegistryAssumption

LEMMA JudgeIsSound ==
  ASSUME NEW row, IsRow(row), NEW page, IsPage(page), NEW readable \in BOOLEAN
  PROVE  IsSound(Result(row, judge(row, page, readable), page))
<1> DEFINE v == judge(row, page, readable)
           m == match_quote(page.text, row.quote)
           says == Says(page.text, row.quote)
<1>1. m \in {"verified", "verified_fragments", "not_found"} /\ (m = "not_found" <=> ~says)
  BY MatchIsSays DEF Text, IsRow, IsPage
<1>2. \/ v = "unfetchable"
      \/ v = "verified_by_copy" /\ page.digest \in copies
      \/ v = "document_changed" /\ page.digest \notin copies
      \/ v = m /\ page.status = 200 /\ page.text # <<>>
  <2> HIDE DEF m
  <2>. QED BY DEF judge, JudgeByCopy, m
<1>3. PICK r : r = Result(row, v, page)
  OBVIOUS
<1>4. r.verdict = v /\ r.quote = row.quote /\ r.status = page.status /\ r.content = page
  <2> HIDE DEF v
  <2>. QED BY <1>3 DEF Result
<1> HIDE DEF v, m, says
<1>5. /\ v \in {"verified", "verified_fragments"} => says
      /\ v = "not_found" => page.status = 200 /\ page.text # <<>> /\ ~says
      /\ v = "document_changed" => page.digest \notin copies
      /\ v = "verified_by_copy" => page.digest \in copies
  BY <1>1, <1>2
<1>6. IsSound(r)
  BY <1>4, <1>5 DEF IsSound, says
<1>. QED BY <1>3, <1>6 DEF v

LEMMA SkippedIsSound ==
  ASSUME NEW row
  PROVE  IsSound(Result(row, "skipped", NoPage))
BY DEF IsSound, Result

\* A set that is finite can be written as a sequence.
LEMMA ToSeqIsSeq ==
  ASSUME NEW S, IsFiniteSet(S)
  PROVE  SetToSeq(S) \in Seq(S)
<1> DEFINE Lists(f) == f \in [1 .. Cardinality(S) -> S] /\ IsInjective(f)
<1>1. Cardinality(S) \in Nat
  BY FS_CardinalityType
<1>2. \E f : Lists(f)
  <2>1. ExistsBijection(1 .. Cardinality(S), S)
    BY FS_CardinalityType
  <2>. QED BY <2>1 DEF ExistsBijection, Bijection, Injection, IsInjective
<1>3. Lists(CHOOSE f : Lists(f))
  <2> HIDE DEF Lists
  <2>. QED BY <1>2, Zenon
<1>4. SetToSeq(S) \in [1 .. Cardinality(S) -> S]
  BY <1>3 DEF SetToSeq
<1>5. Seq(S) = UNION {[1 .. k -> S] : k \in Nat}
  BY SeqDef
<1>. QED BY <1>1, <1>4, <1>5, Zenon

(***************************************************************************)
(* The steps of the watcher.                                               *)
(***************************************************************************)
\* A run's results with one more.
LEMMA OneMoreResult ==
  ASSUME AreSound(check.results), NEW name, NEW r, IsSound(r)
  PROVE  AreSound(WithResult(name, r))
<1> DEFINE f == [n \in DOMAIN check.results \cup {name} |-> IF n = name THEN r ELSE check.results[n]]
<1>1. ASSUME NEW n \in DOMAIN f PROVE IsSound(f[n])
  <2>1. CASE n = name
    <3>1. f[n] = r
      BY <2>1
    <3>. HIDE DEF f
    <3>. QED BY <3>1
  <2>2. CASE n # name
    <3>1. f[n] = check.results[n] /\ n \in DOMAIN check.results
      BY <2>2
    <3>. HIDE DEF f
    <3>. QED BY <3>1 DEF AreSound
  <2>. QED BY <2>1, <2>2
<1>. HIDE DEF f
<1>2. AreSound(f)
  BY <1>1 DEF AreSound
<1>. QED BY <1>2 DEF f, WithResult

\* The pages of a run with one more.
LEMMA OneMorePage ==
  ASSUME \A u \in DOMAIN check.cache : IsPage(check.cache[u]), NEW url, NEW page, IsPage(page)
  PROVE  \A u \in DOMAIN WithPage(url, page) : IsPage(WithPage(url, page)[u])
<1>1. ASSUME NEW u \in DOMAIN WithPage(url, page)
      PROVE  \/ WithPage(url, page)[u] = page
             \/ u \in DOMAIN check.cache /\ WithPage(url, page)[u] = check.cache[u]
  BY DEF WithPage
<1>. QED BY <1>1

\* The run goes on with the rows that are left.
LEMMA GoesOnSoundly ==
  ASSUME WatchInv, check.left # <<>>, NEW cache, NEW results,
         check' = [left |-> Tail(check.left), cache |-> cache, results |-> results],
         \A url \in DOMAIN cache : IsPage(cache[url]), AreSound(results),
         UNCHANGED <<asked, pages, rows>>
  PROVE  WatchInv'
<1>1. check'.left = Tail(check.left) /\ check'.cache = cache /\ check'.results = results
  OBVIOUS
<1>2. Tail(check.left) \in Seq(DOMAIN rows)
  BY HeadTailProperties DEF WatchInv
<1>. QED BY <1>1, <1>2 DEF WatchInv

LEMMA NothingIsThere == <<>> \in Seq(STRING) /\ DOMAIN <<>> = {}
<1>1. <<>> \in Seq(STRING) /\ Len(<<>>) = 0 /\ DOMAIN <<>> = 1 .. 0
  BY EmptySeq, LenProperties
<1>. QED BY <1>1

LEMMA NothingIsSound == AreSound(<<>>)
BY NothingIsThere, Zenon DEF AreSound

LEMMA NothingIsAPage == IsPage(NoPage)
<1>1. NoPage.text = <<>>
  BY DEF NoPage
<1>. QED BY <1>1, NothingIsThere DEF IsPage

LEMMA ChecksRowKeeps ==
  ASSUME WatchInv, ChecksRow
  PROVE  WatchInv'
<1>1. /\ check.left # <<>> /\ UNCHANGED <<asked, pages, rows>>
      /\ asked = "pages" /\ pages \in [Urls -> Pages]
  BY DEF WatchInv, ChecksRow
<1>2. PICK name, row : name = check.left[1] /\ row = rows[name]
  OBVIOUS
<1>3. name \in DOMAIN rows /\ IsRow(row)
  <2>1. check.left[1] \in DOMAIN rows
    BY <1>1 DEF WatchInv
  <2>. QED BY <1>2, <2>1 DEF WatchInv
<1>4. check = [left |-> check.left, cache |-> check.cache, results |-> check.results]
  BY DEF WatchInv
<1>5. CASE IsSkipped(row)
  <2>1. check' = [check EXCEPT !.left = Tail(@),
                    !.results = WithResult(name, Result(row, "skipped", NoPage))]
    BY <1>2, <1>5 DEF ChecksRow
  <2>2. PICK results : results = WithResult(name, Result(row, "skipped", NoPage))
    OBVIOUS
  <2>3. check' = [left |-> Tail(check.left), cache |-> check.cache, results |-> results]
    BY <1>4, <2>1, <2>2
  <2>4. AreSound(results)
    BY <2>2, SkippedIsSound, OneMoreResult DEF WatchInv
  <2>. QED BY <1>1, <2>3, <2>4, GoesOnSoundly DEF WatchInv
<1>6. CASE ~IsSkipped(row)
  <2>1. PICK fetched \in IF row.url \in DOMAIN check.cache THEN {check.cache[row.url]}
                         ELSE {pages[row.url], NoPage},
             readable \in BOOLEAN :
          check' = [left |-> Tail(check.left), cache |-> WithPage(row.url, fetched),
                    results |-> WithResult(name, Result(row, judge(row, fetched, readable), fetched))]
    BY <1>2, <1>6 DEF ChecksRow
  <2>2. IsPage(fetched)
    <3>1. row.url \in Urls
      BY <1>3, <1>6 DEF IsSkipped, IsRow
    <3>2. IsPage(pages[row.url])
      BY <1>1, <3>1, RegistryAssumption
    <3>3. IsPage(NoPage)
      BY NothingIsAPage
    <3>. QED BY <2>1, <3>2, <3>3 DEF WatchInv
  <2>3. PICK cache, results :
          /\ cache = WithPage(row.url, fetched)
          /\ results = WithResult(name, Result(row, judge(row, fetched, readable), fetched))
    OBVIOUS
  <2>4. \A url \in DOMAIN cache : IsPage(cache[url])
    BY <2>2, <2>3, OneMorePage DEF WatchInv
  <2>5. AreSound(results)
    BY <1>3, <2>2, <2>3, JudgeIsSound, OneMoreResult DEF WatchInv
  <2>6. check' = [left |-> Tail(check.left), cache |-> cache, results |-> results]
    BY <2>1, <2>3
  <2>. QED BY <1>1, <2>4, <2>5, <2>6, GoesOnSoundly
<1>. QED BY <1>5, <1>6

LEMMA WatchStarts == Init => WatchInv
<1>1. SUFFICES ASSUME Init PROVE WatchInv
  OBVIOUS
<1>2. rows = CitedRows /\ check = NoCheck
  BY <1>1 DEF Init
<1>3. asked = "pages" => pages \in [Urls -> Pages]
  <2>1. "pages" \notin DOMAIN PROBES
    BY DEF PROBES
  <2>. QED BY <1>1, <2>1 DEF Init
<1>4. check.left = <<>> /\ check.cache = <<>> /\ check.results = <<>> /\ check = NoCheck
  BY <1>2 DEF NoCheck
<1>5. check = [left |-> check.left, cache |-> check.cache, results |-> check.results]
  BY <1>4 DEF NoCheck
<1>6. \A name \in DOMAIN CitedRows : IsRow(CitedRows[name])
  BY RegistryAssumption
<1>. QED BY <1>2, <1>3, <1>4, <1>5, <1>6, NothingIsSound DEF WatchInv

LEMMA WatchKeeps ==
  ASSUME WatchInv, [Next]_vars
  PROVE  WatchInv'
<1>1. ASSUME UNCHANGED <<asked, pages, rows, check>>
      PROVE  WatchInv'
  BY <1>1 DEF WatchInv
<1>2. ASSUME NEW p \in Procs, StartsWatch(p)
      PROVE  WatchInv'
  <2>1. /\ check' = [NoCheck EXCEPT !.left = SetToSeq(DOMAIN rows)]
        /\ asked = "pages" /\ UNCHANGED <<asked, pages, rows>>
    BY <1>2 DEF StartsWatch
  <2>2. PICK left : left = SetToSeq(DOMAIN rows)
    OBVIOUS
  <2>3. left \in Seq(DOMAIN rows)
    <3>1. IsFiniteSet(DOMAIN rows)
      BY RegistryAssumption DEF WatchInv
    <3>. QED BY <2>2, <3>1, ToSeqIsSeq
  <2>4. check' = [left |-> left, cache |-> <<>>, results |-> <<>>]
    BY <2>1, <2>2 DEF NoCheck
  <2>5. check'.left = left /\ check'.cache = <<>> /\ check'.results = <<>>
    BY <2>4
  <2>6. AreSound(check'.results) /\ \A u \in DOMAIN check'.cache : IsPage(check'.cache[u])
    BY <2>5, NothingIsThere, NothingIsSound, Zenon
  <2>7. check' = [left |-> check'.left, cache |-> check'.cache, results |-> check'.results]
    BY <2>4, <2>5, Zenon
  <2>8. /\ check'.left \in Seq(DOMAIN rows) /\ asked' = "pages" /\ rows' = rows
        /\ pages' = pages
    BY <2>1, <2>3, <2>5
  <2>. QED BY <2>1, <2>6, <2>7, <2>8, Zenon DEF WatchInv
<1>3. ASSUME RecordsWatch
      PROVE  WatchInv'
  <2>1. check' = [left |-> <<>>, cache |-> <<>>, results |-> <<>>] /\ UNCHANGED <<asked, pages, rows>>
    BY <1>3 DEF RecordsWatch, NoCheck
  <2>2. check'.left = <<>> /\ check'.cache = <<>> /\ check'.results = <<>>
    BY <2>1
  <2>. QED BY <2>1, <2>2, NothingIsSound DEF WatchInv
<1>4. ASSUME NEW url \in DOMAIN pages, PageChanges(url)
      PROVE  WatchInv'
  <2>1. PICK page \in Pages : pages' = [pages EXCEPT ![url] = page]
    BY <1>4 DEF PageChanges
  <2>2. UNCHANGED <<asked, rows, check>>
    BY <1>4 DEF PageChanges, Change
  <2>3. pages \in [Urls -> Pages] => pages' \in [Urls -> Pages]
    BY <2>1
  <2>. QED BY <2>2, <2>3 DEF WatchInv
<1>5. ASSUME NEW name \in DOMAIN rows, RowIsEdited(name)
      PROVE  WatchInv'
  <2>1. PICK row \in Edits : rows' = [rows EXCEPT ![name] = row]
    BY <1>5 DEF RowIsEdited
  <2>2. UNCHANGED <<asked, pages, check>>
    BY <1>5 DEF RowIsEdited, Change
  <2>3. DOMAIN rows' = DOMAIN rows /\ \A n \in DOMAIN rows : rows'[n] = row \/ rows'[n] = rows[n]
    BY <2>1
  <2>4. IsRow(row)
    BY RegistryAssumption
  <2>5. \A n \in DOMAIN rows : IsRow(rows'[n])
    BY <2>3, <2>4 DEF WatchInv
  <2>. QED BY <2>2, <2>3, <2>5 DEF WatchInv
<1>6. ASSUME NEW p \in Procs, StartsProbe(p)
      PROVE  WatchInv'
  BY <1>1, <1>6 DEF StartsProbe, watching
<1>7. RunsProbe \/ RecordsProbe \/ Stores \/ Exports \/ UNCHANGED vars => WatchInv'
  BY <1>1 DEF RunsProbe, RecordsProbe, Stores, Exports, vars, watching
<1>. QED BY <1>2, <1>3, <1>4, <1>5, <1>6, <1>7, ChecksRowKeeps, Zenon DEF Next, Commands, World

\* What the watcher says of a page is so of the page it fetched; a page that
\* could not be read is not said to lack a quote.
THEOREM VerdictsAreThePages == Spec => []VerdictIsThePages
<1>1. WatchInv => VerdictIsThePages
  BY DEF WatchInv, AreSound, IsSound, VerdictIsThePages
<1>. QED BY <1>1, WatchStarts, WatchKeeps, PTL DEF Spec

(***************************************************************************)
(* What is in the store was handed to it.                                  *)
(***************************************************************************)
USE RegistryAssumption

\* What a stream's writers were given, hold as a line, or have written.
IsDatum(s, d) ==
  \/ \E p \in Procs : writer[p].stream = s /\ d = writer[p].data[1]
  \/ \E p \in Procs : /\ writer[p].stream = s /\ writer[p].at \in {"locked", "writing"}
                      /\ d = writer[p].line[1].data
  \/ \E n \in DOMAIN file[s].lines : d = file[s].lines[n].data

LEMMA MovesKeepsData ==
  ASSUME StoreInv, NEW p \in Procs, NEW where \in LinePlaces, GoesTo(p, where),
         where = "writing" => At(p, "locked"), where # "locked"
  PROVE  \A q \in Procs : /\ writer'[q].stream = writer[q].stream
                          /\ writer'[q].data = writer[q].data
                          /\ writer'[q].line = writer[q].line
                          /\ writer'[q].at \in {"locked", "writing"} =>
                               writer[q].at \in {"locked", "writing"}
<1>1. writer = [q \in Procs |-> writer[q]] /\ writer' = [writer EXCEPT ![p].at = where]
  BY DEF StoreInv, StoreShape, GoesTo
<1>2. PICK D, L : writer[p] \in [at: LinePlaces, stream: Streams \cup {"none"}, data: Seq(D), line: Seq(L)]
  BY DEF StoreInv, StoreShape, IsWriter
<1>3. /\ writer'[p] = [writer[p] EXCEPT !.at = where]
      /\ \A q \in Procs \ {p} : writer'[q] = writer[q]
  BY <1>1
<1>4. /\ writer'[p].stream = writer[p].stream /\ writer'[p].data = writer[p].data
      /\ writer'[p].line = writer[p].line /\ writer'[p].at = where
  BY <1>2, <1>3
<1>. QED BY <1>3, <1>4 DEF At

\* The store makes nothing up.
LEMMA NoNewData ==
  ASSUME StoreInv, NEW p \in Procs, Appends(p) \/ WriteFails(p) \/ Dies(p),
         NEW s \in Streams, NEW d, IsDatum(s, d)'
  PROVE  IsDatum(s, d)
<1>1. ASSUME NEW where \in LinePlaces, GoesTo(p, where),
             where = "writing" => At(p, "locked"), where # "locked",
             \A n \in DOMAIN file'[s].lines : IsDatum(s, file'[s].lines[n].data)
      PROVE  IsDatum(s, d)
  <2>1. \A q \in Procs : /\ writer'[q].stream = writer[q].stream
                         /\ writer'[q].data = writer[q].data
                         /\ writer'[q].line = writer[q].line
                         /\ writer'[q].at \in {"locked", "writing"} =>
                              writer[q].at \in {"locked", "writing"}
    BY <1>1, MovesKeepsData
  <2>2. CASE \E q \in Procs : writer'[q].stream = s /\ d = writer'[q].data[1]
    BY <2>1, <2>2 DEF IsDatum
  <2>3. CASE \E q \in Procs : /\ writer'[q].stream = s /\ writer'[q].at \in {"locked", "writing"}
                              /\ d = writer'[q].line[1].data
    BY <2>1, <2>3 DEF IsDatum
  <2>4. CASE \E n \in DOMAIN file'[s].lines : d = file'[s].lines[n].data
    BY <1>1, <2>4
  <2>. QED BY <2>2, <2>3, <2>4 DEF IsDatum
<1>2. file'[s] = file[s] => \A n \in DOMAIN file'[s].lines : IsDatum(s, file'[s].lines[n].data)
  BY DEF IsDatum
<1>3. CASE Returns(p) \/ WriteFails(p) \/ Dies(p)
  <2>1. file' = file /\ \E where \in {"recorded", "refused", "dead"} : GoesTo(p, where)
    BY <1>3 DEF Returns, WriteFails, Dies
  <2>. QED BY <1>1, <1>2, <2>1 DEF LinePlaces
<1>4. CASE BeginsToWrite(p)
  <2>1. GoesTo(p, "writing") /\ At(p, "locked") /\ "writing" \in LinePlaces
    BY <1>4 DEF BeginsToWrite, LinePlaces
  <2>2. DOMAIN file'[s].lines = DOMAIN file[s].lines
        /\ \A n \in DOMAIN file[s].lines : file'[s].lines[n] = file[s].lines[n]
    <3>1. PICK L : file[s] \in [lines: Seq(L), torn: Procs \cup {Nobody}]
      BY DEF StoreInv, StoreShape, IsFile
    <3>2. file'[s].lines = file[s].lines
      BY <1>4, <3>1 DEF BeginsToWrite, StoreInv, StoreShape
    <3>. QED BY <3>2
  <2>3. \A n \in DOMAIN file'[s].lines : IsDatum(s, file'[s].lines[n].data)
    BY <2>2 DEF IsDatum
  <2>. QED BY <1>1, <2>1, <2>3
<1>5. CASE EndsWriting(p)
  <2>1. GoesTo(p, "written") /\ At(p, "writing") /\ "written" \in LinePlaces
    BY <1>5 DEF EndsWriting, LinePlaces
  <2>2. CASE writer[p].stream # s
    <3>1. file'[s] = file[s]
      BY <1>5, <2>2 DEF EndsWriting, StoreInv, StoreShape
    <3>. QED BY <1>1, <1>2, <2>1, <3>1
  <2>3. CASE writer[p].stream = s
    <3>1. PICK e : writer[p].line = <<e>>
      BY <2>1 DEF StoreInv, LockProtects, LineIsNext
    <3>2. PICK L : file[s] \in [lines: Seq(L), torn: Procs \cup {Nobody}]
      BY DEF StoreInv, StoreShape, IsFile
    <3>3. file'[s].lines = file[s].lines \o <<e>>
      BY <1>5, <2>3, <3>1 DEF EndsWriting, StoreInv, StoreShape
    <3>4. /\ DOMAIN file[s].lines = 1 .. Len(file[s].lines) /\ Len(file[s].lines) \in Nat
          /\ DOMAIN file'[s].lines = 1 .. Len(file[s].lines) + 1
          /\ \A i \in 1 .. Len(file[s].lines) : file'[s].lines[i] = file[s].lines[i]
          /\ file'[s].lines[Len(file[s].lines) + 1] = e
      BY <3>2, <3>3, OneLonger
    <3>5. e = writer[p].line[1]
      BY <3>1
    <3>6. IsDatum(s, e.data)
      BY <2>1, <2>3, <3>5 DEF IsDatum, At
    <3>7. ASSUME NEW n \in DOMAIN file'[s].lines
          PROVE  IsDatum(s, file'[s].lines[n].data)
      <4>1. n \in 1 .. Len(file[s].lines) \/ n = Len(file[s].lines) + 1
        BY <3>4
      <4>2. CASE n \in 1 .. Len(file[s].lines)
        BY <3>4, <4>2 DEF IsDatum
      <4>3. CASE n = Len(file[s].lines) + 1
        BY <3>4, <3>6, <4>3
      <4>. QED BY <4>1, <4>2, <4>3
    <3>. QED BY <1>1, <2>1, <3>7
  <2>. QED BY <2>2, <2>3
<1>6. CASE Locks(p)
  <2>1. file' = file /\ At(p, "ready")
    BY <1>6 DEF Locks
  <2>2. CASE GoesTo(p, "refused")
    BY <1>1, <1>2, <2>1, <2>2 DEF LinePlaces
  <2>3. CASE writer' = [writer EXCEPT ![p].at = "locked", ![p].line = <<NextLine(p)>>]
    <3>1. PICK line : line = NextLine(p)
      OBVIOUS
    <3>2. line.data = writer[p].data[1]
      BY <3>1 DEF NextLine
    <3>3. PICK D, L : writer[p] \in [at: LinePlaces, stream: Streams \cup {"none"}, data: Seq(D), line: Seq(L)]
      BY DEF StoreInv, StoreShape, IsWriter
    <3>4. /\ writer'[p] = [writer[p] EXCEPT !.at = "locked", !.line = <<line>>]
          /\ \A q \in Procs \ {p} : writer'[q] = writer[q]
      BY <2>3, <3>1 DEF StoreInv, StoreShape
    <3>5. /\ writer'[p].stream = writer[p].stream /\ writer'[p].data = writer[p].data
          /\ writer'[p].line = <<line>> /\ writer'[p].line[1] = line
      BY <3>3, <3>4
    <3>6. CASE \E q \in Procs : writer'[q].stream = s /\ d = writer'[q].data[1]
      <4>1. \A q \in Procs : writer'[q].stream = writer[q].stream /\ writer'[q].data = writer[q].data
        BY <3>4, <3>5, Zenon
      <4>. QED BY <3>6, <4>1 DEF IsDatum
    <3>7. CASE \E q \in Procs : /\ writer'[q].stream = s /\ writer'[q].at \in {"locked", "writing"}
                                /\ d = writer'[q].line[1].data
      <4>1. PICK q \in Procs : /\ writer'[q].stream = s /\ writer'[q].at \in {"locked", "writing"}
                               /\ d = writer'[q].line[1].data
        BY <3>7
      <4>2. CASE q = p
        <5>1. writer[p].stream = s /\ d = writer[p].data[1]
          BY <3>2, <3>5, <4>1, <4>2, Zenon
        <5>. QED BY <5>1 DEF IsDatum
      <4>3. CASE q # p
        <5>1. writer'[q] = writer[q]
          BY <3>4, <4>3
        <5>. QED BY <4>1, <5>1, Zenon DEF IsDatum
      <4>. QED BY <4>2, <4>3
    <3>8. CASE \E n \in DOMAIN file'[s].lines : d = file'[s].lines[n].data
      BY <2>1, <3>8 DEF IsDatum
    <3>. QED BY <3>6, <3>7, <3>8 DEF IsDatum
  <2>. QED BY <1>6, <2>2, <2>3 DEF Locks
<1>. QED BY <1>3, <1>4, <1>5, <1>6 DEF Appends

\* A command hands over one thing.
LEMMA OneNewDatum ==
  ASSUME StoreInv, NEW p \in Procs, NEW t \in Streams, NEW x, Wants(p, t, x),
         NEW s \in Streams, NEW d, IsDatum(s, d)'
  PROVE  IsDatum(s, d) \/ (s = t /\ d = x)
<1>1. /\ file' = file
      /\ writer'[p] = [at |-> "ready", stream |-> t, data |-> <<x>>, line |-> <<>>]
      /\ \A q \in Procs \ {p} : writer'[q] = writer[q]
  BY DEF Wants, StoreInv, StoreShape
<1>2. writer'[p].at = "ready" /\ writer'[p].stream = t /\ writer'[p].data[1] = x
  BY <1>1
<1>3. CASE \E q \in Procs : writer'[q].stream = s /\ d = writer'[q].data[1]
  BY <1>1, <1>2, <1>3 DEF IsDatum
<1>4. CASE \E q \in Procs : /\ writer'[q].stream = s /\ writer'[q].at \in {"locked", "writing"}
                            /\ d = writer'[q].line[1].data
  BY <1>1, <1>2, <1>4 DEF IsDatum
<1>5. CASE \E n \in DOMAIN file'[s].lines : d = file'[s].lines[n].data
  BY <1>1, <1>5 DEF IsDatum
<1>. QED BY <1>3, <1>4, <1>5 DEF IsDatum

\* New in the store is what a command records, in its own stream.
LEMMA NewData ==
  ASSUME StoreInv, CommandedTyped, [Next]_vars, NEW s \in Streams, NEW d, IsDatum(s, d)'
  PROVE  \/ IsDatum(s, d)
         \/ s = "watch" /\ RecordsWatch /\ d = check.results
         \/ s = "probes" /\ RecordsProbe /\ d = Findings(probe, run.by_step)
<1>1. ASSUME UNCHANGED store
      PROVE  IsDatum(s, d)
  BY <1>1 DEF store, IsDatum
<1>2. CASE Stores
  <2>1. PICK p \in Procs : Appends(p) \/ WriteFails(p) \/ Dies(p)
    BY <1>2 DEF Stores
  <2>. QED BY <2>1, NoNewData
<1>3. CASE RecordsWatch
  <2>1. commanded \in Procs /\ "watch" \in Streams /\ Wants(commanded, "watch", check.results)
    BY <1>3 DEF RecordsWatch, IsWatching, CommandedTyped
  <2>. QED BY <1>3, <2>1, OneNewDatum
<1>4. CASE RecordsProbe
  <2>1. commanded \in Procs /\ "probes" \in Streams
        /\ Wants(commanded, "probes", Findings(probe, run.by_step))
    BY <1>4 DEF RecordsProbe, CommandedTyped, NobodyRuns
  <2>. QED BY <1>4, <2>1, OneNewDatum
<1>5. ASSUME NEW p \in Procs, StartsProbe(p) \/ StartsWatch(p)
      PROVE  UNCHANGED store
  BY <1>5 DEF StartsProbe, StartsWatch
<1>6. RunsProbe \/ ChecksRow \/ Exports \/ World => UNCHANGED store
  BY DEF RunsProbe, ChecksRow, Exports, World, PageChanges, RowIsEdited
<1>7. vars' = vars => UNCHANGED store
  BY DEF vars
<1>. QED BY <1>1, <1>2, <1>3, <1>4, <1>5, <1>6, <1>7, Zenon DEF Next, Commands

\* Before anybody wrote, a writer is given nothing.
LEMMA NoDataAtFirst ==
  ASSUME InitStore, NEW s \in Streams, NEW d
  PROVE  ~IsDatum(s, d)
<1>1. file[s].lines = <<>> /\ \A p \in Procs : writer[p].stream = "none" /\ writer[p].at = "idle"
  BY DEF InitStore, Empty, Unused
<1>2. s # "none"
  OBVIOUS
<1>. QED BY <1>1, <1>2, NothingIsThere DEF IsDatum

RecordsAreSound == \A d : IsDatum("watch", d) => AreSound(d)

LEMMA RecordsKeep ==
  ASSUME StoreInv, CommandedTyped, WatchInv, RecordsAreSound, [Next]_vars
  PROVE  RecordsAreSound'
<1>1. SUFFICES ASSUME NEW d, IsDatum("watch", d)' PROVE AreSound(d)
  BY DEF RecordsAreSound, AreSound, IsSound
<1>2. "watch" \in Streams
  OBVIOUS
<1>3. IsDatum("watch", d) \/ d = check.results
  BY <1>1, <1>2, NewData
<1>. QED BY <1>3 DEF RecordsAreSound, WatchInv

\* The latest of the checks of a row.
LEMMA LastCheckIsOne ==
  ASSUME StoreInv, ExportInv, NEW name, Checks(name) # {}
  PROVE  /\ LastCheck(name) \in Checks(name)
         /\ LastCheck(name) \in DOMAIN file["watch"].lines
         /\ export.read["watch"][LastCheck(name)] = file["watch"].lines[LastCheck(name)]
<1> DEFINE read == export.read["watch"]
           lines == file["watch"].lines
<1>1. PICK L : read \in Seq(L)
  BY DEF ExportInv, IsRead
<1>2. /\ Len(read) \in Nat /\ DOMAIN read = 1 .. Len(read) /\ Len(read) <= Len(lines)
      /\ \A i \in 1 .. Len(read) : read[i] = lines[i]
  BY <1>1 DEF ExportInv, IsRead
<1>3. Len(lines) \in Nat /\ DOMAIN lines = 1 .. Len(lines)
  BY LinesAreTyped
<1>4. Checks(name) \in SUBSET (1 .. Len(read))
  BY <1>2 DEF Checks
<1> HIDE DEF read, lines
<1>5. \E n \in Checks(name) : \A m \in Checks(name) : m <= n
  <2>1. PICK n : n = Max(Checks(name))
    OBVIOUS
  <2>2. n \in Checks(name) /\ \A m \in Checks(name) : n >= m
    BY <1>2, <1>4, <2>1, MaxIsIn
  <2>. QED BY <1>2, <1>4, <2>2
<1>6. LastCheck(name) \in Checks(name)
  BY <1>5 DEF LastCheck
<1>7. LastCheck(name) \in 1 .. Len(read) /\ LastCheck(name) \in 1 .. Len(lines)
  BY <1>2, <1>3, <1>4, <1>6
<1>. QED BY <1>2, <1>3, <1>6, <1>7 DEF read, lines

LEMMA InvVerifies ==
  ASSUME StoreInv, ExportInv, RecordsAreSound
  PROVE  VerifiedIsOfThisQuote
<1>1. SUFFICES ASSUME NEW name, HasVerification(name), quote_current(name),
                      Verification(name).verdict \in CURRENT
               PROVE  \/ Says(Verification(name).content.text, export.rows[name].quote)
                      \/ Verification(name).content.digest \in copies
  BY DEF VerifiedIsOfThisQuote
<1>2. Checks(name) # {}
  BY <1>1 DEF HasVerification
<1>3. PICK n : n = LastCheck(name)
  OBVIOUS
<1>4. /\ n \in Checks(name) /\ n \in DOMAIN file["watch"].lines
      /\ export.read["watch"][n] = file["watch"].lines[n]
  BY <1>2, <1>3, LastCheckIsOne
<1>5. PICK d : d = export.read["watch"][n].data
  OBVIOUS
<1>6. AreSound(d) /\ name \in DOMAIN d
  <2>1. IsDatum("watch", d)
    BY <1>4, <1>5 DEF IsDatum
  <2>. QED BY <1>4, <1>5, <2>1 DEF RecordsAreSound, Checks
<1>7. PICK r : r = d[name]
  OBVIOUS
<1>8. Verification(name) = r /\ IsSound(r)
  BY <1>3, <1>5, <1>6, <1>7 DEF Verification, AreSound
<1>9. r.quote = export.rows[name].quote /\ r.verdict \in CURRENT
  BY <1>1, <1>8 DEF quote_current
<1>10. Says(r.content.text, r.quote) \/ r.content.digest \in copies
  BY <1>8, <1>9 DEF IsSound, CURRENT
<1>. QED BY <1>8, <1>9, <1>10

\* A row shown as checked, its quote as current, was found on a page with the
\* quote it now has, or on the document it was transcribed from.
THEOREM VerifiedQuotesAreThere == Spec => []VerifiedIsOfThisQuote
<1>1. Init => ExportInv
  BY ExportStarts DEF Init
<1>2. StoreInv /\ CommandedTyped /\ ExportInv /\ [Next]_vars => ExportInv'
  BY ExportKeeps
<1>3. Init => RecordsAreSound
  <2>1. "watch" \in Streams
    OBVIOUS
  <2>. QED BY <2>1, NoDataAtFirst DEF RecordsAreSound, Init
<1>4. StoreInv /\ CommandedTyped /\ WatchInv /\ RecordsAreSound /\ [Next]_vars => RecordsAreSound'
  BY RecordsKeep
<1>. QED BY <1>1, <1>2, <1>3, <1>4, StoreIsSound, WatchStarts, WatchKeeps, InvVerifies, PTL DEF Spec

(***************************************************************************)
(* A run of a probe.                                                       *)
(***************************************************************************)
AskOps == {"capture", "void", "recreate_order", "pay_again"}
HoldOps == {"capture", "void"}

TakenBy(f) == IF f.op = "capture" THEN f.amount ELSE 0

\* What a sandbox that permits "may" takes as the first request on a hold.
Allows(may, f) ==
  /\ f.op = "capture" => /\ f.amount < HOLD => "partial_debit" \in may
                         /\ f.amount > HOLD => "over_capture" \in may
  /\ f.op = "void" => "void_whole_hold" \in may
  /\ f.op = "recreate_order" => "duplicate_order_refused" \notin may
  /\ f.op = "pay_again" => "payment_replay_refused" \notin may

\* The second request has the key of the first, and the sandbox knows it.
Repeats(may, f, g) ==
  /\ g.op = f.op /\ g.idempotency_key = f.idempotency_key /\ g.idempotency_key # ""
  /\ g.op = "capture" => "idempotent_capture_replay" \in may
  /\ g.op = "void" => "idempotent_void_replay" \in may

CapturesAfter(may, f, g) ==
  /\ f.op = "void" => "capture_after_void" \in may
  /\ f.op = "capture" => "multiple_captures" \in may
  /\ g.amount < HOLD => "partial_debit" \in may
  /\ TakenBy(f) + g.amount > HOLD => "over_capture" \in may

\* What it takes as the second.
AllowsAfter(may, f, g) ==
  IF Repeats(may, f, g)
    THEN g.op = "capture" => g.amount = f.amount \/ "idempotency_key_reuse_refused" \notin may
    ELSE /\ g.op = "capture" => CapturesAfter(may, f, g)
         /\ g.op = "void" => f.op = "capture" /\ "void_after_partial_capture" \in may

IsFresh(h) == ~h.voided /\ h.taken = 0 /\ h.first = {}

TookFirst(h, f) ==
  /\ h.voided <=> f.op = "void"
  /\ h.taken = TakenBy(f)
  /\ h.first = {[action |-> IF f.op = "void" THEN "VOID" ELSE "CAPTURE",
                 key |-> f.idempotency_key, amount |-> TakenBy(f)]}

\* The first request was answered by a sandbox that does what it permits.
FirstSound(may, b, f) ==
  f.op \in AskOps =>
    /\ AnsweredAs(b, f.name, "2xx") => Allows(may, f)
    /\ AnsweredAs(b, f.name, "4xx") => ~Allows(may, f)

LastBody(b, s) == b[s][Len(b[s])].body

\* And so was the second, if the first was taken.
SecondSound(may, b, f, g) ==
  f.op \in HoldOps /\ g.op \in HoldOps /\ AnsweredAs(b, f.name, "2xx") =>
    /\ AnsweredAs(b, g.name, "2xx") => AllowsAfter(may, f, g)
    /\ AnsweredAs(b, g.name, "4xx") => ~AllowsAfter(may, f, g)
    /\ AnsweredAs(b, g.name, "2xx") /\ g.op = "capture" /\ ~Repeats(may, f, g) =>
         LastBody(b, g.name) = {<<"captured_amount", TakenBy(f) + g.amount>>}

\* What the reads of the hold and the summary of a race say.
PaymentsTrue(may, e) ==
  e.label = "payments" =>
    /\ <<"is_captured", TRUE>> \in e.body => "funds_held_in_customer_account" \notin may
    /\ <<"is_captured", FALSE>> \in e.body /\ <<"payment_status", "SUCCESS">> \in e.body
         => "funds_held_in_customer_account" \in may

PaymentsSound(may, b) ==
  "hold" \in DOMAIN b => \A i \in DOMAIN b["hold"] : PaymentsTrue(may, b["hold"][i])

SummaryTrue(may, won, e) ==
  e.label = "summary" =>
    /\ <<"single_winner", TRUE>> \in e.body => won = 1
    /\ <<"multiple_winners", TRUE>> \in e.body => "concurrent_capture_single_winner" \notin may

RaceSound(may, won, b) ==
  "race" \in DOMAIN b => \A i \in DOMAIN b["race"] : SummaryTrue(may, won, b["race"][i])

IsRunRecord(r) == r = [probe |-> r.probe, next |-> r.next, ok |-> r.ok, by_step |-> r.by_step]
IsHoldRecord(h) == h = [paid |-> h.paid, voided |-> h.voided, taken |-> h.taken, first |-> h.first]

InRun(steps) ==
  /\ run.next \in 1 .. Len(steps) + 1
  /\ \A i \in run.next .. Len(steps) : steps[i].name \notin DOMAIN run.by_step
  /\ "hold" \in run.ok /\ ~late => hold.paid
  /\ run.next <= 2 => IsFresh(hold)
  /\ run.next > 2 /\ ~late => FirstSound(permits, run.by_step, steps[2])
  /\ run.next = 3 /\ steps[2].op \in HoldOps /\ AnsweredAs(run.by_step, steps[2].name, "2xx") =>
       TookFirst(hold, steps[2])
  /\ run.next > 3 /\ ~late => SecondSound(permits, run.by_step, steps[2], steps[3])
  /\ PaymentsSound(permits, run.by_step)
  /\ RaceSound(permits, race, run.by_step)

ProbeInv ==
  /\ Consistent(permits)
  /\ IsRunRecord(run) /\ IsHoldRecord(hold)
  /\ run.probe \in DOMAIN PROBES \cup {"none"}
  /\ run.probe # "none" => InRun(PROBES[run.probe].steps)

\* What the catalogue of probes keeps to.
WellMade(steps) ==
  /\ Len(steps) \in 2 .. 4 /\ DOMAIN steps = 1 .. Len(steps)
  /\ steps[1].name = "hold" /\ steps[1].op = "hold"
  /\ \A i \in 2 .. Len(steps) :
       /\ steps[i].needs = {"hold"} /\ steps[i].op # "hold" /\ steps[i].name # "hold"
       /\ steps[i].op = "capture_parallel" <=> steps[i].name = "race"
       /\ steps[i].op = "capture" => steps[i].amount \in Nat /\ steps[i].amount > 0
  /\ \A i, j \in 1 .. Len(steps) : i # j => steps[i].name # steps[j].name

Later(s) ==
  /\ s.needs = {"hold"} /\ s.op # "hold" /\ s.name # "hold"
  /\ s.op = "capture_parallel" <=> s.name = "race"
  /\ s.op = "capture" => s.amount \in Nat /\ s.amount > 0

LEMMA MakesTwo ==
  ASSUME NEW s, Later(s), NEW rules
  PROVE  LET steps == Probe(<<s>>, rules).steps
         IN  WellMade(steps) /\ Len(steps) = 2 /\ steps[2] = s
<1> DEFINE steps == <<Hold>> \o <<s>>
<1>1. Hold.name = "hold" /\ Hold.op = "hold"
  BY DEF Hold, Step
<1>2. Len(steps) = 2 /\ DOMAIN steps = 1 .. 2 /\ steps[1] = Hold /\ steps[2] = s
  <2>1. PICK h : h = Hold
    OBVIOUS
  <2>. QED BY <2>1
<1> HIDE DEF steps
<1>3. WellMade(steps)
  BY <1>1, <1>2 DEF WellMade, Later
<1>. QED BY <1>2, <1>3 DEF Probe, steps

LEMMA MakesThree ==
  ASSUME NEW s, Later(s), NEW t, Later(t), s.name # t.name, NEW rules
  PROVE  LET steps == Probe(<<s, t>>, rules).steps
         IN  WellMade(steps) /\ Len(steps) = 3 /\ steps[2] = s /\ steps[3] = t
<1> DEFINE steps == <<Hold>> \o <<s, t>>
<1>1. Hold.name = "hold" /\ Hold.op = "hold"
  BY DEF Hold, Step
<1>2. Len(steps) = 3 /\ DOMAIN steps = 1 .. 3 /\ steps[1] = Hold /\ steps[2] = s /\ steps[3] = t
  <2>1. PICK h : h = Hold
    OBVIOUS
  <2>. QED BY <2>1
<1> HIDE DEF steps
<1>3. WellMade(steps)
  BY <1>1, <1>2 DEF WellMade, Later
<1>. QED BY <1>2, <1>3 DEF Probe, steps

LEMMA MakesFour ==
  ASSUME NEW s, Later(s), NEW t, Later(t), NEW u, Later(u),
         s.name # t.name, s.name # u.name, t.name # u.name, NEW rules
  PROVE  LET steps == Probe(<<s, t, u>>, rules).steps
         IN  WellMade(steps) /\ Len(steps) = 4 /\ steps[2] = s /\ steps[3] = t
<1> DEFINE steps == <<Hold>> \o <<s, t, u>>
<1>1. Hold.name = "hold" /\ Hold.op = "hold"
  BY DEF Hold, Step
<1>2. /\ Len(steps) = 4 /\ DOMAIN steps = 1 .. 4
      /\ steps[1] = Hold /\ steps[2] = s /\ steps[3] = t /\ steps[4] = u
  <2>1. PICK h : h = Hold
    OBVIOUS
  <2>. QED BY <2>1
<1> HIDE DEF steps
<1>3. WellMade(steps)
  BY <1>1, <1>2 DEF WellMade, Later
<1>. QED BY <1>2, <1>3 DEF Probe, steps


(***************************************************************************)
(* What a rule reads.                                                      *)
(***************************************************************************)
\* A rule without a label reads the last exchange of its step.
LEMMA ReadsTheLast ==
  ASSUME NEW rule, NEW b, Reads(rule, b), rule.label = ""
  PROVE  /\ AnsweredAs(b, rule.step, rule.status)
         /\ rule.where \subseteq LastBody(b, rule.step)
         /\ \A needed \in rule.after : AnsweredAs(b, needed[1], needed[2])
<1>1. PICK x : x = b[rule.step]
  OBVIOUS
<1>2. rule.step \in DOMAIN b /\ \E e \in Selected(rule, x) : Matches(rule, e)
  BY <1>1 DEF Reads
<1>3. x # <<>> /\ Selected(rule, x) = {x[Len(x)]}
  BY <1>2 DEF Selected
<1>4. Matches(rule, x[Len(x)])
  BY <1>2, <1>3
<1>. QED BY <1>1, <1>2, <1>3, <1>4 DEF AnsweredAs, LastBody, Matches, Reads, Precondition

\* One with a label reads the exchanges that have it.
LEMMA ReadsTheLabelled ==
  ASSUME NEW rule, NEW b, Reads(rule, b), rule.label # ""
  PROVE  /\ rule.step \in DOMAIN b
         /\ \E i \in DOMAIN b[rule.step] : /\ b[rule.step][i].label = rule.label
                                          /\ rule.where \subseteq b[rule.step][i].body
BY DEF Reads, Selected, Matches

\* A rule says what is so: the sandbox does what it permits.
IsTrueOf(may, won, rule) ==
  /\ rule.supported \in {"yes", "no"}
  /\ rule.supported = "no" => rule.capability \notin may
  /\ rule.supported = "yes" => IF rule.capability = "concurrent_capture_single_winner" THEN won = 1
                               ELSE rule.capability \in may

RulesAreTrue(may, won, b, rules) ==
  /\ DOMAIN rules \subseteq Nat
  /\ \A i \in DOMAIN rules : Reads(rules[i], b) => IsTrueOf(may, won, rules[i])

\* Under the conditions of a question, what its answers are worth.
Applies(b, after) == \A needed \in after : AnsweredAs(b, needed[1], needed[2])

LEMMA AppliesToOne ==
  ASSUME NEW b, NEW s, NEW class
  PROVE  Applies(b, {<<s, class>>}) <=> AnsweredAs(b, s, class)
BY DEF Applies

LEMMA AppliesToTwo ==
  ASSUME NEW b, NEW s, NEW class, NEW t, NEW other
  PROVE  Applies(b, {<<s, class>>, <<t, other>>}) <=> AnsweredAs(b, s, class) /\ AnsweredAs(b, t, other)
BY DEF Applies

LEMMA AnswersAreTrue ==
  ASSUME NEW may, NEW won, NEW b, NEW c, NEW s, NEW after,
         c # "concurrent_capture_single_winner",
         Applies(b, after) /\ AnsweredAs(b, s, "2xx") => c \in may,
         Applies(b, after) /\ AnsweredAs(b, s, "4xx") => c \notin may
  PROVE  RulesAreTrue(may, won, b, Answers(c, s, after))
<1> DEFINE yes == Rule(c, s, "yes", "2xx", after)
           no == Rule(c, s, "no", "4xx", after)
<1>1. /\ yes.capability = c /\ yes.step = s /\ yes.supported = "yes" /\ yes.status = "2xx"
      /\ yes.label = "" /\ yes.after = after
      /\ no.capability = c /\ no.step = s /\ no.supported = "no" /\ no.status = "4xx"
      /\ no.label = "" /\ no.after = after
  BY DEF Rule
<1>2. /\ DOMAIN Answers(c, s, after) = {1, 2}
      /\ Answers(c, s, after)[1] = yes /\ Answers(c, s, after)[2] = no
  <2> HIDE DEF yes, no
  <2>. QED BY DEF Answers, yes, no
<1> HIDE DEF yes, no
<1>3. Reads(yes, b) => IsTrueOf(may, won, yes)
  BY <1>1, ReadsTheLast DEF IsTrueOf, Applies
<1>4. Reads(no, b) => IsTrueOf(may, won, no)
  BY <1>1, ReadsTheLast DEF IsTrueOf, Applies
<1>. QED BY <1>2, <1>3, <1>4 DEF RulesAreTrue

LEMMA RefusalIsTrue ==
  ASSUME NEW may, NEW won, NEW b, NEW c, NEW s, NEW after,
         c # "concurrent_capture_single_winner",
         Applies(b, after) /\ AnsweredAs(b, s, "4xx") => c \in may,
         Applies(b, after) /\ AnsweredAs(b, s, "2xx") => c \notin may
  PROVE  RulesAreTrue(may, won, b, Refusal(c, s, after))
<1> DEFINE yes == Rule(c, s, "yes", "4xx", after)
           no == Rule(c, s, "no", "2xx", after)
<1>1. /\ yes.capability = c /\ yes.step = s /\ yes.supported = "yes" /\ yes.status = "4xx"
      /\ yes.label = "" /\ yes.after = after
      /\ no.capability = c /\ no.step = s /\ no.supported = "no" /\ no.status = "2xx"
      /\ no.label = "" /\ no.after = after
  BY DEF Rule
<1>2. /\ DOMAIN Refusal(c, s, after) = {1, 2}
      /\ Refusal(c, s, after)[1] = yes /\ Refusal(c, s, after)[2] = no
  <2> HIDE DEF yes, no
  <2>. QED BY DEF Refusal, yes, no
<1> HIDE DEF yes, no
<1>3. Reads(yes, b) => IsTrueOf(may, won, yes)
  BY <1>1, ReadsTheLast DEF IsTrueOf, Applies
<1>4. Reads(no, b) => IsTrueOf(may, won, no)
  BY <1>1, ReadsTheLast DEF IsTrueOf, Applies
<1>. QED BY <1>2, <1>3, <1>4 DEF RulesAreTrue

LEMMA ReplayIsTrue ==
  ASSUME NEW may, NEW won, NEW b, NEW c, NEW first, NEW where,
         c # "concurrent_capture_single_winner",
         /\ AnsweredAs(b, first, "2xx") /\ AnsweredAs(b, "replay", "2xx")
         /\ where \subseteq LastBody(b, "replay")
         => c \in may,
         AnsweredAs(b, first, "2xx") /\ AnsweredAs(b, "replay", "4xx") => c \notin may
  PROVE  RulesAreTrue(may, won, b, Replay(c, first, where))
<1> DEFINE both == {<<first, "2xx">>, <<"control", "4xx">>}
           one == {<<first, "2xx">>}
           yes == ReadAt(Rule(c, "replay", "yes", "2xx", both), "", where)
           no == Rule(c, "replay", "no", "4xx", one)
<1>1. /\ Applies(b, both) => AnsweredAs(b, first, "2xx")
      /\ Applies(b, one) => AnsweredAs(b, first, "2xx")
  BY AppliesToOne, AppliesToTwo
<1>2. /\ DOMAIN Replay(c, first, where) = {1, 2}
      /\ Replay(c, first, where)[1] = yes /\ Replay(c, first, where)[2] = no
  <2> HIDE DEF yes, no
  <2>. QED BY DEF Replay, yes, no
<1>3. /\ yes.capability = c /\ yes.step = "replay" /\ yes.supported = "yes" /\ yes.status = "2xx"
      /\ yes.label = "" /\ yes.after = both /\ yes.where = where
      /\ no.capability = c /\ no.step = "replay" /\ no.supported = "no" /\ no.status = "4xx"
      /\ no.label = "" /\ no.after = one
  <2> HIDE DEF both, one
  <2>. QED BY DEF Rule, ReadAt
<1> HIDE DEF yes, no, both, one
<1>4. Reads(yes, b) => IsTrueOf(may, won, yes)
  BY <1>1, <1>3, ReadsTheLast DEF IsTrueOf, Applies
<1>5. Reads(no, b) => IsTrueOf(may, won, no)
  BY <1>1, <1>3, ReadsTheLast DEF IsTrueOf, Applies
<1>. QED BY <1>2, <1>4, <1>5 DEF RulesAreTrue

\* The payments of the hold say where the money is.
LEMMA PaymentsAreTrue ==
  ASSUME NEW may, NEW won, NEW b, PaymentsSound(may, b)
  PROVE  LET c == "funds_held_in_customer_account"
             yes == ReadAt(Rule(c, "hold", "yes", "2xx", {}), "payments",
                           {<<"is_captured", FALSE>>, <<"payment_status", "SUCCESS">>})
             no == ReadAt(Rule(c, "hold", "no", "2xx", {}), "payments", {<<"is_captured", TRUE>>})
         IN  /\ Reads(yes, b) => IsTrueOf(may, won, yes)
             /\ Reads(no, b) => IsTrueOf(may, won, no)
<1> DEFINE c == "funds_held_in_customer_account"
           held == {<<"is_captured", FALSE>>, <<"payment_status", "SUCCESS">>}
           captured == {<<"is_captured", TRUE>>}
           yes == ReadAt(Rule(c, "hold", "yes", "2xx", {}), "payments", held)
           no == ReadAt(Rule(c, "hold", "no", "2xx", {}), "payments", captured)
<1>1. /\ <<"is_captured", FALSE>> \in held /\ <<"payment_status", "SUCCESS">> \in held
      /\ <<"is_captured", TRUE>> \in captured
  OBVIOUS
<1> HIDE DEF held, captured
<1>2. /\ yes.capability = c /\ yes.step = "hold" /\ yes.supported = "yes"
      /\ yes.label = "payments" /\ yes.where = held
      /\ no.capability = c /\ no.step = "hold" /\ no.supported = "no"
      /\ no.label = "payments" /\ no.where = captured
  BY DEF Rule, ReadAt
<1> HIDE DEF yes, no
<1>3. ASSUME Reads(yes, b)
      PROVE  c \in may
  <2>1. /\ "hold" \in DOMAIN b
        /\ \E i \in DOMAIN b["hold"] : b["hold"][i].label = "payments" /\ held \subseteq b["hold"][i].body
    BY <1>2, <1>3, ReadsTheLabelled
  <2>. QED BY <1>1, <2>1 DEF PaymentsSound, PaymentsTrue
<1>4. ASSUME Reads(no, b)
      PROVE  c \notin may
  <2>1. /\ "hold" \in DOMAIN b
        /\ \E i \in DOMAIN b["hold"] : b["hold"][i].label = "payments" /\ captured \subseteq b["hold"][i].body
    BY <1>2, <1>4, ReadsTheLabelled
  <2>. QED BY <1>1, <2>1 DEF PaymentsSound, PaymentsTrue
<1>5. IsTrueOf(may, won, yes) \/ ~Reads(yes, b)
  BY <1>2, <1>3 DEF IsTrueOf
<1>6. IsTrueOf(may, won, no) \/ ~Reads(no, b)
  BY <1>2, <1>4 DEF IsTrueOf
<1>. QED BY <1>5, <1>6 DEF yes, no, held, captured

LEMMA SummaryIsTrue ==
  ASSUME NEW may, NEW won, NEW b, RaceSound(may, won, b)
  PROVE  RulesAreTrue(may, won, b, ConcurrentCapture.rules)
<1> DEFINE c == "concurrent_capture_single_winner"
           single == {<<"single_winner", TRUE>>}
           several == {<<"multiple_winners", TRUE>>}
           yes == ReadAt(Rule(c, "race", "yes", "2xx", {}), "summary", single)
           no == ReadAt(Rule(c, "race", "no", "2xx", {}), "summary", several)
<1>1. ConcurrentCapture.rules = <<yes, no>>
  <2>1. PICK y, n : y = yes /\ n = no
    OBVIOUS
  <2>2. ConcurrentCapture.rules = <<y, n>>
    <3> HIDE DEF yes, no
    <3>. QED BY <2>1 DEF ConcurrentCapture, Probe, yes, no
  <2>. QED BY <2>1, <2>2
<1>2. <<"single_winner", TRUE>> \in single /\ <<"multiple_winners", TRUE>> \in several
  OBVIOUS
<1> HIDE DEF single, several
<1>3. /\ yes.capability = c /\ yes.step = "race" /\ yes.supported = "yes"
      /\ yes.label = "summary" /\ yes.where = single
      /\ no.capability = c /\ no.step = "race" /\ no.supported = "no"
      /\ no.label = "summary" /\ no.where = several
  BY DEF Rule, ReadAt
<1> HIDE DEF yes, no
<1>4. ASSUME Reads(yes, b)
      PROVE  won = 1
  <2>1. /\ "race" \in DOMAIN b
        /\ \E i \in DOMAIN b["race"] : b["race"][i].label = "summary" /\ single \subseteq b["race"][i].body
    BY <1>3, <1>4, ReadsTheLabelled
  <2>. QED BY <1>2, <2>1 DEF RaceSound, SummaryTrue
<1>5. ASSUME Reads(no, b)
      PROVE  c \notin may
  <2>1. /\ "race" \in DOMAIN b
        /\ \E i \in DOMAIN b["race"] : b["race"][i].label = "summary" /\ several \subseteq b["race"][i].body
    BY <1>3, <1>5, ReadsTheLabelled
  <2>. QED BY <1>2, <2>1 DEF RaceSound, SummaryTrue
<1>6. Reads(yes, b) => IsTrueOf(may, won, yes)
  BY <1>3, <1>4 DEF IsTrueOf
<1>7. Reads(no, b) => IsTrueOf(may, won, no)
  BY <1>3, <1>5 DEF IsTrueOf
<1>8. DOMAIN ConcurrentCapture.rules = {1, 2}
      /\ ConcurrentCapture.rules[1] = yes /\ ConcurrentCapture.rules[2] = no
  BY <1>1
<1>. QED BY <1>6, <1>7, <1>8 DEF RulesAreTrue

(***************************************************************************)
(* Every probe of the catalogue: what it finds is so, if its first two     *)
(* requests were answered by a sandbox that does what it permits.          *)
(***************************************************************************)
IsAnswered(may, won, b, steps) ==
  /\ Consistent(may)
  /\ FirstSound(may, b, steps[2])
  /\ Len(steps) >= 3 => SecondSound(may, b, steps[2], steps[3])
  /\ PaymentsSound(may, b) /\ RaceSound(may, won, b)

LEMMA Amounts ==
  /\ PART \in Nat /\ OVER \in Nat /\ FIRST \in Nat /\ SECOND \in Nat /\ THIRD \in Nat /\ HOLD \in Nat
  /\ PART > 0 /\ FIRST > 0 /\ SECOND > 0 /\ OVER > HOLD /\ PART < HOLD /\ FIRST < HOLD /\ SECOND < HOLD
  /\ FIRST + SECOND <= HOLD /\ PART + PART > HOLD /\ PART + FIRST > HOLD /\ FIRST # PART
BY DEF PART, OVER, FIRST, SECOND, THIRD, HOLD

LEMMA PartialCaptureIsTrue ==
  /\ WellMade(PartialCapture.steps)
  /\ \A may, won, b : IsAnswered(may, won, b, PartialCapture.steps) =>
                        RulesAreTrue(may, won, b, PartialCapture.rules)
<1> DEFINE s == Capture("capture", PART, "")
<1>1. WellMade(PartialCapture.steps) /\ PartialCapture.steps[2] = s
  <2>1. Later(s) /\ Later(Observe) /\ s.name # Observe.name
    BY Amounts DEF Later, Capture, Observe, Step
  <2>2. PICK rules : PartialCapture = Probe(<<s, Observe>>, rules)
    BY DEF PartialCapture
  <2> HIDE DEF s
  <2>. QED BY <2>1, <2>2, MakesThree
<1>2. s.name = "capture" /\ s.op = "capture" /\ s.amount = PART
  BY DEF Capture, Void, Step
<1> HIDE DEF s
<1>3. ASSUME NEW may, NEW won, NEW b, IsAnswered(may, won, b, PartialCapture.steps)
      PROVE  RulesAreTrue(may, won, b, PartialCapture.rules)
  <2> DEFINE c == "funds_held_in_customer_account"
             A == Answers("partial_debit", "capture", {})
             y == ReadAt(Rule(c, "hold", "yes", "2xx", {}), "payments",
                         {<<"is_captured", FALSE>>, <<"payment_status", "SUCCESS">>})
             n == ReadAt(Rule(c, "hold", "no", "2xx", {}), "payments", {<<"is_captured", TRUE>>})
  <2>1. FirstSound(may, b, s) /\ PaymentsSound(may, b)
    BY <1>1, <1>3 DEF IsAnswered
  <2>2. Allows(may, s) <=> "partial_debit" \in may
    BY <1>2, Amounts DEF Allows
  <2>3. RulesAreTrue(may, won, b, A)
    <3>1. /\ AnsweredAs(b, "capture", "2xx") => "partial_debit" \in may
          /\ AnsweredAs(b, "capture", "4xx") => "partial_debit" \notin may
      BY <1>2, <2>1, <2>2 DEF FirstSound, AskOps
    <3>. QED BY <3>1, AnswersAreTrue
  <2>4. /\ Reads(y, b) => IsTrueOf(may, won, y)
        /\ Reads(n, b) => IsTrueOf(may, won, n)
    BY <2>1, PaymentsAreTrue
  <2> HIDE DEF y, n
  <2>5. PartialCapture.rules = A \o <<y, n>>
    BY DEF PartialCapture, Probe, A, y, n
  <2>6. PICK a1, a2 : A = <<a1, a2>>
    BY DEF Answers
  <2> HIDE DEF A
  <2>7. /\ DOMAIN PartialCapture.rules = 1 .. 4 /\ DOMAIN A = {1, 2}
        /\ PartialCapture.rules[1] = A[1] /\ PartialCapture.rules[2] = A[2]
        /\ PartialCapture.rules[3] = y /\ PartialCapture.rules[4] = n
    BY <2>5, <2>6
  <2>8. \A i \in 1 .. 4 : i = 1 \/ i = 2 \/ i = 3 \/ i = 4
    OBVIOUS
  <2>9. \A i \in 1 .. 4 : Reads(PartialCapture.rules[i], b) => IsTrueOf(may, won, PartialCapture.rules[i])
    BY <2>3, <2>4, <2>7, <2>8, Zenon DEF RulesAreTrue
  <2>. QED BY <2>7, <2>9 DEF RulesAreTrue
<1>. QED BY <1>1, <1>3

LEMMA VoidWholeHoldIsTrue ==
  /\ WellMade(VoidWholeHold.steps)
  /\ \A may, won, b : IsAnswered(may, won, b, VoidWholeHold.steps) =>
                        RulesAreTrue(may, won, b, VoidWholeHold.rules)
<1> DEFINE s == Void("void", "")
<1>1. WellMade(VoidWholeHold.steps) /\ VoidWholeHold.steps[2] = s
  <2>1. Later(s) /\ Later(Observe) /\ s.name # Observe.name
    BY DEF Later, Void, Observe, Step
  <2>2. PICK rules : VoidWholeHold = Probe(<<s, Observe>>, rules)
    BY DEF VoidWholeHold
  <2> HIDE DEF s
  <2>. QED BY <2>1, <2>2, MakesThree
<1>2. s.name = "void" /\ s.op = "void"
  BY DEF Capture, Void, Step
<1> HIDE DEF s
<1>3. ASSUME NEW may, NEW won, NEW b, IsAnswered(may, won, b, VoidWholeHold.steps)
      PROVE  RulesAreTrue(may, won, b, VoidWholeHold.rules)
  <2>1. FirstSound(may, b, s)
    BY <1>1, <1>3 DEF IsAnswered
  <2>2. Allows(may, s) <=> "void_whole_hold" \in may
    BY <1>2 DEF Allows
  <2>3. /\ AnsweredAs(b, "void", "2xx") => "void_whole_hold" \in may
        /\ AnsweredAs(b, "void", "4xx") => "void_whole_hold" \notin may
    BY <1>2, <2>1, <2>2 DEF FirstSound, AskOps
  <2>4. RulesAreTrue(may, won, b, VoidWholeHold.rules)
    <3>. QED BY <2>3, AnswersAreTrue DEF VoidWholeHold, Probe
  <2>. QED BY <2>4
<1>. QED BY <1>1, <1>3

LEMMA OverCaptureIsTrue ==
  /\ WellMade(OverCapture.steps)
  /\ \A may, won, b : IsAnswered(may, won, b, OverCapture.steps) =>
                        RulesAreTrue(may, won, b, OverCapture.rules)
<1> DEFINE s == Capture("capture", OVER, "")
<1>1. WellMade(OverCapture.steps) /\ OverCapture.steps[2] = s
  <2>1. Later(s)
    BY Amounts DEF Later, Capture, Step
  <2> HIDE DEF s
  <2>. QED BY <2>1, MakesTwo DEF OverCapture, s
<1>2. s.name = "capture" /\ s.op = "capture" /\ s.amount = OVER
  BY DEF Capture, Void, Step
<1> HIDE DEF s
<1>3. ASSUME NEW may, NEW won, NEW b, IsAnswered(may, won, b, OverCapture.steps)
      PROVE  RulesAreTrue(may, won, b, OverCapture.rules)
  <2>1. FirstSound(may, b, s)
    BY <1>1, <1>3 DEF IsAnswered
  <2>2. Allows(may, s) <=> "over_capture" \in may
    BY <1>2, Amounts DEF Allows
  <2>3. /\ AnsweredAs(b, "capture", "2xx") => "over_capture" \in may
        /\ AnsweredAs(b, "capture", "4xx") => "over_capture" \notin may
    BY <1>2, <2>1, <2>2 DEF FirstSound, AskOps
  <2>4. RulesAreTrue(may, won, b, OverCapture.rules)
    <3>. QED BY <2>3, AnswersAreTrue DEF OverCapture, Probe
  <2>. QED BY <2>4
<1>. QED BY <1>1, <1>3

LEMMA DuplicateOrderRefusedIsTrue ==
  /\ WellMade(DuplicateOrderRefused.steps)
  /\ \A may, won, b : IsAnswered(may, won, b, DuplicateOrderRefused.steps) =>
                        RulesAreTrue(may, won, b, DuplicateOrderRefused.rules)
<1> DEFINE s == Step("again", "recreate_order", HOLD, "")
<1>1. WellMade(DuplicateOrderRefused.steps) /\ DuplicateOrderRefused.steps[2] = s
  <2>1. Later(s)
    BY DEF Later, Step
  <2> HIDE DEF s
  <2>. QED BY <2>1, MakesTwo DEF DuplicateOrderRefused, s
<1>2. s.name = "again" /\ s.op = "recreate_order"
  BY DEF Step
<1> HIDE DEF s
<1>3. ASSUME NEW may, NEW won, NEW b, IsAnswered(may, won, b, DuplicateOrderRefused.steps)
      PROVE  RulesAreTrue(may, won, b, DuplicateOrderRefused.rules)
  <2>1. FirstSound(may, b, s)
    BY <1>1, <1>3 DEF IsAnswered
  <2>2. Allows(may, s) <=> "duplicate_order_refused" \notin may
    BY <1>2 DEF Allows
  <2>3. /\ AnsweredAs(b, "again", "4xx") => "duplicate_order_refused" \in may
        /\ AnsweredAs(b, "again", "2xx") => "duplicate_order_refused" \notin may
    BY <1>2, <2>1, <2>2 DEF FirstSound, AskOps
  <2>4. RulesAreTrue(may, won, b, DuplicateOrderRefused.rules)
    <3>. QED BY <2>3, RefusalIsTrue DEF DuplicateOrderRefused, Probe
  <2>. QED BY <2>4
<1>. QED BY <1>1, <1>3

LEMMA PaymentReplayRefusedIsTrue ==
  /\ WellMade(PaymentReplayRefused.steps)
  /\ \A may, won, b : IsAnswered(may, won, b, PaymentReplayRefused.steps) =>
                        RulesAreTrue(may, won, b, PaymentReplayRefused.rules)
<1> DEFINE s == Step("again", "pay_again", 0, "")
<1>1. WellMade(PaymentReplayRefused.steps) /\ PaymentReplayRefused.steps[2] = s
  <2>1. Later(s)
    BY DEF Later, Step
  <2> HIDE DEF s
  <2>. QED BY <2>1, MakesTwo DEF PaymentReplayRefused, s
<1>2. s.name = "again" /\ s.op = "pay_again"
  BY DEF Step
<1> HIDE DEF s
<1>3. ASSUME NEW may, NEW won, NEW b, IsAnswered(may, won, b, PaymentReplayRefused.steps)
      PROVE  RulesAreTrue(may, won, b, PaymentReplayRefused.rules)
  <2>1. FirstSound(may, b, s)
    BY <1>1, <1>3 DEF IsAnswered
  <2>2. Allows(may, s) <=> "payment_replay_refused" \notin may
    BY <1>2 DEF Allows
  <2>3. /\ AnsweredAs(b, "again", "4xx") => "payment_replay_refused" \in may
        /\ AnsweredAs(b, "again", "2xx") => "payment_replay_refused" \notin may
    BY <1>2, <2>1, <2>2 DEF FirstSound, AskOps
  <2>4. RulesAreTrue(may, won, b, PaymentReplayRefused.rules)
    <3>. QED BY <2>3, RefusalIsTrue DEF PaymentReplayRefused, Probe
  <2>. QED BY <2>4
<1>. QED BY <1>1, <1>3

LEMMA ConcurrentCaptureIsTrue ==
  /\ WellMade(ConcurrentCapture.steps)
  /\ \A may, won, b : IsAnswered(may, won, b, ConcurrentCapture.steps) =>
                        RulesAreTrue(may, won, b, ConcurrentCapture.rules)
<1> DEFINE s == Step("race", "capture_parallel", 0, "")
<1>1. WellMade(ConcurrentCapture.steps)
  <2>1. Later(s)
    BY DEF Later, Step
  <2> HIDE DEF s
  <2>. QED BY <2>1, MakesTwo DEF ConcurrentCapture, s
<1>. QED BY <1>1, SummaryIsTrue DEF IsAnswered

\* The probes of two requests or more.
LEMMA VoidAfterPartialCaptureIsTrue ==
  /\ WellMade(VoidAfterPartialCapture.steps)
  /\ \A may, won, b : IsAnswered(may, won, b, VoidAfterPartialCapture.steps) =>
                        RulesAreTrue(may, won, b, VoidAfterPartialCapture.rules)
<1> DEFINE s == Capture("capture", PART, "")
           t == Void("void", "")
<1>1. /\ WellMade(VoidAfterPartialCapture.steps) /\ Len(VoidAfterPartialCapture.steps) = 3
      /\ VoidAfterPartialCapture.steps[2] = s /\ VoidAfterPartialCapture.steps[3] = t
  <2>1. Later(s) /\ Later(t) /\ s.name # t.name
    BY Amounts DEF Later, Capture, Void, Step
  <2>2. PICK rules : VoidAfterPartialCapture = Probe(<<s, t>>, rules)
    BY DEF VoidAfterPartialCapture
  <2> HIDE DEF s, t
  <2>. QED BY <2>1, <2>2, MakesThree
<1>2. /\ s.name = "capture" /\ s.op = "capture" /\ t.name = "void" /\ t.op = "void"
  BY DEF Capture, Void, Step
<1> HIDE DEF s, t
<1>3. ASSUME NEW may, NEW won, NEW b, IsAnswered(may, won, b, VoidAfterPartialCapture.steps)
      PROVE  RulesAreTrue(may, won, b, VoidAfterPartialCapture.rules)
  <2>1. SecondSound(may, b, s, t)
    BY <1>1, <1>3 DEF IsAnswered
  <2>2. AllowsAfter(may, s, t) <=> "void_after_partial_capture" \in may
    BY <1>2 DEF AllowsAfter, Repeats
  <2>3. AnsweredAs(b, "capture", "2xx") =>
          /\ AnsweredAs(b, "void", "2xx") => "void_after_partial_capture" \in may
          /\ AnsweredAs(b, "void", "4xx") => "void_after_partial_capture" \notin may
    BY <1>2, <2>1, <2>2 DEF SecondSound, HoldOps
  <2>4. RulesAreTrue(may, won, b, VoidAfterPartialCapture.rules)
    <3>. QED BY <2>3, AppliesToOne, AnswersAreTrue DEF VoidAfterPartialCapture, Probe
  <2>. QED BY <2>4
<1>. QED BY <1>1, <1>3

LEMMA CaptureAfterVoidIsTrue ==
  /\ WellMade(CaptureAfterVoid.steps)
  /\ \A may, won, b : IsAnswered(may, won, b, CaptureAfterVoid.steps) =>
                        RulesAreTrue(may, won, b, CaptureAfterVoid.rules)
<1> DEFINE s == Void("void", "")
           t == Capture("capture", PART, "")
<1>1. /\ WellMade(CaptureAfterVoid.steps) /\ Len(CaptureAfterVoid.steps) = 3
      /\ CaptureAfterVoid.steps[2] = s /\ CaptureAfterVoid.steps[3] = t
  <2>1. Later(s) /\ Later(t) /\ s.name # t.name
    BY Amounts DEF Later, Capture, Void, Step
  <2>2. PICK rules : CaptureAfterVoid = Probe(<<s, t>>, rules)
    BY DEF CaptureAfterVoid
  <2> HIDE DEF s, t
  <2>. QED BY <2>1, <2>2, MakesThree
<1>2. /\ s.name = "void" /\ s.op = "void"
      /\ t.name = "capture" /\ t.op = "capture" /\ t.amount = PART
  BY DEF Capture, Void, Step
<1> HIDE DEF s, t
<1>3. ASSUME NEW may, NEW won, NEW b, IsAnswered(may, won, b, CaptureAfterVoid.steps)
      PROVE  RulesAreTrue(may, won, b, CaptureAfterVoid.rules)
  <2>1. SecondSound(may, b, s, t) /\ ("capture_after_void" \in may => "partial_debit" \in may)
    BY <1>1, <1>3 DEF IsAnswered, Consistent
  <2>2. AllowsAfter(may, s, t) <=> "capture_after_void" \in may
    <3>1. TakenBy(s) = 0
      BY <1>2 DEF TakenBy
    <3>. QED BY <1>2, <2>1, <3>1, Amounts DEF AllowsAfter, CapturesAfter, Repeats
  <2>3. AnsweredAs(b, "void", "2xx") =>
          /\ AnsweredAs(b, "capture", "2xx") => "capture_after_void" \in may
          /\ AnsweredAs(b, "capture", "4xx") => "capture_after_void" \notin may
    BY <1>2, <2>1, <2>2 DEF SecondSound, HoldOps
  <2>4. RulesAreTrue(may, won, b, CaptureAfterVoid.rules)
    <3>. QED BY <2>3, AppliesToOne, AnswersAreTrue DEF CaptureAfterVoid, Probe
  <2>. QED BY <2>4
<1>. QED BY <1>1, <1>3

LEMMA DoubleCaptureIsTrue ==
  /\ WellMade(DoubleCapture.steps)
  /\ \A may, won, b : IsAnswered(may, won, b, DoubleCapture.steps) =>
                        RulesAreTrue(may, won, b, DoubleCapture.rules)
<1> DEFINE s == Capture("capture1", FIRST, "")
           t == Capture("capture2", SECOND, "")
<1>1. /\ WellMade(DoubleCapture.steps) /\ Len(DoubleCapture.steps) = 3
      /\ DoubleCapture.steps[2] = s /\ DoubleCapture.steps[3] = t
  <2>1. Later(s) /\ Later(t) /\ s.name # t.name
    BY Amounts DEF Later, Capture, Step
  <2>2. PICK rules : DoubleCapture = Probe(<<s, t>>, rules)
    BY DEF DoubleCapture
  <2> HIDE DEF s, t
  <2>. QED BY <2>1, <2>2, MakesThree
<1>2. /\ s.name = "capture1" /\ s.op = "capture" /\ s.amount = FIRST
      /\ t.name = "capture2" /\ t.op = "capture" /\ t.amount = SECOND /\ t.idempotency_key = ""
  BY DEF Capture, Step
<1> HIDE DEF s, t
<1>3. ASSUME NEW may, NEW won, NEW b, IsAnswered(may, won, b, DoubleCapture.steps)
      PROVE  RulesAreTrue(may, won, b, DoubleCapture.rules)
  <2>1. FirstSound(may, b, s) /\ SecondSound(may, b, s, t)
    BY <1>1, <1>3 DEF IsAnswered
  <2>2. Allows(may, s) => "partial_debit" \in may
    BY <1>2, Amounts DEF Allows
  <2>3. "partial_debit" \in may => (AllowsAfter(may, s, t) <=> "multiple_captures" \in may)
    <3>1. TakenBy(s) = FIRST /\ ~Repeats(may, s, t)
      BY <1>2 DEF TakenBy, Repeats
    <3>2. ~(FIRST + SECOND > HOLD) /\ SECOND < HOLD
      BY Amounts
    <3>. QED BY <1>2, <3>1, <3>2 DEF AllowsAfter, CapturesAfter
  <2>4. AnsweredAs(b, "capture1", "2xx") =>
          /\ AnsweredAs(b, "capture2", "2xx") => "multiple_captures" \in may
          /\ AnsweredAs(b, "capture2", "4xx") => "multiple_captures" \notin may
    BY <1>2, <2>1, <2>2, <2>3 DEF FirstSound, SecondSound, HoldOps, AskOps
  <2>5. RulesAreTrue(may, won, b, DoubleCapture.rules)
    <3>. QED BY <2>4, AppliesToOne, AnswersAreTrue DEF DoubleCapture, Probe
  <2>. QED BY <2>5
<1>. QED BY <1>1, <1>3

\* A capture that is not a repeat is one more, and says how much it has taken.
LEMMA IdempotentCaptureReplayIsTrue ==
  /\ WellMade(IdempotentCaptureReplay.steps)
  /\ \A may, won, b : IsAnswered(may, won, b, IdempotentCaptureReplay.steps) =>
                        RulesAreTrue(may, won, b, IdempotentCaptureReplay.rules)
<1> DEFINE s == Capture("capture1", PART, "k1")
           t == Capture("replay", PART, "k1")
           u == Capture("control", PART, "k2")
<1>1. /\ WellMade(IdempotentCaptureReplay.steps) /\ Len(IdempotentCaptureReplay.steps) = 4
      /\ IdempotentCaptureReplay.steps[2] = s /\ IdempotentCaptureReplay.steps[3] = t
  <2>1. /\ Later(s) /\ Later(t) /\ Later(u)
        /\ s.name # t.name /\ s.name # u.name /\ t.name # u.name
    BY Amounts DEF Later, Capture, Step
  <2>2. PICK rules : IdempotentCaptureReplay = Probe(<<s, t, u>>, rules)
    BY DEF IdempotentCaptureReplay
  <2> HIDE DEF s, t, u
  <2>. QED BY <2>1, <2>2, MakesFour
<1>2. /\ s.name = "capture1" /\ s.op = "capture" /\ s.amount = PART /\ s.idempotency_key = "k1"
      /\ t.name = "replay" /\ t.op = "capture" /\ t.amount = PART /\ t.idempotency_key = "k1"
  BY DEF Capture, Step
<1> HIDE DEF s, t, u
<1>3. ASSUME NEW may, NEW won, NEW b, IsAnswered(may, won, b, IdempotentCaptureReplay.steps)
      PROVE  RulesAreTrue(may, won, b, IdempotentCaptureReplay.rules)
  <2> DEFINE where == {<<"captured_amount", PART>>}
  <2>1. SecondSound(may, b, s, t)
    BY <1>1, <1>3 DEF IsAnswered
  <2>2. Repeats(may, s, t) <=> "idempotent_capture_replay" \in may
    BY <1>2 DEF Repeats
  <2>3. Repeats(may, s, t) => AllowsAfter(may, s, t)
    BY <1>2 DEF AllowsAfter
  <2>4. ~(where \subseteq {<<"captured_amount", PART + PART>>})
    <3>1. PART # PART + PART
      BY Amounts
    <3>. QED BY <3>1
  <2> HIDE DEF where
  <2>5. TakenBy(s) + t.amount = PART + PART
    BY <1>2 DEF TakenBy
  <2>6. AnsweredAs(b, "capture1", "2xx") =>
          /\ AnsweredAs(b, "replay", "2xx") /\ where \subseteq LastBody(b, "replay") =>
               "idempotent_capture_replay" \in may
          /\ AnsweredAs(b, "replay", "4xx") => "idempotent_capture_replay" \notin may
    BY <1>2, <2>1, <2>2, <2>3, <2>4, <2>5 DEF SecondSound, HoldOps
  <2>7. RulesAreTrue(may, won, b, Replay("idempotent_capture_replay", "capture1", where))
    BY <2>6, ReplayIsTrue
  <2>. QED BY <2>7 DEF IdempotentCaptureReplay, Probe, where
<1>. QED BY <1>1, <1>3

LEMMA IdempotentVoidReplayIsTrue ==
  /\ WellMade(IdempotentVoidReplay.steps)
  /\ \A may, won, b : IsAnswered(may, won, b, IdempotentVoidReplay.steps) =>
                        RulesAreTrue(may, won, b, IdempotentVoidReplay.rules)
<1> DEFINE s == Void("void1", "k1")
           t == Void("replay", "k1")
           u == Void("control", "k2")
<1>1. /\ WellMade(IdempotentVoidReplay.steps) /\ Len(IdempotentVoidReplay.steps) = 4
      /\ IdempotentVoidReplay.steps[2] = s /\ IdempotentVoidReplay.steps[3] = t
  <2>1. /\ Later(s) /\ Later(t) /\ Later(u)
        /\ s.name # t.name /\ s.name # u.name /\ t.name # u.name
    BY DEF Later, Void, Step
  <2>2. PICK rules : IdempotentVoidReplay = Probe(<<s, t, u>>, rules)
    BY DEF IdempotentVoidReplay
  <2> HIDE DEF s, t, u
  <2>. QED BY <2>1, <2>2, MakesFour
<1>2. /\ s.name = "void1" /\ s.op = "void" /\ s.idempotency_key = "k1"
      /\ t.name = "replay" /\ t.op = "void" /\ t.idempotency_key = "k1"
  BY DEF Void, Step
<1> HIDE DEF s, t, u
<1>3. ASSUME NEW may, NEW won, NEW b, IsAnswered(may, won, b, IdempotentVoidReplay.steps)
      PROVE  RulesAreTrue(may, won, b, IdempotentVoidReplay.rules)
  <2> DEFINE where == {<<"action", "VOID">>}
  <2> HIDE DEF where
  <2>1. SecondSound(may, b, s, t)
    BY <1>1, <1>3 DEF IsAnswered
  <2>2. Repeats(may, s, t) <=> "idempotent_void_replay" \in may
    BY <1>2 DEF Repeats
  <2>3. AllowsAfter(may, s, t) <=> Repeats(may, s, t)
    BY <1>2 DEF AllowsAfter
  <2>4. AnsweredAs(b, "void1", "2xx") =>
          /\ AnsweredAs(b, "replay", "2xx") => "idempotent_void_replay" \in may
          /\ AnsweredAs(b, "replay", "4xx") => "idempotent_void_replay" \notin may
    BY <1>2, <2>1, <2>2, <2>3 DEF SecondSound, HoldOps
  <2>5. RulesAreTrue(may, won, b, Replay("idempotent_void_replay", "void1", where))
    BY <2>4, ReplayIsTrue
  <2>. QED BY <2>5 DEF IdempotentVoidReplay, Probe, where
<1>. QED BY <1>1, <1>3

\* Two captures under one key differ in what they ask for: taken as one, or as
\* two, they are taken, unless the reuse is refused.
LEMMA IdempotencyKeyReuseRefusedIsTrue ==
  /\ WellMade(IdempotencyKeyReuseRefused.steps)
  /\ \A may, won, b : IsAnswered(may, won, b, IdempotencyKeyReuseRefused.steps) =>
                        RulesAreTrue(may, won, b, IdempotencyKeyReuseRefused.rules)
<1> DEFINE s == Capture("capture1", PART, "k1")
           t == Capture("reuse", FIRST, "k1")
<1>1. /\ WellMade(IdempotencyKeyReuseRefused.steps) /\ Len(IdempotencyKeyReuseRefused.steps) = 3
      /\ IdempotencyKeyReuseRefused.steps[2] = s /\ IdempotencyKeyReuseRefused.steps[3] = t
  <2>1. Later(s) /\ Later(t) /\ s.name # t.name
    BY Amounts DEF Later, Capture, Step
  <2>2. PICK rules : IdempotencyKeyReuseRefused = Probe(<<s, t>>, rules)
    BY DEF IdempotencyKeyReuseRefused
  <2> HIDE DEF s, t
  <2>. QED BY <2>1, <2>2, MakesThree
<1>2. /\ s.name = "capture1" /\ s.op = "capture" /\ s.amount = PART /\ s.idempotency_key = "k1"
      /\ t.name = "reuse" /\ t.op = "capture" /\ t.amount = FIRST /\ t.idempotency_key = "k1"
  BY DEF Capture, Step
<1> HIDE DEF s, t
<1>3. ASSUME NEW may, NEW won, NEW b, IsAnswered(may, won, b, IdempotencyKeyReuseRefused.steps)
      PROVE  RulesAreTrue(may, won, b, IdempotencyKeyReuseRefused.rules)
  <2>1. /\ FirstSound(may, b, s) /\ SecondSound(may, b, s, t)
        /\ "idempotent_capture_replay" \notin may =>
             ("idempotency_key_reuse_refused" \in may <=>
                ~("multiple_captures" \in may /\ "over_capture" \in may))
    BY <1>1, <1>3 DEF IsAnswered, Consistent
  <2>2. Allows(may, s) => "partial_debit" \in may
    BY <1>2, Amounts DEF Allows
  <2>3. Repeats(may, s, t) <=> "idempotent_capture_replay" \in may
    BY <1>2 DEF Repeats
  <2>4. "idempotent_capture_replay" \in may =>
          (AllowsAfter(may, s, t) <=> "idempotency_key_reuse_refused" \notin may)
    <3>1. t.amount # s.amount
      BY <1>2, Amounts
    <3>. QED BY <1>2, <2>3, <3>1 DEF AllowsAfter
  <2>5. "idempotent_capture_replay" \notin may /\ "partial_debit" \in may =>
          (AllowsAfter(may, s, t) <=> "multiple_captures" \in may /\ "over_capture" \in may)
    <3>1. TakenBy(s) + t.amount > HOLD
      BY <1>2, Amounts DEF TakenBy
    <3>. QED BY <1>2, <2>3, <3>1 DEF AllowsAfter, CapturesAfter
  <2>6. AnsweredAs(b, "capture1", "2xx") =>
          /\ AnsweredAs(b, "reuse", "4xx") => "idempotency_key_reuse_refused" \in may
          /\ AnsweredAs(b, "reuse", "2xx") => "idempotency_key_reuse_refused" \notin may
    BY <1>2, <2>1, <2>2, <2>4, <2>5 DEF FirstSound, SecondSound, HoldOps, AskOps
  <2>7. RulesAreTrue(may, won, b, IdempotencyKeyReuseRefused.rules)
    <3>. QED BY <2>6, AppliesToOne, RefusalIsTrue DEF IdempotencyKeyReuseRefused, Probe
  <2>. QED BY <2>7
<1>. QED BY <1>1, <1>3

\* The catalogue.
LEMMA ProbesAreTrue ==
  ASSUME NEW p \in DOMAIN PROBES
  PROVE  /\ WellMade(PROBES[p].steps)
         /\ \A may, won, b : IsAnswered(may, won, b, PROBES[p].steps) =>
                               RulesAreTrue(may, won, b, PROBES[p].rules)
BY PartialCaptureIsTrue, VoidWholeHoldIsTrue, VoidAfterPartialCaptureIsTrue, OverCaptureIsTrue,
   CaptureAfterVoidIsTrue, DoubleCaptureIsTrue, IdempotentCaptureReplayIsTrue,
   IdempotentVoidReplayIsTrue, DuplicateOrderRefusedIsTrue, PaymentReplayRefusedIsTrue,
   IdempotencyKeyReuseRefusedIsTrue, ConcurrentCaptureIsTrue DEF PROBES

(***************************************************************************)
(* What the sandbox answers to a request.                                  *)
(***************************************************************************)
LEMMA ReplyFields ==
  ASSUME NEW status, NEW body, NEW after
  PROVE  /\ Reply(status, body, after).status = status /\ Reply(status, body, after).body = body
         /\ Reply(status, body, after).hold = after
BY DEF Reply

LEMMA RefusesFields == Refuses.status = 400 /\ Refuses.hold = hold
BY DEF Refuses, Reply

\* The hold keeps its shape, and is paid if it was.
StaysAHold(h) == IsHoldRecord(h) /\ h.paid = hold.paid

LEMMA HoldEdits ==
  ASSUME IsHoldRecord(hold), NEW x, NEW first
  PROVE  /\ StaysAHold([hold EXCEPT !.taken = x, !.first = first])
         /\ StaysAHold([hold EXCEPT !.voided = x, !.first = first])
<1>1. PICK n : n = [hold EXCEPT !.taken = x, !.first = first]
  OBVIOUS
<1>2. PICK m : m = [hold EXCEPT !.voided = x, !.first = first]
  OBVIOUS
<1>3. IsHoldRecord(n) /\ n.paid = hold.paid
  BY <1>1 DEF IsHoldRecord
<1>4. IsHoldRecord(m) /\ m.paid = hold.paid
  BY <1>2 DEF IsHoldRecord
<1>. QED BY <1>1, <1>2, <1>3, <1>4 DEF StaysAHold

LEMMA CaptureStays ==
  ASSUME IsHoldRecord(hold), NEW amount, NEW key
  PROVE  StaysAHold(AnswersCapture(amount, key).hold)
<1> DEFINE new == [hold EXCEPT !.taken = hold.taken + amount, !.first = Remembers("CAPTURE", key, amount)]
<1>1. StaysAHold(hold)
  BY DEF StaysAHold
<1>2. StaysAHold(new)
  BY HoldEdits
<1>3. [hold EXCEPT !.taken = @ + amount, !.first = Remembers("CAPTURE", key, amount)] = new
  OBVIOUS
<1> HIDE DEF new
<1>4. AnswersCapture(amount, key).hold \in {hold, new}
  BY <1>3, ReplyFields, RefusesFields DEF AnswersCapture
<1>. QED BY <1>1, <1>2, <1>4

LEMMA VoidStays ==
  ASSUME IsHoldRecord(hold), NEW key
  PROVE  StaysAHold(AnswersVoid(key).hold)
<1> DEFINE new == [hold EXCEPT !.voided = TRUE, !.first = Remembers("VOID", key, 0)]
<1>1. StaysAHold(hold)
  BY DEF StaysAHold
<1>2. StaysAHold(new)
  BY HoldEdits
<1> HIDE DEF new
<1>3. AnswersVoid(key).hold \in {hold, new}
  BY ReplyFields, RefusesFields DEF AnswersVoid, new
<1>. QED BY <1>1, <1>2, <1>3

LEMMA HoldStays ==
  ASSUME IsHoldRecord(hold), NEW f, f.op \in AskOps
  PROVE  StaysAHold(AnswerTo(f).hold)
<1>1. ASSUME NEW row
      PROVE  RefusesIf(row).hold = hold
  BY ReplyFields, RefusesFields DEF RefusesIf
<1>2. StaysAHold(hold)
  BY DEF StaysAHold
<1>. QED BY <1>1, <1>2, CaptureStays, VoidStays DEF AnswerTo, AskOps

\* What a key repeats.
CaptureUnder(key) == IF "idempotent_capture_replay" \in permits THEN FirstUnder("CAPTURE", key) ELSE {}
VoidUnder(key) == IF "idempotent_void_replay" \in permits THEN FirstUnder("VOID", key) ELSE {}

IsRepeated(amount, key) ==
  \E f \in CaptureUnder(key) : f.amount = amount \/ "idempotency_key_reuse_refused" \notin permits

\* A capture of a hold: what is answered, and what is left.
LEMMA CaptureAnswers ==
  ASSUME IsHoldRecord(hold), NEW amount, NEW key
  PROVE  LET a == AnswersCapture(amount, key)
             repeated == IsRepeated(amount, key)
             taken == CaptureUnder(key) = {} /\ CanCapture(amount)
         IN  /\ a.status \in {200, 400}
             /\ a.status = 200 <=> repeated \/ taken
             /\ a.status = 200 /\ ~repeated =>
                  /\ a.body = {<<"captured_amount", hold.taken + amount>>}
                  /\ a.hold.voided = hold.voided /\ a.hold.taken = hold.taken + amount
                  /\ a.hold.first = hold.first \cup {[action |-> "CAPTURE", key |-> key, amount |-> amount]}
<1> DEFINE first == CaptureUnder(key)
           repeated == IsRepeated(amount, key)
           taken == first = {} /\ CanCapture(amount)
           a == AnswersCapture(amount, key)
           new == [hold EXCEPT !.taken = @ + amount, !.first = Remembers("CAPTURE", key, amount)]
           b1 == {<<"captured_amount", f.amount>> : f \in first}
           b2 == {<<"captured_amount", hold.taken + amount>>}
<1>1. ~(repeated /\ taken)
  BY DEF IsRepeated
<1>2. /\ new.voided = hold.voided /\ new.taken = hold.taken + amount
      /\ new.first = hold.first \cup {[action |-> "CAPTURE", key |-> key, amount |-> amount]}
  BY DEF IsHoldRecord, Remembers
<1>3. a = CASE repeated -> Reply(200, b1, hold) [] taken -> Reply(200, b2, new) [] OTHER -> Refuses
  BY Zenon DEF AnswersCapture, IsRepeated, CaptureUnder
<1> HIDE DEF repeated, taken, first, a, new, b1, b2
<1>4. CASE repeated
  <2>1. a = Reply(200, b1, hold)
    BY <1>1, <1>3, <1>4
  <2>2. a.status = 200
    BY <2>1, ReplyFields
  <2>. QED BY <1>4, <2>2 DEF a, repeated, taken, first
<1>5. CASE taken
  <2>1. a = Reply(200, b2, new)
    BY <1>1, <1>3, <1>5
  <2>2. a.status = 200 /\ a.body = b2 /\ a.hold = new
    BY <2>1, ReplyFields
  <2>3. a.hold.voided = hold.voided /\ a.hold.taken = hold.taken + amount
        /\ a.hold.first = hold.first \cup {[action |-> "CAPTURE", key |-> key, amount |-> amount]}
    BY <1>2, <2>2, Zenon
  <2>. QED BY <1>5, <2>2, <2>3, Zenon DEF a, b2, repeated, taken, first
<1>6. CASE ~repeated /\ ~taken
  <2>1. a = Refuses
    BY <1>3, <1>6
  <2>2. a.status = 400
    BY <2>1, RefusesFields
  <2>. QED BY <1>6, <2>2 DEF a, repeated, taken, first
<1>. QED BY <1>4, <1>5, <1>6

LEMMA VoidAnswers ==
  ASSUME IsHoldRecord(hold), NEW key
  PROVE  LET a == AnswersVoid(key)
             first == VoidUnder(key)
         IN  /\ a.status \in {200, 400}
             /\ a.status = 200 <=> first # {} \/ CanVoid
             /\ a.status = 200 /\ first = {} =>
                  /\ a.hold.voided /\ a.hold.taken = hold.taken
                  /\ a.hold.first = hold.first \cup {[action |-> "VOID", key |-> key, amount |-> 0]}
<1> DEFINE first == VoidUnder(key)
           a == AnswersVoid(key)
           new == [hold EXCEPT !.voided = TRUE, !.first = Remembers("VOID", key, 0)]
           body == {<<"action", "VOID">>}
<1>1. /\ new.voided /\ new.taken = hold.taken
      /\ new.first = hold.first \cup {[action |-> "VOID", key |-> key, amount |-> 0]}
  BY DEF IsHoldRecord, Remembers
<1>2. a = CASE first # {} -> Reply(200, body, hold)
            [] first = {} /\ CanVoid -> Reply(200, body, new)
            [] OTHER -> Refuses
  BY Zenon DEF AnswersVoid, VoidUnder
<1> HIDE DEF a, new, body, first
<1>3. CASE first # {}
  <2>1. a = Reply(200, body, hold)
    BY <1>2, <1>3
  <2>2. a.status = 200
    BY <2>1, ReplyFields
  <2>. QED BY <1>3, <2>2 DEF a, first
<1>4. CASE first = {} /\ CanVoid
  <2>1. a = Reply(200, body, new)
    BY <1>2, <1>4
  <2>2. a.status = 200 /\ a.hold = new
    BY <2>1, ReplyFields
  <2>3. a.hold.voided /\ a.hold.taken = hold.taken
        /\ a.hold.first = hold.first \cup {[action |-> "VOID", key |-> key, amount |-> 0]}
    BY <1>1, <2>2, Zenon
  <2>. QED BY <1>4, <2>2, <2>3, Zenon DEF a, first
<1>5. CASE first = {} /\ ~CanVoid
  <2>1. a = Refuses
    BY <1>2, <1>5
  <2>2. a.status = 400
    BY <2>1, RefusesFields
  <2>. QED BY <1>5, <2>2 DEF a, first
<1>. QED BY <1>3, <1>4, <1>5

LEMMA RefusesIfAnswers ==
  ASSUME NEW row
  PROVE  RefusesIf(row).status = IF row \in permits THEN 400 ELSE 200
BY ReplyFields, RefusesFields DEF RefusesIf

\* Nobody has asked anything of a fresh hold.
LEMMA FirstIsTold ==
  ASSUME IsHoldRecord(hold), IsFresh(hold), NEW f, f.op \in AskOps,
         f.op = "capture" => f.amount \in Nat /\ f.amount > 0
  PROVE  LET a == AnswerTo(f)
         IN  /\ a.status \in {200, 400}
             /\ a.status = 200 => Allows(permits, f)
             /\ a.status = 400 /\ hold.paid => ~Allows(permits, f)
             /\ a.status = 200 /\ f.op \in HoldOps => TookFirst(a.hold, f)
<1>1. \A action, key : FirstUnder(action, key) = {}
  BY DEF FirstUnder, IsFresh
<1>2. CASE f.op = "capture"
  <2> DEFINE a == AnswersCapture(f.amount, f.idempotency_key)
             first == CaptureUnder(f.idempotency_key)
  <2>1. first = {}
    BY <1>1 DEF CaptureUnder, VoidUnder
  <2>2. /\ a.status \in {200, 400}
        /\ a.status = 200 <=> CanCapture(f.amount)
        /\ a.status = 200 =>
             /\ a.hold.voided = hold.voided /\ a.hold.taken = hold.taken + f.amount
             /\ a.hold.first = hold.first \cup
                  {[action |-> "CAPTURE", key |-> f.idempotency_key, amount |-> f.amount]}
    <3>. QED BY <2>1, CaptureAnswers DEF IsRepeated
  <2>3. AnswerTo(f) = a
    BY <1>2 DEF AnswerTo
  <2> HIDE DEF a, first
  <2>4. CanCapture(f.amount) <=> hold.paid /\ Allows(permits, f)
    BY <1>2, Amounts DEF CanCapture, Allows, IsFresh
  <2>5. a.status = 200 => TookFirst(a.hold, f)
    BY <1>2, <2>2 DEF TookFirst, IsFresh, TakenBy
  <2>. QED BY <2>2, <2>3, <2>4, <2>5
<1>3. CASE f.op = "void"
  <2> DEFINE a == AnswersVoid(f.idempotency_key)
             first == VoidUnder(f.idempotency_key)
  <2>1. first = {}
    BY <1>1 DEF CaptureUnder, VoidUnder
  <2>2. /\ a.status \in {200, 400}
        /\ a.status = 200 <=> CanVoid
        /\ a.status = 200 =>
             /\ a.hold.voided /\ a.hold.taken = hold.taken
             /\ a.hold.first = hold.first \cup
                  {[action |-> "VOID", key |-> f.idempotency_key, amount |-> 0]}
    <3>. QED BY <2>1, VoidAnswers
  <2>3. AnswerTo(f) = a
    BY <1>3 DEF AnswerTo
  <2> HIDE DEF a, first
  <2>4. CanVoid <=> hold.paid /\ Allows(permits, f)
    BY <1>3 DEF CanVoid, Allows, IsFresh
  <2>5. a.status = 200 => TookFirst(a.hold, f)
    BY <1>3, <2>2 DEF TookFirst, IsFresh, TakenBy
  <2>. QED BY <2>2, <2>3, <2>4, <2>5
<1>4. CASE f.op = "recreate_order"
  <2>1. AnswerTo(f) = RefusesIf("duplicate_order_refused")
    BY <1>4 DEF AnswerTo
  <2>2. Allows(permits, f) <=> "duplicate_order_refused" \notin permits
    BY <1>4 DEF Allows
  <2>. QED BY <1>4, <2>1, <2>2, RefusesIfAnswers DEF HoldOps
<1>5. CASE f.op = "pay_again"
  <2>1. AnswerTo(f) = RefusesIf("payment_replay_refused")
    BY <1>5 DEF AnswerTo
  <2>2. Allows(permits, f) <=> "payment_replay_refused" \notin permits
    BY <1>5 DEF Allows
  <2>. QED BY <1>5, <2>1, <2>2, RefusesIfAnswers DEF HoldOps
<1>. QED BY <1>2, <1>3, <1>4, <1>5 DEF AskOps

\* The sandbox remembers one request, if any.
LEMMA RemembersFirst ==
  ASSUME NEW f, f.op \in HoldOps, TookFirst(hold, f), NEW action, NEW key
  PROVE  FirstUnder(action, key) =
           IF /\ key # "" /\ key = f.idempotency_key
              /\ action = IF f.op = "void" THEN "VOID" ELSE "CAPTURE"
             THEN hold.first ELSE {}
<1>1. PICK r : /\ r = [action |-> IF f.op = "void" THEN "VOID" ELSE "CAPTURE",
                       key |-> f.idempotency_key, amount |-> TakenBy(f)]
               /\ hold.first = {r}
  BY DEF TookFirst
<1>2. r.action = (IF f.op = "void" THEN "VOID" ELSE "CAPTURE") /\ r.key = f.idempotency_key
  BY <1>1
<1>3. CASE key # "" /\ r.action = action /\ r.key = key
  BY <1>1, <1>2, <1>3 DEF FirstUnder
<1>4. CASE ~(key # "" /\ r.action = action /\ r.key = key)
  BY <1>1, <1>2, <1>4 DEF FirstUnder
<1>. QED BY <1>3, <1>4

LEMMA SecondIsTold ==
  ASSUME IsHoldRecord(hold), hold.paid, NEW f, f.op \in HoldOps, TookFirst(hold, f),
         f.op = "capture" => f.amount \in Nat /\ f.amount > 0,
         NEW g, g.op \in HoldOps, g.op = "capture" => g.amount \in Nat /\ g.amount > 0
  PROVE  LET a == AnswerTo(g)
         IN  /\ a.status \in {200, 400}
             /\ a.status = 200 <=> AllowsAfter(permits, f, g)
             /\ a.status = 200 /\ g.op = "capture" /\ ~Repeats(permits, f, g) =>
                  a.body = {<<"captured_amount", TakenBy(f) + g.amount>>}
<1>1. TakenBy(f) \in Nat /\ hold.taken = TakenBy(f) /\ (f.op = "capture" => TakenBy(f) > 0)
      /\ (f.op = "void" => TakenBy(f) = 0) /\ (hold.voided <=> f.op = "void")
  BY DEF TakenBy, TookFirst, HoldOps
<1>2. hold.first # {} /\ \A r \in hold.first : r.amount = TakenBy(f)
  BY DEF TookFirst
<1>3. CASE g.op = "capture"
  <2> DEFINE a == AnswersCapture(g.amount, g.idempotency_key)
             first == CaptureUnder(g.idempotency_key)
             repeated == IsRepeated(g.amount, g.idempotency_key)
  <2>1. first = IF Repeats(permits, f, g) THEN hold.first ELSE {}
    <3>1. PICK u : u = FirstUnder("CAPTURE", g.idempotency_key)
      OBVIOUS
    <3>2. u = IF /\ g.idempotency_key # "" /\ g.idempotency_key = f.idempotency_key
                 /\ f.op = "capture"
                THEN hold.first ELSE {}
      <4>1. (f.op = "capture") <=> ~(f.op = "void")
        BY DEF HoldOps
      <4>2. "CAPTURE" # "VOID"
        OBVIOUS
      <4>. QED BY <3>1, <4>1, <4>2, RemembersFirst
    <3>. QED BY <1>3, <3>1, <3>2 DEF Repeats, CaptureUnder
  <2>2. /\ a.status \in {200, 400}
        /\ a.status = 200 <=> repeated \/ (first = {} /\ CanCapture(g.amount))
        /\ a.status = 200 /\ ~repeated => a.body = {<<"captured_amount", hold.taken + g.amount>>}
    <3>. QED BY CaptureAnswers
  <2>3. AnswerTo(g) = a
    BY <1>3 DEF AnswerTo
  <2>4. CASE Repeats(permits, f, g)
    <3>1. f.op = "capture" /\ TakenBy(f) = f.amount
      BY <1>3, <2>4 DEF Repeats, TakenBy
    <3>2. repeated <=> g.amount = f.amount \/ "idempotency_key_reuse_refused" \notin permits
      <4>. QED BY <1>2, <2>1, <2>4, <3>1 DEF IsRepeated
    <3>3. first # {}
      BY <1>2, <2>1, <2>4
    <3> HIDE DEF a, first, repeated
    <3>. QED BY <1>3, <2>2, <2>3, <2>4, <3>2, <3>3 DEF AllowsAfter
  <2>5. CASE ~Repeats(permits, f, g)
    <3>1. ~repeated /\ first = {}
      <4>. QED BY <2>1, <2>5 DEF IsRepeated
    <3>2. CanCapture(g.amount) <=> CapturesAfter(permits, f, g)
      BY <1>1 DEF CanCapture, CapturesAfter, HoldOps
    <3> HIDE DEF a, first, repeated
    <3>. QED BY <1>1, <1>3, <2>2, <2>3, <2>5, <3>1, <3>2 DEF AllowsAfter
  <2>. QED BY <2>4, <2>5
<1>4. CASE g.op = "void"
  <2> DEFINE a == AnswersVoid(g.idempotency_key)
             first == VoidUnder(g.idempotency_key)
  <2>1. first = IF Repeats(permits, f, g) THEN hold.first ELSE {}
    <3>1. PICK u : u = FirstUnder("VOID", g.idempotency_key)
      OBVIOUS
    <3>2. u = IF /\ g.idempotency_key # "" /\ g.idempotency_key = f.idempotency_key
                 /\ f.op = "void"
                THEN hold.first ELSE {}
      BY <3>1, RemembersFirst
    <3>. QED BY <1>4, <3>1, <3>2 DEF Repeats, VoidUnder
  <2>2. a.status \in {200, 400} /\ (a.status = 200 <=> first # {} \/ CanVoid)
    <3>. QED BY VoidAnswers
  <2>3. AnswerTo(g) = a
    BY <1>4 DEF AnswerTo
  <2>4. first # {} <=> Repeats(permits, f, g)
    BY <1>2, <2>1
  <2>5. CanVoid <=> f.op = "capture" /\ "void_after_partial_capture" \in permits
    BY <1>1 DEF CanVoid, HoldOps
  <2> HIDE DEF a, first
  <2>6. AllowsAfter(permits, f, g) <=>
          Repeats(permits, f, g) \/ (f.op = "capture" /\ "void_after_partial_capture" \in permits)
    BY <1>4 DEF AllowsAfter
  <2>. QED BY <1>4, <2>2, <2>3, <2>4, <2>5, <2>6
<1>. QED BY <1>3, <1>4 DEF HoldOps

(***************************************************************************)
(* The steps of a run.                                                     *)
(***************************************************************************)
LEMMA StatusClasses ==
  /\ status_class(200) = "2xx" /\ status_class(400) = "4xx"
  /\ \A status \in NoAnswer : status_class(status) = "inconclusive"
<1>1. status_class(200) = "2xx" /\ status_class(400) = "4xx"
  BY DEF status_class
<1>2. /\ status_class(0) = "inconclusive" /\ status_class(401) = "inconclusive"
      /\ status_class(408) = "inconclusive" /\ status_class(500) = "inconclusive"
  BY DEF status_class
<1>. QED BY <1>1, <1>2 DEF NoAnswer, NoStatus

LEMMA PerformedIs ==
  ASSUME IsRunRecord(run), NEW exchanges, NEW ok, Performed(exchanges, ok)
  PROVE  /\ IsRunRecord(run)' /\ run'.probe = run.probe /\ run'.next = run.next + 1
         /\ run'.ok = IF ok THEN run.ok \cup {step.name} ELSE run.ok
         /\ DOMAIN run'.by_step = DOMAIN run.by_step \cup {step.name}
         /\ run'.by_step[step.name] = exchanges
         /\ \A s \in DOMAIN run.by_step : s # step.name => run'.by_step[s] = run.by_step[s]
<1>1. PICK name : name = step.name
  OBVIOUS
<1>2. PICK okay : okay = IF ok THEN run.ok \cup {name} ELSE run.ok
  OBVIOUS
<1>3. PICK b : b = [s \in DOMAIN run.by_step \cup {name} |-> IF s = name THEN exchanges ELSE run.by_step[s]]
  OBVIOUS
<1>4. run' = [run EXCEPT !.next = run.next + 1, !.ok = okay, !.by_step = b]
  BY <1>1, <1>2, <1>3 DEF Performed, IsRunRecord
<1>5. /\ IsRunRecord(run') /\ run'.probe = run.probe /\ run'.next = run.next + 1
      /\ run'.ok = okay /\ run'.by_step = b
  BY <1>4 DEF IsRunRecord
<1>. QED BY <1>1, <1>2, <1>3, <1>5 DEF IsRunRecord

\* The same was answered to a step.
SameAt(b, c, s) == (s \in DOMAIN c <=> s \in DOMAIN b) /\ (s \in DOMAIN b => c[s] = b[s])

LEMMA SameAnswers ==
  ASSUME NEW b, NEW c, NEW s, SameAt(b, c, s)
  PROVE  /\ \A class : AnsweredAs(c, s, class) <=> AnsweredAs(b, s, class)
         /\ s \in DOMAIN b => LastBody(c, s) = LastBody(b, s)
BY DEF SameAt, AnsweredAs, LastBody

LEMMA OneAnswer ==
  ASSUME NEW b, NEW s, NEW e, s \in DOMAIN b, b[s] = <<e>>
  PROVE  /\ \A class : AnsweredAs(b, s, class) <=> status_class(e.status) = class
         /\ LastBody(b, s) = e.body
BY DEF AnsweredAs, LastBody

\* What a step has to do to keep the invariant; the rest it leaves alone.
LEMMA StepKeeps ==
  ASSUME ProbeInv, IsRunning, NEW steps, steps = PROBES[run.probe].steps,
         NEW n, n = run.next, n <= Len(steps),
         permits' = permits, late => late',
         IsRunRecord(run)', IsHoldRecord(hold)', run'.probe = run.probe, run'.next = n + 1,
         \A s : s # steps[n].name => SameAt(run.by_step, run'.by_step, s),
         "hold" \in run'.ok /\ ~late' => hold'.paid,
         n = 1 => IsFresh(hold'),
         n = 2 /\ ~late' => FirstSound(permits, run'.by_step, steps[2]),
         n = 2 /\ steps[2].op \in HoldOps /\ AnsweredAs(run'.by_step, steps[2].name, "2xx") =>
           TookFirst(hold', steps[2]),
         n = 3 /\ ~late' => SecondSound(permits, run'.by_step, steps[2], steps[3]),
         n = 1 => PaymentsSound(permits, run'.by_step),
         steps[n].op = "capture_parallel" => RaceSound(permits, race', run'.by_step),
         steps[n].op # "capture_parallel" => race' = race
  PROVE  ProbeInv'
<1>1. run.probe \in DOMAIN PROBES /\ run.probe # "none" /\ InRun(steps)
  BY DEF ProbeInv, IsRunning
<1>2. WellMade(steps)
  BY <1>1, ProbesAreTrue
<1>3. Len(steps) \in Nat /\ Len(steps) >= 2 /\ n \in Nat /\ n >= 1 /\ n \in 1 .. Len(steps)
  BY <1>1, <1>2 DEF WellMade, InRun
<1>4. PICK b, c : b = run.by_step /\ c = run'.by_step
  OBVIOUS
<1>5. \A i \in 1 .. Len(steps) : i # n => SameAt(b, c, steps[i].name)
  BY <1>2, <1>3, <1>4 DEF WellMade
<1>6. steps[1].name = "hold" /\ steps[1].op = "hold"
  BY <1>2 DEF WellMade
<1>7. \A i \in 2 .. Len(steps) : /\ steps[i].name # "hold"
                                 /\ steps[i].op = "capture_parallel" <=> steps[i].name = "race"
  BY <1>2 DEF WellMade
<1>8. run'.next \in 1 .. Len(steps) + 1
  BY <1>3
<1>9. \A i \in run'.next .. Len(steps) : steps[i].name \notin DOMAIN c
  <2>1. ASSUME NEW i \in run'.next .. Len(steps)
        PROVE  steps[i].name \notin DOMAIN c
    <3>1. i \in 1 .. Len(steps) /\ i # n /\ i \in run.next .. Len(steps)
      BY <1>3
    <3>2. steps[i].name \notin DOMAIN b
      BY <1>1, <1>4, <3>1 DEF InRun
    <3>. QED BY <1>5, <3>1, <3>2 DEF SameAt
  <2>. QED BY <2>1
<1>10. run'.next <= 2 => IsFresh(hold')
  BY <1>3
<1>11. run'.next > 2 /\ ~late' => FirstSound(permits, c, steps[2])
  <2>1. SUFFICES ASSUME n > 2, ~late' PROVE FirstSound(permits, c, steps[2])
    BY <1>3, <1>4
  <2>2. FirstSound(permits, b, steps[2])
    BY <1>1, <1>4, <2>1 DEF InRun
  <2>3. SameAt(b, c, steps[2].name)
    BY <1>3, <1>5, <2>1
  <2>. QED BY <2>2, <2>3, SameAnswers DEF FirstSound
<1>12. run'.next = 3 /\ steps[2].op \in HoldOps /\ AnsweredAs(c, steps[2].name, "2xx") =>
         TookFirst(hold', steps[2])
  BY <1>3, <1>4
<1>13. run'.next > 3 /\ ~late' => SecondSound(permits, c, steps[2], steps[3])
  <2>1. SUFFICES ASSUME n > 3, ~late' PROVE SecondSound(permits, c, steps[2], steps[3])
    BY <1>3, <1>4
  <2>2. SecondSound(permits, b, steps[2], steps[3])
    BY <1>1, <1>4, <2>1 DEF InRun
  <2>3. SameAt(b, c, steps[2].name) /\ SameAt(b, c, steps[3].name)
    BY <1>3, <1>5, <2>1
  <2>4. AnsweredAs(b, steps[3].name, "2xx") => steps[3].name \in DOMAIN b
    BY DEF AnsweredAs
  <2>5. PICK f, g : f = steps[2] /\ g = steps[3]
    OBVIOUS
  <2>6. /\ AnsweredAs(c, f.name, "2xx") <=> AnsweredAs(b, f.name, "2xx")
        /\ AnsweredAs(c, g.name, "2xx") <=> AnsweredAs(b, g.name, "2xx")
        /\ AnsweredAs(c, g.name, "4xx") <=> AnsweredAs(b, g.name, "4xx")
        /\ AnsweredAs(b, g.name, "2xx") => LastBody(c, g.name) = LastBody(b, g.name)
    BY <2>3, <2>4, <2>5, SameAnswers
  <2>7. SecondSound(permits, b, f, g)
    BY <2>2, <2>5
  <2>8. SecondSound(permits, c, f, g)
    BY <2>6, <2>7 DEF SecondSound
  <2>. QED BY <2>5, <2>8
<1>14. PaymentsSound(permits, c)
  <2>1. CASE n = 1
    BY <1>4, <2>1
  <2>2. CASE n # 1
    <3>1. SameAt(b, c, "hold")
      BY <1>3, <1>4, <1>7, <2>2
    <3>. QED BY <1>1, <1>4, <3>1 DEF InRun, PaymentsSound, SameAt
  <2>. QED BY <2>1, <2>2
<1>15. RaceSound(permits, race', c)
  <2>1. CASE steps[n].op = "capture_parallel"
    BY <1>4, <2>1
  <2>2. CASE steps[n].op # "capture_parallel"
    <3>1. steps[n].name # "race"
      BY <1>3, <1>6, <1>7, <2>2
    <3>2. SameAt(b, c, "race")
      BY <1>4, <3>1
    <3>. QED BY <1>1, <1>4, <2>2, <3>2 DEF InRun, RaceSound, SameAt
  <2>. QED BY <2>1, <2>2
<1>16. InRun(steps)'
  <2>1. steps' = steps
    OBVIOUS
  <2>. QED BY <1>4, <1>8, <1>9, <1>10, <1>11, <1>12, <1>13, <1>14, <1>15 DEF InRun
<1>. QED BY <1>1, <1>16 DEF ProbeInv, Consistent, IsRunRecord, IsHoldRecord

LEMMA SkipsKeeps == ProbeInv /\ Skips => ProbeInv'
<1> SUFFICES ASSUME ProbeInv, Skips PROVE ProbeInv'
  OBVIOUS
<1>1. PICK steps, n : steps = PROBES[run.probe].steps /\ n = run.next
  OBVIOUS
<1>2. IsRunning /\ n <= Len(steps) /\ UNCHANGED <<permits, hold, late, race>>
  BY <1>1 DEF Skips, probe
<1>3. IsRunRecord(run)' /\ run'.probe = run.probe /\ run'.next = n + 1
      /\ run'.by_step = run.by_step /\ run'.ok = run.ok
  BY <1>1 DEF Skips, ProbeInv, IsRunRecord
<1>4. InRun(steps) /\ run.probe \in DOMAIN PROBES
  BY <1>1, <1>2 DEF ProbeInv, IsRunning
<1>5. WellMade(steps)
  BY <1>1, <1>4, ProbesAreTrue
<1>6. n \in Nat /\ n >= 1 /\ Len(steps) \in Nat
  BY <1>1, <1>4, <1>5 DEF InRun, WellMade
<1>7. \A s, class : s \notin DOMAIN run.by_step => ~AnsweredAs(run.by_step, s, class)
  BY DEF AnsweredAs
<1>8. steps[n].name \notin DOMAIN run.by_step
  BY <1>1, <1>2, <1>4, <1>6 DEF InRun
<1>9. n = 1 => IsFresh(hold')
  BY <1>1, <1>2, <1>4 DEF InRun
<1>10. n = 2 => /\ FirstSound(permits, run'.by_step, steps[2])
                /\ ~AnsweredAs(run'.by_step, steps[2].name, "2xx")
  BY <1>3, <1>7, <1>8 DEF FirstSound
<1>11. n = 3 => SecondSound(permits, run'.by_step, steps[2], steps[3])
  BY <1>3, <1>7, <1>8 DEF SecondSound
<1>12. PaymentsSound(permits, run'.by_step) /\ RaceSound(permits, race', run'.by_step)
  BY <1>2, <1>3, <1>4 DEF InRun
<1>13. \A s : SameAt(run.by_step, run'.by_step, s)
  BY <1>3 DEF SameAt
<1>14. "hold" \in run'.ok /\ ~late' => hold'.paid
  BY <1>2, <1>3, <1>4 DEF InRun
<1>15. IsHoldRecord(hold)'
  BY <1>2 DEF ProbeInv, IsHoldRecord
<1>. QED BY <1>1, <1>2, <1>3, <1>9, <1>10, <1>11, <1>12, <1>13, <1>14, <1>15, StepKeeps

\* The places of a step in the run, and that its hold was paid.
LEMMA AtLaterStep ==
  ASSUME ProbeInv, IsRunning, NEW steps, steps = PROBES[run.probe].steps,
         NEW n, n = run.next, n <= Len(steps)
  PROVE  /\ InRun(steps) /\ WellMade(steps) /\ n \in 1 .. Len(steps) /\ Len(steps) \in Nat /\ n \in Nat
         /\ step = steps[n] /\ probe.steps = steps
         /\ n = 1 <=> step.op = "hold"
         /\ n = 1 <=> step.name = "hold"
         /\ n # 1 /\ ~IsBlocked => "hold" \in run.ok
         /\ n # 1 /\ ~IsBlocked /\ ~late => hold.paid
<1>1. run.probe \in DOMAIN PROBES /\ run.probe # "none" /\ InRun(steps)
  BY DEF ProbeInv, IsRunning
<1>2. WellMade(steps)
  BY <1>1, ProbesAreTrue
<1>3. Len(steps) \in Nat /\ n \in Nat /\ n >= 1 /\ n \in 1 .. Len(steps)
  BY <1>1, <1>2 DEF WellMade, InRun
<1>4. step = steps[n] /\ probe.steps = steps
  BY DEF step, probe
<1>5. /\ n = 1 <=> step.op = "hold"
      /\ n = 1 <=> step.name = "hold"
      /\ n # 1 => step.needs = {"hold"}
  BY <1>2, <1>3, <1>4 DEF WellMade
<1>6. n # 1 /\ ~IsBlocked => "hold" \in run.ok
  BY <1>5 DEF IsBlocked
<1>. QED BY <1>1, <1>2, <1>3, <1>4, <1>5, <1>6 DEF InRun

LEMMA PerformsAtOne ==
  ASSUME ProbeInv, NEW exchanges, NEW ok, Performed(exchanges, ok)
  PROVE  /\ IsRunRecord(run)' /\ run'.probe = run.probe /\ run'.next = run.next + 1
         /\ step.name \in DOMAIN run'.by_step /\ run'.by_step[step.name] = exchanges
         /\ \A s : s # step.name => SameAt(run.by_step, run'.by_step, s)
         /\ run'.ok \subseteq run.ok \cup {step.name}
         /\ ~ok => run'.ok = run.ok
<1>1. IsRunRecord(run)
  BY DEF ProbeInv
<1>. QED BY <1>1, PerformedIs DEF SameAt

LEMMA AsksKeeps == ProbeInv /\ Asks => ProbeInv'
<1> SUFFICES ASSUME ProbeInv, Asks PROVE ProbeInv'
  OBVIOUS
<1>1. PICK steps, n : steps = PROBES[run.probe].steps /\ n = run.next
  OBVIOUS
<1>2. /\ IsRunning /\ n <= Len(steps) /\ step.op \in AskOps /\ ~IsBlocked
      /\ UNCHANGED <<permits, late, race>>
  BY <1>1 DEF Asks, AtStep, probe, AskOps
<1>3. /\ InRun(steps) /\ WellMade(steps) /\ n \in 1 .. Len(steps) /\ Len(steps) \in Nat /\ n \in Nat
      /\ step = steps[n] /\ n # 1 /\ step.name # "hold" /\ "hold" \in run.ok /\ (~late => hold.paid)
  <2>1. step.op # "hold"
    BY <1>2 DEF AskOps
  <2>. QED BY <1>1, <1>2, <2>1, AtLaterStep
<1>4. \A i \in 2 .. Len(steps) : steps[i].op = "capture" => steps[i].amount \in Nat /\ steps[i].amount > 0
  BY <1>3 DEF WellMade
<1>5. IsHoldRecord(hold) /\ StaysAHold(AnswerTo(step).hold)
  BY <1>2, HoldStays DEF ProbeInv
<1>6. step.op # "capture_parallel"
  BY <1>2 DEF AskOps
<1>7. ASSUME NEW e, Performed(<<e>>, TRUE), StaysAHold(hold'),
             n = 2 /\ ~late => /\ status_class(e.status) = "2xx" => Allows(permits, step)
                               /\ status_class(e.status) = "4xx" => ~Allows(permits, step),
             n = 2 /\ step.op \in HoldOps /\ status_class(e.status) = "2xx" => TookFirst(hold', step),
             n = 3 /\ ~late /\ steps[2].op \in HoldOps /\ step.op \in HoldOps /\ TookFirst(hold, steps[2]) =>
               /\ status_class(e.status) = "2xx" => AllowsAfter(permits, steps[2], step)
               /\ status_class(e.status) = "4xx" => ~AllowsAfter(permits, steps[2], step)
               /\ status_class(e.status) = "2xx" /\ step.op = "capture" /\ ~Repeats(permits, steps[2], step) =>
                    e.body = {<<"captured_amount", TakenBy(steps[2]) + step.amount>>}
      PROVE  ProbeInv'
  <2>1. /\ IsRunRecord(run)' /\ run'.probe = run.probe /\ run'.next = n + 1
        /\ step.name \in DOMAIN run'.by_step /\ run'.by_step[step.name] = <<e>>
        /\ \A s : s # step.name => SameAt(run.by_step, run'.by_step, s)
        /\ run'.ok \subseteq run.ok \cup {step.name}
    BY <1>1, <1>7, PerformsAtOne
  <2>2. PICK b, c : b = run.by_step /\ c = run'.by_step
    OBVIOUS
  <2>3. /\ \A class : AnsweredAs(c, step.name, class) <=> status_class(e.status) = class
        /\ LastBody(c, step.name) = e.body
    <3>1. PICK name : name = step.name
      OBVIOUS
    <3>2. name \in DOMAIN c /\ c[name] = <<e>>
      BY <2>1, <2>2, <3>1
    <3>. QED BY <3>1, <3>2, OneAnswer
  <2>4. n = 2 /\ ~late' => FirstSound(permits, c, steps[2])
    BY <1>2, <1>3, <1>7, <2>3 DEF FirstSound
  <2>5. n = 2 /\ steps[2].op \in HoldOps /\ AnsweredAs(c, steps[2].name, "2xx") => TookFirst(hold', steps[2])
    BY <1>3, <1>7, <2>3
  <2>6. n = 3 /\ ~late' => SecondSound(permits, c, steps[2], steps[3])
    <3>1. SUFFICES ASSUME n = 3, ~late, steps[2].op \in HoldOps, step.op \in HoldOps,
                          AnsweredAs(c, steps[2].name, "2xx")
                   PROVE  SecondSound(permits, c, steps[2], steps[3])
      BY <1>2, <1>3 DEF SecondSound
    <3>2. steps[2].name # step.name
      BY <1>3, <3>1 DEF WellMade
    <3>3. AnsweredAs(b, steps[2].name, "2xx")
      BY <2>1, <2>2, <3>1, <3>2, SameAnswers
    <3>4. TookFirst(hold, steps[2])
      BY <1>1, <1>3, <2>2, <3>1, <3>3 DEF InRun
    <3>. QED BY <1>3, <1>7, <2>3, <3>1, <3>4 DEF SecondSound
  <2>7. "hold" \in run'.ok /\ ~late' => hold'.paid
    BY <1>2, <1>3, <1>7 DEF StaysAHold
  <2>8. IsHoldRecord(hold)'
    BY <1>7 DEF StaysAHold, IsHoldRecord
  <2>9. /\ permits' = permits /\ (late => late') /\ race' = race
        /\ \A s : s # steps[n].name => SameAt(run.by_step, run'.by_step, s)
        /\ steps[n].op # "capture_parallel" /\ n # 1
    BY <1>2, <1>3, <1>6, <2>1
  <2>. QED BY <1>1, <1>2, <2>1, <2>2, <2>4, <2>5, <2>6, <2>7, <2>8, <2>9, StepKeeps
<1>8. CASE \E status \in NoAnswer : Performed(<<Exchange(step.op, status, {})>>, TRUE)
                                    /\ hold' \in {hold, AnswerTo(step).hold}
  <2>1. PICK status \in NoAnswer : Performed(<<Exchange(step.op, status, {})>>, TRUE)
                                   /\ hold' \in {hold, AnswerTo(step).hold}
    BY <1>8
  <2>2. PICK e : e = Exchange(step.op, status, {})
    OBVIOUS
  <2>3. e.status = status
    BY <2>2 DEF Exchange
  <2>4. status_class(e.status) # "2xx" /\ status_class(e.status) # "4xx"
    BY <2>1, <2>3, StatusClasses
  <2>5. StaysAHold(hold') /\ Performed(<<e>>, TRUE)
    BY <1>5, <2>1, <2>2 DEF StaysAHold
  <2>. QED BY <1>7, <2>4, <2>5
<1>9. CASE /\ hold' = AnswerTo(step).hold
           /\ Performed(<<Exchange(step.op, AnswerTo(step).status, AnswerTo(step).body)>>, TRUE)
  <2>1. PICK a : a = AnswerTo(step)
    OBVIOUS
  <2>2. PICK e : e = Exchange(step.op, a.status, a.body)
    OBVIOUS
  <2>3. e.status = a.status /\ e.body = a.body
    BY <2>2 DEF Exchange
  <2>4. StaysAHold(hold') /\ Performed(<<e>>, TRUE) /\ hold' = a.hold
    BY <1>5, <1>9, <2>1, <2>2
  <2>5. a.status \in {200, 400} =>
          /\ status_class(a.status) = "2xx" <=> a.status = 200
          /\ status_class(a.status) = "4xx" <=> a.status = 400
    BY StatusClasses
  <2>6. CASE n = 2
    <3>1. /\ a.status \in {200, 400}
          /\ a.status = 200 => Allows(permits, step)
          /\ a.status = 400 /\ hold.paid => ~Allows(permits, step)
          /\ a.status = 200 /\ step.op \in HoldOps => TookFirst(a.hold, step)
      <4>1. IsFresh(hold)
        BY <1>1, <1>3, <2>6 DEF InRun
      <4>2. step.op = "capture" => step.amount \in Nat /\ step.amount > 0
        BY <1>3, <1>4, <2>6
      <4>. QED BY <1>2, <1>5, <2>1, <4>1, <4>2, FirstIsTold
    <3>2. n = 2 /\ ~late => /\ status_class(e.status) = "2xx" => Allows(permits, step)
                            /\ status_class(e.status) = "4xx" => ~Allows(permits, step)
      BY <1>3, <2>3, <2>5, <3>1
    <3>3. n = 2 /\ step.op \in HoldOps /\ status_class(e.status) = "2xx" => TookFirst(hold', step)
      BY <2>3, <2>4, <2>5, <3>1
    <3>4. n # 3
      BY <2>6
    <3>. QED BY <1>7, <2>4, <3>2, <3>3, <3>4, Zenon
  <2>7. CASE n = 3 /\ ~late /\ steps[2].op \in HoldOps /\ step.op \in HoldOps /\ TookFirst(hold, steps[2])
    <3>1. PICK f : f = steps[2]
      OBVIOUS
    <3>2. /\ a.status \in {200, 400}
          /\ a.status = 200 <=> AllowsAfter(permits, f, step)
          /\ a.status = 200 /\ step.op = "capture" /\ ~Repeats(permits, f, step) =>
               a.body = {<<"captured_amount", TakenBy(f) + step.amount>>}
      <4>1. step.op = "capture" => step.amount \in Nat /\ step.amount > 0
        BY <1>3, <1>4, <2>7
      <4>2. f.op = "capture" => f.amount \in Nat /\ f.amount > 0
        BY <1>3, <1>4, <2>7, <3>1
      <4>3. f.op \in HoldOps /\ TookFirst(hold, f) /\ hold.paid
        BY <1>3, <2>7, <3>1
      <4>. QED BY <1>5, <2>1, <2>7, <4>1, <4>2, <4>3, SecondIsTold
    <3>3. /\ status_class(e.status) = "2xx" => AllowsAfter(permits, f, step)
          /\ status_class(e.status) = "4xx" => ~AllowsAfter(permits, f, step)
          /\ status_class(e.status) = "2xx" /\ step.op = "capture" /\ ~Repeats(permits, f, step) =>
               e.body = {<<"captured_amount", TakenBy(f) + step.amount>>}
      BY <2>3, <2>5, <3>2
    <3>4. n # 2
      BY <2>7
    <3>. QED BY <1>7, <2>4, <3>1, <3>3, <3>4, Zenon
  <2>8. CASE n # 2 /\ ~(n = 3 /\ ~late /\ steps[2].op \in HoldOps /\ step.op \in HoldOps
                          /\ TookFirst(hold, steps[2]))
    BY <1>7, <2>4, <2>8
  <2>. QED BY <2>6, <2>7, <2>8
<1>. QED BY <1>8, <1>9 DEF Asks

\* One or two exchanges after others.
LEMMA OneMore ==
  ASSUME NEW S, NEW s \in Seq(S), NEW e
  PROVE  \A i \in DOMAIN (s \o <<e>>) : \/ i \in DOMAIN s /\ (s \o <<e>>)[i] = s[i]
                                        \/ (s \o <<e>>)[i] = e
<1> DEFINE t == s \o <<e>>
<1>1. /\ DOMAIN t = 1 .. Len(s) + 1 /\ Len(s) \in Nat /\ DOMAIN s = 1 .. Len(s)
      /\ \A i \in 1 .. Len(s) : t[i] = s[i]
      /\ t[Len(s) + 1] = e
  OBVIOUS
<1> HIDE DEF t
<1>2. \A i \in DOMAIN t : i \in DOMAIN s \/ i = Len(s) + 1
  BY <1>1
<1>3. \A i \in DOMAIN t : (i \in DOMAIN s /\ t[i] = s[i]) \/ t[i] = e
  BY <1>1, <1>2
<1>. QED BY <1>3 DEF t

LEMMA TwoMore ==
  ASSUME NEW S, NEW s \in Seq(S), NEW d, NEW e
  PROVE  \A i \in DOMAIN (s \o <<d, e>>) : \/ i \in DOMAIN s /\ (s \o <<d, e>>)[i] = s[i]
                                           \/ (s \o <<d, e>>)[i] = d
                                           \/ (s \o <<d, e>>)[i] = e
<1> DEFINE t == s \o <<d, e>>
<1>1. /\ DOMAIN t = 1 .. Len(s) + 2 /\ Len(s) \in Nat /\ DOMAIN s = 1 .. Len(s)
      /\ \A i \in 1 .. Len(s) : t[i] = s[i]
      /\ t[Len(s) + 1] = d /\ t[Len(s) + 2] = e
  OBVIOUS
<1> HIDE DEF t
<1>2. \A i \in DOMAIN t : i \in DOMAIN s \/ i = Len(s) + 1 \/ i = Len(s) + 2
  BY <1>1
<1>3. \A i \in DOMAIN t : (i \in DOMAIN s /\ t[i] = s[i]) \/ t[i] = d \/ t[i] = e
  BY <1>1, <1>2
<1>. QED BY <1>3 DEF t

LEMMA ExchangeFields ==
  ASSUME NEW label, NEW status, NEW body
  PROVE  /\ Exchange(label, status, body).label = label
         /\ Exchange(label, status, body).status = status
         /\ Exchange(label, status, body).body = body
BY DEF Exchange

\* What the step of the hold has to answer for.
LEMMA HoldStepKeeps ==
  ASSUME ProbeInv, AtStep("hold"), NEW exchanges, NEW ok \in BOOLEAN, Performed(exchanges, ok),
         IsHoldRecord(hold)', hold'.voided = hold.voided, hold'.taken = hold.taken, hold'.first = hold.first,
         permits' = permits, race' = race, late => late',
         ok /\ ~late' => hold'.paid, ~ok => hold' = hold,
         \A i \in DOMAIN exchanges : PaymentsTrue(permits, exchanges[i])
  PROVE  ProbeInv'
<1>1. PICK steps, n : steps = PROBES[run.probe].steps /\ n = run.next
  OBVIOUS
<1>2. IsRunning /\ n <= Len(steps) /\ step.op = "hold"
  BY <1>1 DEF AtStep, probe
<1>3. /\ InRun(steps) /\ step = steps[n] /\ n = 1 /\ step.name = "hold"
  BY <1>1, <1>2, AtLaterStep
<1>4. /\ IsRunRecord(run)' /\ run'.probe = run.probe /\ run'.next = n + 1
      /\ "hold" \in DOMAIN run'.by_step /\ run'.by_step["hold"] = exchanges
      /\ \A s : s # steps[n].name => SameAt(run.by_step, run'.by_step, s)
      /\ run'.ok \subseteq run.ok \cup {"hold"} /\ (~ok => run'.ok = run.ok)
  BY <1>1, <1>3, PerformsAtOne
<1>5. IsFresh(hold')
  BY <1>1, <1>3 DEF InRun, IsFresh
<1>6. PaymentsSound(permits, run'.by_step)
  BY <1>4 DEF PaymentsSound
<1>7. "hold" \in run'.ok /\ ~late' => hold'.paid
  <2>1. CASE ok
    BY <2>1
  <2>2. CASE ~ok
    BY <1>3, <1>4, <2>2 DEF InRun
  <2>. QED BY <2>1, <2>2
<1>8. steps[n].op # "capture_parallel" /\ n # 2 /\ n # 3
  BY <1>2, <1>3
<1>. QED BY <1>1, <1>2, <1>4, <1>5, <1>6, <1>7, <1>8, StepKeeps

LEMMA HoldStopsKeeps == ProbeInv /\ HoldStops => ProbeInv'
<1> SUFFICES ASSUME ProbeInv, HoldStops PROVE ProbeInv'
  OBVIOUS
<1>1. PICK n \in 1 .. 3, status \in NoAnswer \cup {400} :
        Performed([i \in 1 .. n |-> Exchange(HoldRequests[i], IF i = n THEN status ELSE 200, {})], FALSE)
  BY DEF HoldStops
<1>2. PICK exchanges :
        exchanges = [i \in 1 .. n |-> Exchange(HoldRequests[i], IF i = n THEN status ELSE 200, {})]
  OBVIOUS
<1>3. ASSUME NEW i \in DOMAIN exchanges
      PROVE  PaymentsTrue(permits, exchanges[i])
  <2>1. exchanges[i].label = HoldRequests[i]
    BY <1>2, ExchangeFields
  <2>2. i \in {1, 2, 3}
    BY <1>1, <1>2, <1>3
  <2>3. HoldRequests[i] # "payments"
    BY <2>2 DEF HoldRequests
  <2>. QED BY <2>1, <2>3 DEF PaymentsTrue
<1>4. AtStep("hold") /\ UNCHANGED <<permits, hold, late, race>> /\ Performed(exchanges, FALSE)
  BY <1>1, <1>2 DEF HoldStops
<1>5. IsHoldRecord(hold)'
  BY <1>4 DEF ProbeInv, IsHoldRecord
<1>. QED BY <1>3, <1>4, <1>5, HoldStepKeeps

LEMMA HoldIsPlacedKeeps == ProbeInv /\ HoldIsPlaced => ProbeInv'
<1> SUFFICES ASSUME ProbeInv, HoldIsPlaced PROVE ProbeInv'
  OBVIOUS
<1> DEFINE Sent == [i \in 1 .. 3 |-> Exchange(HoldRequests[i], 200, {})]
           order == Exchange("order", 200, {})
           Payments(read) == IF read THEN ReadsPayments ELSE Exchange("payments", NoStatus, {})
<1>1. PICK settled \in BOOLEAN, read \in BOOLEAN :
        /\ hold' = [hold EXCEPT !.paid = settled]
        /\ late' = (late \/ ~settled)
        /\ Performed(Sent \o <<order, Payments(read)>>, TRUE)
  BY DEF HoldIsPlaced
<1>2. AtStep("hold") /\ UNCHANGED <<permits, race>>
  BY DEF HoldIsPlaced
<1>3. /\ IsHoldRecord(hold)' /\ hold'.paid = settled
      /\ hold'.voided = hold.voided /\ hold'.taken = hold.taken /\ hold'.first = hold.first
  BY <1>1 DEF ProbeInv, IsHoldRecord
<1>4. PICK s, o, p : s = Sent /\ o = order /\ p = Payments(read)
  OBVIOUS
<1>5. s \in Seq({s[i] : i \in 1 .. 3}) /\ DOMAIN s = 1 .. 3
  BY <1>4
<1>6. \A i \in DOMAIN s : PaymentsTrue(permits, s[i])
  <2>1. ASSUME NEW i \in DOMAIN s
        PROVE  PaymentsTrue(permits, s[i])
    <3>1. s[i].label = HoldRequests[i]
      BY <1>4, <1>5, ExchangeFields
    <3>2. i \in {1, 2, 3}
      BY <1>5
    <3>3. HoldRequests[i] # "payments"
      BY <3>2 DEF HoldRequests
    <3>. QED BY <3>1, <3>3 DEF PaymentsTrue
  <2>. QED BY <2>1
<1>7. PaymentsTrue(permits, o)
  <2>1. o.label = "order"
    BY <1>4, ExchangeFields
  <2>. QED BY <2>1 DEF PaymentsTrue
<1>8. PaymentsTrue(permits, p)
  <2>1. CASE ~read
    <3>1. p = Exchange("payments", NoStatus, {})
      BY <1>4, <2>1
    <3>2. p.body = {}
      BY <3>1, ExchangeFields
    <3>. QED BY <3>2 DEF PaymentsTrue
  <2>2. CASE read
    <3> DEFINE captured == hold'.paid /\ "funds_held_in_customer_account" \notin permits
    <3>1. PICK word : word = IF hold'.paid THEN "SUCCESS" ELSE "NOT_ATTEMPTED"
      OBVIOUS
    <3>2. PICK taken \in BOOLEAN : taken = captured
      OBVIOUS
    <3>3. p = Exchange("payments", 200, {<<"payment_status", word>>, <<"is_captured", taken>>})
      BY <1>4, <2>2, <3>1, <3>2 DEF ReadsPayments
    <3>4. p.body = {<<"payment_status", word>>, <<"is_captured", taken>>}
      BY <3>3, ExchangeFields
    <3>5. \A x : <<"is_captured", x>> \in p.body => x = taken
      BY <3>4
    <3>6. <<"payment_status", "SUCCESS">> \in p.body => word = "SUCCESS"
      BY <3>4
    <3>7. <<"is_captured", TRUE>> \in p.body => "funds_held_in_customer_account" \notin permits
      BY <3>2, <3>5, Zenon
    <3>8. <<"payment_status", "SUCCESS">> \in p.body => hold'.paid
      BY <3>1, <3>6
    <3>9. <<"is_captured", FALSE>> \in p.body => ~captured
      BY <3>2, <3>5, Zenon
    <3>. QED BY <3>7, <3>8, <3>9 DEF PaymentsTrue
  <2>. QED BY <2>1, <2>2
<1>9. PICK exchanges : exchanges = s \o <<o, p>>
  OBVIOUS
<1>10. \A i \in DOMAIN exchanges : PaymentsTrue(permits, exchanges[i])
  BY <1>5, <1>6, <1>7, <1>8, <1>9, TwoMore
<1>11. Performed(exchanges, TRUE)
  BY <1>1, <1>4, <1>9
<1>. QED BY <1>1, <1>2, <1>3, <1>10, <1>11, HoldStepKeeps

\* A step that is not a request on the hold.
LEMMA OtherStepKeeps ==
  ASSUME ProbeInv, NEW op \in {"fetch", "capture_parallel"}, AtStep(op), ~IsBlocked,
         NEW exchanges, Performed(exchanges, TRUE), UNCHANGED <<permits, hold, late>>,
         op = "fetch" => race' = race,
         op = "capture_parallel" => \A i \in DOMAIN exchanges : SummaryTrue(permits, race', exchanges[i])
  PROVE  ProbeInv'
<1>1. PICK steps, n : steps = PROBES[run.probe].steps /\ n = run.next
  OBVIOUS
<1>2. IsRunning /\ n <= Len(steps) /\ step.op = op
  BY <1>1 DEF AtStep, probe
<1>3. /\ InRun(steps) /\ WellMade(steps) /\ step = steps[n] /\ n # 1 /\ "hold" \in run.ok
      /\ n \in 2 .. Len(steps) /\ step.name # "hold"
  <2>1. step.op # "hold"
    BY <1>2
  <2>2. /\ InRun(steps) /\ WellMade(steps) /\ step = steps[n] /\ n # 1 /\ "hold" \in run.ok
        /\ n \in 1 .. Len(steps) /\ n \in Nat /\ Len(steps) \in Nat /\ step.name # "hold"
    BY <1>1, <1>2, <2>1, AtLaterStep
  <2>. QED BY <2>2
<1>4. /\ IsRunRecord(run)' /\ run'.probe = run.probe /\ run'.next = n + 1
      /\ step.name \in DOMAIN run'.by_step /\ run'.by_step[step.name] = exchanges
      /\ \A s : s # steps[n].name => SameAt(run.by_step, run'.by_step, s)
      /\ run'.ok \subseteq run.ok \cup {step.name}
  BY <1>1, <1>3, PerformsAtOne
<1>5. step.op \notin AskOps /\ step.op \notin HoldOps
  BY <1>2 DEF AskOps, HoldOps
<1>6. /\ n = 2 => FirstSound(permits, run'.by_step, steps[2])
      /\ n = 3 => SecondSound(permits, run'.by_step, steps[2], steps[3])
      /\ n = 2 => steps[2].op \notin HoldOps
  BY <1>3, <1>5 DEF FirstSound, SecondSound
<1>7. steps[n].op = "capture_parallel" => RaceSound(permits, race', run'.by_step)
  <2>1. steps[n].op = "capture_parallel" => step.name = "race"
    BY <1>3 DEF WellMade
  <2>2. SUFFICES ASSUME steps[n].op = "capture_parallel" PROVE RaceSound(permits, race', run'.by_step)
    OBVIOUS
  <2>3. run'.by_step["race"] = exchanges /\ op = "capture_parallel"
    BY <1>2, <1>3, <1>4, <2>1, <2>2
  <2>. QED BY <2>3 DEF RaceSound
<1>8. "hold" \in run'.ok /\ ~late' => hold'.paid
  BY <1>3 DEF InRun
<1>9. /\ permits' = permits /\ (late => late') /\ IsHoldRecord(hold)'
      /\ steps[n].op # "capture_parallel" => race' = race
  BY <1>2, <1>3 DEF ProbeInv, IsHoldRecord
<1>. QED BY <1>1, <1>2, <1>3, <1>4, <1>6, <1>7, <1>8, <1>9, StepKeeps

LEMMA FetchesKeeps == ProbeInv /\ Fetches => ProbeInv'
<1> SUFFICES ASSUME ProbeInv, Fetches PROVE ProbeInv'
  OBVIOUS
<1>1. PICK exchanges : Performed(exchanges, TRUE)
  BY DEF Fetches
<1>2. AtStep("fetch") /\ ~IsBlocked /\ UNCHANGED <<permits, hold, late>> /\ race' = race
  BY DEF Fetches
<1>. QED BY <1>1, <1>2, OtherStepKeeps

\* Of a race that takes one capture, no two are answered as taken.
LEMMA WinnersAreFew ==
  ASSUME Consistent(permits), NEW lost \in SUBSET (1 .. 3), NEW arrived \in SUBSET lost,
         NEW won \in Winners(((1 .. 3) \ lost) \cup arrived)
  PROVE  /\ won \in SUBSET (1 .. 3)
         /\ Cardinality(won \ lost) >= 2 => "concurrent_capture_single_winner" \notin permits
<1> DEFINE reached == ((1 .. 3) \ lost) \cup arrived
<1>1. reached \in SUBSET (1 .. 3)
  OBVIOUS
<1> HIDE DEF reached
<1>2. won \in SUBSET (1 .. 3)
  BY <1>1 DEF Winners, reached
<1>3. \A i : Cardinality({i}) = 1 /\ Cardinality({}) = 0
  BY FS_Singleton, FS_EmptySet
<1>4. CASE won = {}
  <2>1. won \ lost = {}
    BY <1>4
  <2>2. Cardinality(won \ lost) = 0
    BY <1>3, <2>1, Zenon
  <2>. QED BY <1>2, <2>2
<1>5. CASE "multiple_captures" \in permits
  BY <1>2, <1>5 DEF Consistent
<1>6. ASSUME NEW i, won = {i}
      PROVE  ~(Cardinality(won \ lost) >= 2)
  <2>1. won \ lost = {} \/ won \ lost = {i}
    BY <1>6
  <2>2. Cardinality(won \ lost) = 0 \/ Cardinality(won \ lost) = 1
    BY <1>3, <2>1, Zenon
  <2>. QED BY <2>2
<1>7. CASE /\ "multiple_captures" \notin permits /\ "concurrent_capture_single_winner" \in permits
           /\ won # {}
  <2>1. \E i : won = {i}
    BY <1>7 DEF Winners, reached
  <2>. QED BY <1>2, <1>6, <2>1
<1>. QED BY <1>2, <1>4, <1>5, <1>7

LEMMA RacesKeeps == ProbeInv /\ Races => ProbeInv'
<1> SUFFICES ASSUME ProbeInv, Races PROVE ProbeInv'
  OBVIOUS
<1> DEFINE Taken(lost, won) ==
             /\ race' = Cardinality(won)
             /\ Performed([i \in 1 .. 3 |-> Exchange("capture",
                             CASE i \in lost -> NoStatus [] i \in won \ lost -> 200 [] OTHER -> 400, {})]
                          \o <<RaceSummary(Cardinality(won \ lost), Cardinality(lost))>>, TRUE)
<1>0. PICK lost \in SUBSET (1 .. 3) : \E arrived \in SUBSET lost :
        \E won \in Winners(((1 .. 3) \ lost) \cup arrived) : Taken(lost, won)
  BY DEF Races
<1>00. PICK arrived \in SUBSET lost : \E won \in Winners(((1 .. 3) \ lost) \cup arrived) : Taken(lost, won)
  BY <1>0
<1>1. PICK won \in Winners(((1 .. 3) \ lost) \cup arrived) : Taken(lost, won)
  BY <1>00
<1>2. AtStep("capture_parallel") /\ ~IsBlocked /\ UNCHANGED <<permits, hold, late>>
  BY DEF Races
<1> DEFINE Captures == [i \in 1 .. 3 |-> Exchange("capture",
                          CASE i \in lost -> NoStatus [] i \in won \ lost -> 200 [] OTHER -> 400, {})]
<1>3. PICK s : s = Captures
  OBVIOUS
<1>4. PICK e : e = RaceSummary(Cardinality(won \ lost), Cardinality(lost))
  OBVIOUS
<1>5. s \in Seq({s[i] : i \in 1 .. 3}) /\ DOMAIN s = 1 .. 3
  BY <1>3
<1>6. ASSUME NEW i \in DOMAIN s
      PROVE  SummaryTrue(permits, race', s[i])
  <2>1. s[i].label = "capture"
    <3>1. PICK status : s[i] = Exchange("capture", status, {})
      BY <1>3, <1>5
    <3>. QED BY <3>1, ExchangeFields
  <2>. QED BY <2>1 DEF SummaryTrue
<1>7. /\ won \in SUBSET (1 .. 3)
      /\ Cardinality(won \ lost) >= 2 => "concurrent_capture_single_winner" \notin permits
  BY WinnersAreFew DEF ProbeInv
<1>8. SummaryTrue(permits, race', e)
  <2> DEFINE alone == Cardinality(won \ lost) = 1 /\ Cardinality(lost) = 0
             several == Cardinality(won \ lost) >= 2
  <2>0. \E x, y : x = alone /\ y = several
    BY Zenon
  <2>1. PICK x, y : x = alone /\ y = several
    BY <2>0, Zenon
  <2>2. e = Exchange("summary", 200, {<<"single_winner", x>>, <<"multiple_winners", y>>})
    BY <1>4, <2>1 DEF RaceSummary
  <2>3. e.body = {<<"single_winner", x>>, <<"multiple_winners", y>>}
    BY <2>2, ExchangeFields
  <2>4. /\ \A z : <<"single_winner", z>> \in e.body => z = x
        /\ \A z : <<"multiple_winners", z>> \in e.body => z = y
    BY <2>3
  <2>5. <<"single_winner", TRUE>> \in e.body => alone
    BY <2>1, <2>4, Zenon
  <2>6. <<"multiple_winners", TRUE>> \in e.body => several
    BY <2>1, <2>4, Zenon
  <2>7. alone => race' = 1
    <3>1. SUFFICES ASSUME alone PROVE race' = 1
      OBVIOUS
    <3>2. IsFiniteSet(lost)
      <4>1. \A a, b \in Int : IsFiniteSet(a .. b)
        BY FS_Interval
      <4>2. 1 \in Int /\ 3 \in Int
        OBVIOUS
      <4>3. IsFiniteSet(1 .. 3)
        BY <4>1, <4>2, Zenon
      <4>. QED BY <4>3, FS_Subset, Zenon
    <3>3. lost = {}
      BY <3>1, <3>2, FS_EmptySet
    <3>4. won \ lost = won
      BY <3>3
    <3>. QED BY <1>1, <3>1, <3>4
  <2> HIDE DEF alone
  <2>8. several => "concurrent_capture_single_winner" \notin permits
    BY <1>7
  <2> HIDE DEF several
  <2>. QED BY <2>5, <2>6, <2>7, <2>8 DEF SummaryTrue
<1>9. PICK exchanges : exchanges = s \o <<e>>
  OBVIOUS
<1>10. \A i \in DOMAIN exchanges : SummaryTrue(permits, race', exchanges[i])
  BY <1>5, <1>6, <1>8, <1>9, OneMore
<1>11. Performed(exchanges, TRUE)
  BY <1>1, <1>3, <1>4, <1>9
<1>. QED BY <1>2, <1>10, <1>11, OtherStepKeeps

LEMMA StartsKeeps == \A p \in DOMAIN PROBES : ProbeInv /\ Starts(p) => ProbeInv'
<1> SUFFICES ASSUME NEW p \in DOMAIN PROBES, ProbeInv, Starts(p) PROVE ProbeInv'
  OBVIOUS
<1>1. PICK steps : steps = PROBES[p].steps
  OBVIOUS
<1>2. WellMade(steps)
  BY <1>1, ProbesAreTrue
<1>3. /\ run'.probe = p /\ run'.next = 1 /\ run'.ok = {} /\ DOMAIN run'.by_step = {}
      /\ IsRunRecord(run)'
  BY NothingIsThere DEF Starts, NoRun, IsRunRecord
<1>4. hold' = NewHold /\ permits' = permits /\ race' = 0 /\ late' = late
  BY DEF Starts
<1>5. IsHoldRecord(hold)' /\ IsFresh(hold')
  BY <1>4 DEF NewHold, IsHoldRecord, IsFresh
<1>6. InRun(steps)'
  <2>1. 1 \in 1 .. Len(steps) + 1
    BY <1>2 DEF WellMade
  <2>2. PaymentsSound(permits', run'.by_step) /\ RaceSound(permits', race', run'.by_step)
    BY <1>3 DEF PaymentsSound, RaceSound
  <2>. QED BY <1>3, <1>4, <1>5, <2>1, <2>2 DEF InRun
<1>. QED BY <1>1, <1>3, <1>4, <1>5, <1>6 DEF ProbeInv, Consistent

(***************************************************************************)
(* What a run has found, and what an export makes of it.                   *)
(***************************************************************************)
\* A row that a finding answers is so.
DatumTrue(may, d) ==
  \A c \in DOMAIN d :
    /\ d[c] \in {"yes", "no", "unknown"}
    /\ d[c] = "no" => c \notin may
    /\ d[c] = "yes" => c = "concurrent_capture_single_winner" \/ c \in may

YesIsTrue(may, won, c) == IF c = "concurrent_capture_single_winner" THEN won = 1 ELSE c \in may

LEMMA FoundIsTrue ==
  ASSUME NEW may, NEW won, NEW b, NEW P, RulesAreTrue(may, won, b, P.rules),
         NEW c, Supported(P, c, b) # "unknown"
  PROVE  /\ Supported(P, c, b) \in {"yes", "no"}
         /\ Supported(P, c, b) = "no" => c \notin may
         /\ Supported(P, c, b) = "yes" => YesIsTrue(may, won, c)
<1> DEFINE hits == {i \in DOMAIN P.rules : P.rules[i].capability = c /\ Reads(P.rules[i], b)}
           least == CHOOSE i \in hits : \A j \in hits : i <= j
<1>1. hits # {} /\ Supported(P, c, b) = P.rules[least].supported
  BY DEF Supported
<1>2. hits \in SUBSET Nat
  BY DEF RulesAreTrue
<1>3. least \in hits
  <2>1. \E i \in hits : \A j \in hits : i <= j
    <3> HIDE DEF hits
    <3>. QED BY <1>1, <1>2, NatHasLeast
  <2> HIDE DEF hits
  <2>. QED BY <2>1
<1> HIDE DEF least
<1>4. PICK rule : rule = P.rules[least]
  OBVIOUS
<1>5. rule.capability = c /\ IsTrueOf(may, won, rule)
  BY <1>3, <1>4 DEF RulesAreTrue
<1>. QED BY <1>1, <1>4, <1>5 DEF IsTrueOf, YesIsTrue

LEMMA OverIsTrue ==
  ASSUME ProbeInv, IsOver, ~late
  PROVE  RulesAreTrue(permits, race, run.by_step, probe.rules)
<1>1. PICK p, steps : p = run.probe /\ steps = PROBES[p].steps
  OBVIOUS
<1>2. p \in DOMAIN PROBES /\ InRun(steps) /\ Consistent(permits) /\ run.next > Len(steps)
  BY <1>1 DEF ProbeInv, IsOver, IsRunning, probe
<1>3. WellMade(steps)
  BY <1>1, <1>2, ProbesAreTrue
<1>4. Len(steps) \in Nat /\ Len(steps) >= 2 /\ run.next = Len(steps) + 1
  BY <1>2, <1>3 DEF WellMade, InRun
<1>5. /\ FirstSound(permits, run.by_step, steps[2])
      /\ Len(steps) >= 3 => SecondSound(permits, run.by_step, steps[2], steps[3])
      /\ PaymentsSound(permits, run.by_step) /\ RaceSound(permits, race, run.by_step)
  BY <1>2, <1>4 DEF InRun
<1>6. IsAnswered(permits, race, run.by_step, steps)
  BY <1>2, <1>5 DEF IsAnswered
<1>. QED BY <1>1, <1>2, <1>6, ProbesAreTrue DEF probe

LEMMA InvAnswers == ProbeInv => FindingIsTheAnswer
<1> SUFFICES ASSUME ProbeInv, IsOver, ~late,
                    NEW c \in DOMAIN Findings(probe, run.by_step)
             PROVE  LET found == Findings(probe, run.by_step)
                    IN  /\ found[c] = "no" => c \notin permits
                        /\ found[c] = "yes" => IF c = "concurrent_capture_single_winner" THEN race = 1
                                               ELSE c \in permits
  BY DEF FindingIsTheAnswer
<1>1. RulesAreTrue(permits, race, run.by_step, probe.rules)
  BY OverIsTrue
<1>2. Findings(probe, run.by_step)[c] = Supported(probe, c, run.by_step)
  BY DEF Findings
<1>3. CASE Supported(probe, c, run.by_step) = "unknown"
  BY <1>2, <1>3
<1>4. CASE Supported(probe, c, run.by_step) # "unknown"
  <2>1. Supported(probe, c, run.by_step) = "no" => c \notin permits
    BY <1>1, <1>4, FoundIsTrue, Zenon
  <2>2. Supported(probe, c, run.by_step) = "yes" => YesIsTrue(permits, race, c)
    BY <1>1, <1>4, FoundIsTrue, Zenon
  <2>. QED BY <1>2, <2>1, <2>2 DEF YesIsTrue
<1>. QED BY <1>3, <1>4

LEMMA FindingsAreTrue ==
  ASSUME ProbeInv, IsOver, ~late
  PROVE  DatumTrue(permits, Findings(probe, run.by_step))
<1>1. RulesAreTrue(permits, race, run.by_step, probe.rules)
  BY OverIsTrue
<1>2. ASSUME NEW c \in DOMAIN Findings(probe, run.by_step)
      PROVE  LET d == Findings(probe, run.by_step)
             IN  /\ d[c] \in {"yes", "no", "unknown"}
                 /\ d[c] = "no" => c \notin permits
                 /\ d[c] = "yes" => c = "concurrent_capture_single_winner" \/ c \in permits
  <2>1. Findings(probe, run.by_step)[c] = Supported(probe, c, run.by_step)
    BY DEF Findings
  <2>2. CASE Supported(probe, c, run.by_step) = "unknown"
    BY <2>1, <2>2
  <2>3. CASE Supported(probe, c, run.by_step) # "unknown"
    <3>1. /\ Supported(probe, c, run.by_step) \in {"yes", "no"}
          /\ Supported(probe, c, run.by_step) = "no" => c \notin permits
          /\ Supported(probe, c, run.by_step) = "yes" => YesIsTrue(permits, race, c)
      BY <1>1, <2>3, FoundIsTrue, Zenon
    <3>. QED BY <2>1, <3>1 DEF YesIsTrue
  <2>. QED BY <2>2, <2>3
<1>. QED BY <1>2 DEF DatumTrue

AskedTyped == asked \in DOMAIN PROBES \cup {"pages"}

LEMMA ProbeStarts == Init => ProbeInv /\ AskedTyped
<1> SUFFICES ASSUME Init PROVE ProbeInv /\ AskedTyped
  OBVIOUS
<1>1. Consistent(permits) /\ hold = NewHold /\ run = NoRun
  BY DEF Init, InitProbing, Sandboxes
<1>2. IsRunRecord(run) /\ run.probe = "none"
  BY <1>1 DEF NoRun, IsRunRecord
<1>3. IsHoldRecord(hold)
  BY <1>1 DEF NewHold, IsHoldRecord
<1>. QED BY <1>1, <1>2, <1>3 DEF ProbeInv, Init, AskedTyped

LEMMA ProbeRests == ProbeInv /\ UNCHANGED probing => ProbeInv'
BY DEF probing, ProbeInv, Consistent, IsRunRecord, IsHoldRecord, InRun

LEMMA RecordsProbeKeeps == ProbeInv /\ RecordsProbe => ProbeInv'
<1> SUFFICES ASSUME ProbeInv, RecordsProbe PROVE ProbeInv'
  OBVIOUS
<1>1. permits' = permits /\ run' = NoRun /\ hold' = NewHold
  BY DEF RecordsProbe
<1>2. IsRunRecord(run)' /\ run'.probe = "none"
  BY <1>1 DEF NoRun, IsRunRecord
<1>3. IsHoldRecord(hold)'
  BY <1>1 DEF NewHold, IsHoldRecord
<1>. QED BY <1>1, <1>2, <1>3 DEF ProbeInv, Consistent

LEMMA ProbeKeeps == ProbeInv /\ AskedTyped /\ [Next]_vars => ProbeInv' /\ AskedTyped'
<1> SUFFICES ASSUME ProbeInv, AskedTyped, [Next]_vars PROVE ProbeInv' /\ AskedTyped'
  OBVIOUS
<1>1. asked' = asked
  BY DEF Next, Commands, StartsProbe, StartsWatch, RunsProbe, RecordsProbe, ChecksRow, RecordsWatch,
         Stores, Exports, World, PageChanges, RowIsEdited, vars
<1>2. ASSUME NEW p \in Procs, StartsProbe(p)
      PROVE  ProbeInv'
  <2>1. asked \in DOMAIN PROBES /\ Starts(asked)
    BY <1>2 DEF StartsProbe, AskedTyped
  <2>. QED BY <2>1, StartsKeeps
<1>3. ASSUME RunsProbe
      PROVE  ProbeInv'
  BY <1>3, HoldStopsKeeps, HoldIsPlacedKeeps, AsksKeeps, FetchesKeeps, RacesKeeps, SkipsKeeps
     DEF RunsProbe, Probes
<1>4. ASSUME RecordsProbe
      PROVE  ProbeInv'
  BY <1>4, RecordsProbeKeeps
<1>5. ASSUME UNCHANGED probing
      PROVE  ProbeInv'
  BY <1>5, ProbeRests
<1>6. ASSUME NEW p \in Procs, StartsWatch(p)
      PROVE  UNCHANGED probing
  BY <1>6 DEF StartsWatch
<1>7. ChecksRow \/ RecordsWatch \/ Stores \/ Exports \/ World => UNCHANGED probing
  BY DEF ChecksRow, RecordsWatch, Stores, Exports, World, PageChanges, RowIsEdited
<1>8. vars' = vars => UNCHANGED probing
  BY DEF vars
<1>9. ProbeInv'
  BY <1>2, <1>3, <1>4, <1>5, <1>6, <1>7, <1>8, Zenon DEF Next, Commands
<1>. QED BY <1>1, <1>9 DEF AskedTyped

\* Only an answer to the question is a finding: what a run that is over has
\* found is what the sandbox permits, whatever went unanswered.
THEOREM FindingsAreAnswers == Spec => []FindingIsTheAnswer
BY ProbeStarts, ProbeKeeps, InvAnswers, PTL DEF Spec

\* Nobody changes the sandbox, and a late approval stays on the record.
LEMMA SandboxStays ==
  ASSUME [Next]_vars
  PROVE  permits' = permits /\ (late => late')
<1>1. ASSUME UNCHANGED probing PROVE permits' = permits /\ (late => late')
  BY <1>1 DEF probing
<1>2. ASSUME NEW p \in Procs, StartsProbe(p) \/ StartsWatch(p)
      PROVE  permits' = permits /\ (late => late')
  BY <1>2 DEF StartsProbe, Starts, StartsWatch, probing
<1>3. CASE RunsProbe
  <2>1. CASE HoldStops
    BY <2>1 DEF HoldStops
  <2>2. CASE HoldIsPlaced
    <3>1. PICK settled : late' = (late \/ ~settled) /\ UNCHANGED permits
      BY <2>2, Zenon DEF HoldIsPlaced
    <3>. QED BY <3>1
  <2>3. CASE Asks
    BY <2>3 DEF Asks
  <2>4. CASE Fetches
    BY <2>4 DEF Fetches
  <2>5. CASE Races
    BY <2>5 DEF Races
  <2>6. CASE Skips
    BY <2>6 DEF Skips
  <2>. QED BY <1>3, <2>1, <2>2, <2>3, <2>4, <2>5, <2>6, Zenon DEF RunsProbe, Probes
<1>4. CASE RecordsProbe
  BY <1>4 DEF RecordsProbe
<1>5. ChecksRow \/ RecordsWatch \/ Stores \/ Exports \/ World => UNCHANGED probing
  BY DEF ChecksRow, RecordsWatch, Stores, Exports, World, PageChanges, RowIsEdited
<1>6. vars' = vars => UNCHANGED probing
  BY DEF vars
<1>. QED BY <1>1, <1>2, <1>3, <1>4, <1>5, <1>6, Zenon DEF Next, Commands

\* What the store has of probes was so when it was found, and is so.
ProbedIsTrue == ~late => \A d : IsDatum("probes", d) => DatumTrue(permits, d)

LEMMA ProbedKeeps ==
  ASSUME StoreInv, CommandedTyped, ProbeInv, ProbedIsTrue, [Next]_vars
  PROVE  ProbedIsTrue'
<1>1. permits' = permits /\ (late => late')
  BY SandboxStays
<1>2. SUFFICES ASSUME ~late', NEW d, IsDatum("probes", d)' PROVE DatumTrue(permits, d)
  BY <1>1 DEF ProbedIsTrue, DatumTrue
<1>3. "probes" \in Streams
  OBVIOUS
<1>4. IsDatum("probes", d) \/ (RecordsProbe /\ d = Findings(probe, run.by_step))
  BY <1>2, <1>3, NewData
<1>5. RecordsProbe => IsOver
  BY DEF RecordsProbe
<1>. QED BY <1>1, <1>2, <1>4, <1>5, FindingsAreTrue DEF ProbedIsTrue

\* The latest answer for a row.
LEMMA LatestIsOne ==
  ASSUME StoreInv, ExportInv, NEW name, Conclusive(export.read["probes"], name) # {}
  PROVE  LET answers == Conclusive(export.read["probes"], name)
             latest == CHOOSE n \in answers : \A m \in answers : m <= n
         IN  /\ latest \in answers
             /\ latest \in DOMAIN file["probes"].lines
             /\ export.read["probes"][latest] = file["probes"].lines[latest]
<1> DEFINE read == export.read["probes"]
           lines == file["probes"].lines
           answers == Conclusive(read, name)
           latest == CHOOSE n \in answers : \A m \in answers : m <= n
<1>0. "probes" \in Streams
  OBVIOUS
<1>1. PICK L : read \in Seq(L)
  BY <1>0 DEF ExportInv, IsRead
<1>2. /\ Len(read) \in Nat /\ DOMAIN read = 1 .. Len(read) /\ Len(read) <= Len(lines)
      /\ \A i \in 1 .. Len(read) : read[i] = lines[i]
  BY <1>0, <1>1 DEF ExportInv, IsRead
<1>3. Len(lines) \in Nat /\ DOMAIN lines = 1 .. Len(lines)
  BY <1>0, LinesAreTyped
<1> HIDE DEF read, lines
<1>4. answers \in SUBSET (1 .. Len(read)) /\ answers # {}
  BY <1>2 DEF Conclusive, read
<1> HIDE DEF answers
<1>5. \E n \in answers : \A m \in answers : m <= n
  <2>1. PICK n : n = Max(answers)
    OBVIOUS
  <2>2. n \in answers /\ \A m \in answers : n >= m
    BY <1>2, <1>4, <2>1, MaxIsIn
  <2>. QED BY <1>2, <1>4, <2>2
<1>6. latest \in answers
  BY <1>5
<1> HIDE DEF latest
<1>7. latest \in 1 .. Len(read) /\ latest \in 1 .. Len(lines)
  BY <1>2, <1>3, <1>4, <1>6
<1>8. latest \in answers /\ latest \in DOMAIN lines /\ read[latest] = lines[latest]
  BY <1>2, <1>3, <1>6, <1>7
<1>. QED BY <1>8 DEF read, lines, answers, latest

\* The registry says of the sandbox that a race has one winner.
LEMMA OneWinnerIsARow ==
  Permits(CASHFREE_PREAUTH, "concurrent_capture_single_winner")
<1>1. PICK c : c = [name |-> "concurrent_capture_single_winner", supported |-> "yes", tier |-> "observed"]
  OBVIOUS
<1>2. c \in CashfreeMeasured
  BY <1>1 DEF CashfreeMeasured, Rows
<1>3. c \in CASHFREE_PREAUTH.capabilities
  BY <1>2 DEF CASHFREE_PREAUTH, Rail
<1>. QED BY <1>1, <1>3 DEF Permits, RowsFor, Fact

LEMMA InvDisagrees ==
  ASSUME StoreInv, ExportInv, ProbedIsTrue
  PROVE  DisagreementIsReal
<1> SUFFICES ASSUME ~late, NEW name \in ProbedRows, Disagrees(name)
             PROVE  (name \in permits) # (name \in RowsPermit)
  BY DEF DisagreementIsReal
<1> DEFINE answers == Conclusive(export.read["probes"], name)
           latest == CHOOSE n \in answers : \A m \in answers : m <= n
<1>1. PICK n : n = latest
  OBVIOUS
<1>2. PICK d : d = export.read["probes"][n].data
  OBVIOUS
<1>3. answers # {} /\ d[name] # (IF name \in RowsPermit THEN "yes" ELSE "no")
  BY <1>1, <1>2 DEF Disagrees
<1>4. /\ n \in answers /\ n \in DOMAIN file["probes"].lines
      /\ export.read["probes"][n] = file["probes"].lines[n]
  BY <1>1, <1>3, LatestIsOne
<1>5. name \in DOMAIN d /\ d[name] # "unknown"
  BY <1>2, <1>4 DEF Conclusive
<1>6. DatumTrue(permits, d)
  <2>1. IsDatum("probes", d)
    BY <1>2, <1>4 DEF IsDatum
  <2>. QED BY <2>1 DEF ProbedIsTrue
<1>7. name = "concurrent_capture_single_winner" => name \in RowsPermit
  BY OneWinnerIsARow DEF RowsPermit
<1>8. CASE d[name] = "no"
  BY <1>3, <1>5, <1>6, <1>8 DEF DatumTrue
<1>9. CASE d[name] = "yes"
  BY <1>3, <1>5, <1>6, <1>7, <1>9 DEF DatumTrue
<1>. QED BY <1>5, <1>6, <1>8, <1>9 DEF DatumTrue

\* Where an export says that a row is contradicted by its probe, the sandbox
\* differs from the row: a lost answer, a server error or a run that learned
\* nothing is never shown as one.
THEOREM DisagreementsAreReal == Spec => []DisagreementIsReal
<1>1. Init => ExportInv
  BY ExportStarts DEF Init
<1>2. StoreInv /\ CommandedTyped /\ ExportInv /\ [Next]_vars => ExportInv'
  BY ExportKeeps
<1>3. Init => ProbedIsTrue
  <2>1. "probes" \in Streams
    OBVIOUS
  <2>. QED BY <2>1, NoDataAtFirst DEF ProbedIsTrue, Init
<1>4. StoreInv /\ CommandedTyped /\ ProbeInv /\ ProbedIsTrue /\ [Next]_vars => ProbedIsTrue'
  BY ProbedKeeps
<1>. QED BY <1>1, <1>2, <1>3, <1>4, StoreIsSound, ProbeStarts, ProbeKeeps, InvDisagrees, PTL DEF Spec

=============================================================================
