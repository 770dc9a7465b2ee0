------------------------------ MODULE Registry ------------------------------
(***************************************************************************)
(* The registry's evidence: commands that ask the sandbox a probe or read  *)
(* the cited pages again and record what they found, and an export that    *)
(* reads the records back and shows each row with them (probes/runner.py,  *)
(* registry/watch.py, registry/export.py), while the vendor changes a page *)
(* and somebody edits a row.                                               *)
(*                                                                         *)
(* A command runs its probe or its check before it touches the store, and  *)
(* shares nothing with the others until then: in the model nobody is at    *)
(* the store meanwhile.  One that dies before it has something to record   *)
(* leaves nothing and is not modelled.  The two kinds of command write     *)
(* different streams, and in a behaviour they are of one kind.             *)
(***************************************************************************)
EXTENDS ProbeRun, QuoteWatch, EvidenceStore

CONSTANTS
  CitedRows,     \* the rows with a page: by name, as the registry has them at first
  Edits,         \* what a row may be edited to
  Pages,         \* what a page may be
  MaxChanges     \* bound on edits and on changes of pages

VARIABLES
  asked,      \* the probe the commands ask, or "pages"
  commanded,  \* who asks it, or checks the pages
  pages,      \* by url, the page
  rows,       \* by name, the row
  check,      \* the watcher's run in hand
  export,
  changes

watching == <<pages, rows, check, changes>>
vars == <<probing, faults, store, asked, commanded, watching, export>>

Urls == {CitedRows[name].url : name \in DOMAIN CitedRows} \ {""}

IsRow(row) == row.quote \in Seq(Seq(STRING)) /\ row.url \in Urls \cup {""}
IsPage(page) == page.text \in Seq(STRING)

ASSUME RegistryAssumption ==
  /\ MaxChanges \in Nat
  /\ Streams = {"probes", "watch"}
  /\ Nobody \notin Procs
  /\ IsFiniteSet(DOMAIN CitedRows)
  /\ \A name \in DOMAIN CitedRows : IsRow(CitedRows[name])
  /\ \A row \in Edits : IsRow(row)
  /\ \A page \in Pages : IsPage(page)

NoCheck == [left |-> <<>>, cache |-> <<>>, results |-> <<>>]

Unread == [s \in Streams |-> <<>>]
NoExport == [at |-> 0, verified |-> FALSE, read |-> Unread, rows |-> CitedRows,
             heads |-> [s \in Streams |-> [length |-> 0, hash |-> GENESIS]]]

Init ==
  /\ InitProbing /\ InitStore
  /\ commanded = Nobody
  /\ \/ asked \in DOMAIN PROBES /\ pages = <<>>
     \/ asked = "pages" /\ permits = RowsPermit /\ pages \in [Urls -> Pages]
  /\ rows = CitedRows /\ check = NoCheck /\ changes = 0
  /\ export = NoExport

Done == 5
Failed == 6

NobodyRuns == commanded = Nobody

\* A command may begin while the others wait for the store or are done.
StoreIsQuiet ==
  /\ \A p \in Procs : writer[p].at \in {"idle", "ready", "recorded", "refused", "dead"}
  /\ export.at \in {0, Done, Failed}

(***************************************************************************)
(* The commands.                                                           *)
(***************************************************************************)
StartsProbe(p) ==
  /\ NobodyRuns /\ StoreIsQuiet /\ At(p, "idle") /\ asked # "pages"
  /\ commanded' = p
  /\ Starts(asked)
  /\ UNCHANGED <<store, asked, watching, export>>

RunsProbe == Probes /\ UNCHANGED <<store, asked, commanded, watching, export>>

\* record: the run with its findings, answered or not.
RecordsProbe ==
  /\ ~NobodyRuns /\ IsOver
  /\ Wants(commanded, "probes", Findings(probe, run.by_step))
  /\ commanded' = Nobody /\ run' = NoRun /\ hold' = NewHold
  /\ UNCHANGED <<permits, late, race, faults, asked, watching, export>>

\* rows: the table as the command found it.
StartsWatch(p) ==
  /\ NobodyRuns /\ StoreIsQuiet /\ At(p, "idle") /\ asked = "pages"
  /\ commanded' = p
  /\ check' = [NoCheck EXCEPT !.left = SetToSeq(DOMAIN rows)]
  /\ UNCHANGED <<probing, faults, store, asked, pages, rows, changes, export>>

IsWatching == commanded # Nobody /\ run = NoRun

Result(row, verdict, page) ==
  [verdict |-> verdict, quote |-> row.quote, status |-> page.status, content |-> page]

NoPage == [status |-> NoStatus, kind |-> "none", text |-> <<>>, digest |-> "none"]

WithResult(name, result) ==
  [n \in DOMAIN check.results \cup {name} |-> IF n = name THEN result ELSE check.results[n]]
WithPage(url, page) ==
  [u \in DOMAIN check.cache \cup {url} |-> IF u = url THEN page ELSE check.cache[u]]

\* One row: skipped, or judged by the page its url first gave this run.
ChecksRow ==
  /\ IsWatching /\ check.left # <<>>
  /\ LET name == check.left[1]
         row == rows[name]
     IN  IF IsSkipped(row)
           THEN /\ NoFault
                /\ check' = [check EXCEPT !.left = Tail(@),
                               !.results = WithResult(name, Result(row, "skipped", NoPage))]
           ELSE \E fetched \in IF row.url \in DOMAIN check.cache THEN {check.cache[row.url]}
                               ELSE {pages[row.url], NoPage},
                   readable \in BOOLEAN :
                  /\ IF (fetched # NoPage \/ row.url \in DOMAIN check.cache) /\ readable
                       THEN NoFault ELSE Fault
                  /\ check' = [left |-> Tail(check.left), cache |-> WithPage(row.url, fetched),
                               results |-> WithResult(name, Result(row, judge(row, fetched, readable), fetched))]
  /\ UNCHANGED <<probing, store, asked, commanded, pages, rows, changes, export>>

RecordsWatch ==
  /\ IsWatching /\ check.left = <<>>
  /\ Wants(commanded, "watch", check.results)
  /\ commanded' = Nobody /\ check' = NoCheck
  /\ UNCHANGED <<probing, faults, asked, pages, rows, changes, export>>

Stores ==
  /\ NobodyRuns
  /\ \E p \in Procs : \/ Appends(p) /\ NoFault
                      \/ (WriteFails(p) \/ Dies(p)) /\ Fault
  /\ UNCHANGED <<probing, asked, commanded, watching, export>>

(***************************************************************************)
(* build: the histories are read, each verified first, and then every      *)
(* stream is pinned.                                                       *)
(***************************************************************************)
\* Mutant of BuildOrder: the streams are pinned before they are read.
PinsFirst == <<[pins |-> "probes"], [pins |-> "watch"], [reads |-> "watch"], [reads |-> "probes"]>>

BuildOrder == <<[reads |-> "watch"], [reads |-> "probes"], [pins |-> "probes"], [pins |-> "watch"]>>

Fails == export' = [export EXCEPT !.at = Failed]
GoesOn(e) == export' = [e EXCEPT !.at = @ + 1, !.verified = FALSE]

StartsExport ==
  /\ export.at = 0
  /\ export' = [NoExport EXCEPT !.at = 1, !.rows = rows]

ReadsHistory(stream) ==
  CASE ~export.verified /\ Verifies(stream) -> export' = [export EXCEPT !.verified = TRUE]
    [] export.verified /\ file[stream].torn = Nobody ->
         GoesOn([export EXCEPT !.read[stream] = file[stream].lines])
    [] OTHER -> Fails

Pins(stream) ==
  IF Verifies(stream) THEN GoesOn([export EXCEPT !.heads[stream] = HeadOf(stream)]) ELSE Fails

Builds ==
  /\ export.at \in DOMAIN BuildOrder
  /\ LET part == BuildOrder[export.at]
     IN  IF "reads" \in DOMAIN part THEN ReadsHistory(part.reads) ELSE Pins(part.pins)

Exports ==
  /\ NobodyRuns
  /\ StartsExport \/ Builds
  /\ UNCHANGED <<probing, faults, store, asked, commanded, watching>>

(***************************************************************************)
(* What an export shows of a row.                                          *)
(***************************************************************************)
\* Mutant of Conclusive: a run that learned nothing counts as a no.
ConclusiveOrNot(lines, name) == {n \in DOMAIN lines : name \in DOMAIN lines[n].data}

\* history: the lines with an answer for a row.
Conclusive(lines, name) ==
  {n \in DOMAIN lines : name \in DOMAIN lines[n].data /\ lines[n].data[name] # "unknown"}

\* "agrees": the latest answer is the row's.
Disagrees(name) ==
  LET lines == export.read["probes"]
      answers == Conclusive(lines, name)
      latest == CHOOSE n \in answers : \A m \in answers : m <= n
  IN  answers # {} /\ lines[latest].data[name] # (IF name \in RowsPermit THEN "yes" ELSE "no")

Checks(name) ==
  LET lines == export.read["watch"]
  IN  {n \in DOMAIN lines : name \in DOMAIN lines[n].data /\ lines[n].data[name].verdict # "skipped"}

LastCheck(name) == CHOOSE n \in Checks(name) : \A m \in Checks(name) : m <= n

\* An unverified row has no quote to read again.
HasVerification(name) == export.rows[name].tier # "unverified" /\ Checks(name) # {}

Verification(name) == export.read["watch"][LastCheck(name)].data[name]

\* Mutant of quote_current: a check is of the quote, whenever it was made.
any_quote(name) == TRUE

quote_current(name) == Verification(name).quote = export.rows[name].quote

(***************************************************************************)
(* The world.                                                              *)
(***************************************************************************)
Change == asked = "pages" /\ changes < MaxChanges /\ changes' = changes + 1

PageChanges(url) ==
  /\ Change
  /\ NobodyRuns \/ IsWatching
  /\ \E page \in Pages \ {pages[url]} : pages' = [pages EXCEPT ![url] = page]
  /\ UNCHANGED <<probing, faults, store, asked, commanded, rows, check, export>>

RowIsEdited(name) ==
  /\ Change
  /\ NobodyRuns
  /\ \E row \in Edits \ {rows[name]} : rows' = [rows EXCEPT ![name] = row]
  /\ UNCHANGED <<probing, faults, store, asked, commanded, pages, check, export>>

Commands == (\E p \in Procs : StartsProbe(p) \/ StartsWatch(p))
              \/ RunsProbe \/ RecordsProbe \/ ChecksRow \/ RecordsWatch

World == (\E url \in DOMAIN pages : PageChanges(url)) \/ (\E name \in DOMAIN rows : RowIsEdited(name))

Next == Commands \/ Stores \/ Exports \/ World

Spec == Init /\ [][Next]_vars

(***************************************************************************)
(* Properties.                                                             *)
(***************************************************************************)
IsExported == export.at = Done

\* Where an export says that a row is contradicted by its probe, the sandbox
\* differs from the row: a lost answer, a server error or a run that learned
\* nothing is never shown as one.  Not where an approval was late.
DisagreementIsReal ==
  IsExported /\ ~late => \A name \in ProbedRows :
    Disagrees(name) => (name \in permits) # (name \in RowsPermit)

\* What the watcher says of a page is so of the page it fetched; a page that
\* could not be read is not said to lack a quote.
VerdictIsThePages ==
  \A name \in DOMAIN check.results :
    LET r == check.results[name]
    IN  /\ r.verdict \in {"verified", "verified_fragments"} => Says(r.content.text, r.quote)
        /\ r.verdict = "not_found" =>
             r.status = 200 /\ r.content.text # <<>> /\ ~Says(r.content.text, r.quote)
        /\ r.verdict = "document_changed" => r.content.digest \notin copies

\* A row shown as checked, its quote as current, was found on a page with the
\* quote it now has, or on the document it was transcribed from.
VerifiedIsOfThisQuote ==
  IsExported => \A name \in DOMAIN rows :
    HasVerification(name) /\ quote_current(name) /\ Verification(name).verdict \in CURRENT =>
      \/ Says(Verification(name).content.text, export.rows[name].quote)
      \/ Verification(name).content.digest \in copies

\* "An older export pins the history behind it": every record an export read
\* is behind its checkpoint, and the store extends the checkpoint for ever.
ExportIsPinned ==
  IsExported => \A s \in Streams :
    /\ Len(export.read[s]) <= export.heads[s].length
    /\ Extends(file[s].lines, export.heads[s])
    /\ export.read[s] = SubSeq(file[s].lines, 1, Len(export.read[s]))

=============================================================================
