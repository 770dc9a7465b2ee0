----------------------------- MODULE QuoteWatch -----------------------------
(***************************************************************************)
(* The quote watcher (registry/watch.py): whether a page still says what a *)
(* row quotes from it.                                                     *)
(*                                                                         *)
(* A text is a sequence of words, and "..." is the word a quote marks its  *)
(* gaps with: normalisation, markup and encodings are left out, so lengths *)
(* are counted in words.  A page is what one fetch returned; its text is   *)
(* empty where nothing can be read, as in a script or a picture.           *)
(***************************************************************************)
EXTENDS Integers, Sequences, SequencesExt

CONSTANTS
  MIN_FRAGMENT,    \* a fragment shorter than this could match anything
  copies           \* the digests of the committed source documents

ASSUME WatchAssumption == MIN_FRAGMENT \in Nat \ {0}

CURRENT == {"verified", "verified_fragments", "verified_by_copy"}
Verdict == CURRENT \cup {"not_found", "document_changed", "unfetchable", "skipped"}

GAP == "..."

\* A quote is the sequence of its fragments; whole, it has its gaps.
Whole(quote) == FoldLeft(LAMBDA text, fragment : text \o <<GAP>> \o fragment, quote[1], Tail(quote))

IsAt(fragment, text, i) == SubSeq(text, i, i + Len(fragment) - 1) = fragment

\* Where a fragment is found from a position on: the first place, or none.
Places(fragment, text, from) ==
  {i \in from .. Len(text) - Len(fragment) + 1 : IsAt(fragment, text, i)}

NotFound == 0
Earliest(places) == IF places = {} THEN NotFound ELSE CHOOSE i \in places : \A j \in places : i <= j

\* Mutant of After: a fragment may be anywhere, whatever came before it.
AfterAnything(text, from, fragment) ==
  IF from = NotFound \/ Places(fragment, text, 1) = {} THEN NotFound ELSE 1

\* The position after a fragment, looked for from a position on.
After(text, from, fragment) ==
  IF from = NotFound \/ Places(fragment, text, from) = {} THEN NotFound
  ELSE Earliest(Places(fragment, text, from)) + Len(fragment)

\* The position after all fragments, each looked for after the one before.
AfterAll(text, quote) ==
  LET after[n \in 0 .. Len(quote)] == IF n = 0 THEN 1 ELSE After(text, after[n - 1], quote[n])
  IN  after[Len(quote)]

match_quote(text, quote) ==
  IF Places(Whole(quote), text, 1) # {} THEN "verified"
  ELSE IF Len(quote) < 2 \/ (\E i \in DOMAIN quote : Len(quote[i]) < MIN_FRAGMENT) THEN "not_found"
  ELSE IF AfterAll(text, quote) = NotFound THEN "not_found"
  ELSE "verified_fragments"

\* Reference for match_quote: the whole of it somewhere, or its fragments at
\* places one after the other.
Says(text, quote) ==
  \/ Places(Whole(quote), text, 1) # {}
  \/ /\ Len(quote) > 1
     /\ \A i \in DOMAIN quote : Len(quote[i]) >= MIN_FRAGMENT
     /\ \E at \in [DOMAIN quote -> DOMAIN text] :
          \A i \in DOMAIN quote :
            /\ at[i] \in Places(quote[i], text, 1)
            /\ i > 1 => at[i] >= at[i - 1] + Len(quote[i - 1])

\* What is not checked: a measurement, a row without a quote, or without a
\* page.
IsSkipped(row) == row.tier \in {"observed", "unverified"} \/ row.quote = <<>> \/ row.url = ""

\* Mutant of judge: a page that cannot be read lacks the quote.
judge_unread(row, page, readable) ==
  IF page.status # 200 THEN "not_found"
  ELSE IF page.kind = "pdf" /\ page.digest \in copies /\ (~readable \/ page.text = <<>>)
    THEN "verified_by_copy"
  ELSE match_quote(page.text, row.quote)

\* A document without a text to read is known by its bytes, if copies are kept.
JudgeByCopy(page, readable) ==
  IF page.digest \in copies THEN "verified_by_copy"
  ELSE IF readable /\ copies # {} THEN "document_changed"
  ELSE "unfetchable"

\* "readable": pdftotext is there and made something of the document.
judge(row, page, readable) ==
  LET noText == page.text = <<>>
  IN  IF page.status # 200 THEN "unfetchable"
      ELSE IF page.kind = "pdf" /\ (~readable \/ noText) THEN JudgeByCopy(page, readable)
      ELSE IF noText THEN "unfetchable"
      ELSE match_quote(page.text, row.quote)

=============================================================================
