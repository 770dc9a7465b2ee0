----------------------------- MODULE MCRegistry -----------------------------
(***************************************************************************)
(* Values for the constants of Registry in the run of TLC: one row quoting *)
(* two fragments of a page, one quoting a document of which a copy is      *)
(* kept, and one nobody established.                                       *)
(***************************************************************************)
EXTENDS Registry, TLC

CONSTANTS p1, p2

Two == {p1, p2}
Alike == Permutations(Two)

BothStreams == {"probes", "watch"}

Fragments == <<<<"block", "holds">>, <<"debit", "takes">>>>
Sentence == <<<<"debit", "takes", "part">>>>

Row(tier, url, quote) == [tier |-> tier, url |-> url, quote |-> quote]

TwoRows == [funds_held_in_customer_account |-> Row("secondary", "docs", Fragments),
            partial_debit |-> Row("secondary", "docs", Sentence)]

NewRows == {Row("secondary", "docs", Fragments), Row("secondary", "docs", Sentence),
            Row("unverified", "", <<>>)}

Page(status, kind, text, digest) ==
  [status |-> status, kind |-> kind, text |-> text, digest |-> digest]

SomePages ==
  {Page(200, "html", <<"block", "holds", "debit", "takes", "part">>, "d1"),
   Page(200, "html", <<"debit", "takes", "part", "block", "holds">>, "d2"),
   Page(200, "pdf", <<>>, "copy"), Page(200, "pdf", <<>>, "d3"),
   Page(200, "html", <<>>, "d4"), Page(404, "html", <<"not", "here">>, "d5")}

Committed == {"copy"}

=============================================================================
