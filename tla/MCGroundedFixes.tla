--------------------------- MODULE MCGroundedFixes ---------------------------
(***************************************************************************)
(* A small vocabulary for TLC, cut out of SPEC_FAMILIES: a home family, one *)
(* more of which some values are no detection phrases, a conditional one,  *)
(* an open one and one without a taxonomy attribute, which shares a value  *)
(* with the first.                                                         *)
(***************************************************************************)
EXTENDS GroundedFixes

CONSTANT null

Vocab == {"roast_level", "origin", "decaffeination_method", "tasting_notes", "brew_method"}

Text == {"medium roast", "medium", "decaf", "espresso", "single origin", "panama", "swiss water",
         "notes of cocoa", "cocoa", "roast level", "brew method", "some words"}

Parts == [p \in Text |-> {p} \union CASE p = "medium roast" -> {"medium"}
                                      [] p = "notes of cocoa" -> {"cocoa"}
                                      [] OTHER -> {}]

ByFamily(roast, origin, decaf, notes, brew) ==
  [f \in Vocab |-> CASE f = "roast_level" -> roast [] f = "origin" -> origin
                     [] f = "decaffeination_method" -> decaf [] f = "tasting_notes" -> notes
                     [] OTHER -> brew]

DetectPhrases == ByFamily({"medium roast", "decaf", "roast level"}, {"single origin"}, {"swiss water"},
                          {"notes of cocoa", "cocoa"}, {"espresso"})
ValuePhrases == ByFamily(<<"medium", "espresso", "decaf">>, <<"panama">>, <<"swiss water">>, <<>>, <<"espresso">>)
LabelPhrases == ByFamily({"roast level"}, {"single origin"}, {}, {"notes of cocoa"}, {"brew method"})
LinePhrases == ByFamily({"roast level"}, {}, {}, {}, {"brew method"})
TaxonomyPhrases == [f \in {"roast_level", "origin", "decaffeination_method"} |->
                      CASE f = "roast_level" -> {"medium"} [] f = "origin" -> {"panama"} [] OTHER -> {"swiss water"}]
DecafOnly == [f \in {"decaffeination_method"} |-> {"decaf"}]
InText(title, body, variants) ==
  [f \in Fields |-> CASE f = "title" -> title [] f = "body_html" -> body
                      [] f = "variants_json" -> variants [] OTHER -> {}]

Coffee == [typed |-> "coffee", category |-> "none", visible |-> TRUE, barcode |-> FALSE,
           attributes |-> {}, text |-> InText({"medium roast"}, {}, {"panama"})]

Holds(namespace, f) == [namespace |-> namespace, family |-> f, filled |-> TRUE]

Shop ==
  { Coffee,
    \* Decaf says the product type's neighbour, a variant says how.
    [Coffee EXCEPT !.category = "coffee",
                   !.text = InText({"decaf"}, {"single origin", "espresso"}, {"swiss water"})],
    \* Every attribute is there, the decaffeination method on what is no decaf too.
    [Coffee EXCEPT !.category = "coffee", !.attributes = {Holds("shopify", f) : f \in DOMAIN TaxonomyPhrases},
                   !.text = InText({"some words"}, {"notes of cocoa"}, {})],
    \* An attribute of the merchant's own and an empty one.
    [Coffee EXCEPT !.attributes = {Holds("custom", "origin"), [Holds("shopify", "roast_level") EXCEPT !.filled = FALSE]},
                   !.text = InText({"some words"}, {"single origin"}, {})],
    [Coffee EXCEPT !.visible = FALSE],
    [Coffee EXCEPT !.typed = "equipment"] }

Claim(value, field, snippet) == [value |-> value, field |-> field, snippet |-> snippet, ambiguous |-> FALSE]

\* What the model says of a family unless it says nothing: right or an invention, by product; a
\* value of another family; two fields that disagree.
Offer(f) ==
  CASE f = "roast_level" -> Claim("medium", "title", "medium roast")
    [] f = "origin" -> Claim("panama", "variants_json", "panama")
    [] f = "tasting_notes" -> Claim("cocoa", "body_html", "notes of cocoa")
    [] f = "brew_method" -> Claim("medium", "title", "medium roast")
    [] OTHER -> [Claim("swiss water", "variants_json", "swiss water") EXCEPT !.ambiguous = TRUE]

\* A word of another family as a tasting note: nothing around it says so.
Unlabelled(f) ==
  IF f = "tasting_notes" THEN Claim("espresso", "body_html", "espresso") ELSE Claim(null, null, null)

AnyOfThem ==
  {[f \in Vocab |-> IF f \in told THEN Offer(f) ELSE Claim(null, null, null)] : told \in SUBSET Vocab}
    \union {[f \in Vocab |-> Unlabelled(f)]}

=============================================================================
