----------------------------- MODULE AuditRubric -----------------------------
(***************************************************************************)
(* services/audit_rubric.py and what it takes from services/matching.py,   *)
(* services/catalog.py and services/taxonomy_map.py: what a product says   *)
(* of a spec family, which values are valid for it, and the audit's        *)
(* verdict.                                                                *)
(*                                                                         *)
(* The text of a product is, per field, a set of phrases: the stretches    *)
(* that a vocabulary or a citation may hit.  Within[p] holds the phrases   *)
(* literally present in p, which is what normalize_text and the two        *)
(* containment tests (substring, whole words) decide.                      *)
(***************************************************************************)
EXTENDS Integers, FiniteSets, Sequences

CONSTANTS
  Families,    \* spec families (SPEC_FAMILIES)
  Home,        \* those with a taxonomy attribute (TAXONOMY_HOME_FAMILIES)
  Open,        \* those of kind "open": no vocabulary of values
  Conditional, \* those that apply to some products only (CONDITIONAL_FAMILIES)
  Condition,   \* the phrases that make a conditional family apply
  Phrases,
  Within,
  Detects,     \* SpecFamily.detect
  Values,      \* SpecFamily.values in the order recovery tries them, the longest first; a
               \* format family's spans
  Labels,      \* SpecFamily.labels
  Canonical,   \* the values of a home family's taxonomy attribute
  Concentrate  \* _CONCENTRATE_TERMS

Prose == {"title", "body_html"}
Fields == Prose \union {"variants_json", "metafields", "product_type"}

Vocabulary(f) == {Values[f][i] : i \in DOMAIN Values[f]}

ASSUME RubricAssumption ==
  /\ IsFiniteSet(Families)
  /\ Home \subseteq Families /\ Open \subseteq Families /\ Conditional \subseteq Families
  /\ Within \in [Phrases -> SUBSET Phrases]
  /\ \A p \in Phrases : p \in Within[p]
  /\ \A p \in Phrases : \A q \in Within[p] : Within[q] \subseteq Within[p]
  /\ Values \in [Families -> Seq(Phrases)]

-----------------------------------------------------------------------------
(* A product row: columns of products, read as the rubric and the optimizer read them. *)

Classes == {"coffee", "equipment", "other"}

\* An attribute is a metafield of the family's key, in the reserved namespace or a custom one.
Attribute == [namespace : {"shopify", "custom"}, family : Families, filled : BOOLEAN]

\* typed and category hold the class the product_type and the category speak for.
Product == [typed : Classes, category : Classes \union {"none"}, visible : BOOLEAN,
            barcode : BOOLEAN, attributes : SUBSET Attribute,
            text : [Fields -> SUBSET Phrases]]

\* classify_product
ClassOf(product) ==
  IF product.typed # "other" THEN product.typed
  ELSE IF product.category # "none" THEN product.category ELSE "other"

SpecScored(class) == class = "coffee"
GtinApplies(class) == class = "equipment"

TextOf(product, fields) == UNION {product.text[field] : field \in fields}

Occurs(p, text) == \E q \in text : p \in Within[q]

\* applicable_families
Applicable(text) ==
  {f \in Families : f \in Conditional => \E c \in Condition[f] : Occurs(c, text)}

\* detect_hit
Detected(f, text) == \E d \in Detects[f] : Occurs(d, text)

\* structured_families: the reserved namespace only, and not an empty value.
StructuredFamilies(product) ==
  {f \in Home : \E a \in product.attributes : a.namespace = "shopify" /\ a.family = f /\ a.filled}

-----------------------------------------------------------------------------
(* Values. *)

\* validate_spec_value: the value is one of the family's; for an open family, the citation
\* carries its label and no other family's.
Valid(f, value, snippet) ==
  IF f \in Open
    THEN /\ \E l \in Labels[f] : l \in Within[snippet]
         /\ \A g \in Families \ {f} : \A l \in Labels[g] : l \notin Within[snippet]
    ELSE \E v \in Vocabulary(f) : v \in Within[value]

\* _AMBIGUOUS_VALUES
Ambiguous(v) == \E f, g \in Families : f # g /\ v \in Vocabulary(f) /\ v \in Vocabulary(g)

\* The values of a family that the text names and no other family shares.
Readable(f, text) == {v \in Vocabulary(f) : ~Ambiguous(v) /\ Occurs(v, text)}

\* recover_spec_value: only of a family that is mentioned, never of an open one; the first value
\* of those it can read.
Recoverable(f, text) == f \notin Open /\ Detected(f, text) /\ Readable(f, text) # {}

RecoveredValue(f, text) ==
  LET listed == {i \in DOMAIN Values[f] : Values[f][i] \in Readable(f, text)}
  IN  Values[f][CHOOSE i \in listed : \A j \in listed : i <= j]

\* resolve_taxonomy_value
InTaxonomy(f, value) == f \in Home /\ \E c \in Canonical[f] : c \in Within[value]

-----------------------------------------------------------------------------
(* evaluate_product *)

SpecStates == {"absent", "unstructured"}

Severities == {"none", "low", "medium", "high", "not_audited"}

\* A coverage is a numerator and a denominator; 0 of 0 is NULL.
Coverage == {c \in (0..Cardinality(Families)) \X (0..Cardinality(Families)) : c[1] <= c[2]}

\* gaps.spec: the state of every applicable family without a structured value.
IsAuditRow(a) ==
  /\ a = [class |-> a.class, severity |-> a.severity, prose |-> a.prose, taxonomy |-> a.taxonomy,
          gaps |-> [description |-> a.gaps.description, gtin |-> a.gaps.gtin, spec |-> a.gaps.spec]]
  /\ a.class \in Classes /\ a.severity \in Severities
  /\ a.prose \in Coverage /\ a.taxonomy \in Coverage
  /\ a.gaps.description \in BOOLEAN /\ a.gaps.gtin \in BOOLEAN
  /\ DOMAIN a.gaps.spec \subseteq Families
  /\ a.gaps.spec \in [DOMAIN a.gaps.spec -> SpecStates]

NoGaps == [description |-> FALSE, gtin |-> FALSE, spec |-> [f \in {} |-> "absent"]]

\* _gap_weight
Score(gaps) ==
  LET weighing(state) == Cardinality({f \in DOMAIN gaps.spec : gaps.spec[f] = state})
  IN  (IF gaps.description THEN 4 ELSE 0) + (IF gaps.gtin THEN 6 ELSE 0)
        + 2 * weighing("absent") + weighing("unstructured")

Severity(score) ==
  CASE score = 0 -> "none"
    [] score \in 1..4 -> "low"
    [] score \in 5..9 -> "medium"
    [] OTHER -> "high"

\* The gaps of a discoverable product.  What is stated in prose is title and body only; a family
\* is structured when its taxonomy attribute holds it.
GapsOf(product) ==
  LET prose == TextOf(product, Prose)
      unfilled == IF SpecScored(ClassOf(product))
                    THEN Applicable(prose) \ StructuredFamilies(product) ELSE {}
  IN  [description |-> product.text["body_html"] = {},
       gtin |-> GtinApplies(ClassOf(product)) /\ ~product.barcode,
       spec |-> [f \in unfilled |-> IF Detected(f, prose) THEN "unstructured" ELSE "absent"]]

ProseCoverage(product) ==
  LET prose == TextOf(product, Prose)
      applicable == Applicable(prose)
  IN  IF SpecScored(ClassOf(product))
        THEN <<Cardinality({f \in applicable : Detected(f, prose)}), Cardinality(applicable)>>
        ELSE <<0, 0>>

\* Counts every attribute there is, of a family that does not apply too.
TaxonomyCoverageMutAllHeld(product) ==
  LET home == Applicable(TextOf(product, Prose)) \intersect Home
  IN  IF SpecScored(ClassOf(product))
        THEN <<Cardinality(StructuredFamilies(product)), Cardinality(home)>>
        ELSE <<0, 0>>

TaxonomyCoverage(product) ==
  LET home == Applicable(TextOf(product, Prose)) \intersect Home
  IN  IF SpecScored(ClassOf(product))
        THEN <<Cardinality(StructuredFamilies(product) \intersect home), Cardinality(home)>>
        ELSE <<0, 0>>

Evaluate(product) ==
  IF ~product.visible
    THEN [class |-> ClassOf(product), severity |-> "not_audited", gaps |-> NoGaps,
          prose |-> <<0, 0>>, taxonomy |-> <<0, 0>>]
    ELSE [class |-> ClassOf(product), severity |-> Severity(Score(GapsOf(product))),
          gaps |-> GapsOf(product),
          prose |-> ProseCoverage(product), taxonomy |-> TaxonomyCoverage(product)]

=============================================================================
