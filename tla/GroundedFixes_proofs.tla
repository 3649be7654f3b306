------------------------ MODULE GroundedFixes_proofs ------------------------
(***************************************************************************)
(* What holds of the proposals for any shop, vocabulary, language model    *)
(* and number of runs and failures.                                        *)
(***************************************************************************)
EXTENDS GroundedFixes, FiniteSetTheorems, WellFoundedInduction, TLAPS

-----------------------------------------------------------------------------
(* Phrases. *)

LEMMA SmallestNat ==
  ASSUME NEW S \in SUBSET Nat, S # {}
  PROVE  \E i \in S : \A j \in S : i <= j
<1>1. \E R : IsWellFoundedOn(R, Nat) /\ \A i, j \in Nat : i < j => <<i, j>> \in R
  <2> DEFINE R == OpToRel(<, Nat)
  <2>1. IsWellFoundedOn(R, Nat)
    BY NatLessThanWellFounded
  <2>2. \A i, j \in Nat : i < j => <<i, j>> \in R
    BY DEF OpToRel
  <2> HIDE DEF R
  <2> QED
    BY <2>1, <2>2, Zenon
<1>2. PICK R : IsWellFoundedOn(R, Nat) /\ \A i, j \in Nat : i < j => <<i, j>> \in R
  BY <1>1, Zenon
<1>3. \E i \in S : \A j \in S : ~ (<<j, i>> \in R)
  <2>1. IsWellFoundedOn(R, Nat)
    BY <1>2, Zenon
  <2>2. S \subseteq Nat
    OBVIOUS
  <2>3. \A T : T \subseteq Nat /\ T # {} => \E x \in T : \A y \in T : ~ (<<y, x>> \in R)
    BY <2>1, WFMin, Zenon
  <2> QED
    BY <2>2, <2>3
<1>4. \A i, j \in S : ~ (<<j, i>> \in R) => i <= j
  BY <1>2
<1> QED
  BY <1>3, <1>4, Zenon

\* The columns of a product.
LEMMA ProductTyped ==
  ASSUME NEW product \in Product
  PROVE  /\ product.typed \in Classes /\ product.category \in Classes \union {"none"}
         /\ product.visible \in BOOLEAN /\ product.barcode \in BOOLEAN
         /\ product.attributes \in SUBSET Attribute
         /\ product.text \in [Fields -> SUBSET Phrases]
BY DEF Product

\* Literal presence is transitive: what is in a phrase of a text is in the text.
LEMMA OccursWithin ==
  ASSUME NEW text \in SUBSET Phrases, NEW p, Occurs(p, text), NEW v \in Within[p]
  PROVE  p \in Phrases /\ v \in Phrases /\ Occurs(v, text)
<1>1. PICK q \in text : p \in Within[q]
  BY DEF Occurs
<1>2. q \in Phrases /\ p \in Phrases
  BY <1>1, RubricAssumption
<1>3. v \in Within[q] /\ v \in Phrases
  BY <1>1, <1>2, RubricAssumption
<1> QED
  BY <1>2, <1>3 DEF Occurs

\* What some field says is said of the product, and the converse.
LEMMA SaidInAField ==
  ASSUME NEW product \in Product, NEW p
  PROVE  /\ Said(product) \in SUBSET Phrases
         /\ Occurs(p, Said(product)) <=> \E field \in Fields : Occurs(p, product.text[field])
BY DEF Said, TextOf, Occurs, Product

LEMMA VocabularyTyped ==
  ASSUME NEW f \in Families
  PROVE  Vocabulary(f) \subseteq Phrases /\ DOMAIN Values[f] \subseteq Nat
<1>1. Values[f] \in Seq(Phrases)
  BY RubricAssumption
<1>2. DOMAIN Values[f] = 1..Len(Values[f]) /\ \A i \in DOMAIN Values[f] : Values[f][i] \in Phrases
  BY <1>1
<1> QED
  BY <1>1, <1>2 DEF Vocabulary

\* The scanner returns a value it read, whenever it could read one (recover_spec_value).
LEMMA RecoveredIsReadable ==
  ASSUME NEW f \in Families, NEW text, Readable(f, text) # {}
  PROVE  RecoveredValue(f, text) \in Readable(f, text)
<1> DEFINE listed == {i \in DOMAIN Values[f] : Values[f][i] \in Readable(f, text)}
<1>1. listed # {}
  <2>1. PICK v \in Readable(f, text) : TRUE
    OBVIOUS
  <2>2. PICK i \in DOMAIN Values[f] : v = Values[f][i]
    BY <2>1 DEF Readable, Vocabulary
  <2> QED
    BY <2>1, <2>2
<1>2. listed \in SUBSET Nat
  BY VocabularyTyped
<1>3. \E i \in listed : \A j \in listed : i <= j
  <2> HIDE DEF listed
  <2> QED  BY <1>1, <1>2, SmallestNat
<1>4. (CHOOSE i \in listed : \A j \in listed : i <= j) \in listed
  <2> HIDE DEF listed
  <2> QED  BY <1>3
<1> QED
  BY <1>4 DEF RecoveredValue

\* Every value the scanner recovers passes the guards, so that recovery fails only where
\* nothing can be read.
LEMMA RecoveryPassesTheGuards ==
  ASSUME NEW f \in Families, NEW product \in Product, Recoverable(f, Said(product))
  PROVE  Recovers(f, product)
<1> DEFINE value == RecoveredValue(f, Said(product))
           c == RecoveredCandidate(f, product)
<1>1. value \in Readable(f, Said(product))
  BY RecoveredIsReadable DEF Recoverable
<1>2. value \in Vocabulary(f) /\ value \in Phrases /\ Occurs(value, Said(product))
  <2> HIDE DEF value
  <2> QED  BY <1>1, VocabularyTyped DEF Readable
<1>3. value \in Within[value] /\ value # NULL
  <2> HIDE DEF value
  <2> QED  BY <1>2, RubricAssumption, GroundedAssumption
<1>4. \E field \in Fields : Occurs(value, product.text[field])
  <2> HIDE DEF value
  <2> QED  BY <1>2, SaidInAField
<1>5. /\ c.value = value /\ c.snippet = value /\ c.ambiguous = FALSE
      /\ c.field = CHOOSE field \in Fields : Occurs(value, product.text[field])
  BY DEF RecoveredCandidate
<1> HIDE DEF value, c
<1>6. c.field \in Fields /\ Occurs(value, product.text[c.field])
  BY <1>4, <1>5
<1>7. Grounded(c, product)
  BY <1>3, <1>5, <1>6 DEF Grounded
<1>8. Valid(f, c.value, c.snippet)
  BY <1>2, <1>3, <1>5 DEF Valid, Recoverable
<1> QED
  BY <1>7, <1>8 DEF Recovers, Accepts, c

-----------------------------------------------------------------------------
(* One batch: what run_optimizer inserts, whatever the model answered. *)

LEMMA TargetsTyped ==
  ASSUME NEW product, NEW verdict
  PROVE  Targets(product, verdict) \in SUBSET Families
BY DEF Targets, Applicable

\* Nothing is chosen that did not pass the guards.
LEMMA ChosenIsAccepted ==
  ASSUME NEW targets, NEW answer, NEW product, NEW f \in DOMAIN Chosen(targets, answer, product)
  PROVE  f \in targets /\ Accepts(f, Chosen(targets, answer, product)[f], product)
BY DEF Chosen, Recovers

\* An accepted candidate is a candidate, and its value is in the field it cites.
LEMMA AcceptedIsLiteral ==
  ASSUME NEW product \in Product, NEW f, NEW c, Accepts(f, c, product)
  PROVE  /\ c.field \in Fields /\ c.snippet \in Phrases /\ c.value \in Phrases
         /\ Occurs(c.value, product.text[c.field])
<1>1. /\ c.field \in Fields /\ Occurs(c.snippet, product.text[c.field])
      /\ c.value \in Within[c.snippet]
  BY DEF Accepts, Grounded
<1>2. product.text[c.field] \in SUBSET Phrases
  BY <1>1, ProductTyped
<1>3. c.snippet \in Phrases /\ c.value \in Phrases /\ Occurs(c.value, product.text[c.field])
  BY <1>1, <1>2, OccursWithin
<1> QED
  BY <1>1, <1>3

LEMMA ChosenTyped ==
  ASSUME NEW product \in Product, NEW targets \in SUBSET Families, NEW answer \in Answers,
         NEW f \in DOMAIN Chosen(targets, answer, product)
  PROVE  Chosen(targets, answer, product)[f] \in Candidate
<1> DEFINE c == Chosen(targets, answer, product)[f]
<1>1. f \in targets /\ f \in Families /\ Accepts(f, c, product)
  BY ChosenIsAccepted
<1>2. c = IF Accepts(f, answer[f], product) THEN answer[f] ELSE RecoveredCandidate(f, product)
  BY DEF Chosen
<1>3. answer[f] \in Candidate
  BY <1>1, GroundedAssumption
<1> HIDE DEF c
<1>4. CASE c = answer[f]
  BY <1>3, <1>4 DEF c
<1>5. CASE c = RecoveredCandidate(f, product)
  <2>1. c.field \in Fields /\ c.snippet \in Phrases /\ c.value \in Phrases
    BY <1>1, AcceptedIsLiteral
  <2>2. c = [value |-> c.value, field |-> c.field, snippet |-> c.snippet, ambiguous |-> FALSE]
    BY <1>5 DEF RecoveredCandidate
  <2>3. \A v, p \in Phrases, field \in Fields :
          [value |-> v, field |-> field, snippet |-> p, ambiguous |-> FALSE] \in Candidate
    BY DEF Candidate
  <2>4. c \in Candidate
    BY <2>1, <2>2, <2>3
  <2> QED
    BY <2>4 DEF c
<1> QED
  BY <1>2, <1>4, <1>5

LEMMA ReasonTyped ==
  ASSUME NEW f, NEW c, NEW product, NEW verdict
  PROVE  TodoReason(f, c, product, verdict) \in Reasons
<1>1. DropReason(f, c, product) \in {"absent", "fabrication", "mis_assignment"}
  BY DEF DropReason
<1> QED
  BY <1>1 DEF TodoReason, Reasons

LEMMA BatchFields ==
  ASSUME NEW product, NEW verdict, NEW answer, NEW lines, NEW b,
         b = Propose(product, verdict, answer, lines)
  PROVE  /\ b.source = product /\ b.audit = verdict /\ b.carried = lines
         /\ b.values = Chosen(Targets(product, verdict), answer, product)
         /\ b.taxonomy = {f \in DOMAIN b.values : TakesTaxonomy(f, b.values[f], product)}
         /\ b.described = DOMAIN b.values \ b.taxonomy
         /\ DOMAIN b.todos = Targets(product, verdict) \ DOMAIN b.values
         /\ \A f \in DOMAIN b.todos : b.todos[f] = TodoReason(f, answer[f], product, verdict)
         /\ b.category \in {"none", "coffee", "concentrate"}
         /\ b.missing \subseteq {"body_html", "gtin"}
         /\ "body_html" \in b.missing => b.described = {}
         /\ DOMAIN b.values \subseteq Targets(product, verdict)
<1>1. Propose(product, verdict, answer, lines).category \in {"none", "coffee", "concentrate"}
  BY DEF Propose, InferCategory
<1>2. DOMAIN Chosen(Targets(product, verdict), answer, product) \subseteq Targets(product, verdict)
  BY DEF Chosen
<1> QED
  BY <1>1, <1>2 DEF Propose, Described

\* The batch as the four properties of the module see it.
Accounted(b) ==
  /\ b.taxonomy \union b.described \union DOMAIN b.todos = Targets(b.source, b.audit)
  /\ b.taxonomy \intersect b.described = {}
  /\ (b.taxonomy \union b.described) \intersect DOMAIN b.todos = {}
  /\ "body_html" \in b.missing => b.described = {}

\* What FillIsGrounded says of an open family.
CitedUnderItsLabel(f, c, product) ==
  /\ Occurs(c.snippet, product.text[c.field]) /\ c.value \in Within[c.snippet]
  /\ \E l \in Labels[f] : l \in Within[c.snippet]
  /\ \A g \in Families \ {f} : \A l \in Labels[g] : l \notin Within[c.snippet]

Filled(b) ==
  \A f \in b.taxonomy \union b.described :
    /\ Occurs(b.values[f].value, b.source.text[b.values[f].field])
    /\ f \notin Open => \E v \in Vocabulary(f) : v \in Within[b.values[f].value]
    /\ f \in Open => CitedUnderItsLabel(f, b.values[f], b.source)
    /\ f \in b.taxonomy => b.source.category # "none" /\ InTaxonomy(f, b.values[f].value)

Absent(b) ==
  \A f \in DOMAIN b.todos :
    b.todos[f] = "absent" =>
      /\ \A field \in Fields : ~Detected(f, b.source.text[field])
      /\ f \in DOMAIN b.audit.gaps.spec => b.audit.gaps.spec[f] = "absent"

Missed(b) == \A f \in DOMAIN b.todos : ~Recoverable(f, Said(b.source))

\* The accounting run_optimizer asserts at its end.
LEMMA BatchAccounted ==
  ASSUME NEW product, NEW verdict, NEW answer, NEW lines
  PROVE  Accounted(Propose(product, verdict, answer, lines))
<1> DEFINE b == Propose(product, verdict, answer, lines)
<1> HIDE DEF b
<1>1. b = Propose(product, verdict, answer, lines)
  BY DEF b
<1>2. Accounted(b)
  BY <1>1, BatchFields DEF Accounted
<1> QED
  BY <1>1, <1>2

LEMMA BatchFilled ==
  ASSUME NEW product \in Product, NEW verdict, NEW answer, NEW lines
  PROVE  Filled(Propose(product, verdict, answer, lines))
<1> DEFINE b == Propose(product, verdict, answer, lines)
<1> HIDE DEF b
<1>1. b = Propose(product, verdict, answer, lines)
  BY DEF b
<1>2. /\ b.source = product /\ b.values = Chosen(Targets(product, verdict), answer, product)
      /\ b.taxonomy = {f \in DOMAIN b.values : TakesTaxonomy(f, b.values[f], product)}
      /\ b.described = DOMAIN b.values \ b.taxonomy
  BY <1>1, BatchFields
<1>3. ASSUME NEW f \in b.taxonomy \union b.described
      PROVE  Accepts(f, b.values[f], product)
  BY <1>2, ChosenIsAccepted
<1>4. ASSUME NEW f \in b.taxonomy \union b.described
      PROVE  /\ Occurs(b.values[f].value, b.source.text[b.values[f].field])
             /\ f \notin Open => \E v \in Vocabulary(f) : v \in Within[b.values[f].value]
             /\ f \in Open => CitedUnderItsLabel(f, b.values[f], b.source)
  BY <1>2, <1>3, AcceptedIsLiteral DEF Accepts, Grounded, Valid, CitedUnderItsLabel
<1>5. ASSUME NEW f \in b.taxonomy
      PROVE  b.source.category # "none" /\ InTaxonomy(f, b.values[f].value)
  BY <1>2 DEF TakesTaxonomy
<1>6. Filled(b)
  BY <1>4, <1>5 DEF Filled
<1> QED
  BY <1>1, <1>6

LEMMA BatchAbsent ==
  ASSUME NEW product \in Product, NEW verdict, IsAuditRow(verdict), NEW answer, NEW lines
  PROVE  Absent(Propose(product, verdict, answer, lines))
<1> DEFINE b == Propose(product, verdict, answer, lines)
<1> HIDE DEF b
<1>1. b = Propose(product, verdict, answer, lines)
  BY DEF b
<1>2. ASSUME NEW f \in DOMAIN b.todos, b.todos[f] = "absent"
      PROVE  /\ ~Detected(f, Said(product))
             /\ ~ (f \in DOMAIN verdict.gaps.spec /\ verdict.gaps.spec[f] = "unstructured")
  <2>1. TodoReason(f, answer[f], product, verdict) = "absent"
    BY <1>1, <1>2, BatchFields
  <2> QED
    BY <2>1 DEF TodoReason
<1>3. ASSUME NEW f \in DOMAIN b.todos, b.todos[f] = "absent", NEW field \in Fields
      PROVE  ~Detected(f, product.text[field])
  BY <1>2, <1>3, SaidInAField DEF Detected
<1>4. ASSUME NEW f \in DOMAIN b.todos, b.todos[f] = "absent", f \in DOMAIN verdict.gaps.spec
      PROVE  verdict.gaps.spec[f] = "absent"
  <2>1. verdict.gaps.spec[f] \in SpecStates
    BY <1>4 DEF IsAuditRow
  <2> QED
    BY <1>2, <1>4, <2>1 DEF SpecStates
<1>5. b.source = product /\ b.audit = verdict
  BY <1>1, BatchFields
<1>6. Absent(b)
  BY <1>3, <1>4, <1>5 DEF Absent
<1> QED
  BY <1>1, <1>6

LEMMA BatchMissed ==
  ASSUME NEW product \in Product, NEW verdict, NEW answer, NEW lines
  PROVE  Missed(Propose(product, verdict, answer, lines))
<1> DEFINE b == Propose(product, verdict, answer, lines)
<1> HIDE DEF b
<1>1. b = Propose(product, verdict, answer, lines)
  BY DEF b
<1>2. b.source = product
  BY <1>1, BatchFields
<1>3. ASSUME NEW f \in DOMAIN b.todos
      PROVE  ~Recoverable(f, Said(product))
  <2>1. f \in Targets(product, verdict) /\ f \notin DOMAIN b.values /\ f \in Families
    BY <1>1, BatchFields, TargetsTyped
  <2>2. b.values = Chosen(Targets(product, verdict), answer, product)
    BY <1>1, BatchFields
  <2>3. ~Recovers(f, product)
    BY <2>1, <2>2 DEF Chosen
  <2> QED
    BY <2>1, <2>3, RecoveryPassesTheGuards
<1>4. Missed(b)
  BY <1>2, <1>3 DEF Missed
<1> QED
  BY <1>1, <1>4

LEMMA BatchTyped ==
  ASSUME NEW product \in Product, NEW verdict, IsAuditRow(verdict), NEW answer \in Answers,
         NEW lines \in SUBSET Families
  PROVE  IsBatch(Propose(product, verdict, answer, lines))
<1> DEFINE b == Propose(product, verdict, answer, lines)
<1> HIDE DEF b
<1>1. b = Propose(product, verdict, answer, lines)
  BY DEF b
<1>2. Targets(product, verdict) \in SUBSET Families
  BY TargetsTyped
<1>3. \A f \in DOMAIN b.values : b.values[f] \in Candidate
  BY <1>1, <1>2, BatchFields, ChosenTyped
<1>4. \A f \in DOMAIN b.todos : b.todos[f] \in Reasons
  BY <1>1, BatchFields, ReasonTyped
<1>5. /\ b.source = product /\ b.audit = verdict /\ b.carried = lines
      /\ b.taxonomy \subseteq DOMAIN b.values /\ b.described \subseteq DOMAIN b.values
      /\ DOMAIN b.values \subseteq Families /\ DOMAIN b.todos \subseteq Families
      /\ b.category \in {"none", "coffee", "concentrate"}
      /\ b.missing \subseteq {"body_html", "gtin"}
  BY <1>1, <1>2, BatchFields
<1>6. IsBatch(b)
  BY <1>3, <1>4, <1>5 DEF IsBatch
<1> QED
  BY <1>1, <1>6

-----------------------------------------------------------------------------
(* The audit. *)

\* A coverage never exceeds one.
LEMMA CoverageTyped ==
  ASSUME NEW S \in SUBSET Families, NEW T \in SUBSET S
  PROVE  <<Cardinality(T), Cardinality(S)>> \in Coverage
<1>1. IsFiniteSet(Families) /\ IsFiniteSet(S) /\ IsFiniteSet(T)
  BY RubricAssumption, FS_Subset
<1>2. Cardinality(T) \in Nat /\ Cardinality(S) \in Nat /\ Cardinality(Families) \in Nat
  BY <1>1, FS_CardinalityType
<1>3. Cardinality(T) <= Cardinality(S) /\ Cardinality(S) <= Cardinality(Families)
  BY <1>1, FS_Subset
<1> QED
  BY <1>2, <1>3 DEF Coverage

LEMMA NoCoverageTyped == <<0, 0>> \in Coverage
<1>1. IsFiniteSet(Families)
  BY RubricAssumption
<1>2. Cardinality(Families) \in Nat
  BY <1>1, FS_CardinalityType
<1> QED
  BY <1>2 DEF Coverage

LEMMA EvaluateTyped ==
  ASSUME NEW product \in Product
  PROVE  IsAuditRow(Evaluate(product))
<1> DEFINE prose == TextOf(product, Prose)
<1>1. Applicable(prose) \in SUBSET Families
  BY DEF Applicable
<1>2. ProseCoverage(product) \in Coverage
  <2>1. {f \in Applicable(prose) : Detected(f, prose)} \in SUBSET Applicable(prose)
    OBVIOUS
  <2>2. <<Cardinality({f \in Applicable(prose) : Detected(f, prose)}), Cardinality(Applicable(prose))>>
          \in Coverage
    BY <1>1, <2>1, CoverageTyped
  <2> QED
    BY <2>2, NoCoverageTyped DEF ProseCoverage
<1>3. TaxonomyCoverage(product) \in Coverage
  <2> DEFINE home == Applicable(prose) \intersect Home
  <2>1. home \in SUBSET Families /\ StructuredFamilies(product) \intersect home \in SUBSET home
    BY <1>1
  <2>2. <<Cardinality(StructuredFamilies(product) \intersect home), Cardinality(home)>> \in Coverage
    BY <2>1, CoverageTyped
  <2> QED
    BY <2>2, NoCoverageTyped DEF TaxonomyCoverage
<1>4. ClassOf(product) \in Classes
  BY ProductTyped DEF ClassOf, Classes
<1>5. \A score : Severity(score) \in Severities
  BY DEF Severity, Severities
<1>6. \A gaps \in {NoGaps, GapsOf(product)} :
        /\ gaps = [description |-> gaps.description, gtin |-> gaps.gtin, spec |-> gaps.spec]
        /\ gaps.description \in BOOLEAN /\ gaps.gtin \in BOOLEAN
        /\ DOMAIN gaps.spec \subseteq Families
        /\ gaps.spec \in [DOMAIN gaps.spec -> SpecStates]
  <2>1. /\ NoGaps = [description |-> NoGaps.description, gtin |-> NoGaps.gtin, spec |-> NoGaps.spec]
        /\ NoGaps.description \in BOOLEAN /\ NoGaps.gtin \in BOOLEAN
        /\ DOMAIN NoGaps.spec \subseteq Families
        /\ NoGaps.spec \in [DOMAIN NoGaps.spec -> SpecStates]
    BY DEF NoGaps, SpecStates
  <2> DEFINE gaps == GapsOf(product)
  <2>2. /\ gaps = [description |-> gaps.description, gtin |-> gaps.gtin, spec |-> gaps.spec]
        /\ gaps.description \in BOOLEAN /\ gaps.gtin \in BOOLEAN
    BY ProductTyped DEF GapsOf, GtinApplies
  <2>3. DOMAIN gaps.spec \subseteq Families /\ gaps.spec \in [DOMAIN gaps.spec -> SpecStates]
    BY <1>1 DEF GapsOf, SpecStates
  <2> QED
    BY <2>1, <2>2, <2>3
<1>7. \E gaps \in {NoGaps, GapsOf(product)}, severity \in Severities, c, d \in Coverage :
        Evaluate(product) = [class |-> ClassOf(product), severity |-> severity, gaps |-> gaps,
                             prose |-> c, taxonomy |-> d]
  <2>1. CASE ~product.visible
    BY <2>1, NoCoverageTyped DEF Evaluate, Severities
  <2>2. CASE product.visible
    BY <2>2, <1>2, <1>3, <1>5 DEF Evaluate
  <2> QED
    BY <2>1, <2>2
<1> QED
  BY <1>4, <1>6, <1>7 DEF IsAuditRow

-----------------------------------------------------------------------------
(* The inductive invariant. *)

\* A batch that is there is one that run_optimizer made of what it says it was made of.
Proposed(b) == \E answer \in Answers : b = Propose(b.source, b.audit, answer, b.carried)

\* A job that waits for the model holds a product and a verdict.
Extracting(r) ==
  job[r].pc = "extract" => job[r].source \in Product /\ IsAuditRow(job[r].audit)

\* A job that is past the audit of its product has that audit to read.
AuditedFirst(r) ==
  job[r].pc = "read" => \A p \in Products : IsNext(p, job[r].todo) => IsAuditRow(audit[p])

IInv ==
  /\ TypeOK
  /\ \A r \in Runs : Extracting(r) /\ AuditedFirst(r)
  /\ \A p \in Products : fixes[p] # NoBatch => Proposed(fixes[p])

LEMMA InvInit == Init => IInv
<1> SUFFICES ASSUME Init PROVE IInv
  OBVIOUS
<1>1. TypeOK
  <2>1. row \in [Products -> Product]
    BY GroundedAssumption DEF Init
  <2>2. faults \in 0..MaxFaults /\ changes \in 0..MaxChanges
    BY GroundedAssumption DEF Init
  <2>3. \A r \in Runs :
       /\ job[r].pc \in JobPc /\ job[r].todo \subseteq Products
       /\ job[r].source \in Product \union {NULL} /\ job[r].carried \subseteq Families
       /\ job[r].audit = NoAudit
    BY DEF Init, NoJob, JobPc
  <2> QED
    BY <2>1, <2>2, <2>3 DEF Init, TypeOK
<1>2. \A r \in Runs : job[r].pc = "idle"
  BY DEF Init, NoJob
<1>3. \A p \in Products : fixes[p] = NoBatch
  BY DEF Init
<1> QED
  BY <1>1, <1>2, <1>3 DEF IInv, Extracting, AuditedFirst

\* The parts of the invariant, by variable.
JobOK(j) ==
  /\ j.pc \in JobPc /\ j.todo \subseteq Products
  /\ j.source \in Product \union {NULL} /\ j.carried \subseteq Families
  /\ j.audit = NoAudit \/ IsAuditRow(j.audit)
  /\ j.pc = "extract" => j.source \in Product /\ IsAuditRow(j.audit)

JobsOK == DOMAIN job = Runs /\ \A r \in Runs : JobOK(job[r]) /\ AuditedFirst(r)

AuditsOK == DOMAIN audit = Products /\ \A p \in Products : audit[p] = NoAudit \/ IsAuditRow(audit[p])

FixesOK ==
  /\ DOMAIN fixes = Products
  /\ \A p \in Products : fixes[p] = NoBatch \/ (IsBatch(fixes[p]) /\ Proposed(fixes[p]))

RestOK ==
  /\ row \in [Products -> Product]
  /\ runStatus \in [Runs -> {"none", "running", "completed", "failed"}]
  /\ carried \in [Products -> SUBSET Families]
  /\ faults \in 0..MaxFaults /\ changes \in 0..MaxChanges

LEMMA InvParts == IInv <=> JobsOK /\ AuditsOK /\ FixesOK /\ RestOK
<1>1. IInv => JobsOK /\ AuditsOK /\ FixesOK /\ RestOK
  BY DEF IInv, TypeOK, Extracting, JobsOK, JobOK, AuditsOK, FixesOK, RestOK
<1>2. JobsOK /\ AuditsOK /\ FixesOK /\ RestOK => IInv
  BY DEF IInv, TypeOK, Extracting, JobsOK, JobOK, AuditsOK, FixesOK, RestOK
<1> QED
  BY <1>1, <1>2

LEMMA InvPartsPrime == IInv' <=> JobsOK' /\ AuditsOK' /\ FixesOK' /\ RestOK'
<1>1. IInv' => JobsOK' /\ AuditsOK' /\ FixesOK' /\ RestOK'
  BY DEF IInv, TypeOK, Extracting, JobsOK, JobOK, AuditsOK, FixesOK, RestOK
<1>2. JobsOK' /\ AuditsOK' /\ FixesOK' /\ RestOK' => IInv'
  BY DEF IInv, TypeOK, Extracting, JobsOK, JobOK, AuditsOK, FixesOK, RestOK
<1> QED
  BY <1>1, <1>2

\* One job moves; audits are only added.
LEMMA JobMoves ==
  ASSUME JobsOK, NEW r \in Runs, NEW j, JobOK(j), job' = [job EXCEPT ![r] = j],
         \A p \in Products : IsAuditRow(audit[p]) => IsAuditRow(audit'[p]),
         j.pc = "read" => \A p \in Products : IsNext(p, j.todo) => IsAuditRow(audit'[p])
  PROVE  JobsOK'
<1>1. DOMAIN job' = Runs /\ job'[r] = j /\ \A q \in Runs \ {r} : job'[q] = job[q]
  BY DEF JobsOK
<1>2. \A q \in Runs : JobOK(job'[q])
  BY <1>1 DEF JobsOK
<1>3. ASSUME NEW q \in Runs, NEW p \in Products, job'[q].pc = "read", IsNext(p, job'[q].todo)
      PROVE  IsAuditRow(audit'[p])
  BY <1>1, <1>3 DEF JobsOK, AuditedFirst
<1>4. \A q \in Runs : JobOK(job[q])'
  BY <1>2 DEF JobOK
<1> QED
  BY <1>1, <1>3, <1>4 DEF JobsOK, AuditedFirst

\* A job that holds nothing of a product yet.
LEMMA FreshJob ==
  ASSUME NEW pc \in JobPc \ {"read", "extract"}, NEW todo \in SUBSET Products
  PROVE  /\ JobOK([NoJob EXCEPT !.pc = pc, !.todo = todo])
         /\ JobOK([NoJob EXCEPT !.pc = pc])
         /\ [NoJob EXCEPT !.pc = pc, !.todo = todo].pc = pc
         /\ [NoJob EXCEPT !.pc = pc].pc = pc
BY DEF JobOK, NoJob

\* A job that moves on with what it holds.
LEMMA SameJob ==
  ASSUME JobsOK, NEW r \in Runs, NEW pc \in JobPc \ {"extract"}
  PROVE  LET j == [job[r] EXCEPT !.pc = pc] IN JobOK(j) /\ j.pc = pc /\ j.todo = job[r].todo
BY DEF JobsOK, JobOK

LEMMA FaultCounted ==
  ASSUME RestOK, NEW kind, Fault(kind)
  PROVE  faults' \in 0..MaxFaults
BY GroundedAssumption DEF RestOK, Fault

LEMMA ChangeCounted ==
  ASSUME RestOK, Change
  PROVE  changes' \in 0..MaxChanges
BY GroundedAssumption DEF RestOK, Change

LEMMA FixesStay ==
  ASSUME FixesOK, fixes' = fixes
  PROVE  FixesOK'
BY DEF FixesOK

\* Everything a run does but auditing, reading and proposing.
LEMMA RunMoves ==
  ASSUME IInv, NEW r \in Runs,
         \/ StartFixRun(r) \/ Enqueue(r) \/ EnqueueLost(r) \/ SelectProducts(r) \/ CompleteRun(r)
         \/ JobFails(r) \/ JobTimeout(r) \/ WorkerCrash(r)
  PROVE  IInv'
<1>1. JobsOK /\ AuditsOK /\ FixesOK /\ RestOK
  BY InvParts
<1>2. fixes' = fixes /\ audit' = audit /\ row' = row /\ carried' = carried /\ changes' = changes
  BY DEF StartFixRun, Enqueue, EnqueueLost, SelectProducts, CompleteRun, JobFails, JobTimeout,
         WorkerCrash
<1>3. FixesOK' /\ AuditsOK'
  BY <1>1, <1>2, FixesStay DEF AuditsOK
<1>4. runStatus' \in [Runs -> {"none", "running", "completed", "failed"}]
  BY <1>1 DEF RestOK, StartFixRun, Enqueue, EnqueueLost, SelectProducts, CompleteRun, JobFails,
              JobTimeout, WorkerCrash, EndRun
<1>5. faults' \in 0..MaxFaults
  <2>1. faults' = faults \/ \E kind \in {"enqueue", "error", "timeout", "crash"} : Fault(kind)
    BY DEF StartFixRun, Enqueue, EnqueueLost, SelectProducts, CompleteRun, JobFails, JobTimeout,
           WorkerCrash
  <2> QED
    BY <1>1, <2>1, FaultCounted DEF RestOK
<1>6. RestOK'
  BY <1>1, <1>2, <1>4, <1>5 DEF RestOK
<1>7. \E j : JobOK(j) /\ j.pc # "read" /\ job' = [job EXCEPT ![r] = j]
  <2>1. ASSUME NEW pc \in {"created", "queued", "lost"}, JobAt(r, pc)
        PROVE  \E j : JobOK(j) /\ j.pc # "read" /\ job' = [job EXCEPT ![r] = j]
    <3>1. JobOK([job[r] EXCEPT !.pc = pc]) /\ [job[r] EXCEPT !.pc = pc].pc = pc
      BY <1>1, SameJob DEF JobPc
    <3>2. job' = [job EXCEPT ![r] = [job[r] EXCEPT !.pc = pc]]
      BY <2>1, <1>1 DEF JobAt, JobsOK
    <3> QED
      BY <3>1, <3>2
  <2>2. CASE StartFixRun(r) \/ Enqueue(r) \/ EnqueueLost(r)
    BY <2>1, <2>2 DEF StartFixRun, Enqueue, EnqueueLost
  <2>3. CASE SelectProducts(r)
    BY <2>3, FreshJob DEF SelectProducts, JobPc
  <2>4. CASE CompleteRun(r) \/ JobFails(r) \/ JobTimeout(r) \/ WorkerCrash(r)
    <3>1. \E pc \in {"done", "lost", "queued"} : job' = [job EXCEPT ![r] = [NoJob EXCEPT !.pc = pc]]
      BY <2>4 DEF CompleteRun, JobFails, JobTimeout, WorkerCrash, EndRun
    <3> QED
      BY <3>1, FreshJob DEF JobPc
  <2> QED
    BY <2>2, <2>3, <2>4
<1>8. JobsOK'
  BY <1>1, <1>2, <1>7, JobMoves
<1> QED
  BY <1>3, <1>6, <1>8, InvPartsPrime

\* An audit is appended, whoever asked for it.
LEMMA AuditAppended ==
  ASSUME AuditsOK, RestOK, NEW p \in Products, AppendAudit(p)
  PROVE  /\ AuditsOK' /\ IsAuditRow(audit'[p])
         /\ \A q \in Products : IsAuditRow(audit[q]) => IsAuditRow(audit'[q])
<1>1. IsAuditRow(Evaluate(row[p]))
  BY EvaluateTyped DEF RestOK
<1>2. /\ DOMAIN audit' = Products /\ audit'[p] = Evaluate(row[p])
      /\ \A q \in Products \ {p} : audit'[q] = audit[q]
  BY DEF AuditsOK, AppendAudit
<1>3. \A q \in Products : audit'[q] = NoAudit \/ IsAuditRow(audit'[q])
  BY <1>1, <1>2 DEF AuditsOK
<1> QED
  BY <1>1, <1>2, <1>3 DEF AuditsOK, IsAuditRow

\* Ids are taken in order: only one is next.
LEMMA OneIsNext ==
  ASSUME NEW todo, NEW p \in Products, NEW q \in Products, IsNext(p, todo), IsNext(q, todo)
  PROVE  p = q
BY GroundedAssumption DEF IsNext

LEMMA NextProductOK ==
  ASSUME JobsOK, NEW r \in Runs, NEW p, NextProduct(r, p)
  PROVE  \E j : JobOK(j) /\ j.pc # "read" /\ job' = [job EXCEPT ![r] = j]
<1>1. job[r].todo \ {p} \in SUBSET Products
  BY DEF JobsOK, JobOK
<1> QED
  BY <1>1, FreshJob DEF NextProduct, JobPc

LEMMA AuditStep ==
  ASSUME IInv, NEW r \in Runs, NEW p \in Products, RunAudit(r, p)
  PROVE  IInv'
<1>1. JobsOK /\ AuditsOK /\ FixesOK /\ RestOK
  BY InvParts
<1>2. /\ AuditsOK' /\ IsAuditRow(audit'[p])
      /\ \A q \in Products : IsAuditRow(audit[q]) => IsAuditRow(audit'[q])
  BY <1>1, AuditAppended DEF RunAudit
<1>3. FixesOK' /\ RestOK'
  BY <1>1, FixesStay DEF RunAudit, RestOK
<1>4. \E j : /\ JobOK(j) /\ job' = [job EXCEPT ![r] = j]
             /\ j.pc = "read" => \A q \in Products : IsNext(q, j.todo) => IsAuditRow(audit'[q])
  <2>1. CASE NextProduct(r, p)
    BY <1>1, <2>1, NextProductOK
  <2>2. CASE JobAt(r, "read")
    <3> DEFINE j == [job[r] EXCEPT !.pc = "read"]
    <3>1. JobOK(j) /\ j.todo = job[r].todo
      BY <1>1, SameJob DEF JobPc
    <3>2. job' = [job EXCEPT ![r] = j]
      BY <1>1, <2>2 DEF JobAt, JobsOK
    <3>3. \A q \in Products : IsNext(q, j.todo) => IsAuditRow(audit'[q])
      BY <3>1, <1>2, OneIsNext DEF RunAudit
    <3> HIDE DEF j
    <3> QED
      BY <3>1, <3>2, <3>3
  <2> QED
    BY <2>1, <2>2 DEF RunAudit
<1>5. JobsOK'
  BY <1>1, <1>2, <1>4, JobMoves
<1> QED
  BY <1>2, <1>3, <1>5, InvPartsPrime

LEMMA ReadStep ==
  ASSUME IInv, NEW r \in Runs, NEW p \in Products, ReadProduct(r, p)
  PROVE  IInv'
<1>1. JobsOK /\ AuditsOK /\ FixesOK /\ RestOK
  BY InvParts
<1>2. fixes' = fixes /\ audit' = audit
  BY DEF ReadProduct
<1>3. FixesOK' /\ RestOK' /\ AuditsOK'
  BY <1>1, <1>2, FixesStay DEF ReadProduct, RestOK, AuditsOK
<1>4. \E j : JobOK(j) /\ j.pc # "read" /\ job' = [job EXCEPT ![r] = j]
  <2>1. CASE NextProduct(r, p)
    BY <1>1, <2>1, NextProductOK
  <2>2. CASE ~NextProduct(r, p)
    <3> DEFINE j == [job[r] EXCEPT !.pc = "extract", !.source = row[p],
                                   !.audit = audit[p], !.carried = carried[p]]
    <3>1. IsAuditRow(audit[p])
      BY <1>1 DEF JobsOK, AuditedFirst, ReadProduct
    <3>2. row[p] \in Product /\ carried[p] \in SUBSET Families
      BY <1>1 DEF RestOK
    <3>3. JobOK(job[r])
      BY <1>1 DEF JobsOK
    <3>4. /\ j.pc = "extract" /\ j.source = row[p] /\ j.audit = audit[p]
          /\ j.carried = carried[p] /\ j.todo = job[r].todo
      BY <3>3, <2>2 DEF ReadProduct, JobOK
    <3>5. job' = [job EXCEPT ![r] = j]
      BY <1>1, <2>2 DEF ReadProduct, JobsOK
    <3> HIDE DEF j
    <3>6. JobOK(j)
      BY <3>1, <3>2, <3>3, <3>4 DEF JobOK, JobPc
    <3> QED
      BY <3>4, <3>5, <3>6
  <2> QED
    BY <2>1, <2>2
<1>5. JobsOK'
  BY <1>1, <1>2, <1>4, JobMoves
<1> QED
  BY <1>3, <1>5, InvPartsPrime

LEMMA CommitStep ==
  ASSUME IInv, NEW r \in Runs, NEW p \in Products, CommitProposals(r, p)
  PROVE  IInv'
<1>1. JobsOK /\ AuditsOK /\ FixesOK /\ RestOK
  BY InvParts
<1>2. audit' = audit
  BY DEF CommitProposals, LeaveProduct
<1>3. RestOK' /\ AuditsOK'
  BY <1>1, <1>2 DEF CommitProposals, LeaveProduct, RestOK, AuditsOK
<1>4. JobsOK'
  BY <1>1, <1>2, NextProductOK, JobMoves DEF CommitProposals, LeaveProduct
<1>5. PICK answer \in Answers :
        fixes' = [fixes EXCEPT ![p] = Propose(job[r].source, job[r].audit, answer, job[r].carried)]
  BY DEF CommitProposals, LeaveProduct
<1> DEFINE b == Propose(job[r].source, job[r].audit, answer, job[r].carried)
<1>6. job[r].source \in Product /\ IsAuditRow(job[r].audit) /\ job[r].carried \in SUBSET Families
  BY <1>1 DEF JobsOK, JobOK, CommitProposals, LeaveProduct
<1>7. IsBatch(b)
  BY <1>6, BatchTyped
<1>8. b.source = job[r].source /\ b.audit = job[r].audit /\ b.carried = job[r].carried
  BY BatchFields
<1>9. Proposed(b)
  BY <1>8 DEF Proposed
<1>10. fixes' = [fixes EXCEPT ![p] = b]
  BY <1>5
<1> HIDE DEF b
<1>11. FixesOK'
  <2>1. /\ DOMAIN fixes' = Products /\ fixes'[p] = b
        /\ \A q \in Products \ {p} : fixes'[q] = fixes[q]
    BY <1>1, <1>10 DEF FixesOK
  <2>2. \A q \in Products : fixes'[q] = NoBatch \/ (IsBatch(fixes'[q]) /\ Proposed(fixes'[q]))
    BY <1>1, <1>7, <1>9, <2>1 DEF FixesOK
  <2> QED
    BY <2>1, <2>2 DEF FixesOK, IsBatch, Proposed
<1> QED
  BY <1>3, <1>4, <1>11, InvPartsPrime

\* Nothing but our copy of a product, and what is known of its Details lines, changes.
LEMMA OurCopyMoves ==
  ASSUME IInv, row' \in [Products -> Product], carried' \in [Products -> SUBSET Families], Change,
         fixes' = fixes, audit' = audit, job' = job, runStatus' = runStatus, faults' = faults
  PROVE  IInv'
<1>1. JobsOK /\ AuditsOK /\ FixesOK /\ RestOK
  BY InvParts
<1>2. FixesOK' /\ AuditsOK'
  BY <1>1, FixesStay DEF AuditsOK
<1>3. JobsOK'
  BY <1>1 DEF JobsOK, JobOK, AuditedFirst
<1>4. RestOK'
  BY <1>1, ChangeCounted DEF RestOK
<1> QED
  BY <1>2, <1>3, <1>4, InvPartsPrime

\* What a batch's Details block adds is phrases.
LEMMA LinesTyped ==
  ASSUME FixesOK, NEW p \in Products, fixes[p] # NoBatch
  PROVE  /\ LinesOf(fixes[p]) \subseteq Phrases /\ fixes[p].described \subseteq Families
         /\ fixes[p].source \in Product
<1>1. IsBatch(fixes[p]) /\ Proposed(fixes[p])
  BY DEF FixesOK
<1>2. PICK answer \in Answers :
        fixes[p] = Propose(fixes[p].source, fixes[p].audit, answer, fixes[p].carried)
  BY <1>1 DEF Proposed
<1>3. /\ fixes[p].values
           = Chosen(Targets(fixes[p].source, fixes[p].audit), answer, fixes[p].source)
      /\ fixes[p].described \subseteq DOMAIN fixes[p].values /\ fixes[p].source \in Product
      /\ DOMAIN fixes[p].values \subseteq Families
  BY <1>1, <1>2, BatchFields DEF IsBatch
<1>4. ASSUME NEW f \in fixes[p].described
      PROVE  fixes[p].values[f].value \in Phrases /\ Lines[f] \subseteq Phrases
  <2>1. Accepts(f, fixes[p].values[f], fixes[p].source)
    BY <1>3, ChosenIsAccepted
  <2>2. fixes[p].values[f].value \in Phrases
    BY <1>3, <2>1, AcceptedIsLiteral
  <2> QED
    BY <1>3, <2>2, GroundedAssumption
<1> QED
  BY <1>3, <1>4 DEF LinesOf

LEMMA EnvStep ==
  ASSUME IInv, NEW p \in Products,
         ProductRewritten(p) \/ AuditProduct(p) \/ PublishDescription(p) \/ PublishCategory(p)
  PROVE  IInv'
<1>1. JobsOK /\ AuditsOK /\ FixesOK /\ RestOK
  BY InvParts
<1>2. row \in [Products -> Product] /\ carried \in [Products -> SUBSET Families]
  BY <1>1 DEF RestOK
<1>3. CASE ProductRewritten(p)
  <2>1. row' \in [Products -> Product] /\ carried' \in [Products -> SUBSET Families]
    BY <1>2, <1>3, GroundedAssumption DEF ProductRewritten
  <2> QED
    BY <1>3, <2>1, OurCopyMoves DEF ProductRewritten
<1>4. CASE AuditProduct(p)
  <2>1. /\ AuditsOK' /\ \A q \in Products : IsAuditRow(audit[q]) => IsAuditRow(audit'[q])
    BY <1>1, <1>4, AuditAppended DEF AuditProduct
  <2>2. JobsOK'
    BY <1>1, <1>4, <2>1 DEF AuditProduct, JobsOK, JobOK, AuditedFirst
  <2>3. FixesOK'
    BY <1>1, <1>4, FixesStay DEF AuditProduct
  <2>4. RestOK'
    BY <1>1, <1>4, ChangeCounted DEF AuditProduct, RestOK
  <2> QED
    BY <2>1, <2>2, <2>3, <2>4, InvPartsPrime
<1>5. CASE PublishDescription(p)
  <2> DEFINE text == [row[p].text EXCEPT !["body_html"] = @ \union LinesOf(fixes[p])]
             product == [row[p] EXCEPT !.text = text]
  <2>1. LinesOf(fixes[p]) \subseteq Phrases /\ fixes[p].described \subseteq Families
    BY <1>1, <1>5, LinesTyped DEF PublishDescription
  <2>2. row[p].text \in [Fields -> SUBSET Phrases]
    BY <1>2, ProductTyped
  <2>3. text \in [Fields -> SUBSET Phrases]
    BY <2>1, <2>2
  <2>4. row' = [row EXCEPT ![p] = product]
    BY <1>5 DEF PublishDescription
  <2> HIDE DEF text
  <2>5. product \in Product
    BY <1>2, <2>3 DEF Product
  <2> HIDE DEF product
  <2>6. row' \in [Products -> Product]
    BY <1>2, <2>4, <2>5
  <2>7. carried' \in [Products -> SUBSET Families]
    BY <1>2, <1>5, <2>1 DEF PublishDescription
  <2> QED
    BY <1>5, <2>6, <2>7, OurCopyMoves DEF PublishDescription
<1>6. CASE PublishCategory(p)
  <2>1. [row[p] EXCEPT !.category = "coffee"] \in Product
    BY <1>2 DEF Product, Classes
  <2>2. row' = [row EXCEPT ![p] = [row[p] EXCEPT !.category = "coffee"]]
    BY <1>6 DEF PublishCategory
  <2>3. row' \in [Products -> Product]
    BY <1>2, <2>1, <2>2
  <2> QED
    BY <1>2, <1>6, <2>3, OurCopyMoves DEF PublishCategory
<1> QED
  BY <1>3, <1>4, <1>5, <1>6

LEMMA InvStep == IInv /\ [Next]_vars => IInv'
<1> SUFFICES ASSUME IInv, [Next]_vars PROVE IInv'
  OBVIOUS
<1>1. CASE UNCHANGED vars
  <2>1. JobsOK /\ AuditsOK /\ FixesOK /\ RestOK
    BY InvParts
  <2>2. JobsOK' /\ AuditsOK' /\ FixesOK' /\ RestOK'
    BY <1>1, <2>1, FixesStay DEF vars, JobsOK, JobOK, AuditedFirst, AuditsOK, RestOK
  <2> QED
    BY <2>2, InvPartsPrime
<1>2. ASSUME NEW r \in Runs, StartFixRun(r) \/ JobStep(r) \/ JobFault(r)
      PROVE  IInv'
  BY <1>2, RunMoves, AuditStep, ReadStep, CommitStep DEF JobStep, JobFault
<1>3. CASE EnvNext
  BY <1>3, EnvStep DEF EnvNext
<1> QED
  BY <1>1, <1>2, <1>3 DEF Next

-----------------------------------------------------------------------------
(* The theorems. *)

THEOREM InductiveInvariant == Spec => []IInv
BY InvInit, InvStep, PTL DEF Spec

\* Every row the run writes is of its type: no coverage above one, no severity or reason that is
\* none of the code's, no value that is no phrase of a source.
THEOREM TypeCorrect == Spec => []TypeOK
<1>1. IInv => TypeOK
  BY DEF IInv
<1> QED
  BY <1>1, InductiveInvariant, PTL

\* A batch on offer is a proposal made of a product and an audit of some product.
LEMMA OfferedIsProposed ==
  ASSUME IInv, NEW b \in Offered
  PROVE  /\ b.source \in Product /\ IsAuditRow(b.audit)
         /\ \E answer \in Answers : b = Propose(b.source, b.audit, answer, b.carried)
BY DEF IInv, TypeOK, Offered, IsBatch, Proposed

\* Every targeted family ends in exactly one row, whatever the model answers: the assertion at the
\* end of run_optimizer never fires.
THEOREM TargetsAreAccounted == Spec => []EveryTargetAccounted
<1>1. ASSUME IInv PROVE EveryTargetAccounted
  <2>1. ASSUME NEW b \in Offered PROVE Accounted(b)
    BY <1>1, OfferedIsProposed, BatchAccounted
  <2> QED
    BY <2>1 DEF EveryTargetAccounted, Accounted
<1> QED
  BY <1>1, InductiveInvariant, PTL

\* Whatever the model invents, what is proposed is literally in the field it cites, valid for its
\* family, and in the taxonomy when it goes there.
THEOREM FillsAreGrounded == Spec => []FillIsGrounded
<1>1. ASSUME IInv PROVE FillIsGrounded
  <2>1. ASSUME NEW b \in Offered PROVE Filled(b)
    BY <1>1, OfferedIsProposed, BatchFilled
  <2> QED
    BY <2>1 DEF FillIsGrounded, Filled, CitedUnderItsLabel
<1> QED
  BY <1>1, InductiveInvariant, PTL

\* What is called absent is mentioned in no field and was not found by the audit the run read,
\* even when the product was rewritten in between.
THEOREM AbsencesAreTrue == Spec => []AbsenceIsTrue
<1>1. ASSUME IInv PROVE AbsenceIsTrue
  <2>1. ASSUME NEW b \in Offered PROVE Absent(b)
    BY <1>1, OfferedIsProposed, BatchAbsent
  <2> QED
    BY <2>1 DEF AbsenceIsTrue, Absent
<1> QED
  BY <1>1, InductiveInvariant, PTL

\* A value that can be read without the model is proposed although the model missed it.
THEOREM MissesHideNothing == Spec => []MissNeverHidesAValue
<1>1. ASSUME IInv PROVE MissNeverHidesAValue
  <2>1. ASSUME NEW b \in Offered PROVE Missed(b)
    BY <1>1, OfferedIsProposed, BatchMissed
  <2> QED
    BY <2>1 DEF MissNeverHidesAValue, Missed
<1> QED
  BY <1>1, InductiveInvariant, PTL

-----------------------------------------------------------------------------
(* The other way round: what no answer of the model can change. *)

\* Two answers over the same product and audit give rows for the same families.  A family that
\* recover_spec_value can read is filled under both; that of two answers neither of which passes
\* the guards gets the same value; and the category and the barcode to-do are the same.  So the
\* randomness of the model does not decide whether a stated value is proposed, only which of the
\* values that pass the guards (run_optimizer).
THEOREM ReadableIsFilledByEither ==
  ASSUME NEW product \in Product, NEW verdict, NEW lines, NEW first, NEW second
  PROVE  LET a == Propose(product, verdict, first, lines)
             b == Propose(product, verdict, second, lines)
         IN  /\ DOMAIN a.values \union DOMAIN a.todos = DOMAIN b.values \union DOMAIN b.todos
             /\ \A f \in Families : Recoverable(f, Said(product)) =>
                  f \in DOMAIN a.values <=> f \in DOMAIN b.values
             /\ \A f \in DOMAIN a.values :
                  ~Accepts(f, first[f], product) /\ ~Accepts(f, second[f], product) =>
                    f \in DOMAIN b.values /\ a.values[f] = b.values[f]
             /\ a.category = b.category
             /\ "gtin" \in a.missing <=> "gtin" \in b.missing
<1> DEFINE a == Propose(product, verdict, first, lines)
           b == Propose(product, verdict, second, lines)
<1>1. a.category = b.category
  BY DEF Propose
<1>2. "gtin" \in a.missing <=> "gtin" \in b.missing
  BY DEF Propose
<1>3. /\ DOMAIN a.values \subseteq Targets(product, verdict)
      /\ DOMAIN a.todos = Targets(product, verdict) \ DOMAIN a.values
      /\ a.values = Chosen(Targets(product, verdict), first, product)
  <2> HIDE DEF a
  <2> QED
    BY BatchFields DEF a
<1>4. /\ DOMAIN b.values \subseteq Targets(product, verdict)
      /\ DOMAIN b.todos = Targets(product, verdict) \ DOMAIN b.values
      /\ b.values = Chosen(Targets(product, verdict), second, product)
  <2> HIDE DEF b
  <2> QED
    BY BatchFields DEF b
<1> HIDE DEF a, b
<1>5. ASSUME NEW f \in Families, Recoverable(f, Said(product))
      PROVE  f \in DOMAIN a.values <=> f \in DOMAIN b.values
  <2>1. Recovers(f, product)
    BY <1>5, RecoveryPassesTheGuards
  <2>2. \A answer : f \in DOMAIN Chosen(Targets(product, verdict), answer, product)
                      <=> f \in Targets(product, verdict)
    BY <2>1 DEF Chosen
  <2> QED
    BY <1>3, <1>4, <2>2
<1>6. DOMAIN a.values \union DOMAIN a.todos = DOMAIN b.values \union DOMAIN b.todos
  BY <1>3, <1>4
<1>7. ASSUME NEW f \in DOMAIN a.values,
             ~Accepts(f, first[f], product), ~Accepts(f, second[f], product)
      PROVE  f \in DOMAIN b.values /\ a.values[f] = b.values[f]
  BY <1>3, <1>4, <1>7 DEF Chosen
<1> QED
  BY <1>1, <1>2, <1>5, <1>6, <1>7 DEF a, b

-----------------------------------------------------------------------------
(* A fix run ends, with every product audited: the safety half of RunEnds. *)

\* The row of a run and its job tell the same; a job is lost to no other fault than these.
LostToAFault(r) == job[r].pc = "lost" /\ Faults \intersect {"enqueue", "timeout"} # {}

Told(r) ==
  /\ runStatus[r] = "none" <=> job[r].pc = "idle"
  /\ runStatus[r] \in {"completed", "failed"} <=> job[r].pc = "done"
  /\ job[r].pc = "lost" => LostToAFault(r)

\* What the job has left behind has been audited, and so has the product it proposes for.
LeftAudited(r) == InTry(r) => \A p \in Products \ job[r].todo : IsAuditRow(audit[p])

HoldsAudited(r) ==
  job[r].pc = "extract" => \A p \in Products : IsNext(p, job[r].todo) => IsAuditRow(audit[p])

HoldsAProduct(r) == job[r].pc \in {"read", "extract"} => job[r].todo # {}

\* A run that says completed has passed over no product it selected: each has a verdict to show.
CompletedMeansAudited ==
  \A r \in Runs : runStatus[r] = "completed" => \A p \in Products : IsAuditRow(audit[p])

RunInv ==
  /\ IInv /\ CompletedMeansAudited
  /\ \A r \in Runs : Told(r) /\ LeftAudited(r) /\ HoldsAudited(r) /\ HoldsAProduct(r)

\* How far the job of a run has come with the product at hand.
Stage == [idle |-> 0, created |-> 1, queued |-> 2, audit |-> 3, read |-> 4, extract |-> 5,
          done |-> 6, lost |-> 6]

JobAdvances(r) ==
  \/ /\ Stage[job'[r].pc] > Stage[job[r].pc]
     /\ InTry(r) /\ InTry(r)' => job'[r].todo = job[r].todo
  \/ /\ InTry(r) /\ job'[r].pc = "audit"
     /\ job'[r].todo \subseteq job[r].todo /\ job'[r].todo # job[r].todo
  \/ faults' = faults + 1

\* The next step of the job waits for nothing but the model's answer.
CanGoOn(r) ==
  \/ job[r].pc \in {"created", "queued"}
  \/ job[r].pc = "audit" /\ job[r].todo = {}
  \/ InTry(r) /\ \E p \in Products : IsNext(p, job[r].todo)

FixRunIsNeverStuck ==
  \A r \in Runs : runStatus[r] = "running" => CanGoOn(r) \/ LostToAFault(r)

FixRunAdvances == [][\A r \in Runs : job'[r] # job[r] => JobAdvances(r)]_vars

\* The kinds of steps.
Starts(r) ==
  /\ runStatus[r] = "none" /\ runStatus'[r] = "running" /\ job'[r].pc = "created"

GoesOn(r) ==
  /\ runStatus'[r] = runStatus[r]
  /\ \/ job[r].pc = "created" /\ job'[r].pc = "queued"
     \/ job[r].pc = "queued" /\ job'[r].pc = "audit" /\ job'[r].todo = Products
     \/ /\ job[r].pc = "audit" /\ job'[r].pc = "read" /\ job'[r].todo = job[r].todo
        /\ job[r].todo # {}
     \/ /\ job[r].pc = "read" /\ job'[r].pc = "extract" /\ job'[r].todo = job[r].todo

Leaves(r) ==
  /\ runStatus'[r] = runStatus[r] /\ InTry(r) /\ job'[r].pc = "audit"
  /\ \E p \in Products : /\ p \in job[r].todo /\ job'[r].todo = job[r].todo \ {p}
                         /\ IsAuditRow(audit'[p])

Ends(r) ==
  /\ InTry(r) /\ job'[r].pc = "done" /\ runStatus'[r] \in {"completed", "failed"}
  /\ runStatus'[r] = "completed" => job[r].pc = "audit" /\ job[r].todo = {}

Fails(r) ==
  /\ runStatus'[r] = runStatus[r] /\ (InTry(r) \/ job[r].pc = "created") /\ faults' = faults + 1
  /\ \/ job'[r].pc = "lost" /\ Faults \intersect {"enqueue", "timeout"} # {}
     \/ job'[r].pc = "queued"

\* Audits are only added.
AuditsGrow == \A p \in Products : IsAuditRow(audit[p]) => IsAuditRow(audit'[p])

LEMMA KindsOfSteps ==
  ASSUME RunInv, NEW r \in Runs, StartFixRun(r) \/ JobStep(r) \/ JobFault(r)
  PROVE  /\ \A q \in Runs \ {r} : job'[q] = job[q] /\ runStatus'[q] = runStatus[q]
         /\ AuditsGrow
         /\ Starts(r) \/ GoesOn(r) \/ Leaves(r) \/ Ends(r) \/ Fails(r)
<1>1. JobsOK /\ AuditsOK /\ FixesOK /\ RestOK
  BY InvParts DEF RunInv
<1>2. DOMAIN job = Runs /\ DOMAIN runStatus = Runs /\ JobOK(job[r])
  BY <1>1 DEF JobsOK, RestOK
<1>3. ASSUME NEW j, job' = [job EXCEPT ![r] = j]
      PROVE  job'[r] = j /\ \A q \in Runs \ {r} : job'[q] = job[q]
  BY <1>2, <1>3
<1>4. ASSUME NEW pc \in JobPc \ {"extract"}, JobAt(r, pc)
      PROVE  /\ job'[r].pc = pc /\ job'[r].todo = job[r].todo
             /\ \A q \in Runs \ {r} : job'[q] = job[q]
  <2>1. job' = [job EXCEPT ![r] = [job[r] EXCEPT !.pc = pc]]
    BY <1>2, <1>4 DEF JobAt
  <2> QED
    BY <2>1, <1>1, <1>3, SameJob
<1>5. ASSUME NEW p \in Products, NextProduct(r, p)
      PROVE  /\ job'[r].pc = "audit" /\ job'[r].todo = job[r].todo \ {p}
             /\ \A q \in Runs \ {r} : job'[q] = job[q]
  <2> DEFINE j == [NoJob EXCEPT !.pc = "audit", !.todo = job[r].todo \ {p}]
  <2>1. j.pc = "audit" /\ j.todo = job[r].todo \ {p}
    BY DEF NoJob
  <2>2. job' = [job EXCEPT ![r] = j]
    BY <1>5 DEF NextProduct
  <2> HIDE DEF j
  <2> QED
    BY <1>3, <2>1, <2>2
<1>6. ASSUME NEW pc, job' = [job EXCEPT ![r] = [NoJob EXCEPT !.pc = pc]]
      PROVE  job'[r].pc = pc /\ \A q \in Runs \ {r} : job'[q] = job[q]
  <2>1. [NoJob EXCEPT !.pc = pc].pc = pc
    BY DEF NoJob
  <2> QED
    BY <1>3, <1>6, <2>1
<1>7. CASE StartFixRun(r) \/ Enqueue(r) \/ EnqueueLost(r) \/ SelectProducts(r)
  <2>1. AuditsGrow
    BY <1>7 DEF AuditsGrow, StartFixRun, Enqueue, EnqueueLost, SelectProducts
  <2>2. CASE StartFixRun(r)
    BY <1>2, <1>4, <2>1, <2>2 DEF StartFixRun, Starts, JobPc
  <2>3. CASE Enqueue(r)
    BY <1>4, <2>1, <2>3 DEF Enqueue, GoesOn, JobPc
  <2>4. CASE EnqueueLost(r)
    BY <1>4, <2>1, <2>4 DEF EnqueueLost, Fault, Fails, JobPc
  <2>5. CASE SelectProducts(r)
    <3> DEFINE j == [NoJob EXCEPT !.pc = "audit", !.todo = Products]
    <3>1. j.pc = "audit" /\ j.todo = Products
      BY DEF NoJob
    <3>2. job' = [job EXCEPT ![r] = j]
      BY <2>5 DEF SelectProducts
    <3> HIDE DEF j
    <3> QED
      BY <1>3, <2>1, <2>5, <3>1, <3>2 DEF SelectProducts, GoesOn
  <2> QED
    BY <1>7, <2>2, <2>3, <2>4, <2>5
<1>8. CASE CompleteRun(r) \/ JobFails(r) \/ JobTimeout(r) \/ WorkerCrash(r)
  <2>1. AuditsGrow
    BY <1>8 DEF AuditsGrow, CompleteRun, JobFails, JobTimeout, WorkerCrash
  <2>2. CASE CompleteRun(r)
    BY <1>2, <1>6, <2>1, <2>2 DEF CompleteRun, EndRun, Ends, InTry
  <2>3. CASE JobFails(r)
    BY <1>2, <1>6, <2>1, <2>3 DEF JobFails, EndRun, Ends
  <2>4. CASE JobTimeout(r)
    BY <1>6, <2>1, <2>4 DEF JobTimeout, Fault, Fails
  <2>5. CASE WorkerCrash(r)
    BY <1>6, <2>1, <2>5 DEF WorkerCrash, Fault, Fails
  <2> QED
    BY <1>8, <2>2, <2>3, <2>4, <2>5
<1>9. ASSUME NEW p \in Products, RunAudit(r, p)
      PROVE  /\ \A q \in Runs \ {r} : job'[q] = job[q] /\ runStatus'[q] = runStatus[q]
             /\ AuditsGrow /\ (GoesOn(r) \/ Leaves(r))
  <2>1. AuditsGrow /\ IsAuditRow(audit'[p])
    BY <1>1, <1>9, AuditAppended DEF AuditsGrow, RunAudit
  <2>2. p \in job[r].todo /\ job[r].pc = "audit" /\ runStatus' = runStatus
    BY <1>9 DEF RunAudit, IsNext
  <2>3. CASE NextProduct(r, p)
    BY <1>5, <2>1, <2>2, <2>3 DEF Leaves, InTry
  <2>4. CASE JobAt(r, "read")
    BY <1>4, <2>1, <2>2, <2>4 DEF GoesOn, JobPc
  <2> QED
    BY <1>9, <2>3, <2>4 DEF RunAudit
<1>10. ASSUME NEW p \in Products, ReadProduct(r, p)
       PROVE  /\ \A q \in Runs \ {r} : job'[q] = job[q] /\ runStatus'[q] = runStatus[q]
              /\ AuditsGrow /\ (GoesOn(r) \/ Leaves(r))
  <2>1. AuditsGrow /\ IsAuditRow(audit'[p])
    BY <1>1, <1>10 DEF AuditsGrow, ReadProduct, JobsOK, AuditedFirst
  <2>2. p \in job[r].todo /\ job[r].pc = "read" /\ runStatus' = runStatus
    BY <1>10 DEF ReadProduct, IsNext
  <2>3. CASE NextProduct(r, p)
    BY <1>5, <2>1, <2>2, <2>3 DEF Leaves, InTry
  <2>4. CASE ~NextProduct(r, p)
    <3> DEFINE j == [job[r] EXCEPT !.pc = "extract", !.source = row[p],
                                   !.audit = audit[p], !.carried = carried[p]]
    <3>1. j.pc = "extract" /\ j.todo = job[r].todo
      BY <1>2, <2>4, <1>10 DEF ReadProduct, JobOK
    <3>2. job' = [job EXCEPT ![r] = j]
      BY <1>2, <2>4, <1>10 DEF ReadProduct
    <3> HIDE DEF j
    <3> QED
      BY <1>3, <2>1, <2>2, <3>1, <3>2 DEF GoesOn
  <2> QED
    BY <2>3, <2>4
<1>11. ASSUME NEW p \in Products, CommitProposals(r, p)
       PROVE  /\ \A q \in Runs \ {r} : job'[q] = job[q] /\ runStatus'[q] = runStatus[q]
              /\ AuditsGrow /\ Leaves(r)
  <2>1. AuditsGrow /\ IsAuditRow(audit'[p])
    BY <1>11 DEF AuditsGrow, CommitProposals, LeaveProduct, RunInv, HoldsAudited
  <2>2. p \in job[r].todo /\ job[r].pc = "extract" /\ runStatus' = runStatus
    BY <1>11 DEF CommitProposals, LeaveProduct, IsNext
  <2> QED
    BY <1>5, <1>11, <2>1, <2>2 DEF CommitProposals, LeaveProduct, Leaves, InTry
<1>12. CASE \E p \in Products : RunAudit(r, p) \/ ReadProduct(r, p) \/ CommitProposals(r, p)
  BY <1>9, <1>10, <1>11, <1>12
<1> QED
  BY <1>7, <1>8, <1>12 DEF JobStep, JobFault

LEMMA EnvLeavesRuns ==
  ASSUME IInv, EnvNext
  PROVE  job' = job /\ runStatus' = runStatus /\ AuditsGrow
<1>1. PICK p \in Products :
        ProductRewritten(p) \/ AuditProduct(p) \/ PublishDescription(p) \/ PublishCategory(p)
  BY DEF EnvNext
<1>2. AuditsOK /\ RestOK
  BY InvParts
<1>3. CASE AuditProduct(p)
  BY <1>2, <1>3, AuditAppended DEF AuditProduct, AuditsGrow
<1>4. CASE ~AuditProduct(p)
  BY <1>1, <1>4 DEF ProductRewritten, PublishDescription, PublishCategory, AuditsGrow
<1> QED
  BY <1>3, <1>4, <1>1 DEF AuditProduct, ProductRewritten, PublishDescription, PublishCategory

\* What is said of one run survives a step that leaves it alone, and a step of its own.
OneRun(r) ==
  /\ Told(r) /\ LeftAudited(r) /\ HoldsAudited(r) /\ HoldsAProduct(r)
  /\ runStatus[r] = "completed" => \A p \in Products : IsAuditRow(audit[p])

LEMMA OneRunStays ==
  ASSUME NEW r \in Runs, OneRun(r), AuditsGrow, job'[r] = job[r], runStatus'[r] = runStatus[r]
  PROVE  OneRun(r)'
<1>1. Told(r)' /\ HoldsAProduct(r)'
  BY DEF OneRun, Told, LostToAFault, HoldsAProduct
<1>2. LeftAudited(r)' /\ HoldsAudited(r)'
  BY DEF OneRun, LeftAudited, HoldsAudited, InTry, AuditsGrow
<1>3. runStatus'[r] = "completed" => \A p \in Products : IsAuditRow(audit'[p])
  BY DEF OneRun, AuditsGrow
<1> QED
  BY <1>1, <1>2, <1>3 DEF OneRun

LEMMA OneRunMoves ==
  ASSUME IInv, IInv', NEW r \in Runs, OneRun(r), AuditsGrow,
         Starts(r) \/ GoesOn(r) \/ Leaves(r) \/ Ends(r) \/ Fails(r)
  PROVE  OneRun(r)'
<1>1. /\ runStatus[r] \in {"none", "running", "completed", "failed"}
      /\ job[r].todo \subseteq Products /\ job'[r].todo \subseteq Products
  BY DEF IInv, TypeOK
<1>2. Told(r)'
  BY <1>1 DEF OneRun, Told, LostToAFault, Starts, GoesOn, Leaves, Ends, Fails, InTry
<1>3. HoldsAProduct(r)'
  BY DEF OneRun, HoldsAProduct, Starts, GoesOn, Leaves, Ends, Fails
<1>4. LeftAudited(r)'
  <2> SUFFICES ASSUME InTry(r)', NEW p \in Products \ job'[r].todo
               PROVE  IsAuditRow(audit'[p])
    BY DEF LeftAudited
  <2>1. job'[r].pc \in {"audit", "read", "extract"}
    BY DEF InTry
  <2>2. CASE GoesOn(r)
    <3>1. job'[r].todo # Products
      BY <1>1
    <3>2. InTry(r) /\ job'[r].todo = job[r].todo
      BY <2>1, <2>2, <3>1 DEF GoesOn, InTry
    <3> QED
      BY <3>2 DEF OneRun, LeftAudited, AuditsGrow
  <2>3. CASE Leaves(r)
    BY <2>3 DEF OneRun, Leaves, LeftAudited, AuditsGrow
  <2> QED
    BY <2>1, <2>2, <2>3 DEF Starts, Ends, Fails
<1>5. HoldsAudited(r)'
  <2> SUFFICES ASSUME job'[r].pc = "extract", NEW p \in Products, IsNext(p, job'[r].todo)
               PROVE  IsAuditRow(audit'[p])
    BY DEF HoldsAudited, IsNext
  <2>1. job[r].pc = "read" /\ job'[r].todo = job[r].todo
    BY DEF Starts, GoesOn, Leaves, Ends, Fails
  <2>2. IsAuditRow(audit[p])
    BY <2>1 DEF IInv, AuditedFirst
  <2> QED
    BY <2>2 DEF AuditsGrow
<1>6. ASSUME runStatus'[r] = "completed", NEW p \in Products
      PROVE  IsAuditRow(audit'[p])
  <2>1. CASE runStatus[r] = "completed"
    BY <2>1 DEF OneRun, AuditsGrow
  <2>2. CASE runStatus[r] # "completed"
    <3>1. InTry(r) /\ job[r].todo = {}
      BY <1>6, <2>2 DEF Starts, GoesOn, Leaves, Ends, Fails
    <3> QED
      BY <3>1 DEF OneRun, LeftAudited, AuditsGrow
  <2> QED
    BY <2>1, <2>2
<1> QED
  BY <1>2, <1>3, <1>4, <1>5, <1>6 DEF OneRun

LEMMA RunInvParts == RunInv <=> IInv /\ \A r \in Runs : OneRun(r)
BY DEF RunInv, OneRun, CompletedMeansAudited

LEMMA RunInvPartsPrime == RunInv' <=> IInv' /\ \A r \in Runs : OneRun(r)'
BY DEF RunInv, OneRun, CompletedMeansAudited

LEMMA RunInvInit == Init => RunInv
<1> SUFFICES ASSUME Init PROVE RunInv
  OBVIOUS
<1>1. \A r \in Runs : job[r].pc = "idle" /\ runStatus[r] = "none"
  BY DEF Init, NoJob
<1> QED
  BY <1>1, InvInit DEF RunInv, CompletedMeansAudited, Told, LeftAudited, HoldsAudited,
                       HoldsAProduct, InTry

LEMMA RunInvStep == RunInv /\ [Next]_vars => RunInv'
<1> SUFFICES ASSUME RunInv, [Next]_vars PROVE RunInv'
  OBVIOUS
<1>1. IInv /\ IInv' /\ \A r \in Runs : OneRun(r)
  BY RunInvParts, InvStep
<1>2. CASE UNCHANGED vars \/ EnvNext
  <2>1. job' = job /\ runStatus' = runStatus /\ AuditsGrow
    BY <1>1, <1>2, EnvLeavesRuns DEF vars, AuditsGrow
  <2> QED
    BY <1>1, <2>1, OneRunStays, RunInvPartsPrime
<1>3. ASSUME NEW r \in Runs, StartFixRun(r) \/ JobStep(r) \/ JobFault(r)
      PROVE  RunInv'
  <2>1. /\ \A q \in Runs \ {r} : job'[q] = job[q] /\ runStatus'[q] = runStatus[q]
        /\ AuditsGrow
        /\ Starts(r) \/ GoesOn(r) \/ Leaves(r) \/ Ends(r) \/ Fails(r)
    BY <1>3, KindsOfSteps
  <2>2. OneRun(r)' /\ \A q \in Runs \ {r} : OneRun(q)'
    BY <1>1, <2>1, OneRunMoves, OneRunStays
  <2> QED
    BY <1>1, <2>2, RunInvPartsPrime
<1> QED
  BY <1>2, <1>3 DEF Next

\* The inductive invariant of a fix run: its row tells where its job is, and what the job has left
\* behind is audited.
THEOREM RunInvariant == Spec => []RunInv
BY RunInvInit, RunInvStep, PTL DEF Spec

\* A fix run that says completed has audited every product it selected: none is skipped, whatever
\* an excluded product, a standalone audit, an edit or a restart does beside it (run_fix_task).
THEOREM CompletedTheorem == Spec => []CompletedMeansAudited
<1>1. RunInv => CompletedMeansAudited
  BY DEF RunInv
<1> QED
  BY <1>1, RunInvariant, PTL

\* A fix run whose row says running can go on, or Arq cancelled its job, or the enqueue behind its
\* row failed: there is always a next product while products are left, and no other way out of the
\* job leaves the row behind (run_fix_task: "driving the run to a terminal status").
THEOREM FixNeverStuckTheorem == Spec => []FixRunIsNeverStuck
<1>1. ASSUME RunInv, NEW r \in Runs, runStatus[r] = "running"
      PROVE  CanGoOn(r) \/ LostToAFault(r)
  <2>1. job[r].pc \in {"created", "queued", "audit", "read", "extract", "lost"}
    BY <1>1 DEF RunInv, Told, IInv, TypeOK, JobPc
  <2>2. job[r].todo \in SUBSET Nat /\ job[r].todo \subseteq Products
    BY <1>1, GroundedAssumption DEF RunInv, IInv, TypeOK
  <2>3. job[r].todo # {} => \E p \in Products : IsNext(p, job[r].todo)
    BY <2>2, SmallestNat DEF IsNext
  <2>4. job[r].pc \in {"read", "extract"} => job[r].todo # {}
    BY <1>1 DEF RunInv, HoldsAProduct
  <2> QED
    BY <1>1, <2>1, <2>3, <2>4 DEF RunInv, Told, CanGoOn, InTry
<1>2. RunInv => FixRunIsNeverStuck
  BY <1>1 DEF FixRunIsNeverStuck
<1> QED
  BY <1>2, RunInvariant, PTL

\* Every step of a fix run brings it nearer to its end: it comes further with the product at hand,
\* or has one product the less, and only one of the MaxFaults failures sets it back.  Nothing in
\* the loop over the products goes round, and nobody else moves the job.
THEOREM FixAdvanceTheorem == Spec => FixRunAdvances
<1>1. ASSUME RunInv, [Next]_vars, NEW r \in Runs, job'[r] # job[r]
      PROVE  JobAdvances(r)
  <2>1. IInv
    BY <1>1 DEF RunInv
  <2>2. ~UNCHANGED vars /\ ~EnvNext
    BY <1>1, <2>1, EnvLeavesRuns DEF vars
  <2>3. PICK s \in Runs : StartFixRun(s) \/ JobStep(s) \/ JobFault(s)
    BY <1>1, <2>2 DEF Next
  <2>4. Starts(r) \/ GoesOn(r) \/ Leaves(r) \/ Ends(r) \/ Fails(r)
    BY <1>1, <2>3, KindsOfSteps
  <2>5. CASE Starts(r)
    <3>1. job[r].pc = "idle"
      BY <1>1, <2>5 DEF RunInv, Told, Starts
    <3> QED
      BY <2>5, <3>1 DEF JobAdvances, Starts, Stage, InTry
  <2>6. CASE GoesOn(r)
    BY <2>6 DEF JobAdvances, GoesOn, Stage, InTry
  <2>7. CASE Leaves(r)
    BY <2>7 DEF JobAdvances, Leaves
  <2>8. CASE Ends(r)
    BY <2>8 DEF JobAdvances, Ends, Stage, InTry
  <2>9. CASE Fails(r)
    BY <2>9 DEF JobAdvances, Fails
  <2> QED
    BY <2>4, <2>5, <2>6, <2>7, <2>8, <2>9
<1>2. RunInv /\ [Next]_vars => [\A r \in Runs : job'[r] # job[r] => JobAdvances(r)]_vars
  BY <1>1
<1> QED
  BY <1>2, RunInvariant, PTL DEF Spec, FixRunAdvances

=============================================================================
