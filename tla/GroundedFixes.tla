---------------------------- MODULE GroundedFixes ----------------------------
(***************************************************************************)
(* From a product to proposals: POST .../fixes (api/fixes.py), the Arq     *)
(* job run_fix_task (jobs/fix.py), the audit node (graph/audit.py) and the *)
(* optimizer (graph/optimizer.py), while webhooks and ingests rewrite our  *)
(* copy of a product, POST /products/{id}/audit appends audits of its own  *)
(* and approved proposals are published.                                   *)
(*                                                                         *)
(* The job is cut where it awaits something slow: the commit of an audit,  *)
(* the optimizer's read, the language model's answer.                      *)
(***************************************************************************)
EXTENDS AuditRubric

CONSTANTS
  Products,    \* ids of the shop's products
  Contents,    \* what a product may hold
  Runs,        \* ids of fix runs
  Answers,     \* what the language model may answer: a candidate for each family
  Lines,       \* the phrases that the Details line of a family adds besides the value
  NULL,        \* SQL NULL; JSON null in a candidate
  Faults,      \* which failures the environment may inject
  MaxFaults,   \* bound on them
  MaxChanges   \* bound on edits, ingests, standalone audits and publications

Candidate == [value : Phrases \union {NULL}, field : Fields \union {NULL},
              snippet : Phrases \union {NULL}, ambiguous : BOOLEAN]

ASSUME GroundedAssumption ==
  /\ Products \subseteq Nat
  /\ Contents \subseteq Product
  /\ Answers \subseteq [Families -> Candidate]
  /\ Lines \in [Families -> SUBSET Phrases]
  /\ NULL \notin Phrases \union Fields
  /\ Faults \subseteq {"crash", "enqueue", "error", "timeout"}
  /\ MaxFaults \in Nat /\ MaxChanges \in Nat

VARIABLES
  row,       \* products: our copy of each product
  audit,     \* the latest audits row of each product
  fixes,     \* the last batch of fixes proposed for each product
  runStatus, \* agent_runs.status
  job,       \* where each request, and then its job, is
  carried,   \* history: the families whose published Details line is still on the product
  faults, changes

vars == <<row, audit, fixes, runStatus, job, carried, faults, changes>>

NoAudit == [severity |-> "none yet"]
NoBatch == [source |-> NULL]
NoJob == [pc |-> "idle", todo |-> {}, source |-> NULL, audit |-> NoAudit, carried |-> {}]

JobPc == {"idle", "created", "queued", "audit", "read", "extract", "done", "lost"}

Reasons == {"absent", "mentioned_no_value", "fabrication", "mis_assignment"}

\* The rows one commit of the optimizer inserts.  values: the candidate each grounded family
\* cites; of those, taxonomy holds the metafield fixes and described the families listed in the
\* description fix.  todos: why a family has a to-do instead.  missing: the to-dos about the
\* product as a whole.  source, audit and carried are history: what the batch was made from.
IsBatch(b) ==
  /\ b.source \in Product /\ IsAuditRow(b.audit) /\ b.carried \subseteq Families
  /\ DOMAIN b.values \subseteq Families /\ \A f \in DOMAIN b.values : b.values[f] \in Candidate
  /\ b.taxonomy \subseteq DOMAIN b.values /\ b.described \subseteq DOMAIN b.values
  /\ DOMAIN b.todos \subseteq Families /\ \A f \in DOMAIN b.todos : b.todos[f] \in Reasons
  /\ b.category \in {"none", "coffee", "concentrate"}
  /\ b.missing \subseteq {"body_html", "gtin"}

TypeOK ==
  /\ row \in [Products -> Product]
  /\ DOMAIN audit = Products /\ \A p \in Products : audit[p] = NoAudit \/ IsAuditRow(audit[p])
  /\ DOMAIN fixes = Products /\ \A p \in Products : fixes[p] = NoBatch \/ IsBatch(fixes[p])
  /\ runStatus \in [Runs -> {"none", "running", "completed", "failed"}]
  /\ DOMAIN job = Runs
  /\ \A r \in Runs :
       /\ job[r].pc \in JobPc /\ job[r].todo \subseteq Products
       /\ job[r].source \in Product \union {NULL} /\ job[r].carried \subseteq Families
       /\ job[r].audit = NoAudit \/ IsAuditRow(job[r].audit)
  /\ carried \in [Products -> SUBSET Families]
  /\ faults \in 0..MaxFaults /\ changes \in 0..MaxChanges

Init ==
  /\ row \in [Products -> Contents]
  /\ audit = [p \in Products |-> NoAudit]
  /\ fixes = [p \in Products |-> NoBatch]
  /\ runStatus = [r \in Runs |-> "none"]
  /\ job = [r \in Runs |-> NoJob]
  /\ carried = [p \in Products |-> {}]
  /\ faults = 0 /\ changes = 0

-----------------------------------------------------------------------------
(* The optimizer's guards and routing. *)

\* ground_attribute: the cited field is one of ours, the snippet is in it and the value in the
\* snippet.
Grounded(candidate, product) ==
  /\ ~candidate.ambiguous
  /\ candidate.value # NULL /\ candidate.snippet # NULL /\ candidate.field \in Fields
  /\ Occurs(candidate.snippet, product.text[candidate.field])
  /\ candidate.value \in Within[candidate.snippet]

\* Without the check that the value belongs to the family.
AcceptsMutAnyFamily(f, candidate, product) == Grounded(candidate, product)

Accepts(f, candidate, product) ==
  Grounded(candidate, product) /\ Valid(f, candidate.value, candidate.snippet)

\* Everything said of the product, in any field.
Said(product) == TextOf(product, Fields)

\* The audited class decides; the product is not classified again.
Targets(product, verdict) ==
  IF SpecScored(verdict.class) THEN Applicable(Said(product)) \ StructuredFamilies(product) ELSE {}

\* Recovery proposes a candidate; the guards of any candidate decide.
RecoveredCandidate(f, product) ==
  LET value == RecoveredValue(f, Said(product))
  IN  [value |-> value, snippet |-> value, ambiguous |-> FALSE,
       field |-> CHOOSE field \in Fields : Occurs(value, product.text[field])]

\* Recovery looks at the prose only.
RecoversMutProse(f, product) ==
  Recoverable(f, TextOf(product, Prose)) /\ Accepts(f, RecoveredCandidate(f, product), product)

Recovers(f, product) ==
  Recoverable(f, Said(product)) /\ Accepts(f, RecoveredCandidate(f, product), product)

\* The candidate each grounded family ends up with.
Chosen(targets, answer, product) ==
  [f \in {g \in targets : Accepts(g, answer[g], product) \/ Recovers(g, product)} |->
     IF Accepts(f, answer[f], product) THEN answer[f] ELSE RecoveredCandidate(f, product)]

\* has_taxonomy_category and resolve_taxonomy_value
TakesTaxonomy(f, candidate, product) ==
  product.category # "none" /\ InTaxonomy(f, candidate.value)

\* Why extraction did not fill the family.
DropReason(f, candidate, product) ==
  CASE candidate.value = NULL \/ candidate.ambiguous -> "absent"
    [] candidate.value # NULL /\ ~candidate.ambiguous /\ ~Grounded(candidate, product) -> "fabrication"
    [] OTHER -> "mis_assignment"

\* Silence of the model is taken for absence.
TodoReasonMutTrustsModel(f, candidate, product, verdict) == DropReason(f, candidate, product)

\* The negative guard: absence is claimed only of what no field mentions and the audit did not
\* find in the prose.
TodoReason(f, candidate, product, verdict) ==
  LET reason == DropReason(f, candidate, product)
      stated == f \in DOMAIN verdict.gaps.spec /\ verdict.gaps.spec[f] = "unstructured"
  IN  IF reason = "absent" /\ (Detected(f, Said(product)) \/ stated) THEN "mentioned_no_value" ELSE reason

\* _infer_coffee_category: cites the type or the title, or a concentrate term in the body.
InferCategory(product) ==
  LET named == TextOf(product, {"product_type", "title"})
  IN  IF \E c \in Concentrate : Occurs(c, named \union product.text["body_html"]) THEN "concentrate"
      ELSE IF named # {} THEN "coffee" ELSE "none"

\* Families the prose already states get no line: their words are there.
DescribedMutSkipsStated(values, taxonomy, product) ==
  {f \in DOMAIN values \ taxonomy : ~Detected(f, TextOf(product, Prose))}

\* Every grounded family without a metafield gets a labelled line.
Described(values, taxonomy, product) == DOMAIN values \ taxonomy

\* run_optimizer from the model's answer to the rows it inserts.
Propose(product, verdict, answer, lines) ==
  LET targets == Targets(product, verdict)
      values == Chosen(targets, answer, product)
      taxonomy == {f \in DOMAIN values : TakesTaxonomy(f, values[f], product)}
      described == Described(values, taxonomy, product)
  IN  [source |-> product, audit |-> verdict, carried |-> lines,
       values |-> values, taxonomy |-> taxonomy, described |-> described,
       todos |-> [f \in targets \ DOMAIN values |-> TodoReason(f, answer[f], product, verdict)],
       category |-> IF SpecScored(verdict.class) /\ product.category = "none"
                      THEN InferCategory(product) ELSE "none",
       missing |-> (IF described = {} /\ verdict.gaps.description THEN {"body_html"} ELSE {})
                     \union (IF verdict.gaps.gtin THEN {"gtin"} ELSE {})]

-----------------------------------------------------------------------------
(* The run. *)

JobAt(r, pc) == job' = [job EXCEPT ![r].pc = pc]

Fault(kind) ==
  /\ kind \in Faults
  /\ faults < MaxFaults
  /\ faults' = faults + 1

InTry(r) == job[r].pc \in {"audit", "read", "extract"}

\* start_fix_run
StartFixRun(r) ==
  /\ runStatus[r] = "none"
  /\ runStatus' = [runStatus EXCEPT ![r] = "running"]
  /\ JobAt(r, "created")
  /\ UNCHANGED <<row, audit, fixes, carried, faults, changes>>

Enqueue(r) ==
  /\ job[r].pc = "created"
  /\ JobAt(r, "queued")
  /\ UNCHANGED <<row, audit, fixes, runStatus, carried, faults, changes>>

EnqueueLost(r) ==
  /\ job[r].pc = "created" /\ Fault("enqueue")
  /\ JobAt(r, "lost")
  /\ UNCHANGED <<row, audit, fixes, runStatus, carried, changes>>

\* run_fix_task loads its run and the ids of the shop's products.
SelectProducts(r) ==
  /\ job[r].pc = "queued"
  /\ job' = [job EXCEPT ![r] = [NoJob EXCEPT !.pc = "audit", !.todo = Products]]
  /\ UNCHANGED <<row, audit, fixes, runStatus, carried, faults, changes>>

\* The product at hand: ids are taken in order.
IsNext(p, todo) == p \in todo /\ \A q \in todo : p <= q

\* The list is not shortened.
NextProductMutStays(r, p) == job' = [job EXCEPT ![r] = [NoJob EXCEPT !.pc = "audit", !.todo = job[r].todo]]

NextProduct(r, p) == job' = [job EXCEPT ![r] = [NoJob EXCEPT !.pc = "audit", !.todo = job[r].todo \ {p}]]

\* run_audit, in the job and in POST /products/{id}/audit: append the verdict on our copy.
AppendAudit(p) == audit' = [audit EXCEPT ![p] = Evaluate(row[p])]

\* An excluded product is recorded and left.
RunAudit(r, p) ==
  /\ job[r].pc = "audit" /\ IsNext(p, job[r].todo)
  /\ AppendAudit(p)
  /\ IF Evaluate(row[p]).severity = "not_audited" THEN NextProduct(r, p) ELSE JobAt(r, "read")
  /\ UNCHANGED <<row, fixes, runStatus, carried, faults, changes>>

\* run_optimizer reads the product and its latest audit, whoever appended it.
ReadProduct(r, p) ==
  /\ job[r].pc = "read" /\ IsNext(p, job[r].todo)
  /\ IF audit[p].severity = "not_audited" THEN NextProduct(r, p)
     ELSE job' = [job EXCEPT ![r] = [@ EXCEPT !.pc = "extract", !.source = row[p],
                                              !.audit = audit[p], !.carried = carried[p]]]
  /\ UNCHANGED <<row, audit, fixes, runStatus, carried, faults, changes>>

\* What the commit of a product's proposals is to the job.
LeaveProduct(r, p) == job[r].pc = "extract" /\ IsNext(p, job[r].todo) /\ NextProduct(r, p)

\* The model has answered (what it says of a family that is no target is ignored): one commit
\* inserts the batch.
CommitProposals(r, p) ==
  /\ LeaveProduct(r, p)
  /\ \E answer \in Answers :
       fixes' = [fixes EXCEPT ![p] = Propose(job[r].source, job[r].audit, answer, job[r].carried)]
  /\ UNCHANGED <<row, audit, runStatus, carried, faults, changes>>

EndRun(r, status) ==
  /\ runStatus' = [runStatus EXCEPT ![r] = status]
  /\ job' = [job EXCEPT ![r] = [NoJob EXCEPT !.pc = "done"]]

CompleteRun(r) ==
  /\ job[r].pc = "audit" /\ job[r].todo = {}
  /\ EndRun(r, "completed")
  /\ UNCHANGED <<row, audit, fixes, carried, faults, changes>>

\* An exception, such as OptimizerError (the retry cap, a refusal, a truncated answer): the run
\* fails, and what it committed for earlier products stays.
JobFails(r) ==
  /\ InTry(r) /\ Fault("error")
  /\ EndRun(r, "failed")
  /\ UNCHANGED <<row, audit, fixes, carried, changes>>

\* Arq cancels the job: no handler runs.
JobTimeout(r) ==
  /\ InTry(r) /\ Fault("timeout")
  /\ job' = [job EXCEPT ![r] = [NoJob EXCEPT !.pc = "lost"]]
  /\ UNCHANGED <<row, audit, fixes, runStatus, carried, changes>>

\* The worker dies: the job is delivered again and starts over, under the same run.
WorkerCrash(r) ==
  /\ InTry(r) /\ Fault("crash")
  /\ job' = [job EXCEPT ![r] = [NoJob EXCEPT !.pc = "queued"]]
  /\ UNCHANGED <<row, audit, fixes, runStatus, carried, changes>>

JobStep(r) ==
  \/ Enqueue(r) \/ SelectProducts(r) \/ CompleteRun(r)
  \/ \E p \in Products : RunAudit(r, p) \/ ReadProduct(r, p) \/ CommitProposals(r, p)

\* The same, of which fairness is stated: a product is left, whatever is inserted for it.
JobMove(r) ==
  \/ Enqueue(r) \/ SelectProducts(r) \/ CompleteRun(r)
  \/ \E p \in Products : RunAudit(r, p) \/ ReadProduct(r, p) \/ LeaveProduct(r, p)

JobFault(r) == EnqueueLost(r) \/ JobFails(r) \/ JobTimeout(r) \/ WorkerCrash(r)

-----------------------------------------------------------------------------
(* Everybody else. *)

Change ==
  /\ changes < MaxChanges
  /\ changes' = changes + 1

\* A products/update webhook or an ingest stores what the merchant made of the product.
ProductRewritten(p) ==
  /\ Change
  /\ \E content \in Contents \ {row[p]} : row' = [row EXCEPT ![p] = content]
  /\ carried' = [carried EXCEPT ![p] = {}]
  /\ UNCHANGED <<audit, fixes, runStatus, job, faults>>

\* POST /products/{id}/audit
AuditProduct(p) ==
  /\ Change
  /\ AppendAudit(p)
  /\ UNCHANGED <<row, fixes, runStatus, job, carried, faults>>

\* stable_source_hash: neither the category nor the product's visibility is hashed.
Hashed(product) == [product EXCEPT !.category = "none", !.visible = TRUE]

\* The hashed columns are as the batch saw them.
SameSource(p) == Hashed(row[p]) = Hashed(fixes[p].source)

LinesOf(batch) == UNION {Lines[f] \union {batch.values[f].value} : f \in batch.described}

\* The Publisher appends the Details block and refreshes our copy.
PublishDescription(p) ==
  /\ Change
  /\ fixes[p] # NoBatch /\ fixes[p].described # {} /\ SameSource(p)
  /\ row' = [row EXCEPT ![p].text["body_html"] = @ \union LinesOf(fixes[p])]
  /\ carried' = [carried EXCEPT ![p] = @ \union fixes[p].described]
  /\ UNCHANGED <<audit, fixes, runStatus, job, faults>>

\* It assigns the category, of whichever kind of coffee.
PublishCategory(p) ==
  /\ Change
  /\ fixes[p] # NoBatch /\ fixes[p].category # "none" /\ SameSource(p)
  /\ row[p].category = fixes[p].source.category
  /\ row' = [row EXCEPT ![p].category = "coffee"]
  /\ UNCHANGED <<audit, fixes, runStatus, job, carried, faults>>

EnvNext ==
  \E p \in Products :
    ProductRewritten(p) \/ AuditProduct(p) \/ PublishDescription(p) \/ PublishCategory(p)

Next == (\E r \in Runs : StartFixRun(r) \/ JobStep(r) \/ JobFault(r)) \/ EnvNext

Spec == Init /\ [][Next]_vars

\* Uvicorn runs its requests, Arq its jobs, and the model answers or errs.
FairSpec == Spec /\ \A r \in Runs : WF_job(JobMove(r))

-----------------------------------------------------------------------------
(* Properties of what is on offer for a product. *)

Offered == {fixes[p] : p \in {q \in Products : fixes[q] # NoBatch}}

\* Whatever the model answers, every targeted family ends in exactly one row: a metafield, a line
\* of the description or a to-do, and no other family in any; a description to-do is never made
\* beside a description (run_optimizer, the gap-to-row accounting).
EveryTargetAccounted ==
  \A b \in Offered :
    /\ b.taxonomy \union b.described \union DOMAIN b.todos = Targets(b.source, b.audit)
    /\ b.taxonomy \intersect b.described = {}
    /\ (b.taxonomy \union b.described) \intersect DOMAIN b.todos = {}
    /\ "body_html" \in b.missing => b.described = {}

\* What is proposed for a family is literally in the field it cites, although the model may
\* invent, misplace or misattribute it.  A value of a family with a vocabulary is one of its
\* values; that of an open family, which has none, is cited where the text gives it the family's
\* label and no other family's (ground_attribute, validate_spec_value).  What goes to the taxonomy
\* is one of its values, on a product that has a category.
FillIsGrounded ==
  \A b \in Offered : \A f \in b.taxonomy \union b.described :
    LET c == b.values[f]
    IN  /\ Occurs(c.value, b.source.text[c.field])
        /\ f \notin Open => \E v \in Vocabulary(f) : v \in Within[c.value]
        /\ f \in Open =>
             /\ Occurs(c.snippet, b.source.text[c.field]) /\ c.value \in Within[c.snippet]
             /\ \E l \in Labels[f] : l \in Within[c.snippet]
             /\ \A g \in Families \ {f} : \A l \in Labels[g] : l \notin Within[c.snippet]
        /\ f \in b.taxonomy => b.source.category # "none" /\ InTaxonomy(f, c.value)

\* A family is called absent only when no field of the product has a phrase the audit detects it
\* by and the latest audit, however stale, did not find it in the prose (the negative guard).
AbsenceIsTrue ==
  \A b \in Offered : \A f \in DOMAIN b.todos :
    b.todos[f] = "absent" =>
      /\ \A field \in Fields : ~Detected(f, b.source.text[field])
      /\ f \in DOMAIN b.audit.gaps.spec => b.audit.gaps.spec[f] = "absent"

\* The model cannot hide a value: when some field mentions a family with a vocabulary and names a
\* value that only this family has, there is a fill and no to-do, whatever the model answered
\* (recover_spec_value).
MissNeverHidesAValue ==
  \A b \in Offered : \A f \in DOMAIN b.todos : ~Recoverable(f, Said(b.source))

\* A fix run that was queued ends, and says so, whatever excludes a product between its audit and
\* its reading and although a dead worker makes it start over; only a job that Arq cancelled, or
\* that was never queued, leaves it running (run_fix_task: "driving the run to a terminal status").
RunEnds ==
  \A r \in Runs : job[r].pc = "queued" ~> runStatus[r] \in {"completed", "failed"} \/ job[r].pc = "lost"

\* optimizer.py: "An ABSENCE must be literally absent".  A family whose Details line we published,
\* and which still stands on the product, is not reported as stated nowhere.
PublishedIsNotAbsent ==
  \A b \in Offered : \A f \in DOMAIN b.todos : b.todos[f] = "absent" => f \notin b.carried

=============================================================================
