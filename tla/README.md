# A verification project for quixly

quixly audits a Shopify merchant's catalogue, proposes fixes, lets the merchant
approve them, publishes the approved ones to the live store and measures the
effect.  It has two halves that share nothing but HTTP: the **app shell**
(`src/app`, TypeScript, talks to Shopify's OAuth and webhooks) and the **agent**
(`src/agent`, Python: a FastAPI process, one Arq worker, Postgres, Redis).

The models here are about the places where those halves, the database, Shopify and
the merchant act at the same time.

## Inventory

| part | state it keeps | operations | what is hard | what makes it correct |
|---|---|---|---|---|
| approval gate, `api/fixes.py` | `fixes.status` | approve, reject, supersede | overlapping requests under READ COMMITTED | one approved fix per target; a decision is final |
| publisher, `graph/publisher.py`, `jobs/publish.py` | `fixes.status`, `agent_runs.status`, our copy of the product, the live store | start, select, gate, write, re-read, settle | crash and redelivery between a write and its commit, lost replies, edits by the merchant, two runs at once | only approved fixes are written, verified means seen live, nothing is written over something unseen, every picked fix gets an outcome, the run ends |
| optimizer, `graph/optimizer.py`, `jobs/fix.py` | inserts `fixes` rows | audit, ask the model, ground, recover, route, propose | a language model that invents or misses values; a product and an audit that age while it is asked | every family ends in exactly one row; nothing ungrounded is proposed, nothing present called absent |
| webhooks and ingest, `api/webhooks.py`, `jobs/ingest_catalog.py`, `api/shops.py`, `services/purge.py` | `shops`, `products`, `ingest_runs`, the ingest lock in Redis | connect, ingest page by page, product update, uninstall, redact | late and repeated webhooks, a lock with a time limit, purge against reconnect | a complete run has the whole catalogue, a lock has somebody to release it, a redacted shop leaves nothing |
| token custody, `lib/admin-token.server.ts`, `lib/shop-lock.server.ts`, `lib/webhook-auth.server.ts` in the shell, `services/token_provider.py`, `services/shopify_admin.py` in the agent | the shop's session row, Redis token cache | refresh, serve, cache, retry on 401 | a refresh token that may be spent once, refreshed by many | one spend per token, no shop is stranded |
| scan pipeline, `api/scan.py`, `jobs/scan.py`, `graph/engine_runner.py`, `graph/extractor.py`, `graph/share_of_model.py` | `engine_runs`, `share_of_model`, `agent_runs` | start, ask, extract, count | one query failing among many, a redelivered job that asks again under the same run | a mention is one answer of this panel that names us; no answers is no data |
| uplift verifier, `api/verify.py`, `jobs/verify.py`, `graph/verifier.py`, `services/baselines.py`, `services/uplift.py` | `verifications` | resolve the measured set, choose a baseline, re-measure, compare, classify | fixes published and scans completed between those steps, a panel that a release changes | only a real before and a real after are compared |
| audit rubric, taxonomy, matching, `services/audit_rubric.py`, `graph/audit.py` | `audits` rows | classify, detect, validate, recover, score | one family's words are another's values; what is detected and what is a value are different lists | verdicts and coverages are well formed; absence is never claimed of what is stated |
| interrogator, `graph/interrogator.py`, `services/panels.py` | `query_panels` | dedupe, truncate, upsert by content | a release changes the generated panel | a verification never rebuilds it |
| shell routes, schema, settings | rows without protocol | insert, render | nothing concurrent | not modelled |

Components call each other over HTTP (shell to agent for every command, agent to
shell for a token), through jobs in Redis (agent to its worker), and through shared
rows (`fixes`, `products`, `shops`, `agent_runs`).

## Modules

* **`FixStore`**: constants and the shared state of the fix lifecycle: `status` and
  `basis` (a fix's `before_json` and `base_source_hash`) of each `fixes` row, the row
  locks, our copy of the products (`row`), the merchant's store (`live`).  `shown`
  and `consented` are history variables: what the store has shown, whose approval
  was committed.  A description is the merchant's copy followed by the Details blocks
  appended to it; `echo` tells the markup that was sent from the markup Shopify
  stores.  `SourceHash` leaves out the category and the markup, as
  `stable_source_hash` does.
* **`ApprovalGate`**: `_decide`, cut at its awaits: `Load` (unlocked SELECT),
  `BeginSupersede` (statement snapshot), `LockRival` (one row of the UPDATE, waiting
  for its lock and testing it again, as READ COMMITTED does), `CommitDecision`
  (`autoflush=False`: the row's own UPDATE is flushed here and does not look at the old
  status), `AbortDecision`.
* **`Publisher`**: one publish run per `Runs` id, cut at every await: `StartPublish`,
  `Enqueue`, `Select` or `AbortRun`, then per product `Fetch`, `Gate` or `GateGone`,
  `Write`s in risk order, `CommitWrites`, `Reread`, `Verify`; `Complete`.  A crash loses
  the memory of the job and delivers it again from the start; `LostReply` lands a
  mutation and fails the run; `JobTimeout` is Arq cancelling the job, which no handler
  of the job sees.
* **`FixPublish`** composes the two with the optimizer (`Propose`), the product webhook
  in any order (`ProductWebhook`), an ingest (`Reingest`) and the merchant
  (`MerchantEdit`, `MerchantDelete`), and states the properties.
* **`FixLifecycle`** is what gate and publisher promise together about the status
  column: a decision with its supersede is one step, a settlement is one step,
  `verified`, `publish_failed` and `rejected` are final.  `ImplementsLifecycle` is the
  refinement.
* **`MCFixPublish`** gives small shops to TLC; **`FixPublish_proofs`** holds the proofs,
  **`FixLifecycle_proofs`** those of the refinement and of what a whole run does, and
  **`FixProgress_proofs`** those of its progress.
* **`RefreshAuthority`**: `getAdminToken` and `ensureFreshOfflineSession` with `withShopLock`,
  cut at their awaits: `Load` (the unlocked read), `Begin` (a connection of the Prisma pool),
  `TakeLock` (the advisory lock), `Reread`, `Spend` (Shopify rotates, or refuses a spent
  token), `Store`.  Faults are Prisma's two timeouts, a refused or lost answer, a failed
  write and a crash of the shell.  A transaction that times out does not stop its
  callback: that is an `Orphan`, whose new token is `lost`.  Tokens are numbered in the order
  Shopify issues them, and only the newest is worth anything.
* **`TokenCustody`** adds the callers: agent jobs (`ReadCache`, `CacheToken`, `Post`,
  `Throttled`, `GiveUp`), webhooks (`Authenticate`, which may refresh outside the lock,
  `Forward`, `Erase`), the clock and the merchant who uninstalls.  `Deadline` says how long
  a request may last, in ticks.
* **`TokenChain`** is what the two promise together about the chain of tokens: the newest is
  stored before anybody else may spend it, or it is lost; `ImplementsChain` is the refinement.
* **`TokenCustody_proofs`** holds the proofs of its invariants, **`TokenChain_proofs`** those of the
  refinement and of who waits for whom.
* **`CatalogIngest`**: `connect_shop`, one action per await (`Upsert`, `InsertRun`,
  `RefreshRun`, `AcquireLock`, `ReadHolder`, `Enqueue`), and `ingest_catalog` (`StartJob`,
  then per page `FetchPage` and `WritePage`, `FinishJob` or `FailJob` or `FlagReauth`,
  `ReleaseLock`).  A request and the run it inserts share an id; a cursor is a number of
  pages.  A job whose run is gone dies before its `try`.  Arq starts a job again after a
  dead or stopping worker, and not after an exception or its time limit.
* **`ShopLifecycle`** adds the merchant, the two webhooks in the shell (authenticate,
  forward, erase the session) and the purge job (`PurgeRead`, `PurgeDelete`, `PurgeClear`).
  `overlap` is a history variable: a connect was under way during a purge, or after its
  installation had ended.  The properties name it where the code depends on it.
* **`ShopLifecycle_proofs`** holds its proofs.
* **`ScanPipeline`**: the panel (`BuildQueryPanel`) and one scan per `Scans` id: `StartScan`,
  `Enqueue`, then the job, cut at its commits: `RunEngine` (a row per query, an error row
  where the engine failed), `RunExtractor` (what the extractor claims, cut down to what the
  answer says), `RunShareOfModel` (the latest row of each query), `Complete`.  Engine and
  extractor are choices over `Answers` and `Claims`.  A crash delivers the job again from the
  start, under the same run.  `asked` in a row is a history variable: when the engine was asked.
* **`UpliftVerifier`** adds the publishes (`Publish` stamps `published_at`) and the
  verification: the request cut at its reads (`ResolveShop`, where its transaction begins,
  `ResolveMeasuredSet`, then `BindBaseline` or `Refuse`), the pipeline again on the baseline's panel, `RunVerifier` or `VerificationAborted`, and what
  the read routes say (`ClassifyRun`, `ClassifyEngine`).
* **`Survey`** is what one measurement promises, whatever happens to its job: it begins once, hears
  answers to the questions of its panel, perhaps some of them again, and what it shows once completed
  counts at most one answer per question, the freshest.
  `ImplementsSurvey` says it of every scan and of every scan inside a verification.
* **`MCMeasurement`** gives them a small shop; **`UpliftVerifier_proofs`** holds the proofs.
* **`AuditRubric`**: `services/audit_rubric.py` and its tables as operators.  A text is a set of
  phrases per field, and `Within` says which phrases are literally in which: that is what
  `normalize_text` and the two containment tests decide.  `Valid`, `Recoverable`, `GapsOf`,
  `Evaluate` follow the functions of the same names.
* **`GroundedFixes`**: a fix run from request to proposals (`SelectProducts`, per product
  `RunAudit`, `ReadProduct`, `CommitProposals`), while products are rewritten, audited by other
  requests and published to.  `Propose` is `run_optimizer` from the model's answer to the rows:
  `Accepts` (literal, and of the family), `Recovers`, `TakesTaxonomy`, `Described`, `TodoReason`.
  A batch keeps, as history, the product and the audit it was made from; `carried` remembers which
  published Details lines still stand.
* **`MCGroundedFixes`** cuts a vocabulary out of `SPEC_FAMILIES`; **`GroundedFixes_proofs`** holds
  the proofs.

## Runs

| run | shows | bounds |
|---|---|---|
| `publishing` | type, write-replaces-basis, no silent skip | 1 product, a description and a category fix, 2 successive runs, 1 crash, 1 edit; faults crash, lost reply, refused, ignored, normalised |
| `overlap` | only what was consented to is published and verified means seen live, with two runs and two requests at once | 2 fixes of one target; faults enqueue, error, ignored, refuse, timeout, token |
| `progress` | the run ends, each of its steps advances it and it is never stuck; products with a category go last; one approved fix per target; the lifecycle is implemented beside a run | 2 products, 3 fixes of which two are rivals, 1 crash, fairness |
| `racing_approvals` | finding: two overlapping approvals of rivals both commit | 2 fixes, 2 requests |
| `stuck_published` | finding: a fix left `published` by a crash is never picked up again | 1 crash |
| `double_block` | finding: a published block can be proposed and appended again | 2 fixes |
| `tokens` | the refresh chain is kept, the library never rotates outside the lock, a token is rotated only when due, no expired token is presented, a healthy shop is never flagged, nobody waits in a circle, every caller is answered, the abstract chain is implemented | 1 job, 1 product webhook, 1 uninstall webhook, pool of 1, 1 fault of any kind, 3 ticks, tokens living 4 |
| `shops` | complete means the whole catalogue, a held lock has somebody to release it, a job's end is recorded, an erasure is honoured, the rows of an active shop are kept | 2 connects, 2 pages, 2 installations of which one ends, 1 fault of any of 10 kinds |
| `backstop` | finding: with an aged token, neither app/uninstalled nor shop/redact can be authenticated | 1 connect, fairness, no fault |
| `measuring` | every run implements the abstract survey, a reportable delta has a real before and after, no data is no number, the end of a job tells the truth, the manifest is the snapshot, a paid panel is only refused on the boundary, the first tier measures everything | 2 scans, 1 verification, 2 fixes, panels of 1 and 2 queries that change at every tick, 3 ticks, 1 fault of any of 6 kinds |
| `proposing` | every family in one row, fills grounded, absences true, a missed value found anyway, the run ends | 1 product of 6 shapes, 5 families, 33 answers, 2 changes, 1 fault of any of 4 kinds, fairness |
| `false_absence` | finding: a value that we published is reported as stated nowhere | 2 runs, 1 change, a model that is silent or right |

**Why these bounds are enough.**  Requests interact only over one target and runs only
over one product's fixes, so two rivals and one fix of the other type on one product
already meet every guard of the gate; a second product only matters for the order of
writes.  One crash separates every pair of steps from their redelivery, and one edit
puts every foreign change between two steps of a run.  Two runs are what it takes for
one to see what the other left.

`SerialDecisions` and `SerialRuns` are assumptions on the caller, off in `overlap`: the
code enforces neither (`racing_approvals` is what happens without the first).
For tokens, three callers are what it takes for one to refresh, one to wait for it and one
to read the session in between; a pool of one connection is where holding one while asking
for another would block.  The stored token enters the job's window, the webhook's and its own
end at three different ticks (`FirstExpiry`), so that callers who disagree on whether it is
due meet.

For shops, a second connect is what meets the lock, a second installation what a late webhook
or purge can hit, and a second page what a cursor can skip or repeat.  A purge is never run for a shop
that was not uninstalled, and shop/redact (48 hours) follows the last redelivery of
app/uninstalled.

For measurements, two scans and two fixes are what it takes for a baseline to precede the first
publish, lie between them or follow both; the verification is a third job beside them.  The
panel changes at every tick: one query, then another which the release repeats, then two of three,
truncated.  That gives a verification whose baseline has another panel than it would build, and, for
a scan that starts at tick 3, a panel of which one query fails and the other does not.
Three ticks and a window of one tick put the settle boundary inside a request.  The extractor
claims every brand whatever the answer says, which is the worst it can do.

For proposals, the five families are one of each kind that is treated differently: with a taxonomy
attribute, with values that are no detection phrases, conditional, open, and without an
attribute but sharing a value with another.  The six products are a description in prose only, a
decaf, one with every attribute, one whose attributes do not count, an excluded one and one of
another class.  The answers are right, of another family or ambiguous, for each subset of the
families, and one more cites a tasting note that nothing labels.  Two changes put an edit, another audit or a publication between any two steps, and a
publication before an edit.

`CHECK_DEADLOCK FALSE` is set because a shop whose runs, fixes and edits are used up
really has nothing left to do.

**Fairness.**  `FairSpec`: Postgres ends every transaction (weak fairness of
`AbortDecision`: a deadlock victim or a dropped connection; a commit is only a nicer
end), Arq runs a queued job (weak fairness of the job's own steps), and a commit that
keeps queueing for row locks gets them in turn (strong fairness of `CommitStep`).
Starting a run, failing, crashing and the merchant have no fairness.  In `TokenCustody`
each request's own steps are weakly fair (the event loop runs what can run); starting a
request, faults, the clock and the merchant are not.  In `ShopLifecycle` connects and jobs,
webhooks (Shopify redelivers) and purges are weakly fair each; visits, faults, ageing and
uninstalling are not.  In `GroundedFixes` the job's own steps are weakly fair: the model answers
or errs, as `services/optimizer_llm.py` bounds its retries.  The fairness is stated of `JobMove`,
which is `JobStep` without the inserted rows; no other step of the model leaves a product.

## Proofs

The eight modules of proofs are checked by TLAPS.  `FixPublish_proofs`, `FixLifecycle_proofs` and
`FixProgress_proofs` hold for every value of the constants, from the named assumptions of
`FixStore`, `ApprovalGate`, `Publisher` and `FixPublish`.

* `TypeCorrect`: `Spec => []TypeOK`.
* `PublishInvariant`: the inductive invariant.  `OnlyConsentedIsPublished` alone is not
  inductive: a write follows from `todo`, `todo` from the gate's judgement of `snap`, `snap`
  from an earlier state of the store.  `RunOK` says of each run that it works on
  consented fixes only, that what it gated belongs to the product it is at and was
  found equal to its basis in its snapshot, and that the snapshot was really shown;
  `FixOK` and `ShopOK` say what statuses and the store mean.  A step of one run settles
  only that run's fixes (`RunStepSettles`); everything else is framed.
* `ConsentTheorem`, `VerifiedTheorem`, `WriteTheorem`: the three safety properties, with
  no assumption on overlap.
* `OneApprovalTheorem`: `AtMostOneApproved` under `SerialDecisions`.  Its invariant says that
  an approval in its supersede still has each approved rival ahead of it or holds its row,
  which is what re-testing the row after waiting for its lock buys.

`FixLifecycle_proofs` adds what needs more than one run's own commit.

* `LifeInvariant`, under `SerialDecisions` and `SerialRuns` as in the runs: at most one run is in
  flight, `PickOK` says by the place a run is at which of the fixes it picked wait for an outcome,
  which are `published` and which are settled, and `DecisionOK` that a fix under decision is still
  proposed and that a row held by a supersede can be superseded.  A fix may be superseded
  after a run picked it, so a fix that waits is approved *or* stale.
* `RefinementTheorem`: `ImplementsLifecycle`.  A commit of a run maps to `Settle` of the fixes whose
  status it changes (`RecordsSettle`), a commit of a request to `Approve` with the rows it holds
  or to `Reject` (`DecisionRefines`), `Propose` to itself, every other step to a stutter.
* `NoSkipTheorem`: a run completes with nothing left to work on, and `PickOK` then says that all it
  picked is settled.
* `CategoryTheorem`: no assumption on overlap.  It needs that a run sends a fix once (`SentOnce`)
  and that `CurrentProduct` is the first of the run's products (`CurrentProductExists`).

`FixProgress_proofs` is the safety half of `RunTerminates`, with no assumption on overlap.

* `ProgressInvariant`: a run's row and its job agree (`Accounted`), and row locks are held by open
  supersedes only (`RowsLent`).
* `NeverStuckTheorem`: a run whose row says running can take its next step, waits for a row that an
  open supersede holds, or was lost to a failed enqueue or to Arq's time limit.  That a
  write is always next while writes are left is `CanGoOn`'s condition on `RiskFirst`, whose choice
  is proved never to be empty.
* `AdvanceTheorem` is the variant: fewer products, then a later stage with the same products, then
  fewer mutations; only one of the `MaxCrashes` crashes goes back.
  What is left to TLC is that fairness then makes the run end: that a supersede is over at some
  time and that the waiting commit gets its row.

`ShopLifecycle_proofs` does the same as `FixPublish_proofs` for shops, from `IngestAssumption`
alone, so for any number of connects, pages, installations and faults.

* `TypeCorrect`, and `RunInvariant`: `CompleteMeansWholeCatalog` and `EndIsRecorded` are not
  inductive.  `RunInv` adds that a request is over before its job exists, that the pages up
  to a run's cursor are stored, that a job about to finish has seen them all, and that a job
  in its `finally` with no restart ahead has left its run settled.
  `WholeCatalogTheorem` and `EndTheorem` follow.
* `KeepsRowsTheorem`: while a purge that has read a shop is pending, the shop is not active
  unless a connect was noted in `overlap` (`PurgeInv`); the delete is such a moment.
* `LockTheorem`: a connect that works for the lock still has its run (`LockInv`), so the job
  it queues is one that gets as far as its `finally`.  A purge that crashed and then finds an
  active shop leaves the lock behind; `PurgeInv` says that a connect met it.
* `ErasureTheorem`: once the merchant has left, what a delivered app/uninstalled, a purge
  that has read, and a purge that has deleted say of the shop stays true (`ErasureInv`).

`GroundedFixes_proofs` holds for any vocabulary, products, answers and number of changes and
failures, from `RubricAssumption` and `GroundedAssumption`: that literal presence is reflexive and
transitive, and that values are listed in a finite order.

* `InductiveInvariant`: the four properties are about a batch, and none is inductive, because a batch
  is made of what the job read steps earlier.  `IInv` says that every batch *is* `Propose` of a
  well-formed product, of the audit the job read and of some answer (`FixesOK`), that a job past its
  reading holds such a product and audit (`JobsOK`), and that audits are what `Evaluate` returns
  (`AuditsOK`).
* What is left is about operators: `TargetsAreAccounted`, `FillsAreGrounded`, `AbsencesAreTrue` and
  `MissesHideNothing` are lemmas on `Propose` (`BatchAccounted`, `BatchFilled`, `BatchAbsent`,
  `BatchMissed`).  The last rests on `RecoveryPassesTheGuards`: a recovered value, taken in the
  family's order (`SmallestNat` gives its first), is literally in a field and valid, so that the
  guards every candidate meets let it through.
* `TypeCorrect`: coverage is never more than one because what is held is counted among what
  applies (`CoverageTyped`); `EvaluateTyped` says it of the whole verdict.
* `ReadableIsFilledByEither` compares two answers over the same product and audit: the families that
  get a row are the same, what can be read without the model is filled under both, and where
  neither answer passes the guards the value is the same too.  Two answers that pass them may still
  give two values.
* `RunInvariant`, `CompletedTheorem`, `FixNeverStuckTheorem`, `FixAdvanceTheorem` are the safety half
  of `RunEnds` and what it is worth.  `CompletedMeansAudited` is not inductive: `LeftAudited` says
  it of the products a job has left behind, and `HoldsAudited` of the one that it is about to
  leave.  `KindsOfSteps` reduces the steps of a run to five kinds, over which the rest is a split.
  These formulas are no properties of the `proposing` run: its bounds leave one product, and
  what they say of a list of products is said by the proof.

`UpliftVerifier_proofs` holds for any runs, panels, answers, fixes, failures and clock, from
`ScanAssumption` and `UpliftAssumption`, and proves every property of the `measuring` run.

* `MeasurementInvariant`: what a verification reports compares facts of four moments: its
  baseline, its request, the answers of its own run and the row written in the end.  The
  invariant says what each has settled for the next.  `SnapshotOK`: a request's snapshot is what
  was published by its decision; its transaction began earlier, and a fix published in between is
  measured.  `GrantOK`: it was granted on a completed run of the same panel that
  ended before every fix of the snapshot, and past the settle window unless forced.
  `RowsOK`: its answers are of that panel and not older than its decision.  `SomOK` and
  `CountsOK`: an aggregate is a count over the rows that were answered.  `VerOK`: the row
  repeats the grant.  `JobOK` orders these.
* `ShareCounted` is where the counts are proved: the latest row of each query is one row per query
  of the panel, so that counted rows inject into it.
* `SurveyRefinement`: `ImplementsSurvey`, from `SurveyInvariant`.  `MeasurementInvariant` lacks two
  facts: the rows of a run are in the order they were asked, so that the latest row of a query is the
  freshest answer, and between the aggregate's commit and the run's end the aggregate is still
  that of the rows (`SurveyOK`).  A step of the job is one of six kinds (`Kinds`), and only two of them
  move the survey beyond hearing: `Started` maps to `Begin` and the end of a job that aggregated to
  `Count`.  The tally of a run is its aggregate once the run is completed: a job that is
  redelivered in between rewrites a row that nobody may have relied on.  Rates are exact (`ExactRate`)
  because panels have at most `MaxQueries` rows and `Scale` is a multiple of every such number.
  A crash changes no rows and is a stutter; asking the panel again under the same run is another
  `Hear`: the abstract survey, too, may hear a question again.
* `CountsTheorem` says of an aggregate, from its commit on, that it counts exactly the questions whose
  last answer was read, each once, and mentions exactly those read as naming us; the run checks
  the refinement, which says it of what is completed.
* `ReportableTheorem`, `AbortTheorem` and the rest follow from the invariant without a further
  induction: the baseline's answers are older than its end, its end than the fixes, and the
  fixes, by the settle window, than the request.

`TokenCustody_proofs` holds for any number of jobs and webhooks, any pool and failures, and any
windows that satisfy `AuthorityAssumption`, `CustodyAssumption` and `WindowAssumption`.

* `CustodyInvariant`: `ChainKept` needs that a refresh under the lock acts on the session that is
  stored (`CallOK`) and that the lock has one holder (`LockOK`); the windows need a bound on how
  long each request has lasted (`TimeOK`).  A transaction that timed out leaves a refresh behind
  that no lock protects: `CallOK` says that such a refresh either holds the newest token, and
  then no session is about to be stored over it, or finds its token spent, and then
  `Outlives`: the newest token is fresh enough for the library to leave it alone, or nothing the
  shell holds is worth refreshing (`Broken`).
* `LibraryTheorem` rests on `LibraryIdle`: a webhook that the authority has let go meets no
  session that is due in the library's narrower window.  It is part of the induction, since a
  rotation outside the lock would break the chain.
* `HealthyTheorem`: a job is refused only when its token is not the newest; under the lock the
  chain then says that the newest was lost, and outside it the job has given up already.

`TokenChain_proofs` adds the abstract chain and who waits for whom, from the same assumptions.

* `ChainRefinement`: `ImplementsChain`, from `ChainInvariant`.  A rotation is `Pending` while the newest
  token was issued to a transaction that stands before its store.  `CallOK` alone does not say that
  a refresh which lost its transaction spends what is stored; `SpendsWhatIsHeld` does, and it is
  inductive with `CustodyInvariant`.  Every other step of lock, pool, cache and
  callers is a stutter.
* `NoCircleTheorem`: when somebody waits for the pool or the lock, one of those that hold a connection
  does not: either nobody holds the lock, or its holder does and needs no other connection.
* `ContentionTheorem`: as long as no failure loses Shopify's answer or its commit, an installed shop
  holds its newest token or is about to, and no job is told to re-authenticate.

Only model-checked: liveness (`RunTerminates`, `EveryCallerAnswered`, `RunEnds`), which is out of the
prover's reach.  What each of them rests on besides fairness is proved: `NeverStuckTheorem` and
`AdvanceTheorem`, `NoCircleTheorem`, `FixNeverStuckTheorem` and `FixAdvanceTheorem`.

## What the publish model abstracts

A worker that dies between the final commit of a run and Arq's own record of its end would run it once
more, over whatever is approved then; that is no step.  An exception before the `try` of
`jobs/publish.py` (lines 39-46: the run or its shop is gone, or the database fails) leaves the row
running, as `JobTimeout` does, but is no step of its own.  Fixes without a `base_source_hash` and a
description whose text does not begin with the text it was appended to (`graph/publisher.py:319-341`)
are none that the optimizer inserts, and are left out.  A decision's rivals are compared by
type, not by the target string: there is one description and one category target per product.

## What the token model assumes

`WindowAssumption` is what the comments of `webhook-auth.server.ts` say of the refresh windows ("by
construction, not by luck"): the webhook's window is wider than the library's by at least
the time one request may take, and a new token outlives every request that saw the old
one.  `NeverPresentsExpired` and `LibraryNeverRotates` fail without it.  The clock's ticks
are coarser than a request: a request that began at one tick may end at the next.  `Load`, the unlocked
read, takes no connection of the pool: it gives it back within the statement, so it may wait for one
but nobody waits for another resource while it has one.  Left out:
the 90-day life of a refresh token, and the merchant's own visits to the app, which obtain
a token by token exchange instead of a refresh.

## What the measurement model abstracts

One engine, and brands as atoms (`services/matching.py` decides whether a text names one).  A panel
row is its content, as `(shop_id, fingerprint)` is unique; the lock on it that `upsert_panel` takes
is why a job asks all its queries in one step.  `started_at` is kept for verifications only.
The rows of a run are forgotten when its job is over: nothing reads them again.  Fixes are numbered
in the order they are published, and requests used in the order of their ids.  The worker runs one job at a time in the run (`MaxJobs`;
Arq's default is ten): jobs of different runs share no rows except the panel.  `Difference`
leaves out rounding.  All queries of a panel are asked in one tick: the clock is coarser than a panel.

Three windows are left out of the steps.  A worker that dies between the last commit of a job and
Arq's own record of its end repeats a completed run (a completed scan gets a new
`share_of_model`, which a verification may already have compared): `ImplementsSurvey` does not say
that this tally stands.  `published_at` is stamped on
the confirmed re-read, after the live write, so a scan that ends in between asked about the
fixed product and still counts as its baseline.  A fix published after the verification's snapshot and
before its queries is live when they are asked and not in the manifest, as the code intends.

`PrimaryTierDropsNothing` speaks of the first tier only.  When no scan precedes every publish, the
fallback may leave out a fix that *has* an earlier scan, which `services/baselines.py:158-162`
("no pre-state anywhere in the data") does not say.

## What the proposal model abstracts

One candidate per family and answer (the code takes the first of a family); a citation is one phrase;
whether containment is by substring or by whole words is in `Within` and `Detects`.  Audit and insert are
one step; `run_optimizer` reads the product again, and so does `ReadProduct`.  The last batch of
a product is kept: a redelivered run, which proposes again under the same run, replaces it.
Product and latest audit are two statements, read in one step: a product rewritten and audited between
them gives a pair that no step of the model reads.  What is proved of a batch is proved of any product
with any well-formed audit, that pair included.
A product deleted meanwhile is an exception (`JobFails`).  When there is no target the model is
not called; the chosen answer is then not looked at.  A product's class and its category are
one of three classes, so that the two kinds of coffee category are told apart in the proposal only.

`scripts/run_optimizer_batch.py` re-checks after a batch what `AbsenceIsTrue` states; it calls the
unstructured pairs "the lower bound on fills" (line 128), which is not so for a family that is
mentioned without a value that can be read.

## Known problems without a run

* While a webhook's rotation is between Shopify's answer and its commit, the fast path of
  `getAdminToken` serves the retired token: the wider window of the webhooks means that the
  job does not find it due.  The caller gets a 401, drops its cache and asks again.
* `acquire_ingest_lock` returns None both for "acquired" and for a lock that vanished between SET NX
  and GET.  The connect then queues its job without the lock, and a third connect takes the lock
  beside it: two ingests at once.
* `services/audit_rubric.py:470` has "medium dark" win over "medium", but the values of the
  family do not list it: such a product is recovered as medium.

## Not modelled, and the plan

Every property of the passing runs but liveness is proved.  Next would be an abstract specification
of a shop and its catalogue, with `ShopLifecycle` shown to implement it as custody, fixes and scans
implement theirs, and the routes that are not modelled.

Of the shop lifecycle, the contents of products and the counters of a run are left out, and
so is a database that fails while an except branch records a failure.  The counters would
differ: a job redelivered after its last page reads an empty one, commits a null cursor, and
a further crash then counts the pages again from the first.  A failed ingest is not retried by
Arq; the next connect starts from the first page.  A page fetched before a product webhook may
overwrite what the webhook stored; in `FixPublish` and `GroundedFixes` our copy therefore ages
in any way.

Of the interrogator, the templates and the names they are filled with.  Rendering, wording, HTML
parsing (only what `_verify` tells apart is kept), settings, the database schema, the shell's
routes, the read-only routes and the report scripts are left out: they change no state that a
property is about.
