------------------------------ MODULE Publisher ------------------------------
(***************************************************************************)
(* The publish run: api/fixes.py start_publish, jobs/publish.py and        *)
(* graph/publisher.py.  A run is one Arq job; its steps are the stretches  *)
(* between two awaits on Shopify or the database, so requests, other runs, *)
(* the merchant and crashes interleave with it there.                      *)
(***************************************************************************)
EXTENDS FixStore

CONSTANTS
  Runs,         \* ids of the publish runs
  Cleared,      \* the shop is in PUBLISH_ALLOWED_SHOPS
  SerialRuns,   \* TRUE: a run is started only when no other is in flight
  Faults,       \* which failures the environment may inject
  MaxCrashes    \* bound on worker crashes

ASSUME PublisherAssumption ==
  /\ Cleared \in BOOLEAN
  /\ SerialRuns \in BOOLEAN
  /\ Faults \subseteq {"crash", "enqueue", "error", "ignored", "lost reply", "normalise",
                       "refuse", "timeout", "token"}
  /\ MaxCrashes \in Nat

VARIABLES
  runStatus,   \* agent_runs.status of each run; "none" before it exists
  job,         \* the Arq job of each run and what its process remembers
  shopStatus,  \* shops.status
  crashes      \* worker crashes so far (bounded by MaxCrashes)

pubVars == <<runStatus, job, shopStatus, crashes>>

PublishableTypes == {"description", "category"}

\* "committed": the run row exists and the job is not enqueued yet; "lost": no process
\* will ever touch the run again although it is not terminal.
JobPc == {"none", "committed", "queued", "fetch", "gate", "write", "reread",
          "verify", "done", "lost"}

Job == [pc : JobPc,
        picked : SUBSET Fixes,     \* the rows the run selected
        work : SUBSET Fixes,       \* those of the products it has not finished
        snap : LiveProduct,        \* the last fetch of the current product
        todo : SUBSET Fixes,       \* gated and still to be written
        written : SUBSET Fixes,    \* the mutation was accepted
        refused : SUBSET Fixes]    \* the mutation was refused

FreshJob(pc) == [pc |-> pc, picked |-> {}, work |-> {}, snap |-> NoProduct,
                 todo |-> {}, written |-> {}, refused |-> {}]

\* Between the fetch of a product and its last commit.
ProductPc == {"gate", "write", "reread", "verify"}
AtProduct(r) == job[r].pc \in ProductPc

JobTypeOK ==
  /\ job \in [Runs -> Job]
  /\ \A r \in Runs : AtProduct(r) => job[r].work # {}

PublisherTypeOK ==
  /\ runStatus \in [Runs -> {"none", "running", "completed", "failed"}]
  /\ JobTypeOK
  /\ shopStatus \in {"active", "reauth_required"}
  /\ crashes \in 0..MaxCrashes

PublisherInit ==
  /\ runStatus = [r \in Runs |-> "none"]
  /\ job = [r \in Runs |-> FreshJob("none")]
  /\ shopStatus = "active"
  /\ crashes = 0

Running(r) == job[r].pc = "fetch" \/ AtProduct(r)

-----------------------------------------------------------------------------
(* The pure parts of the node. *)

HasCategory(W, p) == \E f \in W : ProductOf[f] = p /\ TypeOf[f] = "category"

\* By product id only.
PrecedesMutById(W, p, q) == p < q

\* Products carrying a category fix go last; within a class, by product id.
Precedes(W, p, q) ==
  \/ ~HasCategory(W, p) /\ HasCategory(W, q)
  \/ (HasCategory(W, p) <=> HasCategory(W, q)) /\ p < q

CurrentProduct(W) ==
  CHOOSE p \in {ProductOf[f] : f \in W} :
    \A q \in {ProductOf[f] : f \in W} \ {p} : Precedes(W, p, q)

Mine(r) == {f \in job[r].work : ProductOf[f] = CurrentProduct(job[r].work)}

Landed(f, product) == Field(f, product) = After(f)

\* _rewind: the snapshot with a landed description put back to what it was.
Rewound(product, landed) ==
  IF \E f \in landed : TypeOf[f] = "description"
    THEN [product EXCEPT !.body =
            Before(CHOOSE f \in landed : TypeOf[f] = "description")]
    ELSE product

BaseMatchesMutAlways(f, product) == TRUE

\* Staleness layer 1: the field still is what the fix was computed from.
BaseMatches(f, product) == Field(f, product) = Before(f)

\* Staleness layer 2: the fields the fix was grounded on still hash the same.
HashMatches(f, product, landed) ==
  SourceHash(basis[f]) = SourceHash(Rewound(product, landed))

\* What the gate decides of one fix, given the snapshot and the fixes already landed.
GateOutcome(f, product, landed) ==
  IF f \in landed THEN "verified"
  ELSE IF HashMatches(f, product, landed) /\ BaseMatches(f, product) THEN "write"
  ELSE "stale"

\* _verify: exact, or (description only) the original copy and every appended line are there.
Confirmed(f, product) ==
  \/ Landed(f, product)
  \/ /\ TypeOf[f] = "description"
     /\ WordsOf[Before(f).copy] \subseteq WordsOf[product.body.copy]
     /\ \A i \in DOMAIN After(f).lines :
          \E k \in DOMAIN product.body.lines : product.body.lines[k] = After(f).lines[i]

\* What Shopify may store for a value it accepts.
Stored(f) ==
  IF TypeOf[f] = "description" /\ "normalise" \in Faults
    THEN {After(f), [After(f) EXCEPT !.echo = "normalised"]}
    ELSE {After(f)}

RiskFirstMutDescriptions(S) == {f \in S : TypeOf[f] = "description"}

\* The writes of one product go in ascending risk: the description, then the category.
RiskFirst(S) ==
  {f \in S : TypeOf[f] = "category" => \A g \in S : TypeOf[g] # "description"}

-----------------------------------------------------------------------------
(* Starting a run. *)

\* POST .../fixes/publish: 409 unless something is approved; the run row is committed.
StartPublish(r) ==
  /\ runStatus[r] = "none"
  /\ WithStatus("approved") # {}
  /\ SerialRuns => \A s \in Runs : job[s].pc \in {"none", "done", "lost"}
  /\ runStatus' = [runStatus EXCEPT ![r] = "running"]
  /\ job' = [job EXCEPT ![r] = FreshJob("committed")]
  /\ UNCHANGED <<storeVars, shopStatus, crashes>>

\* ... and only then is the job enqueued.
Enqueue(r) ==
  /\ job[r].pc = "committed"
  /\ job' = [job EXCEPT ![r].pc = "queued"]
  /\ UNCHANGED <<storeVars, runStatus, shopStatus, crashes>>

\* Redis refuses, or the web process dies in between: the run row stays.
EnqueueFails(r) ==
  /\ "enqueue" \in Faults
  /\ job[r].pc = "committed"
  /\ job' = [job EXCEPT ![r].pc = "lost"]
  /\ UNCHANGED <<storeVars, runStatus, shopStatus, crashes>>

-----------------------------------------------------------------------------
(* run_publisher. *)

EndRunMutForgetsTheRun(r, outcome) ==
  /\ UNCHANGED runStatus
  /\ job' = [job EXCEPT ![r] = FreshJob("done")]

\* complete_agent_run, and the job is over.
EndRun(r, outcome) ==
  /\ runStatus' = [runStatus EXCEPT ![r] = outcome]
  /\ job' = [job EXCEPT ![r] = [FreshJob("done") EXCEPT !.picked = job[r].picked]]

SelectedMutProposed == WithStatus("approved") \union WithStatus("proposed")
SelectedMutRetriesFailed == WithStatus("approved") \union WithStatus("publish_failed")

\* The rows a run works on: the shop's approved ones, and nothing else.
Selected == WithStatus("approved")

\* PublishAborted: the shop is not cleared, the gate was bypassed, or supersede failed.
MustAbort(W) ==
  \/ ~Cleared
  \/ \E f \in W : TypeOf[f] \notin PublishableTypes
  \/ \E f, g \in W : f # g /\ SameTarget(f, g)

Select(r) ==
  /\ job[r].pc = "queued"
  /\ ~MustAbort(Selected)
  /\ job' = [job EXCEPT ![r] =
               [FreshJob("fetch") EXCEPT !.picked = Selected, !.work = Selected]]
  /\ UNCHANGED <<storeVars, runStatus, shopStatus, crashes>>

AbortRun(r) ==
  /\ job[r].pc = "queued"
  /\ MustAbort(Selected)
  /\ EndRun(r, "failed")
  /\ UNCHANGED <<storeVars, shopStatus, crashes>>

\* One snapshot per product.
Fetch(r) ==
  /\ job[r].pc = "fetch"
  /\ job[r].work # {}
  /\ job' = [job EXCEPT ![r].pc = "gate",
                        ![r].snap = live[CurrentProduct(job[r].work)]]
  /\ UNCHANGED <<storeVars, runStatus, shopStatus, crashes>>

NextProductMutAgain(r) ==
  job' = [job EXCEPT ![r] = [FreshJob("fetch") EXCEPT !.picked = job[r].picked,
                                                      !.work = job[r].work]]

\* The job goes on to its next product.
NextProduct(r) ==
  job' = [job EXCEPT ![r] = [FreshJob("fetch") EXCEPT !.picked = job[r].picked,
                                                      !.work = job[r].work \ Mine(r)]]

\* The product is gone: every fix of it fails.
GateGone(r) ==
  /\ job[r].pc = "gate"
  /\ job[r].snap = NoProduct
  /\ Unlocked(Mine(r))
  /\ status' = [f \in Fixes |-> IF f \in Mine(r) THEN "publish_failed" ELSE status[f]]
  /\ NextProduct(r)
  /\ UNCHANGED <<basis, lock, row, live, shown, consented, runStatus, shopStatus, crashes>>

\* Reconciliation, then both staleness layers; every no-write outcome is committed
\* before the first write.
GateResult(r) ==
  LET landed == {f \in Mine(r) : Landed(f, job[r].snap)}
  IN  [f \in Mine(r) |-> GateOutcome(f, job[r].snap, landed)]

Gate(r) ==
  LET result == GateResult(r)
      writable == {f \in Mine(r) : result[f] = "write"}
  IN  /\ job[r].pc = "gate"
      /\ job[r].snap # NoProduct
      /\ Unlocked(Mine(r) \ writable)
      /\ status' = [f \in Fixes |->
                      IF f \in Mine(r) \ writable THEN result[f] ELSE status[f]]
      /\ IF writable = {} THEN NextProduct(r)
         ELSE job' = [job EXCEPT ![r].pc = "write", ![r].todo = writable]
      /\ UNCHANGED <<basis, lock, row, live, shown, consented, runStatus, shopStatus, crashes>>

\* productUpdate applied by Shopify (an absolute assignment of one field).
Apply(r, f, value) ==
  LET p == CurrentProduct(job[r].work)
      product == WithField(f, live[p], value)
  IN  /\ live[p] # NoProduct
      /\ live' = [live EXCEPT ![p] = product]
      /\ Show(p, product)

Write(r, f) ==
  /\ job[r].pc = "write"
  /\ f \in RiskFirst(job[r].todo)
  /\ \E value \in Stored(f) : Apply(r, f, value)
  /\ job' = [job EXCEPT ![r].todo = @ \ {f}, ![r].written = @ \union {f}]
  /\ UNCHANGED <<status, basis, lock, row, consented, runStatus, shopStatus, crashes>>

\* Shopify accepts the mutation and the product stays as it was.
Ignore(r, f) ==
  /\ "ignored" \in Faults
  /\ job[r].pc = "write"
  /\ f \in RiskFirst(job[r].todo)
  /\ job' = [job EXCEPT ![r].todo = @ \ {f}, ![r].written = @ \union {f}]
  /\ UNCHANGED <<storeVars, runStatus, shopStatus, crashes>>

\* userErrors, or any other ShopifyAdminError: isolated to the fix.
Refuse(r, f) ==
  /\ job[r].pc = "write"
  /\ f \in RiskFirst(job[r].todo)
  /\ "refuse" \in Faults \/ live[CurrentProduct(job[r].work)] = NoProduct
  /\ job' = [job EXCEPT ![r].todo = @ \ {f}, ![r].refused = @ \union {f}]
  /\ UNCHANGED <<storeVars, runStatus, shopStatus, crashes>>

StatusAfterWritesMutDropsRefused(r) ==
  [f \in Fixes |-> IF f \in job[r].written THEN "published" ELSE status[f]]

StatusAfterWrites(r) ==
  [f \in Fixes |-> IF f \in job[r].written THEN "published"
                   ELSE IF f \in job[r].refused THEN "publish_failed"
                   ELSE status[f]]

\* One commit after all the writes of the product.
CommitWrites(r) ==
  /\ job[r].pc = "write"
  /\ job[r].todo = {}
  /\ Unlocked(job[r].written \union job[r].refused)
  /\ status' = StatusAfterWrites(r)
  /\ IF job[r].written = {} THEN NextProduct(r) ELSE job' = [job EXCEPT ![r].pc = "reread"]
  /\ UNCHANGED <<basis, lock, row, live, shown, consented, runStatus, shopStatus, crashes>>

Reread(r) ==
  /\ job[r].pc = "reread"
  /\ job' = [job EXCEPT ![r].pc = "verify",
                        ![r].snap = live[CurrentProduct(job[r].work)]]
  /\ UNCHANGED <<storeVars, runStatus, shopStatus, crashes>>

VerifyOutcomeMutTrustsTheReply(r, f) == "verified"
VerifyOutcomeMutRunStatus(r, f) ==
  IF job[r].snap # NoProduct /\ Confirmed(f, job[r].snap) THEN "verified" ELSE "failed"

\* A re-read that does not confirm the write fails the fix.
VerifyOutcome(r, f) ==
  IF job[r].snap # NoProduct /\ Confirmed(f, job[r].snap) THEN "verified"
                                                        ELSE "publish_failed"

\* Judge the fresh read and refresh our copy of the product from it.
Verify(r) ==
  /\ job[r].pc = "verify"
  /\ Unlocked(job[r].written)
  /\ status' = [f \in Fixes |->
                  IF f \in job[r].written THEN VerifyOutcome(r, f) ELSE status[f]]
  /\ row' = IF job[r].snap = NoProduct THEN row
            ELSE [row EXCEPT ![CurrentProduct(job[r].work)] = job[r].snap]
  /\ NextProduct(r)
  /\ UNCHANGED <<basis, lock, live, shown, consented, runStatus, shopStatus, crashes>>

Complete(r) ==
  /\ job[r].pc = "fetch"
  /\ job[r].work = {}
  /\ EndRun(r, "completed")
  /\ UNCHANGED <<storeVars, shopStatus, crashes>>

-----------------------------------------------------------------------------
(* How a run ends early. *)

\* An exception from Shopify or the database: roll back what is not committed.
Fail(r) ==
  /\ "error" \in Faults
  /\ Running(r)
  /\ EndRun(r, "failed")
  /\ UNCHANGED <<storeVars, shopStatus, crashes>>

\* The mutation lands but its reply does not.
LostReply(r, f) ==
  /\ "lost reply" \in Faults
  /\ job[r].pc = "write"
  /\ f \in RiskFirst(job[r].todo)
  /\ \E value \in Stored(f) : Apply(r, f, value)
  /\ EndRun(r, "failed")
  /\ UNCHANGED <<status, basis, lock, row, consented, shopStatus, crashes>>

\* TokenUnavailableError from any Shopify call: the shop must re-authorise.
TokenUnavailable(r) ==
  /\ "token" \in Faults
  /\ \/ job[r].pc = "fetch" /\ job[r].work # {}
     \/ job[r].pc = "write" /\ job[r].todo # {}
     \/ job[r].pc = "reread"
  /\ shopStatus' = "reauth_required"
  /\ EndRun(r, "failed")
  /\ UNCHANGED <<storeVars, crashes>>

\* The worker process dies; Arq delivers the job again, from the beginning.
Crash(r) ==
  /\ "crash" \in Faults
  /\ crashes < MaxCrashes
  /\ Running(r)
  /\ crashes' = crashes + 1
  /\ job' = [job EXCEPT ![r] = FreshJob("queued")]
  /\ UNCHANGED <<storeVars, runStatus, shopStatus>>

\* Arq cancels the job at its time limit: no handler of the job runs.
JobTimeout(r) ==
  /\ "timeout" \in Faults
  /\ Running(r)
  /\ job' = [job EXCEPT ![r] = FreshJob("lost")]
  /\ UNCHANGED <<storeVars, runStatus, shopStatus, crashes>>

WriteStep(r) == \E f \in Fixes : Write(r, f) \/ Ignore(r, f) \/ Refuse(r, f) \/ LostReply(r, f)

CommitStep(r) == GateGone(r) \/ Gate(r) \/ CommitWrites(r) \/ Verify(r)

JobStep(r) ==
  \/ Select(r) \/ AbortRun(r) \/ Fetch(r) \/ CommitStep(r) \/ WriteStep(r)
  \/ Reread(r) \/ Complete(r)

RunStep(r) ==
  \/ StartPublish(r) \/ Enqueue(r) \/ EnqueueFails(r)
  \/ JobStep(r)
  \/ Fail(r) \/ TokenUnavailable(r) \/ Crash(r) \/ JobTimeout(r)

PublisherNext == \E r \in Runs : RunStep(r)

=============================================================================
