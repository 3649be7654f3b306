----------------------------- MODULE FixPublish -----------------------------
(***************************************************************************)
(* The approval gate and the publisher over one set of fixes, with the     *)
(* optimizer that proposes, the webhooks and ingests that refresh our copy *)
(* of a product, and a merchant who edits the store in the meantime.       *)
(***************************************************************************)
EXTENDS ApprovalGate, Publisher

CONSTANT MaxEdits   \* bound on the merchant's own edits

ASSUME FixPublishAssumption == MaxEdits \in Nat

VARIABLE edits      \* the merchant's edits so far

vars == <<storeVars, dtx, pubVars, edits>>

TypeOK ==
  /\ StoreTypeOK
  /\ GateTypeOK
  /\ PublisherTypeOK
  /\ edits \in 0..MaxEdits

\* The catalog has just been ingested and nothing has been proposed yet.
Init ==
  /\ status = [f \in Fixes |-> "none"]
  /\ lock = [f \in Fixes |-> Free]
  /\ \E copy \in [Products -> Copies], other \in Others :
       row = [p \in Products |-> [body |-> [copy |-> copy[p], lines |-> <<>>, echo |-> "sent"],
                                  cat |-> NoCategory, other |-> other]]
  /\ basis = [f \in Fixes |-> row[ProductOf[f]]]
  /\ live = row
  /\ shown = [p \in Products |-> {row[p]}]
  /\ consented = {}
  /\ GateInit
  /\ PublisherInit
  /\ edits = 0

-----------------------------------------------------------------------------
(* optimizer.run_optimizer: one commit inserts the proposals for a product, at     *)
(* most one per target, computed from our copy of it.  Nothing tells it what was   *)
(* proposed, rejected or published before.                                         *)
Propose(p, new) ==
  /\ new # {}
  /\ \A f \in new : ProductOf[f] = p /\ status[f] = "none"
  /\ \A f, g \in new : f # g => ~SameTarget(f, g)
  /\ (\E f \in new : TypeOf[f] = "category") => row[p].cat = NoCategory
  /\ status' = [f \in Fixes |-> IF f \in new THEN "proposed" ELSE status[f]]
  /\ basis' = [f \in Fixes |-> IF f \in new THEN row[p] ELSE basis[f]]
  /\ UNCHANGED <<lock, row, live, shown, consented, dtx, pubVars, edits>>

\* webhooks._handle_product_update: late, repeated and out-of-order deliveries, none of
\* which carries the category.
ProductWebhook(p) ==
  /\ \E v \in shown[p] :
       row' = [row EXCEPT ![p].body = v.body, ![p].other = v.other]
  /\ row' # row
  /\ UNCHANGED <<status, basis, lock, live, shown, consented, dtx, pubVars, edits>>

\* A full ingest reads every column from the live product.
Reingest(p) ==
  /\ live[p] # NoProduct
  /\ row[p] # live[p]
  /\ row' = [row EXCEPT ![p] = live[p]]
  /\ UNCHANGED <<status, basis, lock, live, shown, consented, dtx, pubVars, edits>>

StoreBecomes(p, product) ==
  /\ product # live[p]
  /\ live' = [live EXCEPT ![p] = product]
  /\ Show(p, product)

\* The merchant rewrites the description (keeping our blocks or not), sets the category,
\* or changes something else.
MerchantEdit(p) ==
  /\ edits < MaxEdits
  /\ live[p] # NoProduct
  /\ \/ \E copy \in Copies, lines \in {live[p].body.lines, <<>>} :
          StoreBecomes(p, [live[p] EXCEPT !.body.copy = copy, !.body.lines = lines])
     \/ \E cat \in Categories : StoreBecomes(p, [live[p] EXCEPT !.cat = cat])
     \/ \E other \in Others : StoreBecomes(p, [live[p] EXCEPT !.other = other])
  /\ edits' = edits + 1
  /\ UNCHANGED <<status, basis, lock, row, consented, dtx, pubVars>>

MerchantDelete(p) ==
  /\ edits < MaxEdits
  /\ live[p] # NoProduct
  /\ live' = [live EXCEPT ![p] = NoProduct]
  /\ edits' = edits + 1
  /\ UNCHANGED <<status, basis, lock, row, shown, consented, dtx, pubVars>>

EnvNext ==
  \E p \in Products :
    \/ \E new \in SUBSET Fixes : Propose(p, new)
    \/ ProductWebhook(p) \/ Reingest(p)
    \/ MerchantEdit(p) \/ MerchantDelete(p)

Next ==
  \/ GateNext /\ UNCHANGED <<pubVars, edits>>
  \/ PublisherNext /\ UNCHANGED <<dtx, edits>>
  \/ EnvNext

Spec == Init /\ [][Next]_vars

\* Postgres ends every transaction: it runs, or it is a deadlock's victim, or its
\* connection times out.  Arq runs every queued job, and a commit that keeps queueing
\* for its row locks gets them.
Fairness ==
  /\ \A d \in Deciders : WF_vars(AbortDecision(d) /\ UNCHANGED <<pubVars, edits>>)
  /\ \A r \in Runs : /\ WF_vars((Enqueue(r) \/ JobStep(r)) /\ UNCHANGED <<dtx, edits>>)
                     /\ SF_vars(CommitStep(r) /\ UNCHANGED <<dtx, edits>>)

FairSpec == Spec /\ Fairness

-----------------------------------------------------------------------------
(* Properties. *)

SameTargetOther(f, g) == g \in Rivals(f)

\* At most one fix of a product's body (or category) is approved at a time: the
\* supersede of _decide, which the append-only publisher relies on.
AtMostOneApproved ==
  \A f, g \in WithStatus("approved") : SameTarget(f, g) => f = g

\* Whatever races, crashes or retries happen, a run only ever holds, and therefore only
\* ever writes, fixes whose approval was committed; and only those get an outcome of
\* publishing.
OnlyConsentedIsPublished ==
  /\ \A r \in Runs : job[r].work \union job[r].todo \union job[r].written \subseteq consented
  /\ \A f \in Fixes : status[f] \in {"approved", "published", "verified", "publish_failed"}
                        => f \in consented

\* A verified fix was really seen in the merchant's store at some time: verified never
\* rests on the reply of the mutation.
VerifiedWasLive ==
  \A f \in WithStatus("verified") : \E v \in shown[ProductOf[f]] : Confirmed(f, v)

\* A mutation sent while the store is as the run's snapshot showed it (but for the run's
\* own writes) replaces exactly the value the fix was computed from: it never appends to,
\* or assigns over, something it did not see.
WriteReplacesItsBasis ==
  [][\A r \in Runs : \A f \in job[r].todo :
       (/\ live'[ProductOf[f]] # live[ProductOf[f]]
        /\ job'[r] # job[r] /\ f \notin job'[r].todo
        /\ Field(f, live[ProductOf[f]]) = Field(f, job[r].snap))
         => Field(f, live[ProductOf[f]]) = Before(f)]_vars

Lifecycle == INSTANCE FixLifecycle WITH Rival <- SameTargetOther

\* The gate and the publisher implement FixLifecycle: seen from the status column alone,
\* every commit of either is one legal step, however the transactions of requests and
\* runs interleave, crash and start over.  In particular verified, publish_failed and
\* rejected are final.
ImplementsLifecycle == Lifecycle!Spec

\* A run that completes has given each fix it picked an outcome: no silent skips.
NoSilentSkip ==
  [][\A r \in Runs : (runStatus[r] = "running" /\ runStatus'[r] = "completed")
       => \A f \in job[r].picked : status[f] \in {"verified", "stale", "publish_failed"}]_vars

\* The tax-relevant category write comes last: while a run still has a product with only
\* description fixes to publish, it sends no category; and within a product the
\* description has been sent (or refused) before the category is.
CategoryIsLast ==
  [][\A r \in Runs : \A f \in job[r].todo :
       (TypeOf[f] = "category" /\ job'[r] # job[r] /\ f \in job'[r].written) =>
         /\ \A g \in job[r].work : \E h \in job[r].work :
              ProductOf[h] = ProductOf[g] /\ TypeOf[h] = "category"
         /\ \A g \in job[r].todo : TypeOf[g] # "description"]_vars

\* How far the job of a run has come.
Rank == [none |-> 0, committed |-> 1, queued |-> 2, fetch |-> 3, gate |-> 4, write |-> 5,
         reread |-> 6, verify |-> 7, done |-> 8, lost |-> 8]

\* Every step of a run brings it nearer to its end: it comes further with the products it
\* still has, or sends one mutation the less, or is done with a product for good.  Only one
\* of the MaxCrashes crashes sets it back: nothing in run_publisher can go round.
RunAdvances ==
  [][\A r \in Runs : job'[r] # job[r] =>
       \/ /\ Rank[job'[r].pc] > Rank[job[r].pc]
          /\ Running(r) /\ Running(r)' => job'[r].work = job[r].work
       \/ /\ job[r].pc = "write" /\ job'[r].pc = "write" /\ job'[r].work = job[r].work
          /\ job'[r].todo \subseteq job[r].todo /\ job'[r].todo # job[r].todo
       \/ /\ AtProduct(r) /\ job'[r].pc = "fetch"
          /\ job'[r].work \subseteq job[r].work /\ job'[r].work # job[r].work
       \/ crashes' = crashes + 1]_vars

\* The next step of the job waits for nothing.
CanGoOn(r) ==
  \/ job[r].pc \in {"committed", "queued", "fetch", "reread"}
  \/ job[r].pc = "write" /\ RiskFirst(job[r].todo) # {}
  \/ job[r].pc \in {"gate", "write", "verify"} /\ job[r].todo = {} /\ Unlocked(Mine(r))

\* Its commit waits for a row that a supersede holds, whose transaction Postgres will end.
WaitsForRequest(r) ==
  AtProduct(r) /\ \E f \in Mine(r) : lock[f] # Free /\ dtx[lock[f]].pc = "superseding"

LostToAFault(r) == job[r].pc = "lost" /\ Faults \intersect {"enqueue", "timeout"} # {}

\* A run whose row says running can go on, or waits for a request that does not wait for it,
\* or was lost between its row and its queue or to Arq's time limit: no other way out of the
\* job leaves the row behind, and no order of the writes leaves one that is never sent.
RunIsNeverStuck ==
  \A r \in Runs : runStatus[r] = "running" =>
    CanGoOn(r) \/ WaitsForRequest(r) \/ LostToAFault(r)

\* Every publish run reaches a terminal status.
RunTerminates ==
  \A r \in Runs : runStatus[r] = "running" ~> runStatus[r] \in {"completed", "failed"}

\* models/fix.py: a fix left published by a crash is reconciled by the next publish run.
NextRunReconcilesPublished ==
  [][\A r \in Runs : (job[r].pc = "queued" /\ job'[r].pc = "fetch")
       => \A f \in WithStatus("published") :
            f \in job'[r].picked \/ \E s \in Runs \ {r} : f \in job[s].written]_vars

\* optimizer.py and publisher.py: the Details block is never appended twice.
OneDetailsBlock ==
  \A p \in Products : live[p] # NoProduct =>
    \A i, k \in DOMAIN live[p].body.lines :
      live[p].body.lines[i] = live[p].body.lines[k] => i = k

=============================================================================
