--------------------------- MODULE ShopLifecycle ---------------------------
(***************************************************************************)
(* A shop from install to erasure: the merchant, Shopify's app/uninstalled *)
(* and shop/redact webhooks as the shell handles them                      *)
(* (routes/webhooks.app.uninstalled.tsx, routes/webhooks.shop.redact.tsx), *)
(* their effect on the agent (api/webhooks.py) and the purge job           *)
(* (jobs/purge_shop.py, services/purge.py), against connects and ingests.  *)
(*                                                                         *)
(* Tokens are only as detailed as authentication needs; RefreshAuthority   *)
(* has the rest.                                                           *)
(***************************************************************************)
EXTENDS CatalogIngest

CONSTANT MaxUninstalls   \* bound on the installations that end

ASSUME LifecycleAssumption == MaxUninstalls \in Nat

VARIABLES
  un,       \* where the app/uninstalled delivery of each installation is
  saw,      \* its authentication found a session
  rd,       \* where the shop/redact delivery of each installation is
  purge,    \* where the purge job it enqueued is
  victim,   \* the shop id that job read
  overlap   \* history: a connect met a purge, or an uninstallation

hookVars == <<un, saw, rd>>
purgeVars == <<purge, victim>>
stepVars == <<ingestVars, hookVars, purgeVars>>
vars == <<stepVars, overlap>>

HookPc == {"none", "sent", "forward", "erase", "done", "dropped"}

TypeOK ==
  /\ IngestTypeOK
  /\ un \in [Installs -> HookPc]
  /\ saw \in [Installs -> BOOLEAN]
  /\ rd \in [Installs -> HookPc]
  /\ purge \in [Installs -> {"none", "queued", "delete", "clear", "done"}]
  /\ victim \in [Installs -> Nat]
  /\ overlap \in BOOLEAN

Init ==
  /\ IngestInit
  /\ un = [u \in Installs |-> "none"]
  /\ saw = [u \in Installs |-> FALSE]
  /\ rd = [u \in Installs |-> "none"]
  /\ purge = [u \in Installs |-> "none"]
  /\ victim = [u \in Installs |-> 0]
  /\ overlap = FALSE

-----------------------------------------------------------------------------
(* Webhooks in the shell. *)

\* Shopify retires the tokens and sends app/uninstalled.
Uninstall ==
  /\ installed /\ inst <= MaxUninstalls
  /\ installed' = FALSE
  /\ un' = [un EXCEPT ![inst] = "sent"]
  /\ UNCHANGED <<inst, session, aged, shopVars, run, stored, ingestLock, req, held, job,
                 again, faults, saw, rd, purgeVars>>

\* Time passes over the stored token.
Age ==
  /\ session # 0 /\ ~aged
  /\ aged' = TRUE
  /\ UNCHANGED <<installed, inst, session, shopVars, run, stored, ingestLock, req, held, job,
                 again, faults, hookVars, purgeVars>>

\* 48 hours after the uninstallation: every redelivery of app/uninstalled is over.
SendRedact(u) ==
  /\ un[u] \in {"done", "dropped"} /\ rd[u] = "none"
  /\ rd' = [rd EXCEPT ![u] = "sent"]
  /\ UNCHANGED <<ingestVars, un, saw, purgeVars>>

\* authenticateWebhookSerialized: a dead refresh chain ends in the library's 500.
AuthUninstalled(u) ==
  /\ un[u] = "sent" /\ ~DeadChain
  /\ aged' = (aged /\ session = 0)
  /\ saw' = [saw EXCEPT ![u] = session # 0]
  /\ un' = [un EXCEPT ![u] = "forward"]
  /\ UNCHANGED <<installed, inst, session, shopVars, run, stored, ingestLock, req, held, job,
                 again, faults, rd, purgeVars>>

\* Shopify stops redelivering what never gets a 2xx.
DropUninstalled(u) ==
  /\ un[u] = "sent" /\ DeadChain
  /\ un' = [un EXCEPT ![u] = "dropped"]
  /\ UNCHANGED <<ingestVars, saw, rd, purgeVars>>

\* _handle_uninstalled, whatever has happened to the shop since.
ForwardUninstalled(u) ==
  /\ un[u] = "forward"
  /\ shop' = IF shop.id = 0 THEN shop ELSE [shop EXCEPT !.status = "uninstalled"]
  /\ un' = [un EXCEPT ![u] = "erase"]
  /\ UNCHANGED <<shellVars, ids, run, stored, ingestLock, req, held, job, again, faults, saw,
                 rd, purgeVars>>

\* deleteMany, only if authentication saw a session.
EraseUninstalled(u) ==
  /\ un[u] = "erase"
  /\ session' = IF saw[u] THEN 0 ELSE session
  /\ un' = [un EXCEPT ![u] = "done"]
  /\ UNCHANGED <<installed, inst, aged, shopVars, run, stored, ingestLock, req, held, job,
                 again, faults, saw, rd, purgeVars>>

AuthRedact(u) ==
  /\ rd[u] = "sent" /\ ~DeadChain
  /\ aged' = (aged /\ session = 0)
  /\ rd' = [rd EXCEPT ![u] = "forward"]
  /\ UNCHANGED <<installed, inst, session, shopVars, run, stored, ingestLock, req, held, job,
                 again, faults, un, saw, purgeVars>>

DropRedact(u) ==
  /\ rd[u] = "sent" /\ DeadChain
  /\ rd' = [rd EXCEPT ![u] = "dropped"]
  /\ UNCHANGED <<ingestVars, un, saw, purgeVars>>

\* _handle_shop_redact: queue the purge job.
ForwardRedact(u) ==
  /\ rd[u] = "forward"
  /\ purge' = [purge EXCEPT ![u] = "queued"]
  /\ rd' = [rd EXCEPT ![u] = "erase"]
  /\ UNCHANGED <<ingestVars, un, saw, victim>>

\* deleteMany, unconditionally.
EraseRedact(u) ==
  /\ rd[u] = "erase"
  /\ session' = 0
  /\ rd' = [rd EXCEPT ![u] = "done"]
  /\ UNCHANGED <<installed, inst, aged, shopVars, run, stored, ingestLock, req, held, job,
                 again, faults, un, saw, purgeVars>>

\* An agent that cannot be reached is a 500 and a redelivery; so is a delivery whose 200
\* was lost.
HookAgain(u) ==
  /\ \/ /\ (un[u] = "forward" /\ Fault("agent")) \/ (un[u] = "done" /\ Fault("duplicate"))
        /\ un' = [un EXCEPT ![u] = "sent"]
        /\ UNCHANGED rd
     \/ /\ rd[u] = "forward" /\ Fault("agent")
        /\ rd' = [rd EXCEPT ![u] = "sent"]
        /\ UNCHANGED un
  /\ UNCHANGED <<shellVars, shopVars, run, stored, ingestLock, req, held, job, again, saw,
                 purgeVars>>

-----------------------------------------------------------------------------
(* The purge job. *)

PurgeableMutOnlyUninstalled == shop.status = "uninstalled"
PurgeableMutNoGuard == TRUE

\* The reinstall guard.
Purgeable == shop.status # "active"

PurgeRead(u) ==
  /\ purge[u] = "queued"
  /\ \/ /\ shop.id = 0
        /\ purge' = [purge EXCEPT ![u] = "clear"]
        /\ UNCHANGED victim
     \/ /\ shop.id # 0 /\ Purgeable
        /\ purge' = [purge EXCEPT ![u] = "delete"]
        /\ victim' = [victim EXCEPT ![u] = shop.id]
     \/ /\ shop.id # 0 /\ ~Purgeable
        /\ purge' = [purge EXCEPT ![u] = "done"]
        /\ UNCHANGED victim
  /\ UNCHANGED <<ingestVars, hookVars>>

\* DELETE FROM shops WHERE id = ..., and everything that hangs off it.
PurgeDelete(u) ==
  /\ purge[u] = "delete"
  /\ LET hit == shop.id = victim[u] IN
     /\ shop' = IF hit THEN NoShop ELSE shop
     /\ run' = IF hit THEN [q \in Reqs |-> NoRun] ELSE run
     /\ stored' = IF hit THEN {} ELSE stored
  /\ purge' = [purge EXCEPT ![u] = "clear"]
  /\ UNCHANGED <<shellVars, ids, ingestLock, req, held, job, again, faults, hookVars, victim>>

\* Redis: the cached token and the ingest lock.
PurgeClear(u) ==
  /\ purge[u] = "clear"
  /\ ingestLock' = Nobody
  /\ purge' = [purge EXCEPT ![u] = "done"]
  /\ UNCHANGED <<shellVars, shopVars, run, stored, req, held, job, again, faults, hookVars,
                 victim>>

PurgeCrash(u) ==
  /\ purge[u] \in {"delete", "clear"} /\ Fault("worker")
  /\ purge' = [purge EXCEPT ![u] = "queued"]
  /\ UNCHANGED <<shellVars, shopVars, run, stored, ingestLock, req, held, job, again,
                 hookVars, victim>>

-----------------------------------------------------------------------------

HookStep(u) ==
  \/ AuthUninstalled(u) \/ DropUninstalled(u) \/ ForwardUninstalled(u) \/ EraseUninstalled(u)
  \/ AuthRedact(u) \/ DropRedact(u) \/ ForwardRedact(u) \/ EraseRedact(u)

PurgeStep(u) == PurgeRead(u) \/ PurgeDelete(u) \/ PurgeClear(u)

IngestStep(q) == (ConnectStep(q) \/ JobStep(q)) /\ UNCHANGED <<hookVars, purgeVars>>

Step ==
  \/ \E q \in Reqs : IngestStep(q)
  \/ \E q \in Reqs : (Visit(q) \/ IngestFault(q)) /\ UNCHANGED <<hookVars, purgeVars>>
  \/ LockExpires /\ UNCHANGED <<hookVars, purgeVars>>
  \/ \E u \in Installs : HookStep(u) \/ PurgeStep(u) \/ SendRedact(u)
  \/ \E u \in Installs : HookAgain(u) \/ PurgeCrash(u)
  \/ Uninstall \/ Age

\* A purge that has read a shop to erase and is not over, crashed and redelivered or not.
PurgePending == \E u \in Installs : victim[u] # 0 /\ purge[u] # "done"

\* A connect is under way during such a purge, or after its installation ended.
Overlapping ==
  /\ \E q \in Reqs : req[q] \notin {"idle", "upsert", "done"}
  /\ ~installed \/ PurgePending

Noted(A) == A /\ overlap' = (overlap \/ Overlapping')

Next == Noted(Step)

Spec == Init /\ [][Next]_vars

\* Uvicorn runs its requests, Arq its jobs, and Shopify sends and redelivers its webhooks.
FairSpec ==
  /\ Spec
  /\ \A q \in Reqs : WF_vars(Noted(IngestStep(q)))
  /\ \A u \in Installs : WF_vars(Noted(HookStep(u))) /\ WF_vars(Noted(PurgeStep(u)))
  /\ \A u \in Installs : WF_vars(Noted(SendRedact(u)))

-----------------------------------------------------------------------------
(* Properties. *)

\* A run that says complete stands for the whole catalogue, across crashes, redelivery and
\* resumption from the cursor (ingest_catalog).
CompleteMeansWholeCatalog ==
  \A q \in Reqs : run[q].status = "complete" => stored = Pages

\* A lock that is held is one that somebody is going to release: the connect that has yet
\* to queue its job, a job that will get as far as its finally, or a purge.  Only a connect
\* that died holding it, or that met a purge, leaves it to the one-hour limit.
LockHasAReleaser ==
  ingestLock # Nobody =>
    \/ \E q \in Reqs : req[q] = "enqueue" \/ (Exists(q) /\ job[q] \notin {"none", "done"})
    \/ PurgePending \/ overlap \/ faults \intersect {"crash", "enqueue"} # {}

\* A job that ended said how: its run is not left "running" for the page to poll, unless
\* Arq cancelled it at job_timeout.
EndIsRecorded ==
  \A q \in Reqs :
    job[q] = "done" => run[q].status \in {"complete", "failed", "gone"} \/ "timeout" \in faults

\* The reinstall guard of the purge: the rows of a shop that is active are never erased,
\* except by a purge that a connect met between its reading and its delete.
ActiveShopKeepsItsRows ==
  [][shop.id # 0 /\ shop'.id = 0 => shop.status # "active" \/ overlap]_vars

\* A purge that follows a delivered app/uninstalled erases the shop, whatever its ingest
\* was doing, as long as the merchant does not come back.
ErasureHonoured ==
  \A u \in Installs :
    purge[u] = "done" /\ un[u] = "done" /\ u = inst /\ ~installed => shop.id = 0 \/ overlap

\* webhooks.shop.redact.tsx: "this webhook is the backstop that guarantees they are gone",
\* they being the session rows a missed app/uninstalled left behind.
RedactIsTheBackstop ==
  \A u \in Installs : rd[u] = "sent" ~> session = 0 \/ installed

=============================================================================
