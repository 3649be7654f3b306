--------------------------- MODULE CatalogIngest ---------------------------
(***************************************************************************)
(* Connecting a shop and importing its catalogue: POST /shops/connect      *)
(* (api/shops.py), the ingest lock (redis.py) and the Arq job              *)
(* ingest_catalog (jobs/ingest_catalog.py), for one shop domain.           *)
(*                                                                         *)
(* A connect request and the ingest run it inserts share an id.  The       *)
(* catalogue is a sequence of pages; a cursor is the number of pages it    *)
(* stands behind.  Both are cut at every await at which another request,   *)
(* job or webhook may touch what they share.                               *)
(***************************************************************************)
EXTENDS Naturals, FiniteSets

CONSTANTS
  Reqs,          \* connect requests, each with the run it inserts
  Nobody,        \* value of a free ingest lock
  LastPage,      \* pages of the merchant's catalogue
  MaxInstalls,   \* bound on the installations of the app
  Faults,        \* which failures the environment may inject
  MaxFaults      \* bound on the kinds of failure in one behaviour

Pages == 1..LastPage
Installs == 1..MaxInstalls

FaultKinds == {"agent", "crash", "duplicate", "enqueue", "notify", "page", "stop",
               "timeout", "ttl", "worker"}

ASSUME IngestAssumption ==
  /\ Nobody \notin Reqs /\ IsFiniteSet(Reqs)
  /\ LastPage \in Nat /\ MaxInstalls \in Nat /\ MaxFaults \in Nat
  /\ Faults \subseteq FaultKinds

VARIABLES
  installed,   \* Shopify: the app is installed
  inst,        \* Shopify: number of the newest installation
  session,     \* the shell's Session row: the installation it belongs to, 0 if none
  aged,        \* its token is due for a refresh
  shop,        \* the agent's shops row: its id (0 if none) and status
  ids,         \* the sequence of shop ids
  run,         \* ingest_runs: status and cursor of each row that exists
  stored,      \* the pages whose products are in the products table
  ingestLock,  \* Redis: run that holds the shop's ingest lock
  req,         \* where each connect request is
  held,        \* the shop id each request works for
  job,         \* where each ingest job is
  again,       \* jobs that Arq will start again when they have wound up
  faults       \* kinds of failure injected so far

shellVars == <<installed, inst, session, aged>>
shopVars == <<shop, ids>>
ingestVars == <<shellVars, shopVars, run, stored, ingestLock, req, held, job, again, faults>>

ShopStatus == {"active", "uninstalled", "reauth_required"}
NoShop == [id |-> 0, status |-> "uninstalled"]

RunStatus == {"queued", "running", "complete", "failed"}
NoRun == [status |-> "gone", cursor |-> 0]

IngestTypeOK ==
  /\ installed \in BOOLEAN
  /\ inst \in 0..MaxInstalls
  /\ session \in 0..MaxInstalls
  /\ aged \in BOOLEAN
  /\ shop \in [id : Nat, status : ShopStatus]
  /\ ids \in Nat
  /\ run \in [Reqs -> [status : RunStatus, cursor : 0..LastPage] \union {NoRun}]
  /\ stored \subseteq Pages
  /\ ingestLock \in Reqs \union {Nobody}
  /\ req \in [Reqs -> {"idle", "upsert", "insert", "refresh", "lock", "clash", "enqueue",
                       "done"}]
  /\ held \in [Reqs -> Nat]
  /\ job \in [Reqs -> {"none", "queued", "page", "write", "finish", "fail", "flag",
                       "release", "done"}]
  /\ again \subseteq Reqs
  /\ faults \subseteq FaultKinds

IngestInit ==
  /\ installed = FALSE /\ inst = 0
  /\ session = 0 /\ aged = FALSE
  /\ shop = NoShop /\ ids = 0
  /\ run = [q \in Reqs |-> NoRun]
  /\ stored = {}
  /\ ingestLock = Nobody
  /\ req = [q \in Reqs |-> "idle"]
  /\ held = [q \in Reqs |-> 0]
  /\ job = [q \in Reqs |-> "none"]
  /\ again = {}
  /\ faults = {}

-----------------------------------------------------------------------------

Fault(kind) ==
  /\ kind \in Faults \ faults
  /\ Cardinality(faults) < MaxFaults
  /\ faults' = faults \union {kind}

ReqAt(q, label) == req' = [req EXCEPT ![q] = label]
JobAt(q, label) == job' = [job EXCEPT ![q] = label]

Exists(q) == run[q] # NoRun

\* Shopify accepts the stored token.
Current == installed /\ session = inst

\* The stored token can no longer be refreshed, and needs to be.
DeadChain == session # 0 /\ aged /\ ~Current

-----------------------------------------------------------------------------
(* POST /shops/connect. *)

\* The merchant opens the app: install, or a new token for an expired one.  The shell
\* stores the session and afterAuth notifies the agent.
Visit(q) ==
  /\ req[q] = "idle"
  /\ \/ installed /\ inst' = inst
     \/ ~installed /\ inst < MaxInstalls /\ inst' = inst + 1
  /\ installed' = TRUE
  /\ session' = inst' /\ aged' = FALSE
  /\ ReqAt(q, "upsert")
  /\ UNCHANGED <<shopVars, run, stored, ingestLock, held, job, again, faults>>

\* afterAuth swallows the error.
NotifyLost(q) ==
  /\ req[q] = "upsert" /\ Fault("notify")
  /\ ReqAt(q, "done")
  /\ UNCHANGED <<shellVars, shopVars, run, stored, ingestLock, held, job, again>>

\* INSERT ... ON CONFLICT (shop_domain) DO UPDATE
Upsert(q) ==
  /\ req[q] = "upsert"
  /\ ids' = IF shop.id = 0 THEN ids + 1 ELSE ids
  /\ shop' = [id |-> IF shop.id = 0 THEN ids + 1 ELSE shop.id, status |-> "active"]
  /\ held' = [held EXCEPT ![q] = shop'.id]
  /\ ReqAt(q, "insert")
  /\ UNCHANGED <<shellVars, run, stored, ingestLock, job, again, faults>>

\* A row for a shop that was purged meanwhile violates its foreign key: 500.
InsertRun(q) ==
  /\ req[q] = "insert"
  /\ IF shop.id = held[q]
       THEN /\ run' = [run EXCEPT ![q] = [status |-> "queued", cursor |-> 0]]
            /\ ReqAt(q, "refresh")
       ELSE UNCHANGED run /\ ReqAt(q, "done")
  /\ UNCHANGED <<shellVars, shopVars, stored, ingestLock, held, job, again, faults>>

RefreshRun(q) ==
  /\ req[q] = "refresh"
  /\ ReqAt(q, IF Exists(q) THEN "lock" ELSE "done")
  /\ UNCHANGED <<shellVars, shopVars, run, stored, ingestLock, held, job, again, faults>>

\* SET NX
AcquireLock(q) ==
  /\ req[q] = "lock"
  /\ IF ingestLock = Nobody THEN ingestLock' = q /\ ReqAt(q, "enqueue")
                            ELSE UNCHANGED ingestLock /\ ReqAt(q, "clash")
  /\ UNCHANGED <<shellVars, shopVars, run, stored, held, job, again, faults>>

\* GET: hand back the run in flight and drop our own; a lock that has gone meanwhile
\* counts as acquired.
ReadHolder(q) ==
  /\ req[q] = "clash"
  /\ IF ingestLock = Nobody
       THEN UNCHANGED run /\ ReqAt(q, "enqueue")
       ELSE run' = [run EXCEPT ![q] = NoRun] /\ ReqAt(q, "done")
  /\ UNCHANGED <<shellVars, shopVars, stored, ingestLock, held, job, again, faults>>

Enqueue(q) ==
  /\ req[q] = "enqueue"
  /\ JobAt(q, "queued") /\ ReqAt(q, "done")
  /\ UNCHANGED <<shellVars, shopVars, run, stored, ingestLock, held, again, faults>>

\* Redis refuses the job, or the API process dies, after the lock was taken.
ConnectCutShort(q) ==
  /\ \/ req[q] = "enqueue" /\ Fault("enqueue")
     \/ req[q] \notin {"idle", "upsert", "done"} /\ Fault("crash")
  /\ ReqAt(q, "done")
  /\ UNCHANGED <<shellVars, shopVars, run, stored, ingestLock, held, job, again>>

ConnectStep(q) ==
  \/ Upsert(q) \/ InsertRun(q) \/ RefreshRun(q) \/ AcquireLock(q) \/ ReadHolder(q)
  \/ Enqueue(q)

-----------------------------------------------------------------------------
(* The job. *)

\* A job whose run or shop is gone dies before its try block: nothing is released.
StartJob(q) ==
  /\ job[q] = "queued"
  /\ IF Exists(q)
       THEN /\ run' = [run EXCEPT ![q].status = "running"]
            /\ JobAt(q, "page")
       ELSE UNCHANGED run /\ JobAt(q, "done")
  /\ UNCHANGED <<shellVars, shopVars, stored, ingestLock, req, held, again, faults>>

\* One page from the Admin API, by way of TokenProvider.  The shell refreshes a due token.
FetchPage(q) ==
  /\ job[q] = "page"
  /\ \/ Current /\ aged' = FALSE /\ JobAt(q, "write")
     \/ (session = 0 \/ DeadChain) /\ UNCHANGED aged /\ JobAt(q, "flag")   \* 404
     \/ session # 0 /\ ~DeadChain /\ ~Current /\ UNCHANGED aged /\ JobAt(q, "fail")  \* two 401s
  /\ UNCHANGED <<installed, inst, session, shopVars, run, stored, ingestLock, req, held,
                 again, faults>>

PageError(q) ==
  /\ job[q] = "page" /\ Fault("page")
  /\ JobAt(q, "fail")
  /\ UNCHANGED <<shellVars, shopVars, run, stored, ingestLock, req, held, again>>

ResumeAtMutSkips(q) == run[q].cursor + 2

\* The page after the cursor.
ResumeAt(q) == run[q].cursor + 1

EndCursorMutNoEnd(q) == ResumeAt(q)

\* endCursor; past the last page there is an empty one, whose cursor is null.
EndCursor(q) == IF ResumeAt(q) \in Pages THEN ResumeAt(q) ELSE 0

\* The page and its cursor in one transaction.  A purged shop fails the foreign key.
WritePage(q) ==
  /\ job[q] = "write"
  /\ \/ /\ Exists(q)
        /\ stored' = stored \union ({ResumeAt(q)} \intersect Pages)
        /\ run' = [run EXCEPT ![q].cursor = EndCursor(q)]
        /\ JobAt(q, IF ResumeAt(q) < LastPage THEN "page" ELSE "finish")
     \/ ~Exists(q) /\ JobAt(q, "fail") /\ UNCHANGED <<run, stored>>
  /\ UNCHANGED <<shellVars, shopVars, ingestLock, req, held, again, faults>>

FinishJob(q) ==
  /\ job[q] = "finish"
  /\ IF Exists(q)
       THEN run' = [run EXCEPT ![q].status = "complete"] /\ JobAt(q, "release")
       ELSE UNCHANGED run /\ JobAt(q, "fail")
  /\ UNCHANGED <<shellVars, shopVars, stored, ingestLock, req, held, again, faults>>

AfterErrorMutStillRunning(q) == run[q]

\* The except branches: a run that is gone cannot be updated, and the raise goes on.
AfterError(q) == IF Exists(q) THEN [run[q] EXCEPT !.status = "failed"] ELSE NoRun

LastStepMutNotInFinally(q) == IF run[q].status = "complete" THEN "release" ELSE "done"

\* finally: release_ingest_lock
LastStep(q) == "release"

FailJob(q) ==
  /\ job[q] = "fail"
  /\ run' = [run EXCEPT ![q] = AfterError(q)]
  /\ JobAt(q, LastStep(q))
  /\ UNCHANGED <<shellVars, shopVars, stored, ingestLock, req, held, again, faults>>

\* TokenUnavailableError: the shop is flagged, whatever has happened to it since.
FlagReauth(q) ==
  /\ job[q] = "flag"
  /\ run' = [run EXCEPT ![q] = AfterError(q)]
  /\ shop' = IF Exists(q) THEN [shop EXCEPT !.status = "reauth_required"] ELSE shop
  /\ JobAt(q, LastStep(q))
  /\ UNCHANGED <<shellVars, ids, stored, ingestLock, req, held, again, faults>>

\* DEL, whoever holds the lock.
ReleaseLock(q) ==
  /\ job[q] = "release"
  /\ ingestLock' = Nobody
  /\ JobAt(q, IF q \in again THEN "queued" ELSE "done")
  /\ again' = again \ {q}
  /\ UNCHANGED <<shellVars, shopVars, run, stored, req, held, faults>>

Working(q) == job[q] \in {"page", "write", "finish", "fail", "flag"}

\* The worker dies: Arq starts the job again, from the committed cursor.
WorkerCrash(q) ==
  /\ Working(q) \/ job[q] = "release"
  /\ Fault("worker")
  /\ JobAt(q, "queued")
  /\ again' = again \ {q}
  /\ UNCHANGED <<shellVars, shopVars, run, stored, ingestLock, req, held>>

\* A cancelled job only runs its finally.  When the worker is stopping Arq starts it
\* again later; after job_timeout it does not.
Cancelled(q) ==
  /\ Working(q)
  /\ \/ Fault("stop") /\ again' = again \union {q}
     \/ Fault("timeout") /\ UNCHANGED again
  /\ JobAt(q, "release")
  /\ UNCHANGED <<shellVars, shopVars, run, stored, ingestLock, req, held>>

JobStep(q) ==
  \/ StartJob(q) \/ FetchPage(q) \/ WritePage(q) \/ FinishJob(q) \/ FailJob(q)
  \/ FlagReauth(q) \/ ReleaseLock(q)

\* INGEST_LOCK_TTL_SECONDS have passed.
LockExpires ==
  /\ ingestLock # Nobody /\ Fault("ttl")
  /\ ingestLock' = Nobody
  /\ UNCHANGED <<shellVars, shopVars, run, stored, req, held, job, again>>

IngestFault(q) ==
  NotifyLost(q) \/ ConnectCutShort(q) \/ PageError(q) \/ WorkerCrash(q) \/ Cancelled(q)

=============================================================================
