----------------------- MODULE ShopLifecycle_proofs -----------------------
(***************************************************************************)
(* What holds of a shop from install to erasure for any number of          *)
(* connects, pages, installations and faults.                              *)
(***************************************************************************)
EXTENDS ShopLifecycle, TLAPS

Run == [status : RunStatus, cursor : 0..LastPage]

\* A run that exists is a row of ingest_runs, and stays one when a column is updated.
LEMMA RunTyped ==
  ASSUME TypeOK, NEW q \in Reqs, Exists(q)
  PROVE  /\ run[q] \in Run
         /\ \A s \in RunStatus : [run[q] EXCEPT !.status = s] \in Run
         /\ \A k \in 0..LastPage : [run[q] EXCEPT !.cursor = k] \in Run
BY DEF TypeOK, IngestTypeOK, Exists, Run, NoRun

LEMMA NextIsNoted ==
  ASSUME Next
  PROVE  Step /\ overlap' = (overlap \/ Overlapping')
BY DEF Next, Noted

LEMMA TypeInit == Init => TypeOK
<1> SUFFICES ASSUME Init PROVE TypeOK
  OBVIOUS
<1>1. run \in [Reqs -> Run \union {NoRun}]
  BY DEF Init, IngestInit
<1>2. shop \in [id : Nat, status : ShopStatus]
  BY DEF Init, IngestInit, NoShop, ShopStatus
<1>3. inst \in 0..MaxInstalls /\ session \in 0..MaxInstalls
  BY IngestAssumption DEF Init, IngestInit
<1> QED
  BY <1>1, <1>2, <1>3 DEF Init, IngestInit, TypeOK, IngestTypeOK, Run, HookPc

LEMMA ConnectTyped ==
  ASSUME TypeOK, NEW q \in Reqs,
         Visit(q) \/ ConnectStep(q) \/ NotifyLost(q) \/ ConnectCutShort(q)
  PROVE  IngestTypeOK'
<1> USE DEF TypeOK, IngestTypeOK, ReqAt
<1>1. CASE Visit(q)
  <2>1. inst' \in 0..MaxInstalls /\ session' \in 0..MaxInstalls
    BY <1>1, IngestAssumption DEF Visit
  <2> QED  BY <1>1, <2>1 DEF Visit, shopVars
<1>2. CASE NotifyLost(q) \/ ConnectCutShort(q)
  BY <1>2, IngestAssumption DEF NotifyLost, ConnectCutShort, Fault, shellVars, shopVars
<1>3. CASE Upsert(q)
  <2>1. shop' \in [id : Nat, status : ShopStatus] /\ ids' \in Nat /\ shop'.id \in Nat
    BY <1>3 DEF Upsert, ShopStatus
  <2> QED  BY <1>3, <2>1 DEF Upsert, shellVars
<1>4. CASE InsertRun(q)
  <2>1. [status |-> "queued", cursor |-> 0] \in [status : RunStatus, cursor : 0..LastPage]
    BY IngestAssumption DEF RunStatus
  <2> QED  BY <1>4, <2>1 DEF InsertRun, shellVars, shopVars
<1>5. CASE RefreshRun(q) \/ AcquireLock(q) \/ ReadHolder(q)
  BY <1>5 DEF RefreshRun, AcquireLock, ReadHolder, shellVars, shopVars
<1>6. CASE Enqueue(q)
  BY <1>6 DEF Enqueue, JobAt, shellVars, shopVars
<1> QED  BY <1>1, <1>2, <1>3, <1>4, <1>5, <1>6 DEF ConnectStep

LEMMA JobTyped ==
  ASSUME TypeOK, NEW q \in Reqs,
         JobStep(q) \/ PageError(q) \/ WorkerCrash(q) \/ Cancelled(q)
  PROVE  IngestTypeOK'
<1> USE DEF TypeOK, IngestTypeOK, JobAt
<1>1. CASE StartJob(q) \/ FinishJob(q)
  <2>1. Exists(q) => \A s \in RunStatus : [run[q] EXCEPT !.status = s] \in Run
    BY RunTyped
  <2>2. run' \in [Reqs -> Run \union {NoRun}]
    <3>1. ASSUME NEW s \in RunStatus, Exists(q), run' = [run EXCEPT ![q].status = s]
          PROVE  run' \in [Reqs -> Run \union {NoRun}]
      <4>1. run' = [run EXCEPT ![q] = [run[q] EXCEPT !.status = s]]
        BY <3>1
      <4> QED  BY <2>1, <3>1, <4>1 DEF Run
    <3>2. CASE UNCHANGED run
      BY <3>2 DEF Run
    <3> QED  BY <1>1, <3>1, <3>2 DEF StartJob, FinishJob, RunStatus
  <2> QED  BY <1>1, <2>2 DEF StartJob, FinishJob, Run, shellVars, shopVars
<1>2. CASE FetchPage(q)
  BY <1>2 DEF FetchPage, shopVars
<1>3. CASE WritePage(q)
  <2>1. EndCursor(q) \in 0..LastPage
    BY IngestAssumption DEF EndCursor, Pages
  <2>2. Exists(q) => [run[q] EXCEPT !.cursor = EndCursor(q)] \in Run
    BY <2>1, RunTyped
  <2>3. run' \in [Reqs -> Run \union {NoRun}]
    <3>1. CASE Exists(q)
      <4>1. run' = [run EXCEPT ![q] = [run[q] EXCEPT !.cursor = EndCursor(q)]]
        BY <1>3, <3>1 DEF WritePage
      <4> QED  BY <2>2, <3>1, <4>1 DEF Run
    <3>2. CASE ~Exists(q)
      BY <1>3, <3>2 DEF WritePage, Run
    <3> QED  BY <3>1, <3>2
  <2>4. stored' \subseteq Pages
    BY <1>3 DEF WritePage
  <2> QED  BY <1>3, <2>3, <2>4 DEF WritePage, Run, shellVars, shopVars
<1>4. CASE FailJob(q) \/ FlagReauth(q)
  <2>1. AfterError(q) \in Run \union {NoRun}
    BY RunTyped DEF AfterError, RunStatus
  <2>2. shop' \in [id : Nat, status : ShopStatus]
    BY <1>4 DEF FailJob, FlagReauth, ShopStatus, shopVars
  <2> QED  BY <1>4, <2>1, <2>2 DEF FailJob, FlagReauth, LastStep, Run, shellVars, shopVars
<1>5. CASE ReleaseLock(q)
  BY <1>5 DEF ReleaseLock, shellVars, shopVars
<1>6. CASE PageError(q) \/ WorkerCrash(q) \/ Cancelled(q)
  BY <1>6, IngestAssumption
  DEF PageError, WorkerCrash, Cancelled, Fault, shellVars, shopVars
<1> QED  BY <1>1, <1>2, <1>3, <1>4, <1>5, <1>6 DEF JobStep

LEMMA HookTyped ==
  ASSUME TypeOK, NEW u \in Installs, HookStep(u) \/ HookAgain(u) \/ SendRedact(u)
  PROVE  /\ IngestTypeOK'
         /\ un' \in [Installs -> HookPc] /\ saw' \in [Installs -> BOOLEAN]
         /\ rd' \in [Installs -> HookPc]
         /\ purge' \in [Installs -> {"none", "queued", "delete", "clear", "done"}]
         /\ victim' \in [Installs -> Nat]
<1> USE DEF TypeOK, HookPc, ingestVars, shellVars, shopVars, purgeVars
<1>1. CASE AuthUninstalled(u) \/ AuthRedact(u)
  BY <1>1 DEF AuthUninstalled, AuthRedact, IngestTypeOK
<1>2. CASE DropUninstalled(u) \/ DropRedact(u) \/ ForwardRedact(u) \/ SendRedact(u)
  BY <1>2 DEF DropUninstalled, DropRedact, ForwardRedact, SendRedact, IngestTypeOK
<1>3. CASE ForwardUninstalled(u)
  <2>1. shop' \in [id : Nat, status : ShopStatus]
    BY <1>3 DEF ForwardUninstalled, IngestTypeOK, ShopStatus
  <2> QED  BY <1>3, <2>1 DEF ForwardUninstalled, IngestTypeOK
<1>4. CASE EraseUninstalled(u) \/ EraseRedact(u)
  BY <1>4, IngestAssumption DEF EraseUninstalled, EraseRedact, IngestTypeOK
<1>5. CASE HookAgain(u)
  BY <1>5, IngestAssumption DEF HookAgain, Fault, IngestTypeOK
<1> QED  BY <1>1, <1>2, <1>3, <1>4, <1>5 DEF HookStep

LEMMA PurgeTyped ==
  ASSUME TypeOK, NEW u \in Installs, PurgeStep(u) \/ PurgeCrash(u)
  PROVE  /\ IngestTypeOK'
         /\ un' \in [Installs -> HookPc] /\ saw' \in [Installs -> BOOLEAN]
         /\ rd' \in [Installs -> HookPc]
         /\ purge' \in [Installs -> {"none", "queued", "delete", "clear", "done"}]
         /\ victim' \in [Installs -> Nat]
<1> USE DEF TypeOK, IngestTypeOK, ingestVars, shellVars, shopVars, hookVars
<1>1. CASE PurgeRead(u)
  BY <1>1 DEF PurgeRead
<1>2. CASE PurgeDelete(u)
  <2>1. shop' \in [id : Nat, status : ShopStatus]
    BY <1>2 DEF PurgeDelete, NoShop, ShopStatus
  <2>2. run' \in [Reqs -> Run \union {NoRun}]
    BY <1>2 DEF PurgeDelete, Run
  <2> QED  BY <1>2, <2>1, <2>2 DEF PurgeDelete, Run
<1>3. CASE PurgeClear(u)
  BY <1>3 DEF PurgeClear
<1>4. CASE PurgeCrash(u)
  BY <1>4, IngestAssumption DEF PurgeCrash, Fault
<1> QED  BY <1>1, <1>2, <1>3, <1>4 DEF PurgeStep

\* Every action keeps the state well formed.
LEMMA TypeStep == TypeOK /\ [Next]_vars => TypeOK'
<1> SUFFICES ASSUME TypeOK, [Next]_vars PROVE TypeOK'
  OBVIOUS
<1>1. CASE UNCHANGED vars
  BY <1>1 DEF vars, stepVars, ingestVars, shellVars, shopVars, hookVars, purgeVars, TypeOK,
              IngestTypeOK
<1>2. CASE Next
  <2> USE DEF hookVars, purgeVars
  <2>0. Step /\ overlap' \in BOOLEAN
    BY <1>2, NextIsNoted DEF TypeOK
  <2>1. ASSUME NEW q \in Reqs, IngestStep(q) PROVE TypeOK'
    BY <2>0, <2>1, ConnectTyped, JobTyped DEF IngestStep, TypeOK
  <2>2. ASSUME NEW q \in Reqs, (Visit(q) \/ IngestFault(q)) /\ UNCHANGED <<hookVars, purgeVars>>
        PROVE  TypeOK'
    BY <2>0, <2>2, ConnectTyped, JobTyped DEF IngestFault, TypeOK
  <2>3. CASE LockExpires /\ UNCHANGED <<hookVars, purgeVars>>
    BY <2>0, <2>3, IngestAssumption
    DEF LockExpires, Fault, TypeOK, IngestTypeOK, shellVars, shopVars
  <2>4. ASSUME NEW u \in Installs,
               HookStep(u) \/ PurgeStep(u) \/ SendRedact(u) \/ HookAgain(u) \/ PurgeCrash(u)
        PROVE  TypeOK'
    BY <2>0, <2>4, HookTyped, PurgeTyped DEF TypeOK
  <2>5. CASE Uninstall
    BY <2>0, <2>5 DEF Uninstall, TypeOK, IngestTypeOK, HookPc, shopVars, Installs
  <2>6. CASE Age
    BY <2>0, <2>6 DEF Age, TypeOK, IngestTypeOK, shopVars
  <2> QED  BY <2>0, <2>1, <2>2, <2>3, <2>4, <2>5, <2>6 DEF Step
<1> QED  BY <1>1, <1>2 DEF Next

\* Every reachable state is well formed.
THEOREM TypeCorrect == Spec => []TypeOK
BY TypeInit, TypeStep, PTL DEF Spec

-----------------------------------------------------------------------------
(* Who changes what. *)

RequestOf(q) == Visit(q) \/ ConnectStep(q) \/ NotifyLost(q) \/ ConnectCutShort(q)
JobOf(q) == JobStep(q) \/ PageError(q) \/ WorkerCrash(q) \/ Cancelled(q)

\* A step is one of a request, of a job, of a purge that deletes, or leaves the runs alone.
LEMMA StepSplits ==
  ASSUME Step
  PROVE  \/ \E q \in Reqs : RequestOf(q) \/ JobOf(q)
         \/ \E u \in Installs : PurgeDelete(u)
         \/ UNCHANGED <<run, stored, req, job, again>> /\ faults \subseteq faults'
<1> USE DEF ingestVars, shellVars, shopVars, hookVars, purgeVars
<1>1. ASSUME NEW u \in Installs, HookStep(u) \/ SendRedact(u) \/ HookAgain(u)
      PROVE  UNCHANGED <<run, stored, req, job, again>> /\ faults \subseteq faults'
  BY <1>1 DEF HookStep, AuthUninstalled, DropUninstalled, ForwardUninstalled,
    EraseUninstalled, AuthRedact, DropRedact, ForwardRedact, EraseRedact, SendRedact,
    HookAgain, Fault
<1>2. ASSUME NEW u \in Installs, PurgeRead(u) \/ PurgeClear(u) \/ PurgeCrash(u)
      PROVE  UNCHANGED <<run, stored, req, job, again>> /\ faults \subseteq faults'
  BY <1>2 DEF PurgeRead, PurgeClear, PurgeCrash, Fault
<1>3. CASE LockExpires \/ Uninstall \/ Age
  BY <1>3 DEF LockExpires, Uninstall, Age, Fault
<1> QED
  BY <1>1, <1>2, <1>3 DEF Step, IngestStep, IngestFault, PurgeStep, RequestOf, JobOf

\* A request works on its own run only, and before its job exists.
LEMMA RequestFrame ==
  ASSUME TypeOK, NEW q \in Reqs, RequestOf(q)
  PROVE  /\ \A r \in Reqs \ {q} : run'[r] = run[r] /\ req'[r] = req[r] /\ job'[r] = job[r]
         /\ UNCHANGED <<stored, again>> /\ faults \subseteq faults'
         /\ req[q] # "done"
         /\ \/ run'[q] = run[q] \/ run'[q] = NoRun
            \/ run'[q] = [status |-> "queued", cursor |-> 0]
         /\ (job'[q] = job[q] \/ (req'[q] = "done" /\ job'[q] = "queued"))
<1> USE DEF ReqAt, JobAt, TypeOK, IngestTypeOK, shellVars, shopVars
<1>1. CASE Visit(q) \/ NotifyLost(q) \/ ConnectCutShort(q)
  <2>1. UNCHANGED <<run, job, stored, again>> /\ faults \subseteq faults'
    BY <1>1 DEF Visit, NotifyLost, ConnectCutShort, Fault
  <2>2. \A r \in Reqs \ {q} : req'[r] = req[r]
    BY <1>1 DEF Visit, NotifyLost, ConnectCutShort
  <2>3. req[q] # "done"
    BY <1>1 DEF Visit, NotifyLost, ConnectCutShort
  <2> QED  BY <2>1, <2>2, <2>3
<1>2. CASE Upsert(q) \/ RefreshRun(q) \/ AcquireLock(q)
  <2>1. UNCHANGED <<run, job, stored, again, faults>>
    BY <1>2 DEF Upsert, RefreshRun, AcquireLock
  <2>2. \A r \in Reqs \ {q} : req'[r] = req[r]
    BY <1>2 DEF Upsert, RefreshRun, AcquireLock
  <2>3. req[q] # "done"
    BY <1>2 DEF Upsert, RefreshRun, AcquireLock
  <2> QED  BY <2>1, <2>2, <2>3
<1>3. CASE InsertRun(q) \/ ReadHolder(q)
  <2>1. UNCHANGED <<job, stored, again, faults>> /\ req[q] # "done"
    BY <1>3 DEF InsertRun, ReadHolder
  <2>2. \A r \in Reqs \ {q} : req'[r] = req[r] /\ run'[r] = run[r]
    BY <1>3 DEF InsertRun, ReadHolder
  <2>3. \/ run'[q] = run[q] \/ run'[q] = NoRun
        \/ run'[q] = [status |-> "queued", cursor |-> 0]
    BY <1>3 DEF InsertRun, ReadHolder
  <2> QED  BY <2>1, <2>2, <2>3
<1>4. CASE Enqueue(q)
  BY <1>4 DEF Enqueue
<1> QED  BY <1>1, <1>2, <1>3, <1>4 DEF RequestOf, ConnectStep

\* So does a job, which never makes its run go or come back.
LEMMA JobFrame ==
  ASSUME TypeOK, NEW q \in Reqs, JobOf(q)
  PROVE  /\ \A r \in Reqs \ {q} :
              run'[r] = run[r] /\ job'[r] = job[r] /\ (r \in again' <=> r \in again)
         /\ UNCHANGED req /\ stored \subseteq stored' /\ faults \subseteq faults'
         /\ job[q] \notin {"none", "done"}
<1> USE DEF TypeOK, IngestTypeOK, JobAt, shellVars, shopVars
<1>1. CASE JobStep(q)
  BY <1>1 DEF JobStep, StartJob, FetchPage, WritePage, FinishJob, FailJob, FlagReauth, ReleaseLock
<1>2. CASE PageError(q) \/ WorkerCrash(q) \/ Cancelled(q)
  BY <1>2 DEF PageError, WorkerCrash, Cancelled, Working, Fault
<1> QED  BY <1>1, <1>2 DEF JobOf

-----------------------------------------------------------------------------
(* Runs: what complete means, and how a job ends. *)

Ended(q) == job[q] = "done" \/ (job[q] = "release" /\ q \notin again)

RunInv(q) ==
  /\ req[q] # "done" => job[q] = "none"
  /\ Exists(q) =>
       /\ 1..run[q].cursor \subseteq stored
       /\ job[q] = "finish" \/ run[q].status = "complete" => stored = Pages
  /\ Ended(q) => run[q].status \in {"complete", "failed", "gone"} \/ "timeout" \in faults

LEMMA RunInit ==
  ASSUME Init, NEW q \in Reqs
  PROVE  RunInv(q)
BY DEF Init, IngestInit, RunInv, Ended, Exists

\* A page and its cursor are committed together.
LEMMA WritePageKeeps ==
  ASSUME TypeOK, NEW q \in Reqs, RunInv(q), WritePage(q)
  PROVE  RunInv(q)'
<1>1. /\ req'[q] = req[q] /\ req[q] = "done" /\ job'[q] # "done" /\ job'[q] # "release"
  BY DEF WritePage, RunInv, JobAt, TypeOK, IngestTypeOK
<1>2. CASE ~Exists(q)
  BY <1>1, <1>2 DEF WritePage, RunInv, Ended, Exists, JobAt, TypeOK, IngestTypeOK
<1>3. CASE Exists(q)
  <2> DEFINE k == run[q].cursor
  <2>1. k \in 0..LastPage /\ LastPage \in Nat /\ stored \subseteq Pages /\ 1..k \subseteq stored
    BY <1>3, RunTyped, IngestAssumption DEF Run, RunInv, TypeOK, IngestTypeOK
  <2>2. /\ stored' = stored \union ({k + 1} \intersect Pages)
        /\ run'[q].cursor = IF k + 1 \in Pages THEN k + 1 ELSE 0
        /\ run'[q].status = run[q].status
        /\ job'[q] = IF k + 1 < LastPage THEN "page" ELSE "finish"
    <3>1. run[q] \in Run
      BY <1>3, RunTyped
    <3>2. run'[q] = [run[q] EXCEPT !.cursor = EndCursor(q)]
      BY <1>3 DEF WritePage, TypeOK, IngestTypeOK
    <3> QED
      BY <1>3, <3>1, <3>2
      DEF WritePage, JobAt, ResumeAt, EndCursor, Run, TypeOK, IngestTypeOK
  <2>3. 1..run'[q].cursor \subseteq stored'
    BY <2>1, <2>2 DEF Pages
  <2>4. job'[q] = "finish" => stored' = Pages
    <3>1. ASSUME job'[q] = "finish", NEW n \in 1..LastPage PROVE n \in stored'
      <4>1. k + 1 >= LastPage
        BY <2>1, <2>2, <3>1
      <4>2. n \in 1..k \/ n = k + 1
        BY <2>1, <3>1, <4>1
      <4> QED  BY <2>1, <2>2, <3>1, <4>2 DEF Pages
    <3> QED  BY <2>1, <2>2, <3>1 DEF Pages
  <2>5. run'[q].status = "complete" => stored' = Pages
    BY <1>3, <2>1, <2>2 DEF RunInv
  <2> QED  BY <1>1, <2>3, <2>4, <2>5 DEF RunInv, Ended, Exists
<1> QED  BY <1>2, <1>3

LEMMA JobKeepsRun ==
  ASSUME TypeOK, NEW q \in Reqs, RunInv(q), JobOf(q)
  PROVE  RunInv(q)'
<1>0. req[q] = "done" /\ UNCHANGED req
  BY JobFrame DEF RunInv
<1> USE DEF RunInv, Ended, Exists, JobAt, TypeOK, IngestTypeOK
<1>1. CASE StartJob(q)
  <2>1. CASE run[q] = NoRun
    BY <1>0, <1>1, <2>1 DEF StartJob, NoRun
  <2>2. CASE run[q] # NoRun
    <3>1. run[q] \in Run
      BY <2>2, RunTyped
    <3>2. run'[q] = [run[q] EXCEPT !.status = "running"]
      BY <1>1, <2>2 DEF StartJob
    <3>3. run'[q].cursor = run[q].cursor /\ run'[q].status = "running"
      BY <3>1, <3>2 DEF Run
    <3> QED  BY <1>0, <1>1, <2>2, <3>3 DEF StartJob
  <2> QED  BY <2>1, <2>2
<1>2. CASE FetchPage(q)
  BY <1>0, <1>2 DEF FetchPage
<1>3. CASE WritePage(q)
  BY <1>3, WritePageKeeps
<1>4. CASE FinishJob(q)
  <2>1. CASE run[q] = NoRun
    BY <1>0, <1>4, <2>1 DEF FinishJob
  <2>2. CASE run[q] # NoRun
    <3>1. run[q] \in Run
      BY <2>2, RunTyped
    <3>2. run'[q] = [run[q] EXCEPT !.status = "complete"]
      BY <1>4, <2>2 DEF FinishJob
    <3>3. run'[q].cursor = run[q].cursor /\ run'[q].status = "complete"
      BY <3>1, <3>2 DEF Run
    <3> QED  BY <1>0, <1>4, <2>2, <3>3 DEF FinishJob
  <2> QED  BY <2>1, <2>2
<1>5. CASE FailJob(q) \/ FlagReauth(q)
  <2>0. run'[q] = AfterError(q) /\ job'[q] = "release" /\ UNCHANGED <<stored, again, faults>>
    BY <1>5 DEF FailJob, FlagReauth, LastStep
  <2>1. CASE run[q] = NoRun
    BY <1>0, <2>0, <2>1 DEF AfterError, NoRun
  <2>2. CASE run[q] # NoRun
    <3>1. run[q] \in Run
      BY <2>2, RunTyped
    <3>2. run'[q].cursor = run[q].cursor /\ run'[q].status = "failed"
      BY <2>0, <2>2, <3>1 DEF AfterError, Run
    <3> QED  BY <1>0, <2>0, <2>2, <3>2
  <2> QED  BY <2>1, <2>2
<1>6. CASE ReleaseLock(q)
  BY <1>0, <1>6 DEF ReleaseLock
<1>7. CASE PageError(q) \/ WorkerCrash(q) \/ Cancelled(q)
  BY <1>0, <1>7 DEF PageError, WorkerCrash, Cancelled, Working, Fault
<1> QED  BY <1>1, <1>2, <1>3, <1>4, <1>5, <1>6, <1>7 DEF JobOf, JobStep

LEMMA RunStep ==
  ASSUME TypeOK, \A q \in Reqs : RunInv(q), [Next]_vars, NEW r \in Reqs
  PROVE  RunInv(r)'
<1> USE DEF RunInv, Ended, Exists
<1>1. CASE UNCHANGED vars
  BY <1>1 DEF vars, stepVars, ingestVars
<1>2. ASSUME NEW q \in Reqs, RequestOf(q) PROVE RunInv(r)'
  <2>1. CASE r # q
    BY <1>2, <2>1, RequestFrame
  <2>2. CASE r = q
    BY <1>2, <2>2, RequestFrame DEF NoRun
  <2> QED  BY <2>1, <2>2
<1>3. ASSUME NEW q \in Reqs, JobOf(q) PROVE RunInv(r)'
  <2>1. CASE r # q
    <3>1. stored' \subseteq Pages
      BY TypeStep DEF TypeOK, IngestTypeOK
    <3> QED  BY <1>3, <2>1, <3>1, JobFrame
  <2>2. CASE r = q
    BY <1>3, <2>2, JobKeepsRun
  <2> QED  BY <2>1, <2>2
<1>4. ASSUME NEW u \in Installs, PurgeDelete(u) PROVE RunInv(r)'
  <2>1. UNCHANGED <<req, job, again, faults>> /\ (run'[r] = NoRun \/ UNCHANGED <<run, stored>>)
    BY <1>4 DEF PurgeDelete
  <2> QED  BY <2>1 DEF NoRun
<1>5. CASE UNCHANGED <<run, stored, req, job, again>> /\ faults \subseteq faults'
  BY <1>5
<1> QED  BY <1>1, <1>2, <1>3, <1>4, <1>5, NextIsNoted, StepSplits

\* Runs, for any number of connects, crashes and purges.
THEOREM RunInvariant == Spec => [](\A q \in Reqs : RunInv(q))
<1>1. Init => \A q \in Reqs : RunInv(q)
  BY RunInit
<1>2. TypeOK /\ (\A q \in Reqs : RunInv(q)) /\ [Next]_vars => (\A q \in Reqs : RunInv(q))'
  BY RunStep
<1> QED  BY <1>1, <1>2, TypeCorrect, PTL DEF Spec

\* A complete run stands for the whole catalogue.
THEOREM WholeCatalogTheorem == Spec => []CompleteMeansWholeCatalog
<1>1. (\A q \in Reqs : RunInv(q)) => CompleteMeansWholeCatalog
  BY DEF RunInv, CompleteMeansWholeCatalog, Exists, NoRun
<1> QED  BY <1>1, RunInvariant, PTL

\* A job that ended left its run settled, unless Arq cancelled it.
THEOREM EndTheorem == Spec => []EndIsRecorded
<1>1. (\A q \in Reqs : RunInv(q)) => EndIsRecorded
  BY DEF RunInv, Ended, EndIsRecorded
<1> QED  BY <1>1, RunInvariant, PTL

-----------------------------------------------------------------------------
(* Purges: what a pending one says of the shop. *)

PurgeInv ==
  /\ \A u \in Installs :
       /\ rd[u] \in {"none", "sent", "forward"} => purge[u] = "none" /\ victim[u] = 0
       /\ purge[u] = "delete" => victim[u] # 0
  /\ PurgePending => shop.status # "active" \/ overlap

LEMMA PurgeInit == Init => PurgeInv
BY DEF Init, PurgeInv, PurgePending

\* The row stays, and is not made active.
ShopKept == shop'.id = shop.id /\ (shop'.status = "active" => shop.status = "active")

\* Only a connect makes a shop, or makes it active; only a purge takes it away.
LEMMA ShopMoves ==
  ASSUME TypeOK, Step
  PROVE  \/ (\E q \in Reqs : Upsert(q)) /\ UNCHANGED <<installed, inst, hookVars, purgeVars>>
         \/ \E u \in Installs : PurgeDelete(u)
         \/ ShopKept
<1> USE DEF ShopKept, ingestVars, shellVars, shopVars, hookVars, purgeVars, TypeOK, IngestTypeOK
<1>1. ASSUME NEW q \in Reqs,
             JobStep(q) \/ PageError(q) \/ WorkerCrash(q) \/ Cancelled(q)
      PROVE  ShopKept
  BY <1>1 DEF JobStep, StartJob, FetchPage, WritePage, FinishJob, FailJob, FlagReauth,
    ReleaseLock, PageError, WorkerCrash, Cancelled
<1>2. ASSUME NEW q \in Reqs,
             InsertRun(q) \/ RefreshRun(q) \/ AcquireLock(q) \/ ReadHolder(q) \/ Enqueue(q)
               \/ Visit(q) \/ NotifyLost(q) \/ ConnectCutShort(q)
      PROVE  ShopKept
  BY <1>2 DEF InsertRun, RefreshRun, AcquireLock, ReadHolder, Enqueue, Visit, NotifyLost,
    ConnectCutShort
<1>3. ASSUME NEW u \in Installs, HookStep(u) \/ SendRedact(u) \/ HookAgain(u)
      PROVE  ShopKept
  BY <1>3 DEF HookStep, AuthUninstalled, DropUninstalled, ForwardUninstalled,
    EraseUninstalled, AuthRedact, DropRedact, ForwardRedact, EraseRedact, SendRedact,
    HookAgain
<1>4. ASSUME NEW u \in Installs, PurgeRead(u) \/ PurgeClear(u) \/ PurgeCrash(u)
      PROVE  ShopKept
  BY <1>4 DEF PurgeRead, PurgeClear, PurgeCrash
<1>5. ASSUME LockExpires \/ Uninstall \/ Age PROVE ShopKept
  BY <1>5 DEF LockExpires, Uninstall, Age
<1>6. ASSUME NEW q \in Reqs, Upsert(q) PROVE UNCHANGED <<installed, inst>>
  BY <1>6 DEF Upsert
<1>7. ASSUME NEW q \in Reqs, IngestStep(q)
      PROVE  ShopKept \/ (Upsert(q) /\ UNCHANGED <<installed, inst, hookVars, purgeVars>>)
  BY <1>1, <1>2, <1>6, <1>7 DEF IngestStep, ConnectStep
<1>8. ASSUME NEW q \in Reqs, Visit(q) \/ IngestFault(q) PROVE ShopKept
  BY <1>1, <1>2, <1>8 DEF IngestFault
<1> HIDE DEF ShopKept, ingestVars, shellVars, shopVars, hookVars, purgeVars, TypeOK, IngestTypeOK
<1> QED
  BY <1>3, <1>4, <1>5, <1>7, <1>8 DEF Step, PurgeStep

\* What a step does to webhooks and purges.
LEMMA PurgeSplits ==
  ASSUME Step
  PROVE  \/ UNCHANGED <<rd, purge, victim>>
         \/ \E u \in Installs :
              \/ AuthRedact(u) \/ DropRedact(u) \/ EraseRedact(u) \/ SendRedact(u)
              \/ HookAgain(u) \/ ForwardRedact(u)
              \/ PurgeStep(u) \/ PurgeCrash(u)
<1> USE DEF ingestVars, shellVars, shopVars, hookVars, purgeVars
<1>1. ASSUME NEW u \in Installs,
             AuthUninstalled(u) \/ DropUninstalled(u) \/ ForwardUninstalled(u)
               \/ EraseUninstalled(u)
      PROVE  UNCHANGED <<rd, purge, victim>>
  BY <1>1 DEF AuthUninstalled, DropUninstalled, ForwardUninstalled, EraseUninstalled
<1>2. CASE Uninstall \/ Age
  BY <1>2 DEF Uninstall, Age
<1> QED  BY <1>1, <1>2 DEF Step, IngestStep, HookStep

LEMMA PurgeStepKeeps ==
  ASSUME TypeOK, PurgeInv, [Next]_vars
  PROVE  PurgeInv'
<1>1. CASE UNCHANGED vars
  BY <1>1 DEF vars, stepVars, ingestVars, shopVars, hookVars, purgeVars, PurgeInv,
              PurgePending
<1>2. CASE Next
  <2>0. Step /\ (overlap => overlap') /\ (Overlapping' => overlap')
    BY <1>2, NextIsNoted
  <2> USE DEF TypeOK, PurgeInv, PurgePending
  <2>1. CASE UNCHANGED <<rd, purge, victim>>
    <3>1. ASSUME PurgePending', shop'.status = "active" PROVE overlap'
      <4>1. CASE shop.status = "active"
        BY <2>0, <2>1, <3>1, <4>1
      <4>2. CASE shop.status # "active"
        <5>0. ASSUME NEW u \in Installs, PurgeDelete(u) PROVE FALSE
          BY <2>1, <5>0 DEF PurgeDelete
        <5>1. PICK q \in Reqs : Upsert(q)
          BY <2>0, <3>1, <4>2, <5>0, ShopMoves DEF ShopKept
        <5>2. req'[q] = "insert"
          BY <5>1 DEF Upsert, ReqAt, IngestTypeOK
        <5>3. Overlapping'
          BY <3>1, <5>2 DEF Overlapping
        <5> QED  BY <2>0, <5>3
      <4> QED  BY <4>1, <4>2
    <3> QED  BY <2>1, <3>1
  <2>2. ASSUME NEW u \in Installs,
               AuthRedact(u) \/ DropRedact(u) \/ EraseRedact(u) \/ SendRedact(u) \/ HookAgain(u)
        PROVE  PurgeInv'
    <3>1. UNCHANGED <<purge, victim, shop>>
      BY <2>2 DEF AuthRedact, DropRedact, EraseRedact, SendRedact, HookAgain, ingestVars,
        shopVars, purgeVars
    <3>2. \A v \in Installs :
            rd'[v] \in {"none", "sent", "forward"} => rd[v] \in {"none", "sent", "forward"}
      BY <2>2 DEF AuthRedact, DropRedact, EraseRedact, SendRedact, HookAgain
    <3> QED  BY <2>0, <3>1, <3>2
  <2>3. ASSUME NEW u \in Installs, ForwardRedact(u)
        PROVE  PurgeInv'
    <3>1. UNCHANGED <<victim, shop>> /\ victim[u] = 0
      BY <2>3 DEF ForwardRedact, ingestVars, shopVars
    <3>2. \A v \in Installs \ {u} : rd'[v] = rd[v] /\ purge'[v] = purge[v]
      BY <2>3 DEF ForwardRedact
    <3>3. rd'[u] = "erase" /\ purge'[u] = "queued"
      BY <2>3 DEF ForwardRedact
    <3> QED  BY <2>0, <3>1, <3>2, <3>3
  <2>4. ASSUME NEW u \in Installs, PurgeStep(u) \/ PurgeCrash(u)
        PROVE  PurgeInv'
    <3>1. UNCHANGED rd /\ purge[u] # "none"
      BY <2>4 DEF PurgeStep, PurgeRead, PurgeDelete, PurgeClear, PurgeCrash, hookVars
    <3>2. \A v \in Installs \ {u} : purge'[v] = purge[v] /\ victim'[v] = victim[v]
      BY <2>4 DEF PurgeStep, PurgeRead, PurgeDelete, PurgeClear, PurgeCrash
    <3>3. purge'[u] = "delete" => victim'[u] # 0
      BY <2>4 DEF PurgeStep, PurgeRead, PurgeDelete, PurgeClear, PurgeCrash, IngestTypeOK
    <3>4. \/ shop'.status # "active"
          \/ shop' = shop /\ victim'[u] = victim[u] /\ purge[u] # "done"
      BY <2>4 DEF PurgeStep, PurgeRead, PurgeDelete, PurgeClear, PurgeCrash, Purgeable,
        NoShop, ingestVars, shopVars
    <3> QED  BY <2>0, <3>1, <3>2, <3>3, <3>4
  <2> QED  BY <2>0, <2>1, <2>2, <2>3, <2>4, PurgeSplits
<1> QED  BY <1>1, <1>2

LEMMA PurgeInvariant == Spec => []PurgeInv
BY PurgeInit, PurgeStepKeeps, TypeCorrect, PTL DEF Spec

\* The rows of an active shop are erased only by a purge that a connect met.
THEOREM KeepsRowsTheorem == Spec => ActiveShopKeepsItsRows
<1>1. ASSUME TypeOK, PurgeInv, [Next]_vars
      PROVE  [shop.id # 0 /\ shop'.id = 0 => shop.status # "active" \/ overlap]_vars
  <2> SUFFICES ASSUME Step, shop.id # 0, shop'.id = 0
               PROVE  shop.status # "active" \/ overlap
    BY <1>1, NextIsNoted DEF vars
  <2>1. \E u \in Installs : PurgeDelete(u)
    <3>1. ASSUME NEW q \in Reqs, Upsert(q) PROVE shop'.id # 0
      BY <1>1, <3>1 DEF Upsert, TypeOK, IngestTypeOK
    <3> QED  BY <1>1, <3>1, ShopMoves DEF ShopKept
  <2>2. PICK u \in Installs : purge[u] = "delete"
    BY <2>1 DEF PurgeDelete
  <2> QED  BY <1>1, <2>2 DEF PurgeInv, PurgePending
<1> QED  BY <1>1, PurgeInvariant, TypeCorrect, PTL DEF Spec, ActiveShopKeepsItsRows

-----------------------------------------------------------------------------
(* The ingest lock: a held lock has somebody to release it. *)

Releases(q) == req[q] = "enqueue" \/ (Exists(q) /\ job[q] \notin {"none", "done"})

LockInv ==
  /\ \A q \in Reqs : req[q] \in {"lock", "clash", "enqueue"} => Exists(q) \/ overlap
  /\ LockHasAReleaser

LEMMA LockInit == Init => LockInv
BY DEF Init, IngestInit, LockInv, LockHasAReleaser

\* What is neither a request, a job nor a purge at most lets the lock go.
LEMMA LockSplits ==
  ASSUME Step, PurgeInv
  PROVE  \/ (\E q \in Reqs : RequestOf(q) \/ JobOf(q)) /\ UNCHANGED purgeVars
         \/ \E u \in Installs : PurgeStep(u)
         \/ /\ UNCHANGED <<run, req, job, victim>> /\ faults \subseteq faults'
            /\ ingestLock' = ingestLock \/ ingestLock' = Nobody
            /\ PurgePending => PurgePending'
<1> USE DEF ingestVars, shellVars, shopVars, hookVars, purgeVars
<1>1. ASSUME NEW u \in Installs,
             AuthUninstalled(u) \/ DropUninstalled(u) \/ ForwardUninstalled(u)
               \/ EraseUninstalled(u) \/ AuthRedact(u) \/ DropRedact(u) \/ EraseRedact(u)
               \/ SendRedact(u) \/ HookAgain(u)
      PROVE  UNCHANGED <<run, req, job, purge, victim, ingestLock>> /\ faults \subseteq faults'
  BY <1>1 DEF AuthUninstalled, DropUninstalled, ForwardUninstalled, EraseUninstalled,
    AuthRedact, DropRedact, EraseRedact, SendRedact, HookAgain, Fault
<1>2. ASSUME NEW u \in Installs, ForwardRedact(u)
      PROVE  UNCHANGED <<run, req, job, victim, ingestLock, faults>>
             /\ (PurgePending => PurgePending')
  <2>1. UNCHANGED <<run, req, job, victim, ingestLock, faults>>
        /\ purge' = [purge EXCEPT ![u] = "queued"]
    BY <1>2 DEF ForwardRedact
  <2>2. victim[u] = 0
    BY <1>2 DEF ForwardRedact, PurgeInv
  <2> QED  BY <2>1, <2>2 DEF PurgePending
<1>3. ASSUME NEW u \in Installs, PurgeCrash(u)
      PROVE  UNCHANGED <<run, req, job, victim, ingestLock>> /\ faults \subseteq faults'
             /\ (PurgePending => PurgePending')
  BY <1>3 DEF PurgeCrash, Fault, PurgePending
<1>4. CASE LockExpires /\ UNCHANGED <<hookVars, purgeVars>>
  BY <1>4 DEF LockExpires, Fault, PurgePending
<1>5. CASE Uninstall \/ Age
  BY <1>5 DEF Uninstall, Age, PurgePending
<1> QED
  BY <1>1, <1>2, <1>3, <1>4, <1>5
  DEF Step, IngestStep, IngestFault, HookStep, RequestOf, JobOf, PurgePending

\* A request releases its own lock, or hands it to its job.
LEMMA RequestKeepsLock ==
  ASSUME TypeOK, NEW q \in Reqs, RunInv(q), LockInv, RequestOf(q),
         UNCHANGED purgeVars, overlap => overlap'
  PROVE  LockInv'
<1> USE DEF ReqAt, JobAt, TypeOK, IngestTypeOK, shellVars, shopVars, purgeVars, Exists
<1>0. PurgePending' = PurgePending
  BY DEF PurgePending
<1>1. job[q] = "none"
  BY RequestFrame DEF RunInv
<1>2. \A r \in Reqs \ {q} : run'[r] = run[r] /\ req'[r] = req[r] /\ job'[r] = job[r]
  BY RequestFrame
<1>3. CASE Visit(q) \/ NotifyLost(q) \/ Upsert(q) \/ InsertRun(q) \/ RefreshRun(q)
  <2>1. /\ UNCHANGED <<job, ingestLock>> /\ faults \subseteq faults'
        /\ req[q] # "enqueue" /\ (req'[q] \in {"lock", "clash", "enqueue"} => Exists(q)')
    BY <1>3 DEF Visit, NotifyLost, Upsert, InsertRun, RefreshRun, Fault
  <2> QED  BY <1>0, <1>1, <1>2, <2>1 DEF LockInv, LockHasAReleaser
<1>4. CASE AcquireLock(q)
  <2>1. /\ UNCHANGED <<run, job, faults>> /\ req[q] = "lock"
        /\ (req'[q] = "enqueue" \/ ingestLock' = ingestLock)
    BY <1>4 DEF AcquireLock
  <2> QED  BY <1>0, <1>1, <1>2, <2>1 DEF LockInv, LockHasAReleaser
<1>5. CASE ReadHolder(q)
  <2>1. UNCHANGED <<job, faults, ingestLock>> /\ req[q] = "clash"
    BY <1>5 DEF ReadHolder
  <2>2. \/ req'[q] = "enqueue" /\ run'[q] = run[q]
        \/ req'[q] = "done"
    BY <1>5 DEF ReadHolder
  <2> QED  BY <1>0, <1>1, <1>2, <2>1, <2>2 DEF LockInv, LockHasAReleaser
<1>6. CASE Enqueue(q)
  <2>1. /\ UNCHANGED <<run, faults, ingestLock>> /\ req[q] = "enqueue"
        /\ req'[q] = "done" /\ job'[q] = "queued"
    BY <1>6 DEF Enqueue
  <2>2. Exists(q)' \/ overlap
    BY <2>1 DEF LockInv
  <2> QED  BY <1>0, <1>1, <1>2, <2>1, <2>2 DEF LockInv, LockHasAReleaser
<1>7. CASE ConnectCutShort(q)
  <2>1. UNCHANGED <<run, job, ingestLock>> /\ req'[q] = "done"
    BY <1>7 DEF ConnectCutShort
  <2>2. faults' \intersect {"crash", "enqueue"} # {}
    BY <1>7 DEF ConnectCutShort, Fault
  <2> QED  BY <1>2, <2>1, <2>2 DEF LockInv, LockHasAReleaser
<1> QED  BY <1>3, <1>4, <1>5, <1>6, <1>7 DEF RequestOf, ConnectStep

\* A job that can release the lock goes on doing so until it has.
LEMMA JobKeepsLock ==
  ASSUME TypeOK, NEW q \in Reqs, RunInv(q), LockInv, JobOf(q),
         UNCHANGED purgeVars, overlap => overlap'
  PROVE  LockInv'
<1> USE DEF purgeVars, Exists
<1>0. PurgePending' = PurgePending
  BY DEF PurgePending
<1>1. /\ req[q] = "done" /\ UNCHANGED req /\ faults \subseteq faults'
      /\ \A r \in Reqs \ {q} : run'[r] = run[r] /\ job'[r] = job[r]
  BY JobFrame DEF RunInv
<1>2. ingestLock' # Nobody =>
        ingestLock' = ingestLock /\ (Exists(q) => Exists(q)' /\ job'[q] \notin {"none", "done"})
  <2> USE DEF JobAt, TypeOK, IngestTypeOK, shellVars, shopVars
  <2>1. CASE ~Exists(q)
    BY <2>1 DEF JobOf, JobStep, StartJob, FetchPage, WritePage, FinishJob, FailJob,
      FlagReauth, ReleaseLock, PageError, WorkerCrash, Cancelled
  <2>2. CASE Exists(q)
    <3>1. /\ \A s \in RunStatus : [run[q] EXCEPT !.status = s] # NoRun
          /\ \A k \in 0..LastPage : [run[q] EXCEPT !.cursor = k] # NoRun
      <4>1. \A x \in Run : x # NoRun
        <5> SUFFICES ASSUME NEW x \in Run PROVE x.status # NoRun.status
          OBVIOUS
        <5> QED  BY DEF Run, NoRun, RunStatus
      <4> QED  BY <2>2, <4>1, RunTyped
    <3>2. CASE StartJob(q) \/ FinishJob(q)
      <4>1. PICK s \in RunStatus : run' = [run EXCEPT ![q] = [run[q] EXCEPT !.status = s]]
        BY <2>2, <3>2 DEF StartJob, FinishJob, RunStatus
      <4>2. run'[q] = [run[q] EXCEPT !.status = s]
        BY <4>1
      <4>3. UNCHANGED ingestLock /\ job'[q] \notin {"none", "done"}
        BY <2>2, <3>2 DEF StartJob, FinishJob
      <4> QED  BY <3>1, <4>2, <4>3
    <3>3. CASE WritePage(q)
      <4>1. EndCursor(q) \in 0..LastPage
        BY IngestAssumption DEF EndCursor, Pages
      <4>2. run'[q] = [run[q] EXCEPT !.cursor = EndCursor(q)]
        BY <2>2, <3>3 DEF WritePage
      <4>3. UNCHANGED ingestLock /\ job'[q] \notin {"none", "done"}
        BY <2>2, <3>3 DEF WritePage
      <4> QED  BY <3>1, <4>1, <4>2, <4>3
    <3>4. CASE FailJob(q) \/ FlagReauth(q)
      <4>1. run'[q] = [run[q] EXCEPT !.status = "failed"]
        BY <2>2, <3>4 DEF FailJob, FlagReauth, AfterError
      <4>2. UNCHANGED ingestLock /\ job'[q] \notin {"none", "done"}
        BY <3>4 DEF FailJob, FlagReauth, LastStep
      <4> QED  BY <3>1, <4>1, <4>2 DEF RunStatus
    <3>5. CASE FetchPage(q) \/ PageError(q) \/ WorkerCrash(q) \/ Cancelled(q)
      BY <2>2, <3>5 DEF FetchPage, PageError, WorkerCrash, Cancelled
    <3>6. CASE ReleaseLock(q)
      BY <3>6 DEF ReleaseLock
    <3> QED  BY <3>2, <3>3, <3>4, <3>5, <3>6 DEF JobOf, JobStep
  <2> QED  BY <2>1, <2>2
<1> QED  BY <1>0, <1>1, <1>2 DEF LockInv, LockHasAReleaser

LEMMA LockStep ==
  ASSUME TypeOK, \A q \in Reqs : RunInv(q), PurgeInv, LockInv, [Next]_vars
  PROVE  LockInv'
<1>1. CASE UNCHANGED vars
  BY <1>1 DEF vars, stepVars, ingestVars, purgeVars, LockInv, LockHasAReleaser, PurgePending,
              Exists
<1>2. CASE Next
  <2>0. Step /\ (overlap => overlap') /\ (Overlapping' => overlap')
    BY <1>2, NextIsNoted
  <2>1. ASSUME NEW q \in Reqs, RequestOf(q) \/ JobOf(q), UNCHANGED purgeVars PROVE LockInv'
    BY <2>0, <2>1, RequestKeepsLock, JobKeepsLock
  <2>2. ASSUME NEW u \in Installs, PurgeRead(u) PROVE LockInv'
    <3>1. UNCHANGED <<run, req, job, faults, ingestLock>>
      BY <2>2 DEF PurgeRead, ingestVars
    <3>2. PurgePending => PurgePending' \/ overlap
      <4>1. CASE shop.id = 0 \/ Purgeable
        <5>1. purge'[u] # "done" /\ (victim[u] # 0 => victim'[u] # 0)
          BY <2>2, <4>1 DEF PurgeRead, TypeOK
        <5>2. \A v \in Installs \ {u} : purge'[v] = purge[v] /\ victim'[v] = victim[v]
          BY <2>2 DEF PurgeRead, TypeOK
        <5> QED  BY <5>1, <5>2 DEF PurgePending
      <4>2. CASE shop.status = "active"
        BY <4>2 DEF PurgeInv
      <4> QED  BY <4>1, <4>2 DEF Purgeable
    <3> QED  BY <2>0, <3>1, <3>2 DEF LockInv, LockHasAReleaser, Exists
  <2>3. ASSUME NEW u \in Installs, PurgeDelete(u) PROVE LockInv'
    <3>1. UNCHANGED <<req, job, faults, ingestLock>> /\ PurgePending'
      BY <2>3 DEF PurgeDelete, PurgeInv, PurgePending, TypeOK
    <3>2. ASSUME NEW q \in Reqs, req'[q] \in {"lock", "clash", "enqueue"} PROVE overlap'
      BY <2>0, <3>1, <3>2 DEF Overlapping
    <3> QED  BY <3>1, <3>2 DEF LockInv, LockHasAReleaser
  <2>4. ASSUME NEW u \in Installs, PurgeClear(u) PROVE LockInv'
    BY <2>0, <2>4 DEF PurgeClear, LockInv, LockHasAReleaser, Exists
  <2>5. ASSUME UNCHANGED <<run, req, job, victim>>, faults \subseteq faults',
               ingestLock' = ingestLock \/ ingestLock' = Nobody, PurgePending => PurgePending'
        PROVE  LockInv'
    BY <2>0, <2>5 DEF LockInv, LockHasAReleaser, Exists
  <2> QED
    BY <2>0, <2>1, <2>2, <2>3, <2>4, <2>5, LockSplits DEF PurgeStep
<1> QED  BY <1>1, <1>2

\* A held lock is released, or waits for its time limit only because a connect died.
THEOREM LockTheorem == Spec => []LockHasAReleaser
<1>1. TypeOK /\ (\A q \in Reqs : RunInv(q)) /\ PurgeInv /\ LockInv /\ [Next]_vars => LockInv'
  BY LockStep
<1>2. LockInv => LockHasAReleaser
  BY DEF LockInv
<1> QED
  BY <1>1, <1>2, LockInit, RunInvariant, PurgeInvariant, TypeCorrect, PTL DEF Spec

-----------------------------------------------------------------------------
(* Erasure. *)

\* The merchant left and app/uninstalled was not given up.
Left(u) == u = inst /\ ~installed /\ un[u] # "dropped"

ErasureInv ==
  /\ shop.id = 0 => shop.status # "active"
  /\ \A u \in Installs :
       /\ u > inst \/ (u = inst /\ installed) =>
            un[u] = "none" /\ rd[u] = "none" /\ purge[u] = "none"
       /\ Left(u) =>
            \/ overlap
            \/ /\ un[u] \in {"erase", "done"} \/ rd[u] # "none" => shop.status # "active"
               /\ purge[u] = "delete" => shop.id \in {0, victim[u]}
               /\ purge[u] \in {"clear", "done"} => shop.id = 0

LEMMA ErasureInit == Init => ErasureInv
BY DEF Init, IngestInit, ErasureInv, NoShop, Installs

\* What a step does to who is installed.
LEMMA InstallSplits ==
  ASSUME Step
  PROVE  \/ UNCHANGED <<installed, inst>>
         \/ (\E q \in Reqs : Visit(q)) /\ UNCHANGED <<hookVars, purgeVars>>
         \/ Uninstall
<1> USE DEF ingestVars, shellVars, hookVars, purgeVars
<1>1. ASSUME NEW q \in Reqs, IngestStep(q) \/ IngestFault(q) PROVE UNCHANGED <<installed, inst>>
  BY <1>1 DEF IngestStep, ConnectStep, JobStep, IngestFault, Upsert, InsertRun, RefreshRun,
    AcquireLock, ReadHolder, Enqueue, StartJob, FetchPage, WritePage, FinishJob, FailJob,
    FlagReauth, ReleaseLock, NotifyLost, ConnectCutShort, PageError, WorkerCrash, Cancelled
<1>2. ASSUME NEW u \in Installs,
             HookStep(u) \/ SendRedact(u) \/ HookAgain(u) \/ PurgeStep(u) \/ PurgeCrash(u)
      PROVE  UNCHANGED <<installed, inst>>
  BY <1>2 DEF HookStep, AuthUninstalled, DropUninstalled, ForwardUninstalled,
    EraseUninstalled, AuthRedact, DropRedact, ForwardRedact, EraseRedact, SendRedact,
    HookAgain, PurgeStep, PurgeRead, PurgeDelete, PurgeClear, PurgeCrash
<1>3. CASE LockExpires \/ Age
  BY <1>3 DEF LockExpires, Age
<1> QED  BY <1>1, <1>2, <1>3 DEF Step

\* A webhook's own step.
LEMMA HookKeepsErasure ==
  ASSUME TypeOK, ErasureInv, PurgeInv, NEW u \in Installs,
         HookStep(u) \/ SendRedact(u) \/ HookAgain(u),
         UNCHANGED <<installed, inst>>, overlap => overlap'
  PROVE  ErasureInv'
<1> USE DEF TypeOK, ErasureInv, Left
<1>1. /\ UNCHANGED victim /\ shop'.id = shop.id
      /\ shop'.status = "active" => shop.status = "active"
      /\ \A v \in Installs \ {u} : un'[v] = un[v] /\ rd'[v] = rd[v] /\ purge'[v] = purge[v]
  BY DEF HookStep, AuthUninstalled, DropUninstalled, ForwardUninstalled, EraseUninstalled,
    AuthRedact, DropRedact, ForwardRedact, EraseRedact, SendRedact, HookAgain, ingestVars,
    shopVars, purgeVars, IngestTypeOK
<1>2. un[u] # "none" \/ rd[u] # "none"
  BY DEF HookStep, AuthUninstalled, DropUninstalled, ForwardUninstalled, EraseUninstalled,
    AuthRedact, DropRedact, ForwardRedact, EraseRedact, SendRedact, HookAgain
<1>3. \/ purge'[u] = purge[u]
      \/ purge'[u] = "queued"
  BY DEF HookStep, AuthUninstalled, DropUninstalled, ForwardUninstalled, EraseUninstalled,
    AuthRedact, DropRedact, ForwardRedact, EraseRedact, SendRedact, HookAgain, purgeVars
<1>4. un[u] = "dropped" => un'[u] = "dropped"
  BY DEF HookStep, AuthUninstalled, DropUninstalled, ForwardUninstalled, EraseUninstalled,
    AuthRedact, DropRedact, ForwardRedact, EraseRedact, SendRedact, HookAgain
<1>5. un'[u] \in {"erase", "done"} \/ rd'[u] # "none" =>
        \/ un'[u] = "dropped" \/ un[u] \in {"erase", "done"} \/ rd[u] # "none"
        \/ shop'.status # "active"
  BY DEF HookStep, AuthUninstalled, DropUninstalled, ForwardUninstalled, EraseUninstalled,
    AuthRedact, DropRedact, ForwardRedact, EraseRedact, SendRedact, HookAgain, IngestTypeOK
<1> QED  BY <1>1, <1>2, <1>3, <1>4, <1>5

\* A purge's own step.
LEMMA PurgeKeepsErasure ==
  ASSUME TypeOK, ErasureInv, PurgeInv, NEW u \in Installs, PurgeStep(u) \/ PurgeCrash(u),
         UNCHANGED <<installed, inst>>, overlap => overlap'
  PROVE  ErasureInv'
<1> USE DEF TypeOK, ErasureInv, Left
<1>1. UNCHANGED <<un, rd>>
  BY DEF PurgeStep, PurgeRead, PurgeDelete, PurgeClear, PurgeCrash, hookVars
<1>2. \A v \in Installs \ {u} : purge'[v] = purge[v] /\ victim'[v] = victim[v]
  BY DEF PurgeStep, PurgeRead, PurgeDelete, PurgeClear, PurgeCrash
<1>3. purge[u] # "none" /\ rd[u] # "none"
  BY DEF PurgeStep, PurgeRead, PurgeDelete, PurgeClear, PurgeCrash, PurgeInv
<1>4. CASE PurgeRead(u)
  <2>1. UNCHANGED shop
    BY <1>4 DEF PurgeRead, ingestVars, shopVars
  <2>2. \/ shop.id = 0 /\ purge'[u] = "clear"
        \/ purge'[u] = "delete" /\ victim'[u] = shop.id
        \/ purge'[u] = "done" /\ shop.status = "active"
    BY <1>4 DEF PurgeRead, Purgeable, IngestTypeOK
  <2> QED  BY <1>1, <1>2, <1>3, <2>1, <2>2
<1>5. CASE PurgeDelete(u)
  <2>1. /\ purge[u] = "delete" /\ purge'[u] = "clear"
        /\ shop' = IF shop.id = victim[u] THEN NoShop ELSE shop
    BY <1>5 DEF PurgeDelete
  <2>2. shop' = NoShop \/ (shop' = shop /\ shop.id # victim[u])
    BY <2>1
  <2> QED  BY <1>1, <1>2, <1>3, <2>1, <2>2 DEF NoShop
<1>6. CASE PurgeClear(u) \/ PurgeCrash(u)
  <2>1. /\ UNCHANGED shop
        /\ \/ purge'[u] = "queued"
           \/ purge[u] = "clear" /\ purge'[u] = "done"
    BY <1>6 DEF PurgeClear, PurgeCrash, shopVars
  <2> QED  BY <1>1, <1>2, <1>3, <2>1
<1> QED  BY <1>4, <1>5, <1>6 DEF PurgeStep

LEMMA ErasureStep ==
  ASSUME TypeOK, ErasureInv, PurgeInv, [Next]_vars
  PROVE  ErasureInv'
<1>1. CASE UNCHANGED vars
  BY <1>1 DEF vars, stepVars, ingestVars, shellVars, shopVars, hookVars, purgeVars,
              ErasureInv, Left
<1>2. CASE Next
  <2>0. Step /\ (overlap => overlap') /\ (Overlapping' => overlap')
    BY <1>2, NextIsNoted
  <2>1. ASSUME NEW q \in Reqs, Visit(q), UNCHANGED <<hookVars, purgeVars>> PROVE ErasureInv'
    <3>1. UNCHANGED <<shop, un, rd, purge, victim>> /\ installed'
      BY <2>1 DEF Visit, shopVars, hookVars, purgeVars
    <3>2. (inst' = inst /\ installed) \/ inst' = inst + 1
      BY <2>1 DEF Visit
    <3>3. inst \in Nat /\ \A u \in Installs : u \in Nat
      BY IngestAssumption DEF TypeOK, IngestTypeOK, Installs
    <3> QED  BY <3>1, <3>2, <3>3 DEF ErasureInv, Left
  <2>2. CASE Uninstall
    <3>1. UNCHANGED <<inst, shop, rd, purge, victim>> /\ installed /\ ~installed'
      BY <2>2 DEF Uninstall, shopVars, purgeVars
    <3>2. \A u \in Installs : un'[u] = IF u = inst THEN "sent" ELSE un[u]
      BY <2>2 DEF Uninstall, TypeOK
    <3>3. inst \in Nat /\ \A u \in Installs : u \in Nat
      BY IngestAssumption DEF TypeOK, IngestTypeOK, Installs
    <3> QED  BY <3>1, <3>2, <3>3 DEF ErasureInv, Left
  <2>3. ASSUME NEW q \in Reqs, Upsert(q), UNCHANGED <<installed, inst, hookVars, purgeVars>>
        PROVE  ErasureInv'
    <3>1. shop'.id # 0
      BY <2>3 DEF Upsert, TypeOK, IngestTypeOK
    <3>2. ~installed => overlap'
      BY <2>0, <2>3 DEF Upsert, ReqAt, Overlapping, TypeOK, IngestTypeOK
    <3> QED  BY <2>3, <3>1, <3>2 DEF ErasureInv, Left, hookVars, purgeVars
  <2>4. ASSUME UNCHANGED <<installed, inst, un, rd, purge, victim>>, shop'.id = shop.id,
               shop'.status = "active" => shop.status = "active"
        PROVE  ErasureInv'
    BY <2>0, <2>4 DEF ErasureInv, Left
  <2>5. ASSUME NEW u \in Installs,
               HookStep(u) \/ SendRedact(u) \/ HookAgain(u) \/ PurgeStep(u) \/ PurgeCrash(u)
        PROVE  ErasureInv'
    <3>1. UNCHANGED <<installed, inst>>
      BY <2>5 DEF HookStep, AuthUninstalled, DropUninstalled, ForwardUninstalled,
        EraseUninstalled, AuthRedact, DropRedact, ForwardRedact, EraseRedact, SendRedact,
        HookAgain, PurgeStep, PurgeRead, PurgeDelete, PurgeClear, PurgeCrash, ingestVars,
        shellVars
    <3> QED  BY <2>0, <2>5, <3>1, HookKeepsErasure, PurgeKeepsErasure
  <2>6. CASE UNCHANGED <<installed, inst, un, rd, purge, victim>>
    <3>1. ASSUME NEW u \in Installs, PurgeDelete(u) PROVE FALSE
      BY <2>6, <3>1 DEF PurgeDelete, TypeOK
    <3> QED  BY <2>0, <2>3, <2>4, <2>6, <3>1, ShopMoves DEF ShopKept, hookVars, purgeVars
  <2>7. \/ (\E q \in Reqs : Visit(q)) /\ UNCHANGED <<hookVars, purgeVars>>
        \/ Uninstall
        \/ \E u \in Installs :
             HookStep(u) \/ SendRedact(u) \/ HookAgain(u) \/ PurgeStep(u) \/ PurgeCrash(u)
        \/ UNCHANGED <<installed, inst, un, rd, purge, victim>>
    <3>1. CASE Age
      BY <3>1 DEF Age, hookVars, purgeVars
    <3> QED  BY <2>0, <3>1, InstallSplits DEF Step, IngestStep, hookVars, purgeVars
  <2> QED  BY <2>1, <2>2, <2>5, <2>6, <2>7
<1> QED  BY <1>1, <1>2

\* A purge that follows a delivered app/uninstalled leaves no shop.
THEOREM ErasureTheorem == Spec => []ErasureHonoured
<1>1. TypeOK /\ PurgeInv /\ ErasureInv /\ [Next]_vars => ErasureInv'
  BY ErasureStep
<1>2. ErasureInv => ErasureHonoured
  BY DEF ErasureInv, ErasureHonoured, Left
<1> QED
  BY <1>1, <1>2, ErasureInit, PurgeInvariant, TypeCorrect, PTL DEF Spec

=============================================================================
