-------------------------- MODULE FixProgress_proofs --------------------------
(***************************************************************************)
(* Why a publish run ends: each of its steps brings it nearer to its end,  *)
(* and until then it can go on, or waits for a request that does not wait  *)
(* for it, or was lost to a named failure.  For any fixes, products,       *)
(* requests and runs, overlapping or not.  Together with the fairness of   *)
(* FixPublish this is what RunTerminates rests on.                         *)
(***************************************************************************)
EXTENDS FixPublish_proofs

-----------------------------------------------------------------------------
(* The inductive invariant. *)

\* The run's row and its job tell the same story.
Accounted(r) ==
  /\ runStatus[r] = "none" <=> job[r].pc = "none"
  /\ runStatus[r] \in {"completed", "failed"} <=> job[r].pc = "done"
  /\ job[r].pc = "lost" => LostToAFault(r)

\* Rows are held by open supersedes only.
RowsLent == \A g \in Fixes : lock[g] # Free => dtx[lock[g]].pc = "superseding"

ProgressInv == RowsLent /\ \A r \in Runs : Accounted(r)

Ended == {"none", "done", "lost"}

\* What a step of a run does to its row and to where its job is.
Starts(r) == runStatus[r] = "none" /\ runStatus'[r] = "running" /\ job'[r].pc = "committed"

GoesOn(r) ==
  /\ job[r].pc \notin Ended /\ runStatus'[r] = runStatus[r]
  /\ job'[r].pc \notin {"none", "done"}
  /\ job'[r].pc = "lost" => Faults \intersect {"enqueue", "timeout"} # {}

Ends(r) ==
  /\ job[r].pc \notin Ended
  /\ runStatus'[r] \in {"completed", "failed"} /\ job'[r].pc = "done"

LEMMA RunTyped ==
  ASSUME TypeOK
  PROVE  /\ job \in [Runs -> Job]
         /\ runStatus \in [Runs -> {"none", "running", "completed", "failed"}]
BY DEF TypeOK, PublisherTypeOK, JobTypeOK

LEMMA OverWithProduct ==
  ASSUME TypeOK, NEW r \in Runs, NextProduct(r), AtProduct(r)
  PROVE  /\ job'[r].pc = "fetch" /\ job'[r].work = job[r].work \ Mine(r)
         /\ job'[r].work \subseteq job[r].work /\ job'[r].work # job[r].work
<1>1. job'[r] = [FreshJob("fetch") EXCEPT !.picked = job[r].picked, !.work = job[r].work \ Mine(r)]
  BY RunTyped DEF NextProduct
<1>2. job'[r].pc = "fetch" /\ job'[r].work = job[r].work \ Mine(r)
  BY <1>1 DEF FreshJob
<1>3. Mine(r) # {} /\ Mine(r) \subseteq job[r].work
  <2>1. job[r].work \subseteq Fixes /\ job[r].work # {}
    BY JobTyped, AtProductTyped
  <2>2. CurrentProduct(job[r].work) \in {ProductOf[f] : f \in job[r].work}
    BY <2>1, CurrentProductExists
  <2> QED
    BY <2>2 DEF Mine
<1> QED
  BY <1>2, <1>3

LEMMA OverWithRun ==
  ASSUME TypeOK, NEW r \in Runs, NEW outcome \in {"completed", "failed"}, EndRun(r, outcome)
  PROVE  job'[r].pc = "done" /\ runStatus'[r] = outcome
<1>1. job'[r] = [FreshJob("done") EXCEPT !.picked = job[r].picked]
  BY RunTyped DEF EndRun
<1> QED
  BY <1>1, RunTyped DEF EndRun, FreshJob

LEMMA Restarted ==
  ASSUME TypeOK, NEW r \in Runs, NEW pc \in JobPc, job' = [job EXCEPT ![r] = FreshJob(pc)]
  PROVE  job'[r].pc = pc
BY RunTyped DEF FreshJob

LEMMA RunStepEndsOrGoesOn ==
  ASSUME TypeOK, NEW r \in Runs, RunStep(r)
  PROVE  Starts(r) \/ GoesOn(r) \/ Ends(r)
<1>1. job \in [Runs -> Job] /\ runStatus \in [Runs -> {"none", "running", "completed", "failed"}]
  BY RunTyped
<1>2. CASE StartPublish(r)
  <2>1. job'[r].pc = "committed"
    BY <1>2, Restarted DEF StartPublish, JobPc
  <2> QED
    BY <1>1, <1>2, <2>1 DEF StartPublish, Starts
<1>3. CASE Enqueue(r) \/ EnqueueFails(r) \/ Fetch(r) \/ Reread(r)
           \/ \E f \in Fixes : Write(r, f) \/ Ignore(r, f) \/ Refuse(r, f)
  <2>1. CASE Enqueue(r) \/ EnqueueFails(r)
    BY <1>1, <2>1 DEF Enqueue, EnqueueFails, GoesOn, Ended, Job
  <2>2. CASE Fetch(r) \/ Reread(r)
    BY <1>1, <2>2 DEF Fetch, Reread, GoesOn, Ended, Job
  <2>3. ASSUME NEW f \in Fixes, Write(r, f) \/ Ignore(r, f) \/ Refuse(r, f)
        PROVE  GoesOn(r)
    BY <1>1, <2>3 DEF Write, Ignore, Refuse, GoesOn, Ended, Job
  <2> QED
    BY <1>3, <2>1, <2>2, <2>3
<1>4. CASE Select(r)
  <2>1. job'[r].pc = "fetch"
    BY <1>1, <1>4 DEF Select, FreshJob
  <2> QED
    BY <1>4, <2>1 DEF Select, GoesOn, Ended
<1>5. CASE CommitStep(r)
  <2>1. job[r].pc \in {"gate", "write", "verify"} /\ runStatus' = runStatus /\ AtProduct(r)
    BY <1>5 DEF CommitStep, GateGone, Gate, CommitWrites, Verify, AtProduct, ProductPc
  <2>2. NextProduct(r) \/ job'[r].pc \in {"write", "reread"}
    BY <1>1, <1>5 DEF CommitStep, GateGone, Gate, CommitWrites, Verify, Job
  <2> QED
    BY <2>1, <2>2, OverWithProduct DEF GoesOn, Ended
<1>6. CASE Crash(r)
  <2>1. job'[r].pc = "queued"
    BY <1>6, Restarted DEF Crash, JobPc
  <2> QED
    BY <1>6, <2>1 DEF Crash, GoesOn, Ended, Running, AtProduct, ProductPc
<1>7. CASE JobTimeout(r)
  <2>1. job'[r].pc = "lost"
    BY <1>7, Restarted DEF JobTimeout, JobPc
  <2> QED
    BY <1>7, <2>1 DEF JobTimeout, GoesOn, Ended, Running, AtProduct, ProductPc
<1>8. CASE AbortRun(r) \/ Complete(r) \/ Fail(r) \/ TokenUnavailable(r)
           \/ \E f \in Fixes : LostReply(r, f)
  <2>1. job[r].pc \notin Ended
    BY <1>8 DEF AbortRun, Complete, Fail, TokenUnavailable, LostReply, Ended, Running, AtProduct,
                ProductPc
  <2>2. EndRun(r, "failed") \/ EndRun(r, "completed")
    BY <1>8 DEF AbortRun, Complete, Fail, TokenUnavailable, LostReply
  <2> QED
    BY <2>1, <2>2, OverWithRun DEF Ends
<1> QED
  BY <1>2, <1>3, <1>4, <1>5, <1>6, <1>7, <1>8 DEF RunStep, JobStep, WriteStep

\* A run that takes no step is as it was.
LEMMA OthersStand ==
  ASSUME TypeOK, PublishInv, [Next]_vars, NEW r \in Runs, ~RunStep(r)
  PROVE  job'[r] = job[r] /\ runStatus'[r] = runStatus[r]
<1>1. CASE GateNext /\ UNCHANGED <<pubVars, edits>>
  BY <1>1 DEF pubVars
<1>2. CASE EnvNext \/ UNCHANGED vars
  BY <1>2 DEF EnvNext, Propose, ProductWebhook, Reingest, MerchantEdit, MerchantDelete, pubVars,
              vars
<1>3. ASSUME NEW s \in Runs, RunStep(s)
      PROVE  job'[r] = job[r] /\ runStatus'[r] = runStatus[r]
  <2>1. r # s /\ job'[r] = job[r]
    BY <1>3, RunStepGrows
  <2>2. \/ runStatus' = runStatus \/ \E x : runStatus' = [runStatus EXCEPT ![s] = x]
    BY <1>3 DEF RunStep, JobStep, CommitStep, WriteStep, StartPublish, Enqueue, EnqueueFails,
        Select, AbortRun, Fetch, GateGone, Gate, Write, Ignore, Refuse, LostReply, CommitWrites,
        Reread, Verify, Complete, Fail, TokenUnavailable, Crash, JobTimeout, EndRun
  <2> QED
    BY <2>1, <2>2, RunTyped
<1> QED
  BY <1>1, <1>2, <1>3 DEF Next, PublisherNext

LEMMA RowsStep ==
  ASSUME TypeOK, PublishInv, RowsLent, [Next]_vars
  PROVE  RowsLent'
<1>1. /\ dtx \in [Deciders -> DecisionTx] /\ lock \in [Fixes -> Deciders \union {Free}]
      /\ Free \notin Deciders
  BY FixStoreAssumption DEF TypeOK, GateTypeOK, StoreTypeOK
<1>2. ASSUME NEW d \in Deciders, GateStep(d)
      PROVE  RowsLent'
  <2>1. \A g \in Fixes : lock[g] = d => dtx[d].pc = "superseding"
    BY <1>1 DEF RowsLent
  <2>2. CASE \E f \in Fixes, want \in {"approved", "rejected"} : Load(d, f, want)
    BY <1>1, <2>1, <2>2 DEF Load, Active, storeVars, RowsLent
  <2>3. CASE BeginSupersede(d)
    <3>1. dtx[d] \in OpenTx
      BY <1>1, <2>3 DEF BeginSupersede, DecisionTx, IdleTx
    <3>2. dtx'[d].pc = "superseding" /\ \A e \in Deciders \ {d} : dtx'[e] = dtx[e]
      BY <1>1, <2>3, <3>1 DEF BeginSupersede, OpenTx
    <3> QED
      BY <1>1, <2>3, <3>2 DEF BeginSupersede, storeVars, RowsLent
  <2>4. CASE \E g \in Fixes : LockRival(d, g)
    <3>1. dtx[d] \in OpenTx
      BY <1>1, <2>4 DEF LockRival, DecisionTx, IdleTx
    <3>2. dtx'[d].pc = "superseding" /\ \A e \in Deciders \ {d} : dtx'[e] = dtx[e]
      BY <1>1, <2>4, <3>1 DEF LockRival, OpenTx
    <3>3. \A g \in Fixes : lock'[g] = lock[g] \/ lock'[g] = d
      BY <1>1, <2>4 DEF LockRival
    <3> QED
      BY <1>1, <3>2, <3>3 DEF RowsLent
  <2>5. CASE CommitDecision(d) \/ AbortDecision(d)
    <3>1. \A g \in Fixes : lock'[g] # Free => lock'[g] = lock[g] /\ lock[g] # d
      BY <1>1, <2>5 DEF CommitDecision, AbortDecision, Released
    <3>2. \A e \in Deciders \ {d} : dtx'[e] = dtx[e]
      BY <1>1, <2>5 DEF CommitDecision, AbortDecision
    <3> QED
      BY <1>1, <3>1, <3>2 DEF RowsLent
  <2> QED
    BY <1>2, <2>2, <2>3, <2>4, <2>5 DEF GateStep
<1>3. CASE UNCHANGED <<dtx, lock>>
  BY <1>3 DEF RowsLent
<1>4. ASSUME NEW r \in Runs, RunStep(r), UNCHANGED <<dtx, edits>>
      PROVE  RowsLent'
  <2>1. lock' = lock
    BY <1>4, RunStepGrows
  <2> QED
    BY <1>3, <1>4, <2>1
<1>5. CASE EnvNext \/ UNCHANGED vars
  BY <1>3, <1>5 DEF EnvNext, Propose, ProductWebhook, Reingest, MerchantEdit, MerchantDelete,
                    vars, storeVars
<1> QED
  BY <1>2, <1>4, <1>5 DEF Next, GateNext, PublisherNext

LEMMA ProgressStep ==
  ASSUME TypeOK, PublishInv, ProgressInv, [Next]_vars
  PROVE  ProgressInv'
<1>1. ASSUME NEW r \in Runs
      PROVE  Accounted(r)'
  <2>1. Accounted(r)
    BY DEF ProgressInv
  <2>2. CASE RunStep(r)
    BY <2>1, <2>2, RunStepEndsOrGoesOn
    DEF Accounted, Starts, GoesOn, Ends, Ended, LostToAFault
  <2>3. CASE ~RunStep(r)
    BY <2>1, <2>3, OthersStand DEF Accounted, LostToAFault
  <2> QED
    BY <2>2, <2>3
<1> QED
  BY <1>1, RowsStep DEF ProgressInv

(* A run's row and its job agree in every reachable state, and rows are held by open           *)
(* supersedes only: the invariant that the two theorems below rest on.                         *)
THEOREM ProgressInvariant == Spec => []ProgressInv
<1>1. Init => ProgressInv
  <2>1. ASSUME Init
        PROVE  ProgressInv
    <3>1. \A r \in Runs : job[r].pc = "none" /\ runStatus[r] = "none"
      BY <2>1 DEF Init, PublisherInit, FreshJob
    <3>2. \A g \in Fixes : lock[g] = Free
      BY <2>1 DEF Init
    <3> QED
      BY <3>1, <3>2 DEF ProgressInv, Accounted, RowsLent
  <2> QED
    BY <2>1
<1>2. TypeOK /\ PublishInv /\ ProgressInv /\ [Next]_vars => ProgressInv'
  BY ProgressStep
<1> QED
  BY <1>1, <1>2, PublishInvariant, PTL DEF Spec

-----------------------------------------------------------------------------
(* A run is never stuck. *)

\* Sorting by risk leaves something to send while something is left.
LEMMA RiskFirstSends ==
  ASSUME NEW S, S # {}
  PROVE  RiskFirst(S) # {}
<1>1. CASE \E g \in S : TypeOf[g] = "description"
  BY <1>1 DEF RiskFirst
<1>2. CASE \A g \in S : TypeOf[g] # "description"
  BY <1>2 DEF RiskFirst
<1> QED
  BY <1>1, <1>2

(* A run whose row says running can take its next step, or waits for a row that an open        *)
(* supersede holds, or is one that the enqueue or Arq's time limit lost (jobs/publish.py).     *)
THEOREM NeverStuckTheorem == Spec => []RunIsNeverStuck
<1>1. ASSUME TypeOK, PublishInv, ProgressInv, NEW r \in Runs, runStatus[r] = "running"
      PROVE  CanGoOn(r) \/ WaitsForRequest(r) \/ LostToAFault(r)
  <2>1. Accounted(r) /\ RowsLent /\ RunOK(r) /\ job[r].pc \in JobPc
        /\ job[r].work \subseteq Fixes /\ Mine(r) \subseteq job[r].work
    BY <1>1, JobTyped DEF ProgressInv, PublishInv
  <2>2. job[r].pc \notin {"none", "done"}
    BY <1>1, <2>1 DEF Accounted
  <2>3. CASE job[r].pc = "lost"
    BY <2>1, <2>3 DEF Accounted
  <2>4. CASE job[r].pc \in {"committed", "queued", "fetch", "reread"}
    BY <2>4 DEF CanGoOn
  <2>5. CASE job[r].pc = "write" /\ job[r].todo # {}
    BY <2>5, RiskFirstSends DEF CanGoOn
  <2>6. CASE job[r].pc \in {"gate", "write", "verify"} /\ job[r].todo = {}
    BY <2>1, <2>6 DEF CanGoOn, WaitsForRequest, RowsLent, Unlocked, AtProduct, ProductPc
  <2> QED
    BY <2>1, <2>2, <2>3, <2>4, <2>5, <2>6 DEF JobPc, RunOK
<1>2. TypeOK /\ PublishInv /\ ProgressInv => RunIsNeverStuck
  BY <1>1 DEF RunIsNeverStuck
<1> QED
  BY <1>2, ProgressInvariant, PublishInvariant, PTL

-----------------------------------------------------------------------------
(* A run never goes round. *)

\* The four ways a step can bring a run nearer to its end.
ComesFurther(r) ==
  /\ Rank[job'[r].pc] > Rank[job[r].pc]
  /\ Running(r) /\ Running(r)' => job'[r].work = job[r].work

SendsOne(r) ==
  /\ job[r].pc = "write" /\ job'[r].pc = "write" /\ job'[r].work = job[r].work
  /\ job'[r].todo \subseteq job[r].todo /\ job'[r].todo # job[r].todo

LeavesProduct(r) ==
  /\ AtProduct(r) /\ job'[r].pc = "fetch"
  /\ job'[r].work \subseteq job[r].work /\ job'[r].work # job[r].work

Nearer(r) == ComesFurther(r) \/ SendsOne(r) \/ LeavesProduct(r) \/ crashes' = crashes + 1

LEMMA RunStepNearer ==
  ASSUME TypeOK, ProgressInv, NEW r \in Runs, RunStep(r)
  PROVE  Nearer(r)
<1>1. job \in [Runs -> Job] /\ Accounted(r)
  BY RunTyped DEF ProgressInv
<1>2. CASE StartPublish(r)
  <2>1. job[r].pc = "none" /\ job'[r].pc = "committed"
    BY <1>1, <1>2, Restarted DEF StartPublish, JobPc, Accounted
  <2> QED
    BY <2>1 DEF Nearer, ComesFurther, Rank, Running, AtProduct, ProductPc
<1>3. CASE Enqueue(r) \/ EnqueueFails(r) \/ Fetch(r) \/ Reread(r)
  <2>1. /\ \/ job[r].pc = "committed" /\ job'[r].pc \in {"queued", "lost"}
           \/ job[r].pc = "fetch" /\ job'[r].pc = "gate"
           \/ job[r].pc = "reread" /\ job'[r].pc = "verify"
        /\ job'[r].work = job[r].work
    BY <1>1, <1>3 DEF Enqueue, EnqueueFails, Fetch, Reread, Job
  <2> QED
    BY <2>1 DEF Nearer, ComesFurther, Rank
<1>4. CASE Select(r)
  <2>1. job[r].pc = "queued" /\ job'[r].pc = "fetch"
    BY <1>1, <1>4 DEF Select, FreshJob
  <2> QED
    BY <2>1 DEF Nearer, ComesFurther, Rank, Running, AtProduct, ProductPc
<1>5. CASE CommitStep(r)
  <2>1. AtProduct(r)
    BY <1>5 DEF CommitStep, GateGone, Gate, CommitWrites, Verify, AtProduct, ProductPc
  <2>2. \/ NextProduct(r)
        \/ /\ \/ job[r].pc = "gate" /\ job'[r].pc = "write"
              \/ job[r].pc = "write" /\ job'[r].pc = "reread"
           /\ job'[r].work = job[r].work
    BY <1>1, <1>5 DEF CommitStep, GateGone, Gate, CommitWrites, Verify, Job
  <2>3. CASE NextProduct(r)
    BY <2>1, <2>3, OverWithProduct DEF Nearer, LeavesProduct
  <2> QED
    BY <2>2, <2>3 DEF Nearer, ComesFurther, Rank
<1>6. ASSUME NEW f \in Fixes, Write(r, f) \/ Ignore(r, f) \/ Refuse(r, f)
      PROVE  Nearer(r)
  <2>1. /\ job[r].pc = "write" /\ f \in RiskFirst(job[r].todo)
        /\ job'[r].pc = "write" /\ job'[r].work = job[r].work /\ job'[r].todo = job[r].todo \ {f}
    BY <1>1, <1>6 DEF Write, Ignore, Refuse, Job
  <2> QED
    BY <2>1 DEF Nearer, SendsOne, RiskFirst
<1>7. CASE Crash(r)
  BY <1>7 DEF Crash, Nearer
<1>8. ASSUME job[r].pc \notin Ended, job'[r].pc \in {"done", "lost"}
      PROVE  Nearer(r)
  <2>1. job[r].pc \in JobPc
    BY JobTyped
  <2>2. Rank[job'[r].pc] = 8 /\ Rank[job[r].pc] < 8
    BY <1>8, <2>1 DEF Rank, Ended, JobPc
  <2>3. ~Running(r)'
    BY <1>8 DEF Running, AtProduct, ProductPc
  <2> QED
    BY <2>2, <2>3 DEF Nearer, ComesFurther
<1>9. CASE JobTimeout(r)
  <2>1. job'[r].pc = "lost"
    BY <1>9, Restarted DEF JobTimeout, JobPc
  <2> QED
    BY <1>8, <1>9, <2>1 DEF JobTimeout, Ended, Running, AtProduct, ProductPc
<1>10. CASE AbortRun(r) \/ Complete(r) \/ Fail(r) \/ TokenUnavailable(r)
            \/ \E f \in Fixes : LostReply(r, f)
  <2>1. job[r].pc \notin Ended
    BY <1>10 DEF AbortRun, Complete, Fail, TokenUnavailable, LostReply, Ended, Running, AtProduct,
                 ProductPc
  <2>2. EndRun(r, "failed") \/ EndRun(r, "completed")
    BY <1>10 DEF AbortRun, Complete, Fail, TokenUnavailable, LostReply
  <2> QED
    BY <1>8, <2>1, <2>2, OverWithRun
<1> QED
  BY <1>2, <1>3, <1>4, <1>5, <1>6, <1>7, <1>9, <1>10 DEF RunStep, JobStep, WriteStep

(* Every step of a run comes further with its products, sends one mutation the less, leaves a  *)
(* product for good, or is one of the counted crashes: the loop of run_publisher cannot go     *)
(* round, however runs, requests, the merchant and webhooks interleave.                        *)
THEOREM AdvanceTheorem == Spec => RunAdvances
<1>1. ASSUME TypeOK, PublishInv, ProgressInv, [Next]_vars, NEW r \in Runs, job'[r] # job[r]
      PROVE  Nearer(r)
  BY <1>1, RunStepNearer, OthersStand
<1>2. TypeOK /\ PublishInv /\ ProgressInv /\ [Next]_vars =>
        [\A r \in Runs : job'[r] # job[r] =>
           \/ /\ Rank[job'[r].pc] > Rank[job[r].pc]
              /\ Running(r) /\ Running(r)' => job'[r].work = job[r].work
           \/ /\ job[r].pc = "write" /\ job'[r].pc = "write" /\ job'[r].work = job[r].work
              /\ job'[r].todo \subseteq job[r].todo /\ job'[r].todo # job[r].todo
           \/ /\ AtProduct(r) /\ job'[r].pc = "fetch"
              /\ job'[r].work \subseteq job[r].work /\ job'[r].work # job[r].work
           \/ crashes' = crashes + 1]_vars
  BY <1>1 DEF Nearer, ComesFurther, SendsOne, LeavesProduct
<1> QED
  BY <1>2, ProgressInvariant, PublishInvariant, PTL DEF Spec, RunAdvances

=============================================================================
