------------------------ MODULE FixLifecycle_proofs ------------------------
(***************************************************************************)
(* The gate and the publisher implement FixLifecycle, a run skips nothing  *)
(* it picked, and the category write comes last: for any fixes, products,  *)
(* requests and runs, any number of crashes and edits, and any faults.     *)
(*                                                                         *)
(* The first two need that requests on one target do not overlap and that  *)
(* a run starts when no other is in flight; the third needs neither.       *)
(***************************************************************************)
EXTENDS FixPublish_proofs

-----------------------------------------------------------------------------
(* The inductive invariant. *)

InFlight(r) == job[r].pc \notin {"none", "done", "lost"}

\* A run may still hold a fix that was superseded after it picked it.
Pending == WithStatus("approved") \union WithStatus("stale")

Final == WithStatus("verified") \union WithStatus("stale") \union WithStatus("publish_failed")

\* What the run has gated and not yet committed.
Open(r) == job[r].todo \union job[r].written \union job[r].refused

\* Where a run is tells what became of each fix it picked.
PickOK(r) ==
  Running(r) =>
    /\ job[r].work \subseteq job[r].picked
    /\ job[r].picked \ job[r].work \subseteq Final
    /\ job[r].pc = "fetch" => job[r].work \subseteq Pending
    /\ AtProduct(r) => job[r].work \ Mine(r) \subseteq Pending
    /\ job[r].pc = "gate" => Mine(r) \subseteq Pending /\ Open(r) = {}
    /\ job[r].pc = "write" => Open(r) \subseteq Pending /\ Mine(r) \ Open(r) \subseteq Final
    /\ job[r].pc \in {"reread", "verify"} =>
         /\ job[r].written \subseteq WithStatus("published")
         /\ Mine(r) \ job[r].written \subseteq Final

\* A request decides a proposal; the rows it holds can be superseded.
DecisionOK ==
  /\ \A d \in Deciders : Active(d) => status[dtx[d].fix] = "proposed"
  /\ \A g \in Fixes : lock[g] # Free => status[g] \in Supersedable

LifeInv ==
  /\ \A r, s \in Runs : InFlight(r) /\ InFlight(s) => r = s
  /\ \A r \in Runs : PickOK(r)
  /\ DecisionOK

-----------------------------------------------------------------------------
(* The refinement. *)

\* What a step of a run may record: an outcome for a fix that waits for one.
Records(f) ==
  \/ status'[f] = status[f]
  \/ f \in Pending /\ status'[f] \in {"stale", "published", "verified", "publish_failed"}
  \/ status[f] = "published" /\ status'[f] \in {"verified", "publish_failed"}

\* A commit of a run is one settlement.
LEMMA RecordsSettle ==
  ASSUME TypeOK, TypeOK', \A f \in Fixes : Records(f)
  PROVE  Lifecycle!Next
<1> DEFINE S == {f \in Fixes : status'[f] # status[f]}
<1>1. S \in SUBSET Fixes
  OBVIOUS
<1>2. \A f \in S : status'[f] \in Lifecycle!Outcomes(f) /\ f \in Lifecycle!Publishing
  BY DEF Records, Pending, WithStatus, Lifecycle!Outcomes, Lifecycle!Publishing, Lifecycle!With
<1>3. DOMAIN status' = Fixes /\ status' = [f \in Fixes |-> status'[f]]
  BY DEF TypeOK, StoreTypeOK
<1>4. status' \in [Fixes -> {status'[f] : f \in S} \union {status[f] : f \in Fixes}]
  BY <1>3
<1>5. Lifecycle!Settle(S)
  BY <1>1, <1>2, <1>4 DEF Lifecycle!Settle
<1> QED
  BY <1>1, <1>5 DEF Lifecycle!Next

LEMMA DecisionRefines ==
  ASSUME SerialDecisions, TypeOK, ApprovalInv, DecisionOK, NEW d \in Deciders, CommitDecision(d)
  PROVE  Lifecycle!Next
<1> DEFINE f == dtx[d].fix
           S == {g \in Fixes : lock[g] = d}
<1>1. Active(d) /\ dtx[d] \in OpenTx /\ f \in Fixes
  BY DEF TypeOK, GateTypeOK, CommitDecision, DecisionTx, IdleTx, Active, OpenTx
<1>2. TxOK(d) /\ status[f] = "proposed" /\ lock[f] = Free /\ Free \notin Deciders
  BY <1>1, FixStoreAssumption DEF ApprovalInv, DecisionOK, CommitDecision
<1>3. status' = CommitStatus(d)
  BY DEF CommitDecision
<1>4. CASE dtx[d].want = "approved"
  <2>1. dtx[d].pc = "superseding" /\ dtx[d].todo = {}
    BY <1>4 DEF CommitDecision
  <2>2. \A g \in S : status[g] \in {"proposed", "approved"} /\ SameTargetOther(f, g)
    BY <1>2 DEF DecisionOK, Supersedable, TxOK, SameTargetOther
  <2>3. \A g \in Fixes : status[g] = "approved" /\ SameTargetOther(f, g) => g \in S
    BY <1>2, <2>1 DEF TxOK, SameTargetOther
  <2>4. status' = [g \in Fixes |-> IF g = f THEN "approved"
                                   ELSE IF g \in S THEN "stale" ELSE status[g]]
    BY <1>3, <1>4 DEF CommitStatus
  <2>5. Lifecycle!Approve(f, S)
    BY <1>1, <1>2, <2>2, <2>3, <2>4 DEF Lifecycle!Approve, Lifecycle!With
  <2> QED
    BY <1>1, <2>5 DEF Lifecycle!Next
<1>5. CASE dtx[d].want = "rejected"
  <2>1. dtx[d].pc = "loaded"
    BY <1>2, <1>5 DEF CommitDecision, TxOK
  <2>2. S = {}
    BY <1>2, <2>1 DEF TxOK
  <2>3. status' = [g \in Fixes |-> IF g \in {f} THEN "rejected" ELSE status[g]]
    BY <1>3, <1>5, <2>2 DEF CommitStatus
  <2>4. Lifecycle!Reject(f)
    BY <1>1, <1>2, <2>3 DEF Lifecycle!Reject, Lifecycle!With, Lifecycle!Becomes
  <2> QED
    BY <1>1, <2>4 DEF Lifecycle!Next
<1> QED
  BY <1>1, <1>4, <1>5 DEF OpenTx

LEMMA ProposeRefines ==
  ASSUME TypeOK, NEW p \in Products, NEW new \in SUBSET Fixes, Propose(p, new)
  PROVE  Lifecycle!Next
<1>1. Lifecycle!Propose(new)
  BY DEF Propose, Lifecycle!Propose, Lifecycle!With, Lifecycle!Becomes
<1> QED
  BY <1>1 DEF Lifecycle!Next

-----------------------------------------------------------------------------
(* The invariant holds. *)

\* Another's step that leaves the run's job alone: only a superseded fix changes its status.
LEMMA PickFrame ==
  ASSUME TypeOK, NEW r \in Runs, PickOK(r), job'[r] = job[r],
         \A f \in Fixes : \/ status'[f] = status[f]
                          \/ status[f] = "approved" /\ status'[f] = "stale"
                          \/ status[f] \in {"none", "proposed"}
  PROVE  PickOK(r)'
<1>1. Running(r)' = Running(r) /\ AtProduct(r)' = AtProduct(r) /\ Mine(r)' = Mine(r)
      /\ Open(r)' = Open(r)
  BY DEF Running, AtProduct, Mine, Open
<1>2. /\ Pending \subseteq Pending' /\ Final \subseteq Final'
      /\ WithStatus("published") \subseteq WithStatus("published")'
  BY DEF Pending, Final, WithStatus
<1> QED
  BY <1>1, <1>2 DEF PickOK

\* Only the run in flight takes steps, and a new one starts after it.
LEMMA Alone ==
  ASSUME SerialRuns, TypeOK, LifeInv, NEW r \in Runs, RunStep(r), NEW s \in Runs \ {r}
  PROVE  ~Running(s)
<1>1. Running(s) => InFlight(s)
  BY DEF Running, AtProduct, ProductPc, InFlight
<1>2. ~InFlight(r) => StartPublish(r)
  BY DEF InFlight, RunStep, JobStep, CommitStep, WriteStep, Enqueue, EnqueueFails, Select, AbortRun,
         Fetch, GateGone, Gate, Write, Ignore, Refuse, LostReply, CommitWrites, Reread, Verify,
         Complete, Fail, TokenUnavailable, Crash, JobTimeout, Running, AtProduct, ProductPc
<1>3. StartPublish(r) => ~InFlight(s)
  BY DEF StartPublish, InFlight
<1> QED
  BY <1>1, <1>2, <1>3 DEF LifeInv

LEMMA OneInFlight ==
  ASSUME SerialRuns, TypeOK, PublishInv, LifeInv, NEW r \in Runs, RunStep(r)
  PROVE  \A s, q \in Runs : InFlight(s)' /\ InFlight(q)' => s = q
<1>1. \A s \in Runs \ {r} : job'[s] = job[s]
  BY RunStepGrows
<1>2. InFlight(r)' => InFlight(r) \/ StartPublish(r)
  <2>1. job \in [Runs -> Job]
    BY JobTyped
  <2> QED
    BY <2>1 DEF InFlight, RunStep, JobStep, CommitStep, WriteStep, Enqueue, EnqueueFails, Select,
         AbortRun, Fetch, GateGone, Gate, Write, Ignore, Refuse, LostReply, CommitWrites, Reread,
         Verify, Complete, Fail, TokenUnavailable, Crash, JobTimeout, Running, AtProduct, ProductPc
<1>3. StartPublish(r) => \A s \in Runs : ~InFlight(s)
  BY DEF StartPublish, InFlight
<1> QED
  BY <1>1, <1>2, <1>3 DEF LifeInv, InFlight

LEMMA InitLifeInv == Init => LifeInv
<1> SUFFICES ASSUME Init
             PROVE  LifeInv
  OBVIOUS
<1>1. \A r \in Runs : job[r].pc = "none"
  BY DEF Init, PublisherInit, FreshJob
<1>2. \A d \in Deciders : dtx[d].pc = "idle"
  BY DEF Init, GateInit, IdleTx
<1>3. \A g \in Fixes : lock[g] = Free
  BY DEF Init
<1> QED
  BY <1>1, <1>2, <1>3
  DEF LifeInv, InFlight, PickOK, Running, AtProduct, ProductPc, DecisionOK, Active

\* A request's step changes the status of its proposal and of what it supersedes.
LEMMA GateStepKeepsLifeInv ==
  ASSUME SerialDecisions, TypeOK, ApprovalInv, LifeInv, NEW d \in Deciders, GateStep(d),
         UNCHANGED <<pubVars, edits>>
  PROVE  LifeInv'
<1>1. /\ dtx \in [Deciders -> DecisionTx] /\ lock \in [Fixes -> Deciders \union {Free}]
      /\ Free \notin Deciders /\ job' = job /\ DecisionOK
  BY FixStoreAssumption DEF TypeOK, GateTypeOK, StoreTypeOK, pubVars, LifeInv
<1>2. \A f \in Fixes : \/ status'[f] = status[f]
                       \/ CommitDecision(d) /\ f = dtx[d].fix
                       \/ CommitDecision(d) /\ lock[f] = d /\ status'[f] = "stale"
  BY DEF GateStep, Load, BeginSupersede, LockRival, CommitDecision, CommitStatus, AbortDecision,
         storeVars
<1>3. CommitDecision(d) => Active(d)
  BY DEF CommitDecision, Active
<1>4. \A f \in Fixes : lock[f] = d => status[f] \in {"proposed", "approved"}
  BY <1>1 DEF DecisionOK, Supersedable
<1>5. \A f \in Fixes : \/ status'[f] = status[f]
                       \/ status[f] = "approved" /\ status'[f] = "stale"
                       \/ status[f] \in {"none", "proposed"}
  BY <1>1, <1>2, <1>3, <1>4 DEF DecisionOK
<1>6. \A r \in Runs : PickOK(r)'
  BY <1>1, <1>5, PickFrame DEF LifeInv
<1>7. \A r, s \in Runs : InFlight(r)' /\ InFlight(s)' => r = s
  BY <1>1 DEF LifeInv, InFlight
<1>8. ASSUME NEW e \in Deciders, Active(e)'
      PROVE  status'[dtx'[e].fix] = "proposed"
  <2>1. CASE e = d
    <3>1. \/ \E f \in Fixes, want \in {"approved", "rejected"} : Load(d, f, want)
          \/ BeginSupersede(d) \/ \E g \in Fixes : LockRival(d, g)
      BY <1>1, <1>8, <2>1 DEF GateStep, CommitDecision, AbortDecision, Active, IdleTx
    <3>2. status' = status
      BY <3>1 DEF Load, BeginSupersede, LockRival, storeVars
    <3>3. ASSUME NEW f \in Fixes, NEW want \in {"approved", "rejected"}, Load(d, f, want)
          PROVE  status'[dtx'[e].fix] = "proposed"
      BY <1>1, <2>1, <3>2, <3>3 DEF Load
    <3>4. ASSUME BeginSupersede(d) \/ \E g \in Fixes : LockRival(d, g)
          PROVE  status'[dtx'[e].fix] = "proposed"
      <4>1. Active(d) /\ dtx[d] \in OpenTx
        BY <1>1, <3>4 DEF BeginSupersede, LockRival, Active, DecisionTx, IdleTx
      <4>2. dtx'[d].fix = dtx[d].fix
        BY <1>1, <3>4, <4>1 DEF BeginSupersede, LockRival, OpenTx
      <4> QED
        BY <1>1, <2>1, <3>2, <4>1, <4>2 DEF DecisionOK
    <3> QED
      BY <3>1, <3>3, <3>4
  <2>2. CASE e # d
    <3>1. dtx'[e] = dtx[e]
      BY <1>1, <2>2 DEF GateStep, Load, BeginSupersede, LockRival, CommitDecision, AbortDecision
    <3>2. Active(e) /\ dtx[e] \in OpenTx /\ dtx[e].fix \in Fixes /\ status[dtx[e].fix] = "proposed"
      BY <1>1, <1>8, <3>1 DEF Active, DecisionTx, IdleTx, OpenTx, DecisionOK
    <3>3. CommitDecision(d) => dtx[e].fix # dtx[d].fix /\ lock[dtx[e].fix] # d
      <4>1. CommitDecision(d) => Apart(d, e)
        BY <2>2 DEF ApprovalInv
      <4>2. CommitDecision(d) => dtx[e].fix # dtx[d].fix /\ ~SameTarget(dtx[d].fix, dtx[e].fix)
        BY <1>3, <3>2, <4>1 DEF Apart
      <4>3. lock[dtx[e].fix] = d => SameTarget(dtx[d].fix, dtx[e].fix)
        BY <3>2 DEF ApprovalInv, TxOK, Rivals
      <4> QED
        BY <4>2, <4>3
    <3> QED
      BY <1>2, <3>1, <3>2, <3>3
  <2> QED
    BY <2>1, <2>2
<1>9. ASSUME NEW g \in Fixes, lock'[g] # Free
      PROVE  status'[g] \in Supersedable
  <2>1. CASE CommitDecision(d)
    <3>1. lock[g] # d /\ lock[g] # Free
      BY <1>1, <1>9, <2>1 DEF CommitDecision, Released
    <3>2. g # dtx[d].fix
      BY <2>1, <3>1 DEF CommitDecision
    <3> QED
      BY <1>1, <1>2, <3>1, <3>2 DEF DecisionOK
  <2>2. CASE ~CommitDecision(d)
    <3>1. status' = status
      BY <2>2 DEF GateStep, Load, BeginSupersede, LockRival, AbortDecision, storeVars
    <3>2. lock[g] # Free \/ status[g] \in Supersedable
      BY <1>1, <1>9, <2>2
      DEF GateStep, Load, BeginSupersede, LockRival, AbortDecision, storeVars, Released
    <3> QED
      BY <1>1, <3>1, <3>2 DEF DecisionOK
  <2> QED
    BY <2>1, <2>2
<1> QED
  BY <1>6, <1>7, <1>8, <1>9 DEF LifeInv, DecisionOK

LEMMA EnvStepKeepsLifeInv ==
  ASSUME TypeOK, LifeInv, EnvNext
  PROVE  LifeInv'
<1>1. UNCHANGED <<job, dtx, lock>>
  BY DEF EnvNext, Propose, ProductWebhook, Reingest, MerchantEdit, MerchantDelete, pubVars
<1>2. \A f \in Fixes : status'[f] = status[f] \/ status[f] = "none"
  BY DEF EnvNext, Propose, ProductWebhook, Reingest, MerchantEdit, MerchantDelete
<1>3. \A r \in Runs : PickOK(r)'
  BY <1>1, <1>2, PickFrame DEF LifeInv
<1>4. DecisionOK'
  <2>1. \A d \in Deciders : Active(d) => dtx[d].fix \in Fixes
    BY DEF TypeOK, GateTypeOK, DecisionTx, OpenTx, IdleTx, Active
  <2> QED
    BY <1>1, <1>2, <2>1 DEF LifeInv, DecisionOK, Active, Supersedable
<1> QED
  BY <1>1, <1>3, <1>4 DEF LifeInv, InFlight

\* What a run records, and that it waits for the rows.
LEMMA RunStepRecords ==
  ASSUME TypeOK, PublishInv, LifeInv, NEW r \in Runs, RunStep(r), NEW f \in Fixes
  PROVE  Records(f) /\ (status'[f] # status[f] => lock[f] = Free)
<1>1. PickOK(r) /\ RunOK(r) /\ Mine(r) \subseteq job[r].work /\ job[r].work \subseteq Fixes
  BY JobTyped DEF LifeInv, PublishInv
<1>2. CASE GateGone(r)
  <2>1. Mine(r) \subseteq Pending
    BY <1>1, <1>2 DEF GateGone, PickOK, Running, AtProduct, ProductPc
  <2> QED
    BY <1>2, <2>1 DEF GateGone, Records, Unlocked
<1>3. CASE Gate(r)
  <2> DEFINE landed == {g \in Mine(r) : Landed(g, job[r].snap)}
             writable == {g \in Mine(r) : GateResult(r)[g] = "write"}
  <2>1. Mine(r) \subseteq Pending
    BY <1>1, <1>3 DEF Gate, PickOK, Running, AtProduct, ProductPc
  <2>2. /\ status' = [g \in Fixes |->
                       IF g \in Mine(r) \ writable THEN GateResult(r)[g] ELSE status[g]]
        /\ Unlocked(Mine(r) \ writable)
    BY <1>3 DEF Gate
  <2>3. \A g \in Mine(r) : GateResult(r)[g] = GateOutcome(g, job[r].snap, landed)
    BY DEF GateResult
  <2>4. \A g \in Mine(r) : GateResult(r)[g] \in {"verified", "write", "stale"}
    BY <2>3 DEF GateOutcome
  <2> QED
    BY <2>1, <2>2, <2>4 DEF Records, Unlocked
<1>4. CASE CommitWrites(r)
  <2>1. job[r].written \union job[r].refused \subseteq Pending
    BY <1>1, <1>4 DEF CommitWrites, PickOK, Running, AtProduct, ProductPc, Open
  <2> QED
    BY <1>4, <2>1 DEF CommitWrites, StatusAfterWrites, Records, Unlocked
<1>5. CASE Verify(r)
  <2>1. job[r].written \subseteq WithStatus("published")
    BY <1>1, <1>5 DEF Verify, PickOK, Running, AtProduct, ProductPc
  <2> QED
    BY <1>5, <2>1 DEF Verify, VerifyOutcome, Records, Unlocked, WithStatus
<1>6. CASE status' = status
  BY <1>6 DEF Records
<1> QED
  BY <1>2, <1>3, <1>4, <1>5, <1>6
  DEF RunStep, JobStep, CommitStep, WriteStep, StartPublish, Enqueue, EnqueueFails, Select,
      AbortRun, Fetch, Write, Ignore, Refuse, Reread, Complete, Fail, LostReply, TokenUnavailable, Crash,
      JobTimeout, storeVars

\* The run leaves a product with all its fixes settled.
LEMMA NextOK ==
  ASSUME TypeOK, NEW r \in Runs, PickOK(r), AtProduct(r), NextProduct(r), Mine(r) \subseteq Final',
         \A f \in Fixes \ Mine(r) : status'[f] = status[f]
  PROVE  PickOK(r)'
<1>1. /\ job'[r].pc = "fetch" /\ job'[r].picked = job[r].picked
      /\ job'[r].work = job[r].work \ Mine(r)
  BY JobTyped DEF NextProduct, FreshJob
<1>2. job[r].picked \subseteq Fixes /\ job[r].work \subseteq Fixes /\ Mine(r) \subseteq job[r].work
  BY JobTyped
<1>3. /\ job[r].work \subseteq job[r].picked /\ job[r].picked \ job[r].work \subseteq Final
      /\ job[r].work \ Mine(r) \subseteq Pending
  BY DEF PickOK, Running
<1>4. job'[r].picked \ job'[r].work \subseteq Final'
  BY <1>1, <1>2, <1>3 DEF Final, WithStatus
<1>5. job'[r].work \subseteq Pending'
  BY <1>1, <1>2, <1>3 DEF Pending, WithStatus
<1>6. ~AtProduct(r)' /\ job'[r].work \subseteq job'[r].picked
  BY <1>1, <1>3 DEF AtProduct, ProductPc
<1> QED
  BY <1>1, <1>4, <1>5, <1>6 DEF PickOK, AtProduct, ProductPc

\* A step between two commits at a product.
LEMMA SameProduct ==
  ASSUME TypeOK, NEW r \in Runs, PickOK(r), AtProduct(r), AtProduct(r)',
         job'[r].work = job[r].work, job'[r].picked = job[r].picked,
         \A f \in Fixes \ Mine(r) : status'[f] = status[f],
         job'[r].pc = "gate" => (Mine(r) \subseteq Pending /\ Open(r) = {})',
         job'[r].pc = "write" => (Open(r) \subseteq Pending /\ Mine(r) \ Open(r) \subseteq Final)',
         job'[r].pc \in {"reread", "verify"} =>
           (/\ job[r].written \subseteq WithStatus("published")
            /\ Mine(r) \ job[r].written \subseteq Final)'
  PROVE  PickOK(r)'
<1>1. job[r].picked \subseteq Fixes /\ job[r].work \subseteq Fixes /\ Mine(r) \subseteq job[r].work
  BY JobTyped
<1>2. Mine(r)' = Mine(r)
  BY DEF Mine
<1>3. /\ job[r].work \subseteq job[r].picked /\ job[r].picked \ job[r].work \subseteq Final
      /\ job[r].work \ Mine(r) \subseteq Pending
  BY DEF PickOK, Running
<1>4. job'[r].picked \ job'[r].work \subseteq Final'
  BY <1>1, <1>3 DEF Final, WithStatus
<1>5. (job[r].work \ Mine(r) \subseteq Pending)'
  BY <1>1, <1>2, <1>3 DEF Pending, WithStatus
<1>6. job'[r].pc # "fetch"
  BY DEF AtProduct, ProductPc
<1> QED
  BY <1>3, <1>4, <1>5, <1>6 DEF PickOK

LEMMA GatePicks ==
  ASSUME TypeOK, PublishInv, LifeInv, NEW r \in Runs, Gate(r) \/ GateGone(r)
  PROVE  PickOK(r)'
<1>1. /\ PickOK(r) /\ Mine(r) \subseteq job[r].work /\ job[r].work \subseteq Fixes
      /\ job \in [Runs -> Job] /\ job[r] \in Job
  BY JobTyped DEF LifeInv
<1>2. job[r].pc = "gate" /\ AtProduct(r) /\ Running(r)
  BY DEF Gate, GateGone, AtProduct, ProductPc, Running
<1>3. Mine(r) \subseteq Pending /\ Open(r) = {} /\ Mine(r) \subseteq Fixes
  BY <1>1, <1>2 DEF PickOK
<1>4. CASE GateGone(r)
  <2>1. Mine(r) \subseteq Final' /\ \A f \in Fixes \ Mine(r) : status'[f] = status[f]
    BY <1>3, <1>4 DEF GateGone, Final, WithStatus
  <2> QED
    BY <1>1, <1>2, <1>4, <2>1, NextOK DEF GateGone
<1>5. CASE Gate(r)
  <2> DEFINE landed == {g \in Mine(r) : Landed(g, job[r].snap)}
             writable == {g \in Mine(r) : GateResult(r)[g] = "write"}
  <2>1. status' = [g \in Fixes |-> IF g \in Mine(r) \ writable THEN GateResult(r)[g] ELSE status[g]]
    BY <1>5 DEF Gate
  <2>2. \A g \in Mine(r) : GateResult(r)[g] = GateOutcome(g, job[r].snap, landed)
    BY DEF GateResult
  <2>3. \A g \in Mine(r) : GateResult(r)[g] \in {"verified", "write", "stale"}
    BY <2>2 DEF GateOutcome
  <2>4. /\ Mine(r) \ writable \subseteq Final'
        /\ \A f \in Fixes \ (Mine(r) \ writable) : status'[f] = status[f]
    BY <1>3, <2>1, <2>3 DEF Final, WithStatus
  <2>5. CASE writable = {}
    <3>1. NextProduct(r)
      BY <1>5, <2>5 DEF Gate
    <3> QED
      BY <1>1, <1>2, <2>4, <2>5, <3>1, NextOK
  <2>6. CASE writable # {}
    <3>1. job' = [job EXCEPT ![r].pc = "write", ![r].todo = writable]
      BY <1>5, <2>6 DEF Gate
    <3> HIDE DEF writable
    <3>2. /\ job'[r].pc = "write" /\ job'[r].todo = writable /\ job'[r].work = job[r].work
          /\ job'[r].picked = job[r].picked /\ job'[r].written = job[r].written
          /\ job'[r].refused = job[r].refused
      BY <1>1, <3>1 DEF Job
    <3>3. AtProduct(r)' /\ Open(r)' = writable /\ Mine(r)' = Mine(r)
      BY <1>3, <3>2 DEF AtProduct, ProductPc, Open, Mine
    <3>4. writable \subseteq Mine(r)
      BY DEF writable
    <3>5. (Open(r) \subseteq Pending /\ Mine(r) \ Open(r) \subseteq Final)'
      BY <1>3, <2>4, <3>3, <3>4 DEF Pending, WithStatus
    <3> QED
      BY <1>1, <1>2, <2>4, <3>2, <3>3, <3>5, SameProduct
  <2> QED
    BY <2>5, <2>6
<1> QED
  BY <1>4, <1>5

LEMMA CommitPicks ==
  ASSUME TypeOK, PublishInv, LifeInv, NEW r \in Runs, CommitWrites(r)
  PROVE  PickOK(r)'
<1>1. /\ PickOK(r) /\ RunOK(r) /\ Mine(r) \subseteq job[r].work /\ job[r].work \subseteq Fixes
      /\ job \in [Runs -> Job] /\ job[r] \in Job
  BY JobTyped DEF LifeInv, PublishInv
<1>2. job[r].pc = "write" /\ AtProduct(r) /\ Running(r) /\ job[r].todo = {}
  BY DEF CommitWrites, AtProduct, ProductPc, Running
<1>3. /\ Open(r) \subseteq Pending /\ Mine(r) \ Open(r) \subseteq Final
      /\ job[r].written \subseteq Mine(r) /\ job[r].refused \subseteq Mine(r)
      /\ Open(r) = job[r].written \union job[r].refused
  BY <1>1, <1>2 DEF PickOK, RunOK, Open
<1>4. status' = StatusAfterWrites(r)
  BY DEF CommitWrites
<1>5. /\ job[r].written \subseteq WithStatus("published")'
      /\ Mine(r) \ job[r].written \subseteq Final'
      /\ \A f \in Fixes \ Mine(r) : status'[f] = status[f]
  BY <1>1, <1>3, <1>4 DEF StatusAfterWrites, Final, WithStatus
<1>6. CASE job[r].written = {}
  <2>1. NextProduct(r)
    BY <1>6 DEF CommitWrites
  <2> QED
    BY <1>1, <1>2, <1>5, <1>6, <2>1, NextOK
<1>7. CASE job[r].written # {}
  <2>1. job' = [job EXCEPT ![r].pc = "reread"]
    BY <1>7 DEF CommitWrites
  <2>2. /\ job'[r].pc = "reread" /\ job'[r].work = job[r].work
        /\ job'[r].picked = job[r].picked /\ job'[r].written = job[r].written
    BY <1>1, <2>1 DEF Job
  <2>3. AtProduct(r)' /\ Mine(r)' = Mine(r)
    BY <2>2 DEF AtProduct, ProductPc, Mine
  <2> QED
    BY <1>1, <1>2, <1>5, <2>2, <2>3, SameProduct
<1> QED
  BY <1>6, <1>7

LEMMA VerifyPicks ==
  ASSUME TypeOK, PublishInv, LifeInv, NEW r \in Runs, Verify(r)
  PROVE  PickOK(r)'
<1>1. PickOK(r) /\ RunOK(r) /\ Mine(r) \subseteq job[r].work /\ job[r].work \subseteq Fixes
  BY JobTyped DEF LifeInv, PublishInv
<1>2. job[r].pc = "verify" /\ AtProduct(r) /\ Running(r)
  BY DEF Verify, AtProduct, ProductPc, Running
<1>3. job[r].written \subseteq Mine(r) /\ Mine(r) \ job[r].written \subseteq Final
  BY <1>1, <1>2 DEF PickOK, RunOK
<1>4. Mine(r) \subseteq Final' /\ \A f \in Fixes \ Mine(r) : status'[f] = status[f]
  BY <1>1, <1>3 DEF Verify, VerifyOutcome, Final, WithStatus
<1> QED
  BY <1>1, <1>2, <1>4, NextOK DEF Verify

LEMMA OtherPicks ==
  ASSUME TypeOK, PublishInv, LifeInv, NEW r \in Runs, status' = status,
         Select(r) \/ Fetch(r) \/ Reread(r)
           \/ \E f \in Fixes : Write(r, f) \/ Ignore(r, f) \/ Refuse(r, f)
  PROVE  PickOK(r)'
<1>1. /\ PickOK(r) /\ RunOK(r) /\ Mine(r) \subseteq job[r].work /\ job[r].work \subseteq Fixes
      /\ job \in [Runs -> Job] /\ job[r] \in Job
  BY JobTyped DEF LifeInv, PublishInv
<1>2. Pending' = Pending /\ Final' = Final /\ WithStatus("published")' = WithStatus("published")
  BY DEF Pending, Final, WithStatus
<1>3. CASE Select(r)
  <2>1. job'[r].pc = "fetch" /\ job'[r].picked = WithStatus("approved")
        /\ job'[r].work = WithStatus("approved")
    BY <1>1, <1>3 DEF Select, Selected, FreshJob
  <2>2. ~AtProduct(r)' /\ WithStatus("approved") \subseteq Pending
    BY <2>1 DEF AtProduct, ProductPc, Pending
  <2> QED
    BY <1>2, <2>1, <2>2 DEF PickOK
<1>4. CASE Fetch(r)
  <2>1. /\ job'[r].pc = "gate" /\ job'[r].work = job[r].work /\ job'[r].picked = job[r].picked
        /\ job'[r].todo = job[r].todo /\ job'[r].written = job[r].written
        /\ job'[r].refused = job[r].refused /\ job[r].pc = "fetch"
    BY <1>1, <1>4 DEF Fetch, Job
  <2>2. /\ Running(r) /\ job[r].work \subseteq Pending /\ job[r].work \subseteq job[r].picked
        /\ job[r].picked \ job[r].work \subseteq Final
    BY <1>1, <2>1 DEF PickOK, Running
  <2>3. Open(r) = {}
    BY <1>1, <2>1 DEF RunOK, AtProduct, ProductPc, Open
  <2>4. Mine(r)' = Mine(r) /\ Open(r)' = Open(r)
    BY <2>1 DEF Mine, Open
  <2> QED
    BY <1>1, <1>2, <2>1, <2>2, <2>3, <2>4 DEF PickOK
<1>5. CASE Reread(r)
  <2>1. /\ job'[r].pc = "verify" /\ job'[r].work = job[r].work /\ job'[r].picked = job[r].picked
        /\ job'[r].written = job[r].written /\ job[r].pc = "reread"
    BY <1>1, <1>5 DEF Reread, Job
  <2>2. AtProduct(r) /\ AtProduct(r)' /\ Running(r) /\ Mine(r)' = Mine(r)
    BY <2>1 DEF AtProduct, ProductPc, Running, Mine
  <2>3. /\ job[r].written \subseteq WithStatus("published")
        /\ Mine(r) \ job[r].written \subseteq Final
    BY <1>1, <2>1, <2>2 DEF PickOK
  <2> QED
    BY <1>1, <1>2, <2>1, <2>2, <2>3, SameProduct
<1>6. ASSUME NEW f \in Fixes, Write(r, f) \/ Ignore(r, f) \/ Refuse(r, f)
      PROVE  PickOK(r)'
  <2>1. /\ job[r].pc = "write" /\ job'[r].pc = "write" /\ f \in job[r].todo
        /\ job'[r].work = job[r].work /\ job'[r].picked = job[r].picked
        /\ job'[r].todo = job[r].todo \ {f}
        /\ \/ job'[r].written = job[r].written \union {f} /\ job'[r].refused = job[r].refused
           \/ job'[r].written = job[r].written /\ job'[r].refused = job[r].refused \union {f}
    BY <1>1, <1>6 DEF Write, Ignore, Refuse, RiskFirst, Job
  <2>2. AtProduct(r) /\ AtProduct(r)' /\ Running(r) /\ Mine(r)' = Mine(r) /\ Open(r)' = Open(r)
    BY <2>1 DEF AtProduct, ProductPc, Running, Mine, Open
  <2>3. Open(r) \subseteq Pending /\ Mine(r) \ Open(r) \subseteq Final
    BY <1>1, <2>1, <2>2 DEF PickOK
  <2> QED
    BY <1>1, <1>2, <2>1, <2>2, <2>3, SameProduct
<1> QED
  BY <1>3, <1>4, <1>5, <1>6

LEMMA RunStepPicks ==
  ASSUME TypeOK, PublishInv, LifeInv, NEW r \in Runs, RunStep(r)
  PROVE  PickOK(r)'
<1>1. CASE CommitStep(r)
  BY <1>1, GatePicks, CommitPicks, VerifyPicks DEF CommitStep
<1>2. CASE Select(r) \/ Fetch(r) \/ Reread(r)
  BY <1>2, OtherPicks DEF Select, Fetch, Reread, storeVars
<1>3. ASSUME NEW f \in Fixes, Write(r, f) \/ Ignore(r, f) \/ Refuse(r, f)
      PROVE  PickOK(r)'
  <2>1. status' = status
    BY <1>3 DEF Write, Ignore, Refuse, storeVars
  <2> QED
    BY <1>3, <2>1, OtherPicks
<1>4. CASE \/ StartPublish(r) \/ Enqueue(r) \/ EnqueueFails(r) \/ AbortRun(r) \/ Complete(r)
           \/ Fail(r) \/ TokenUnavailable(r) \/ Crash(r) \/ JobTimeout(r)
           \/ \E f \in Fixes : LostReply(r, f)
  <2>1. job \in [Runs -> Job] /\ job[r] \in Job
    BY JobTyped
  <2>2. CASE \/ AbortRun(r) \/ Complete(r) \/ Fail(r) \/ TokenUnavailable(r)
             \/ \E f \in Fixes : LostReply(r, f)
    <3>1. \E outcome \in {"completed", "failed"} : EndRun(r, outcome)
      BY <2>2 DEF AbortRun, Complete, Fail, TokenUnavailable, LostReply
    <3>2. job'[r].pc = "done"
      BY <2>1, <3>1 DEF EndRun, FreshJob
    <3> QED
      BY <3>2 DEF PickOK, Running, AtProduct, ProductPc
  <2>3. CASE StartPublish(r) \/ Crash(r) \/ JobTimeout(r)
    <3>1. job'[r].pc \in {"committed", "queued", "lost"}
      BY <2>1, <2>3 DEF StartPublish, Crash, JobTimeout, FreshJob
    <3> QED
      BY <3>1 DEF PickOK, Running, AtProduct, ProductPc
  <2>4. CASE Enqueue(r) \/ EnqueueFails(r)
    <3>1. job'[r].pc \in {"queued", "lost"}
      BY <2>1, <2>4 DEF Enqueue, EnqueueFails, Job
    <3> QED
      BY <3>1 DEF PickOK, Running, AtProduct, ProductPc
  <2> QED
    BY <1>4, <2>2, <2>3, <2>4
<1> QED
  BY <1>1, <1>2, <1>3, <1>4 DEF RunStep, JobStep, WriteStep

LEMMA RunStepKeepsLifeInv ==
  ASSUME SerialRuns, TypeOK, PublishInv, LifeInv, NEW r \in Runs, RunStep(r),
         UNCHANGED <<dtx, edits>>
  PROVE  LifeInv'
<1>1. (\A s \in Runs \ {r} : job'[s] = job[s]) /\ lock' = lock
  BY RunStepGrows
<1>2. ASSUME NEW s \in Runs
      PROVE  PickOK(s)'
  <2>1. CASE s = r
    BY <2>1, RunStepPicks
  <2>2. CASE s # r
    <3>1. ~Running(s)
      BY <2>2, Alone
    <3> QED
      BY <1>1, <2>2, <3>1 DEF PickOK, Running, AtProduct
  <2> QED
    BY <2>1, <2>2
<1>3. DecisionOK'
  <2>1. \A f \in Fixes : status[f] \in {"proposed"} => status'[f] = status[f]
    BY RunStepRecords DEF Records, Pending, WithStatus
  <2>2. \A f \in Fixes : lock[f] # Free => status'[f] = status[f]
    BY RunStepRecords
  <2>3. \A d \in Deciders : Active(d) => dtx[d].fix \in Fixes
    BY DEF TypeOK, GateTypeOK, DecisionTx, OpenTx, IdleTx, Active
  <2> QED
    BY <1>1, <2>1, <2>2, <2>3 DEF LifeInv, DecisionOK, Active
<1> QED
  BY <1>2, <1>3, OneInFlight DEF LifeInv

\* Nothing that the invariant speaks of changes.
LEMMA StutterLifeInv ==
  ASSUME TypeOK, LifeInv, UNCHANGED vars
  PROVE  LifeInv'
<1>1. UNCHANGED <<status, lock, dtx, job>>
  BY DEF vars, storeVars, pubVars
<1>2. \A r \in Runs : PickOK(r)'
  BY <1>1, PickFrame DEF LifeInv
<1> QED
  BY <1>1, <1>2 DEF LifeInv, InFlight, DecisionOK, Active

\* When requests on a target do not overlap and runs do not either, a run in flight knows
\* what became of each fix it picked: it waits for an outcome, or has a final one.
THEOREM LifeInvariant ==
  SerialDecisions /\ SerialRuns => (Spec => [](TypeOK /\ PublishInv /\ ApprovalInv /\ LifeInv))
<1> SUFFICES ASSUME SerialDecisions, SerialRuns
             PROVE  Spec => [](TypeOK /\ PublishInv /\ ApprovalInv /\ LifeInv)
  OBVIOUS
<1>1. TypeOK /\ PublishInv /\ ApprovalInv /\ [Next]_vars => ApprovalInv'
  BY NextKeepsApprovalInv
<1>2. TypeOK /\ PublishInv /\ ApprovalInv /\ LifeInv /\ [Next]_vars => LifeInv'
  BY GateStepKeepsLifeInv, RunStepKeepsLifeInv, EnvStepKeepsLifeInv, StutterLifeInv
  DEF Next, GateNext, PublisherNext
<1> QED
  BY <1>1, <1>2, InitApprovalInv, InitLifeInv, PublishInvariant, PTL DEF Spec

-----------------------------------------------------------------------------
(* The theorems. *)

\* The gate and the publisher implement FixLifecycle: each commit of a request, each commit
\* of a run and each insert of proposals is one legal step of the status column, and no
\* other step changes it, however transactions and runs interleave, crash and start over.
THEOREM RefinementTheorem == SerialDecisions /\ SerialRuns => (Spec => ImplementsLifecycle)
<1> SUFFICES ASSUME SerialDecisions, SerialRuns
             PROVE  Spec => ImplementsLifecycle
  OBVIOUS
<1>1. Init => Lifecycle!Init
  BY DEF Init, Lifecycle!Init
<1>2. ASSUME TypeOK, TypeOK', PublishInv, ApprovalInv, LifeInv, [Next]_vars
      PROVE  [Lifecycle!Next]_status
  <2>1. ASSUME NEW d \in Deciders, GateStep(d)
        PROVE  [Lifecycle!Next]_status
    <3>1. CASE CommitDecision(d)
      BY <1>2, <3>1, DecisionRefines DEF LifeInv
    <3>2. CASE ~CommitDecision(d)
      BY <2>1, <3>2 DEF GateStep, Load, BeginSupersede, LockRival, AbortDecision, storeVars
    <3> QED
      BY <3>1, <3>2
  <2>2. ASSUME NEW r \in Runs, RunStep(r)
        PROVE  Lifecycle!Next
    BY <1>2, <2>2, RunStepRecords, RecordsSettle
  <2>3. CASE EnvNext
    <3>1. ASSUME NEW p \in Products, NEW new \in SUBSET Fixes, Propose(p, new)
          PROVE  Lifecycle!Next
      BY <1>2, <3>1, ProposeRefines
    <3>2. \/ status' = status
          \/ \E p \in Products, new \in SUBSET Fixes : Propose(p, new)
      BY <2>3 DEF EnvNext, ProductWebhook, Reingest, MerchantEdit, MerchantDelete
    <3> QED
      BY <3>1, <3>2
  <2>4. CASE UNCHANGED vars
    BY <2>4 DEF vars, storeVars
  <2> QED
    BY <1>2, <2>1, <2>2, <2>3, <2>4 DEF Next, GateNext, PublisherNext
<1> QED
  BY <1>1, <1>2, LifeInvariant, PTL DEF Spec, ImplementsLifecycle, Lifecycle!Spec

\* A run that completes has given each fix it picked an outcome: no silent skips.
THEOREM NoSkipTheorem == SerialDecisions /\ SerialRuns => (Spec => NoSilentSkip)
<1> SUFFICES ASSUME SerialDecisions, SerialRuns
             PROVE  Spec => NoSilentSkip
  OBVIOUS
<1>1. ASSUME TypeOK, LifeInv, [Next]_vars, NEW r \in Runs,
             runStatus[r] = "running", runStatus'[r] = "completed"
      PROVE  \A f \in job[r].picked : status[f] \in {"verified", "stale", "publish_failed"}
  <2>1. runStatus \in [Runs -> {"none", "running", "completed", "failed"}]
    BY <1>1 DEF TypeOK, PublisherTypeOK
  <2>2. PICK s \in Runs : RunStep(s)
    <3>1. runStatus' # runStatus
      BY <1>1
    <3> QED
      BY <1>1, <3>1
      DEF Next, GateNext, PublisherNext, EnvNext, Propose, ProductWebhook, Reingest,
          MerchantEdit, MerchantDelete, vars, pubVars
  <2>3. Complete(s) /\ s = r
    <3>1. \/ runStatus' = runStatus
          \/ runStatus' = [runStatus EXCEPT ![s] = "running"]
          \/ runStatus' = [runStatus EXCEPT ![s] = "failed"]
          \/ Complete(s)
      BY <2>2
      DEF RunStep, JobStep, CommitStep, WriteStep, StartPublish, Enqueue, EnqueueFails, Select,
          AbortRun, Fetch, GateGone, Gate, Write, Ignore, Refuse, LostReply, CommitWrites, Reread,
          Verify, Fail, TokenUnavailable, Crash, JobTimeout, EndRun
    <3>2. Complete(s)
      BY <1>1, <2>1, <3>1
    <3>3. runStatus' = [runStatus EXCEPT ![s] = "completed"]
      BY <3>2 DEF Complete, EndRun
    <3> QED
      BY <1>1, <2>1, <3>2, <3>3
  <2>4. job[r].pc = "fetch" /\ job[r].work = {} /\ PickOK(r)
    BY <1>1, <2>3 DEF Complete, LifeInv
  <2>5. job[r].picked \subseteq Final
    BY <2>4 DEF PickOK, Running
  <2> QED
    BY <2>5 DEF Final, WithStatus
<1>2. TypeOK /\ LifeInv /\ [Next]_vars =>
        [\A r \in Runs : (runStatus[r] = "running" /\ runStatus'[r] = "completed")
           => \A f \in job[r].picked : status[f] \in {"verified", "stale", "publish_failed"}]_vars
  BY <1>1
<1> QED
  BY <1>2, LifeInvariant, PTL DEF Spec, NoSilentSkip

-----------------------------------------------------------------------------
(* The category write comes last. *)

\* A run sends each fix at most once.
SentOnce(r) ==
  /\ job[r].todo \cap job[r].written = {}
  /\ job[r].pc = "gate" => job[r].written = {}

\* A run that starts, ends or starts over remembers no write.
LEMMA FreshStepForgets ==
  ASSUME TypeOK, NEW r \in Runs,
         \/ StartPublish(r) \/ AbortRun(r) \/ Complete(r) \/ Fail(r) \/ TokenUnavailable(r)
         \/ Crash(r) \/ JobTimeout(r) \/ \E f \in Fixes : LostReply(r, f)
  PROVE  job'[r].written = {}
<1>1. job \in [Runs -> Job]
  BY JobTyped
<1>2. CASE StartPublish(r) \/ Crash(r) \/ JobTimeout(r)
  BY <1>1, <1>2 DEF StartPublish, Crash, JobTimeout, FreshJob
<1>3. CASE \E outcome \in {"completed", "failed"} : EndRun(r, outcome)
  BY <1>1, <1>3 DEF EndRun, FreshJob
<1> QED
  BY <1>2, <1>3 DEF AbortRun, Complete, Fail, TokenUnavailable, LostReply

LEMMA RunStepKeepsSentOnce ==
  ASSUME TypeOK, PublishInv, NEW r \in Runs, SentOnce(r), RunStep(r)
  PROVE  SentOnce(r)'
<1>1. job \in [Runs -> Job] /\ job[r] \in Job /\ RunOK(r)
  BY JobTyped DEF PublishInv
<1>2. CASE \/ StartPublish(r) \/ AbortRun(r) \/ Complete(r) \/ Fail(r) \/ TokenUnavailable(r)
           \/ Crash(r) \/ JobTimeout(r) \/ \E f \in Fixes : LostReply(r, f)
  <2>1. job'[r].written = {}
    BY <1>2, FreshStepForgets
  <2> QED
    BY <2>1 DEF SentOnce
<1>3. CASE Select(r) \/ NextProduct(r)
  <2>1. job'[r].written = {} /\ job'[r].pc = "fetch"
    BY <1>1, <1>3 DEF Select, NextProduct, FreshJob
  <2> QED
    BY <2>1 DEF SentOnce
<1>4. CASE Enqueue(r) \/ EnqueueFails(r) \/ Fetch(r) \/ Reread(r)
  <2>1. /\ job'[r].todo = job[r].todo /\ job'[r].written = job[r].written
        /\ job'[r].pc = "gate" => job[r].pc = "fetch"
    BY <1>1, <1>4 DEF Enqueue, EnqueueFails, Fetch, Reread, Job
  <2> QED
    BY <1>1, <2>1 DEF SentOnce, RunOK, AtProduct, ProductPc
<1>5. CASE Gate(r) /\ ~NextProduct(r)
  <2>1. job'[r].written = job[r].written /\ job[r].pc = "gate"
    BY <1>1, <1>5 DEF Gate, Job
  <2> QED
    BY <2>1 DEF SentOnce
<1>6. CASE CommitWrites(r) /\ ~NextProduct(r)
  <2>1. job'[r].todo = job[r].todo /\ job[r].todo = {} /\ job'[r].pc = "reread"
    BY <1>1, <1>6 DEF CommitWrites, Job
  <2> QED
    BY <2>1 DEF SentOnce
<1>7. ASSUME NEW f \in Fixes, Write(r, f) \/ Ignore(r, f) \/ Refuse(r, f)
      PROVE  SentOnce(r)'
  <2>1. /\ job'[r].pc = "write" /\ job'[r].todo = job[r].todo \ {f}
        /\ job'[r].written \subseteq job[r].written \union {f}
    BY <1>1, <1>7 DEF Write, Ignore, Refuse, Job
  <2> QED
    BY <2>1 DEF SentOnce
<1> QED
  BY <1>2, <1>3, <1>4, <1>5, <1>6, <1>7
  DEF RunStep, JobStep, CommitStep, WriteStep, GateGone, Verify

\* The tax-relevant category write comes last, with or without overlapping requests and runs:
\* no product with only a description left is behind it, and no description of its product.
THEOREM CategoryTheorem == Spec => CategoryIsLast
<1> DEFINE Once == \A r \in Runs : SentOnce(r)
<1>1. Init => Once
  BY DEF Init, PublisherInit, FreshJob, SentOnce
<1>2. TypeOK /\ PublishInv /\ Once /\ [Next]_vars => Once'
  <2> SUFFICES ASSUME TypeOK, PublishInv, Once, [Next]_vars, NEW r \in Runs
               PROVE  SentOnce(r)'
    OBVIOUS
  <2>1. CASE job'[r] = job[r]
    BY <2>1 DEF SentOnce
  <2>2. CASE RunStep(r)
    BY <2>2, RunStepKeepsSentOnce
  <2>3. job'[r] = job[r] \/ RunStep(r)
    BY RunStepGrows DEF Next, GateNext, PublisherNext, EnvNext, Propose, ProductWebhook, Reingest,
       MerchantEdit, MerchantDelete, vars, pubVars
  <2> QED
    BY <2>1, <2>2, <2>3
<1>3. ASSUME TypeOK, PublishInv, Once, [Next]_vars, NEW r \in Runs, NEW f \in job[r].todo,
             TypeOf[f] = "category", job'[r] # job[r], f \in job'[r].written
      PROVE  /\ \A g \in job[r].work : \E h \in job[r].work :
                  ProductOf[h] = ProductOf[g] /\ TypeOf[h] = "category"
             /\ \A g \in job[r].todo : TypeOf[g] # "description"
  <2>1. /\ RunOK(r) /\ SentOnce(r) /\ job \in [Runs -> Job] /\ job[r] \in Job
        /\ job[r].work \subseteq Fixes /\ Mine(r) \subseteq job[r].work
    BY <1>3, JobTyped DEF PublishInv
  <2>2. job[r].pc = "write" /\ f \in Mine(r) /\ f \notin job[r].written
    BY <2>1 DEF RunOK, SentOnce, AtProduct, ProductPc
  <2>3. RunStep(r)
    BY <1>3, RunStepGrows
    DEF Next, GateNext, PublisherNext, EnvNext, Propose, ProductWebhook, Reingest,
        MerchantEdit, MerchantDelete, vars, pubVars
  <2>4. Write(r, f) \/ Ignore(r, f)
    <3>1. \/ \E g \in Fixes : Write(r, g) \/ Ignore(r, g) \/ Refuse(r, g)
          \/ StartPublish(r) \/ Fail(r) \/ TokenUnavailable(r) \/ Crash(r) \/ JobTimeout(r)
          \/ \E g \in Fixes : LostReply(r, g)
      <4>1. job[r].todo # {}
        OBVIOUS
      <4> QED
        BY <2>2, <2>3, <4>1
        DEF RunStep, JobStep, CommitStep, WriteStep, Enqueue, EnqueueFails, Select, AbortRun,
            Fetch, GateGone, Gate, CommitWrites, Reread, Verify, Complete
    <3>2. ASSUME \/ StartPublish(r) \/ Fail(r) \/ TokenUnavailable(r) \/ Crash(r) \/ JobTimeout(r)
                 \/ \E g \in Fixes : LostReply(r, g)
          PROVE  job'[r].written = {}
      BY <1>3, <3>2, FreshStepForgets
    <3>3. ASSUME NEW g \in Fixes, Refuse(r, g)
          PROVE  job'[r].written = job[r].written
      BY <2>1, <3>3 DEF Refuse, Job
    <3>4. ASSUME NEW g \in Fixes, Write(r, g) \/ Ignore(r, g)
          PROVE  job'[r].written = job[r].written \union {g}
      BY <2>1, <3>4 DEF Write, Ignore, Job
    <3> QED
      BY <1>3, <2>2, <3>1, <3>2, <3>3, <3>4
  <2>5. f \in RiskFirst(job[r].todo)
    BY <2>4 DEF Write, Ignore
  <2>6. \A g \in job[r].todo : TypeOf[g] # "description"
    BY <1>3, <2>5 DEF RiskFirst
  <2> DEFINE W == job[r].work
             p == CurrentProduct(W)
  <2>7. f \in W /\ ProductOf[f] = p
    BY <2>1, <2>2 DEF Mine
  <2>8. \A q \in {ProductOf[g] : g \in W} \ {p} : Precedes(W, p, q)
    BY <2>1, <2>7, CurrentProductExists
  <2>9. HasCategory(W, p)
    BY <1>3, <2>7 DEF HasCategory
  <2>10. ASSUME NEW g \in W
         PROVE  HasCategory(W, ProductOf[g])
    <3>1. CASE ProductOf[g] = p
      BY <2>9, <3>1
    <3>2. CASE ProductOf[g] # p
      BY <2>8, <2>9, <3>2 DEF Precedes
    <3> QED
      BY <3>1, <3>2
  <2> QED
    BY <2>6, <2>10 DEF HasCategory
<1>4. TypeOK /\ PublishInv /\ Once /\ [Next]_vars =>
        [\A r \in Runs : \A f \in job[r].todo :
           (TypeOf[f] = "category" /\ job'[r] # job[r] /\ f \in job'[r].written) =>
             /\ \A g \in job[r].work : \E h \in job[r].work :
                  ProductOf[h] = ProductOf[g] /\ TypeOf[h] = "category"
             /\ \A g \in job[r].todo : TypeOf[g] # "description"]_vars
  BY <1>3
<1> QED
  BY <1>1, <1>2, <1>4, PublishInvariant, PTL DEF Spec, CategoryIsLast

=============================================================================
