------------------------- MODULE FixPublish_proofs -------------------------
(***************************************************************************)
(* What holds of the approval gate and the publisher for any fixes,        *)
(* products, requests and runs, any number of crashes and edits, and any   *)
(* faults.                                                                 *)
(*                                                                         *)
(* TypeCorrect comes first.  PublishInv is the inductive invariant of      *)
(* publishing: it speaks of each run, each fix and each product apart, so  *)
(* a step of one run has to be looked at for that run only (RunFrame,      *)
(* FixFrame).  ApprovalInv is the inductive invariant of the approval gate *)
(* when requests on one target do not overlap.                             *)
(***************************************************************************)
EXTENDS FixPublish, SequenceTheorems, TLAPS

\* The sort of the run's products has a first one, and that is where the run is.
LEMMA CurrentProductExists ==
  ASSUME NEW W, W \subseteq Fixes, W # {}
  PROVE  /\ CurrentProduct(W) \in {ProductOf[f] : f \in W}
         /\ CurrentProduct(W) \in Products
         /\ \A q \in {ProductOf[f] : f \in W} \ {CurrentProduct(W)} :
              Precedes(W, CurrentProduct(W), q)
<1> DEFINE P == {ProductOf[f] : f \in W}
           Q == {p \in P : ~HasCategory(W, p)}
<1>1. P \subseteq Products /\ P \subseteq Nat /\ P # {}
  BY FixStoreAssumption
<1>2. \E p \in P : \A q \in P \ {p} : Precedes(W, p, q)
  <2>1. CASE Q # {}
    <3>1. PICK p \in Q : \A q \in Q : p <= q
      BY <1>1, <2>1, ProductOrderAssumption
    <3>2. ASSUME NEW q \in P \ {p} PROVE Precedes(W, p, q)
      <4>1. CASE HasCategory(W, q)
        BY <4>1 DEF Precedes
      <4>2. CASE ~HasCategory(W, q)
        <5>1. p < q
          BY <1>1, <3>1, <4>2
        <5> QED  BY <4>2, <5>1 DEF Precedes, HasCategory
      <4> QED  BY <4>1, <4>2
    <3> QED  BY <3>1, <3>2
  <2>2. CASE Q = {}
    <3>1. PICK p \in P : \A q \in P : p <= q
      BY <1>1, ProductOrderAssumption
    <3>2. \A q \in P : HasCategory(W, q)
      BY <2>2
    <3>3. ASSUME NEW q \in P \ {p} PROVE Precedes(W, p, q)
      <4>1. p < q
        BY <1>1, <3>1
      <4>2. HasCategory(W, p) /\ HasCategory(W, q)
        BY <3>2
      <4> QED  BY <4>1, <4>2 DEF Precedes, HasCategory
    <3> QED  BY <3>1, <3>3
  <2> QED  BY <2>1, <2>2
<1>3. CurrentProduct(W) \in P /\ \A q \in P \ {CurrentProduct(W)} : Precedes(W, CurrentProduct(W), q)
  BY <1>2 DEF CurrentProduct
<1> QED  BY <1>1, <1>3

-----------------------------------------------------------------------------
(* Typing lemmas. *)

\* Whatever Shopify stores for a fix it accepts is a product again.
LEMMA StoredTyped ==
  ASSUME NEW f \in Fixes, TypeOK, NEW value \in Stored(f), NEW product \in Product
  PROVE  WithField(f, product, value) \in Product
<1> USE FixStoreAssumption
<1>1. BlockOf[f] \in Blocks /\ OurCategory \in Categories /\ basis[f] \in Product
  BY DEF TypeOK, StoreTypeOK
<1>2. CASE TypeOf[f] = "description"
  <2>1. After(f) \in Body
    <3>1. basis[f].body \in Body /\ basis[f].body.lines \in Seq(Blocks)
      BY <1>1 DEF Product, Body
    <3>2. Append(basis[f].body.lines, BlockOf[f]) \in Seq(Blocks)
      BY <1>1, <3>1, AppendProperties
    <3> QED  BY <1>2, <3>1, <3>2 DEF After, Body
  <2>2. [After(f) EXCEPT !.echo = "normalised"] \in Body
    BY <2>1 DEF Body
  <2>3. value \in Body
    BY <2>1, <2>2 DEF Stored
  <2> QED  BY <1>2, <2>3 DEF WithField, Product
<1>3. CASE TypeOf[f] # "description"
  <2>1. value = OurCategory
    BY <1>3 DEF Stored, After
  <2> QED  BY <1>1, <1>3, <2>1 DEF WithField, Product
<1> QED  BY <1>2, <1>3

\* A mutation that lands leaves the store and its history well formed.
LEMMA ApplyTyped ==
  ASSUME TypeOK, NEW r \in Runs, NEW f \in Fixes, NEW value \in Stored(f),
         Apply(r, f, value)
  PROVE  live' \in [Products -> LiveProduct] /\ shown' \in [Products -> SUBSET Product]
<1> DEFINE p == CurrentProduct(job[r].work)
           product == WithField(f, live[p], value)
<1>1. live' = [live EXCEPT ![p] = product] /\ live[p] # NoProduct
      /\ shown' = [shown EXCEPT ![p] = @ \union {product}]
  BY DEF Apply, Show
<1>2. live \in [Products -> LiveProduct] /\ shown \in [Products -> SUBSET Product]
  BY DEF TypeOK, StoreTypeOK
<1>3. ASSUME p \in Products PROVE product \in Product
  <2>1. live[p] \in Product
    BY <1>1, <1>2, <1>3 DEF LiveProduct
  <2> QED  BY <2>1, StoredTyped
<1> HIDE DEF p, product
<1> QED  BY <1>1, <1>2, <1>3 DEF LiveProduct

\* The four ways a step changes a run's job, and what each leaves.
LEMMA FreshJobTyped ==
  ASSUME NEW pc \in JobPc
  PROVE  FreshJob(pc) \in Job
BY DEF FreshJob, Job, LiveProduct

\* What typing says of one job.
LEMMA JobTyped ==
  ASSUME TypeOK, NEW r \in Runs
  PROVE  /\ job \in [Runs -> Job] /\ job[r] \in Job /\ job[r].pc \in JobPc
         /\ job[r].picked \subseteq Fixes /\ job[r].work \subseteq Fixes
         /\ job[r].snap \in LiveProduct /\ job[r].todo \subseteq Fixes
         /\ job[r].written \subseteq Fixes /\ job[r].refused \subseteq Fixes
         /\ Mine(r) \subseteq job[r].work
BY DEF TypeOK, PublisherTypeOK, JobTypeOK, Job, Mine

\* Replacing one job by a well-formed one.
LEMMA NewJobTyped ==
  ASSUME TypeOK, NEW r \in Runs, NEW j \in Job, j.pc \in ProductPc => j.work # {},
         job' = [job EXCEPT ![r] = j]
  PROVE  JobTypeOK'
<1>1. job' \in [Runs -> Job] /\ job'[r] = j /\ \A s \in Runs \ {r} : job'[s] = job[s]
  BY JobTyped
<1> QED  BY <1>1 DEF TypeOK, PublisherTypeOK, JobTypeOK, AtProduct

\* The job goes on to its next product.
LEMMA NextProductTyped ==
  ASSUME TypeOK, NEW r \in Runs, NextProduct(r)
  PROVE  JobTypeOK'
<1> DEFINE j == [FreshJob("fetch") EXCEPT !.picked = job[r].picked, !.work = job[r].work \ Mine(r)]
<1>1. j \in Job /\ j.pc = "fetch"
  BY JobTyped DEF FreshJob, Job, JobPc, LiveProduct
<1>2. job' = [job EXCEPT ![r] = j]
  BY DEF NextProduct
<1> HIDE DEF j
<1> QED  BY <1>1, <1>2, NewJobTyped DEF ProductPc

\* The job ends.
LEMMA EndRunTyped ==
  ASSUME TypeOK, NEW r \in Runs, NEW outcome \in {"completed", "failed"}, EndRun(r, outcome)
  PROVE  /\ JobTypeOK'
         /\ runStatus' \in [Runs -> {"none", "running", "completed", "failed"}]
<1> DEFINE j == [FreshJob("done") EXCEPT !.picked = job[r].picked]
<1>1. j \in Job /\ j.pc = "done"
  BY JobTyped DEF FreshJob, Job, JobPc, LiveProduct
<1>2. job' = [job EXCEPT ![r] = j]
  BY DEF EndRun
<1>3. JobTypeOK'
  <2> HIDE DEF j
  <2> QED  BY <1>1, <1>2, NewJobTyped DEF ProductPc
<1> QED  BY <1>3 DEF EndRun, TypeOK, PublisherTypeOK

-----------------------------------------------------------------------------
(* Type correctness. *)

\* The freshly ingested shop is well formed.
LEMMA InitTyped == Init => TypeOK
<1> SUFFICES ASSUME Init PROVE TypeOK
  OBVIOUS
<1>1. PICK copy \in [Products -> Copies], other \in Others :
       row = [p \in Products |-> [body |-> [copy |-> copy[p], lines |-> <<>>, echo |-> "sent"],
                                  cat |-> NoCategory, other |-> other]]
  BY DEF Init
<1>2. row \in [Products -> Product]
  <2>1. <<>> \in Seq(Blocks)
    BY EmptySeq
  <2>2. NoCategory \in Categories
    BY FixStoreAssumption
  <2> QED  BY <1>1, <2>1, <2>2 DEF Product, Body
<1>3. StoreTypeOK
  <2>1. status \in [Fixes -> FixStatus \union {"none"}] /\ consented \subseteq Fixes
    BY DEF Init
  <2>2. basis \in [Fixes -> Product]
    BY <1>2, FixStoreAssumption DEF Init
  <2>3. lock \in [Fixes -> Deciders \union {Free}]
    BY DEF Init
  <2>4. live \in [Products -> LiveProduct]
    BY <1>2 DEF Init, LiveProduct
  <2>5. shown \in [Products -> SUBSET Product]
    <3>1. shown = [p \in Products |-> {row[p]}]
      BY DEF Init
    <3>2. \A p \in Products : {row[p]} \in SUBSET Product
      BY <1>2
    <3> QED  BY <3>1, <3>2
  <2> QED  BY <1>2, <2>1, <2>2, <2>3, <2>4, <2>5 DEF StoreTypeOK
<1>4. GateTypeOK
  BY DEF Init, GateInit, GateTypeOK, IdleTx, DecisionTx
<1>5. PublisherTypeOK
  <2>1. FreshJob("none") \in Job
    BY FreshJobTyped DEF JobPc
  <2>2. PublisherInit
    BY DEF Init
  <2>3. crashes \in 0..MaxCrashes
    <3>1. crashes = 0
      BY <2>2 DEF PublisherInit
    <3>2. MaxCrashes \in Nat
      BY PublisherAssumption
    <3> QED  BY <3>1, <3>2
  <2>4. JobTypeOK
    BY <2>1, <2>2 DEF PublisherInit, JobTypeOK, AtProduct, ProductPc, FreshJob
  <2> QED  BY <2>2, <2>3, <2>4 DEF PublisherInit, PublisherTypeOK
<1>6. edits \in 0..MaxEdits
  <2>1. edits = 0
    BY DEF Init
  <2> QED  BY <2>1, FixPublishAssumption
<1> QED  BY <1>3, <1>4, <1>5, <1>6 DEF TypeOK

\* A step of an approve or reject request.
LEMMA GateStepTyped ==
  ASSUME TypeOK, NEW d \in Deciders, GateStep(d), UNCHANGED <<pubVars, edits>>
  PROVE  TypeOK'
<1>1. PublisherTypeOK' /\ (edits \in 0..MaxEdits)'
  BY DEF TypeOK, PublisherTypeOK, JobTypeOK, AtProduct, pubVars
<1>2. dtx \in [Deciders -> DecisionTx] /\ IdleTx \in DecisionTx
  BY DEF TypeOK, GateTypeOK, DecisionTx
<1>3. Active(d) => dtx[d] \in OpenTx
  BY <1>2 DEF Active, DecisionTx, IdleTx
<1>4. ASSUME NEW f \in Fixes, NEW want \in {"approved", "rejected"}, Load(d, f, want)
      PROVE StoreTypeOK' /\ GateTypeOK'
  <2>1. [pc |-> "loaded", fix |-> f, want |-> want, todo |-> {}] \in DecisionTx
    BY DEF DecisionTx, OpenTx
  <2> QED  BY <1>2, <1>4, <2>1 DEF Load, TypeOK, StoreTypeOK, GateTypeOK, storeVars
<1>5. ASSUME BeginSupersede(d) PROVE StoreTypeOK' /\ GateTypeOK'
  <2>1. dtx[d] \in OpenTx
    BY <1>3, <1>5 DEF BeginSupersede, Active
  <2>2. RivalsToSupersede(dtx[d].fix) \in SUBSET Fixes
    BY DEF RivalsToSupersede, Rivals
  <2>3. [dtx[d] EXCEPT !.pc = "superseding", !.todo = RivalsToSupersede(dtx[d].fix)] \in OpenTx
    BY <2>1, <2>2 DEF OpenTx
  <2>4. GateTypeOK'
    BY <1>2, <1>5, <2>3 DEF BeginSupersede, GateTypeOK, DecisionTx
  <2> QED  BY <1>5, <2>4 DEF BeginSupersede, TypeOK, StoreTypeOK, storeVars
<1>6. ASSUME NEW g \in Fixes, LockRival(d, g) PROVE StoreTypeOK' /\ GateTypeOK'
  <2>1. dtx[d] \in OpenTx
    BY <1>3, <1>6 DEF LockRival, Active
  <2>2. [dtx[d] EXCEPT !.todo = @ \ {g}] \in OpenTx
    BY <2>1 DEF OpenTx
  <2>3. GateTypeOK'
    BY <1>2, <1>6, <2>2 DEF LockRival, GateTypeOK, DecisionTx
  <2>4. StoreTypeOK'
    BY <1>6 DEF LockRival, TypeOK, StoreTypeOK
  <2> QED  BY <2>3, <2>4
<1>7. Released(d) \in [Fixes -> Deciders \union {Free}]
  BY DEF TypeOK, StoreTypeOK, Released
<1>8. ASSUME CommitDecision(d) PROVE StoreTypeOK' /\ GateTypeOK'
  <2>1. dtx[d] \in OpenTx
    BY <1>3, <1>8 DEF CommitDecision, Active
  <2>2. dtx[d].fix \in Fixes /\ dtx[d].want \in {"approved", "rejected"}
    BY <2>1 DEF OpenTx
  <2>3. CommitStatus(d) \in [Fixes -> FixStatus \union {"none"}]
    BY <2>2 DEF CommitStatus, FixStatus, TypeOK, StoreTypeOK
  <2>4. consented' \subseteq Fixes
    BY <1>8, <2>2 DEF CommitDecision, TypeOK, StoreTypeOK
  <2>5. GateTypeOK'
    BY <1>2, <1>8 DEF CommitDecision, GateTypeOK
  <2>6. StoreTypeOK'
    BY <1>7, <1>8, <2>3, <2>4 DEF CommitDecision, TypeOK, StoreTypeOK
  <2> QED  BY <2>5, <2>6
<1>9. ASSUME AbortDecision(d) PROVE StoreTypeOK' /\ GateTypeOK'
  <2>1. GateTypeOK'
    BY <1>2, <1>9 DEF AbortDecision, GateTypeOK
  <2>2. StoreTypeOK'
    BY <1>7, <1>9 DEF AbortDecision, TypeOK, StoreTypeOK
  <2> QED  BY <2>1, <2>2
<1>10. StoreTypeOK' /\ GateTypeOK'
  BY <1>4, <1>5, <1>6, <1>8, <1>9 DEF GateStep
<1> QED  BY <1>1, <1>10 DEF TypeOK

\* The gate commits an outcome only for what it does not write.
LEMMA GatedStatusTyped ==
  ASSUME TypeOK, NEW r \in Runs, NEW f \in Fixes, Gate(r)
  PROVE  status'[f] \in FixStatus \union {"none"}
<1> DEFINE landed == {g \in Mine(r) : Landed(g, job[r].snap)}
           writable == {g \in Mine(r) : GateResult(r)[g] = "write"}
<1>1. status' = [g \in Fixes |-> IF g \in Mine(r) \ writable THEN GateResult(r)[g] ELSE status[g]]
  BY DEF Gate
<1>2. CASE f \in Mine(r) \ writable
  <2>1. GateResult(r)[f] = GateOutcome(f, job[r].snap, landed)
    BY <1>2 DEF GateResult
  <2>2. GateResult(r)[f] # "write"
    BY <1>2
  <2>3. GateResult(r)[f] \in {"verified", "stale"}
    BY <2>1, <2>2 DEF GateOutcome
  <2> QED  BY <1>1, <1>2, <2>3 DEF FixStatus
<1>3. CASE f \notin Mine(r) \ writable
  BY <1>1, <1>3 DEF TypeOK, StoreTypeOK
<1> QED  BY <1>2, <1>3

\* A step of a publish run.
LEMMA PublisherStepTyped ==
  ASSUME TypeOK, NEW r \in Runs, RunStep(r), UNCHANGED <<dtx, edits>>
  PROVE  TypeOK'
<1>1. GateTypeOK' /\ (edits \in 0..MaxEdits)'
  BY DEF TypeOK, GateTypeOK
<1>2. UNCHANGED storeVars => StoreTypeOK'
  BY DEF TypeOK, StoreTypeOK, storeVars
<1>3. UNCHANGED <<runStatus, shopStatus, crashes>> /\ JobTypeOK' => PublisherTypeOK'
  BY DEF TypeOK, PublisherTypeOK
<1>4. ASSUME NEW pc \in JobPc \ ProductPc, job' = [job EXCEPT ![r] = FreshJob(pc)]
      PROVE  JobTypeOK'
  <2>1. FreshJob(pc) \in Job /\ FreshJob(pc).pc = pc
    BY FreshJobTyped DEF FreshJob
  <2> QED  BY <1>4, <2>1, NewJobTyped
<1>5. CASE StartPublish(r)
  <2>1. JobTypeOK'
    BY <1>4, <1>5 DEF StartPublish, JobPc, ProductPc
  <2> QED  BY <1>1, <1>2, <1>5, <2>1 DEF StartPublish, TypeOK, PublisherTypeOK
<1>6. CASE Enqueue(r) \/ EnqueueFails(r)
  <2>1. PICK pc \in {"queued", "lost"} : /\ job' = [job EXCEPT ![r].pc = pc]
                                         /\ UNCHANGED <<storeVars, runStatus, shopStatus, crashes>>
    BY <1>6 DEF Enqueue, EnqueueFails
  <2>2. [job[r] EXCEPT !.pc = pc] \in Job /\ [job[r] EXCEPT !.pc = pc].pc = pc
    BY JobTyped DEF Job, JobPc
  <2>3. JobTypeOK'
    BY <2>1, <2>2, NewJobTyped DEF ProductPc
  <2> QED  BY <1>1, <1>2, <1>3, <2>1, <2>3 DEF TypeOK
<1>7. CASE Select(r)
  <2> DEFINE j == [FreshJob("fetch") EXCEPT !.picked = Selected, !.work = Selected]
  <2>1. j \in Job /\ j.pc = "fetch"
    BY FreshJobTyped DEF FreshJob, JobPc, Job, Selected, WithStatus, LiveProduct
  <2>2. job' = [job EXCEPT ![r] = j]
    BY <1>7 DEF Select
  <2>3. JobTypeOK'
    <3> HIDE DEF j
    <3> QED  BY <2>1, <2>2, NewJobTyped DEF ProductPc
  <2> QED  BY <1>1, <1>2, <1>3, <1>7, <2>3 DEF TypeOK, Select
<1>8. CASE AbortRun(r) \/ Complete(r) \/ Fail(r)
  <2>1. (EndRun(r, "completed") \/ EndRun(r, "failed")) /\ UNCHANGED <<storeVars, shopStatus, crashes>>
    BY <1>8 DEF AbortRun, Complete, Fail
  <2> QED  BY <1>1, <1>2, <2>1, EndRunTyped DEF TypeOK, PublisherTypeOK
<1>9. CASE Fetch(r) \/ Reread(r)
  <2> DEFINE p == CurrentProduct(job[r].work)
  <2>1. PICK pc \in JobPc : /\ job' = [job EXCEPT ![r].pc = pc, ![r].snap = live[p]]
                            /\ UNCHANGED <<storeVars, runStatus, shopStatus, crashes>>
    BY <1>9 DEF Fetch, Reread, JobPc
  <2>2. job[r].work # {}
    BY <1>9 DEF Fetch, Reread, TypeOK, PublisherTypeOK, JobTypeOK, AtProduct, ProductPc
  <2>3. live[p] \in LiveProduct
    BY <2>2, JobTyped, CurrentProductExists DEF TypeOK, StoreTypeOK
  <2> HIDE DEF p
  <2> DEFINE j == [job[r] EXCEPT !.pc = pc, !.snap = live[p]]
  <2>4. j \in Job /\ j.work # {}
    BY <2>2, <2>3, JobTyped DEF Job
  <2>5. job' = [job EXCEPT ![r] = j]
    BY <2>1
  <2>6. JobTypeOK'
    <3> HIDE DEF j
    <3> QED  BY <2>4, <2>5, NewJobTyped
  <2> QED  BY <1>1, <1>2, <1>3, <2>1, <2>6 DEF TypeOK
<1>10. CASE GateGone(r)
  <2>1. StoreTypeOK'
    BY <1>10 DEF GateGone, TypeOK, StoreTypeOK, FixStatus
  <2> QED  BY <1>1, <1>3, <1>10, <2>1, NextProductTyped DEF GateGone, TypeOK
<1>11. CASE Gate(r)
  <2> DEFINE writable == {f \in Mine(r) : GateResult(r)[f] = "write"}
  <2>1. \A f \in Fixes : status'[f] \in FixStatus \union {"none"}
    BY <1>11, GatedStatusTyped
  <2>2. /\ \E e : status' = [f \in Fixes |-> e[f]]
        /\ NextProduct(r) \/ job' = [job EXCEPT ![r].pc = "write", ![r].todo = writable]
        /\ UNCHANGED <<basis, lock, row, live, shown, consented, runStatus, shopStatus, crashes>>
    <3>1. status' = [f \in Fixes |-> status'[f]]
      BY <1>11 DEF Gate
    <3> QED  BY <1>11, <3>1 DEF Gate
  <2>3. StoreTypeOK'
    BY <2>1, <2>2 DEF TypeOK, StoreTypeOK
  <2>4. ASSUME job' = [job EXCEPT ![r].pc = "write", ![r].todo = writable] PROVE JobTypeOK'
    <3> DEFINE j == [job[r] EXCEPT !.pc = "write", !.todo = writable]
    <3>1. writable \subseteq Fixes
      BY JobTyped
    <3>2. job[r].work # {}
      BY <1>11 DEF Gate, TypeOK, PublisherTypeOK, JobTypeOK, AtProduct, ProductPc
    <3> HIDE DEF writable
    <3>3. j \in Job /\ j.work # {}
      BY <3>1, <3>2, JobTyped DEF Job, JobPc
    <3>4. job' = [job EXCEPT ![r] = j]
      BY <2>4
    <3> HIDE DEF j
    <3> QED  BY <3>3, <3>4, NewJobTyped
  <2>5. JobTypeOK'
    BY <2>2, <2>4, NextProductTyped
  <2> QED  BY <1>1, <1>3, <2>2, <2>3, <2>5 DEF TypeOK
<1>12. CASE CommitWrites(r)
  <2>1. StoreTypeOK'
    BY <1>12 DEF CommitWrites, StatusAfterWrites, TypeOK, StoreTypeOK, FixStatus
  <2>2. ASSUME job' = [job EXCEPT ![r].pc = "reread"] PROVE JobTypeOK'
    <3>1. job[r].work # {}
      BY <1>12 DEF CommitWrites, TypeOK, PublisherTypeOK, JobTypeOK, AtProduct, ProductPc
    <3>2. [job[r] EXCEPT !.pc = "reread"] \in Job /\ [job[r] EXCEPT !.pc = "reread"].work # {}
      BY <3>1, JobTyped DEF Job, JobPc
    <3> QED  BY <2>2, <3>2, NewJobTyped
  <2>3. JobTypeOK'
    BY <1>12, <2>2, NextProductTyped DEF CommitWrites
  <2> QED  BY <1>1, <1>3, <1>12, <2>1, <2>3 DEF CommitWrites, TypeOK
<1>13. CASE Verify(r)
  <2>1. status' \in [Fixes -> FixStatus \union {"none"}]
    BY <1>13 DEF Verify, VerifyOutcome, TypeOK, StoreTypeOK, FixStatus
  <2>2. row' \in [Products -> Product]
    BY <1>13, JobTyped DEF Verify, LiveProduct, TypeOK, StoreTypeOK
  <2>3. StoreTypeOK'
    BY <1>13, <2>1, <2>2 DEF Verify, TypeOK, StoreTypeOK
  <2> QED  BY <1>1, <1>3, <1>13, <2>3, NextProductTyped DEF Verify, TypeOK
<1>14. ASSUME NEW f \in Fixes, Write(r, f) \/ Ignore(r, f) \/ Refuse(r, f) PROVE TypeOK'
  <2>1. job[r].work # {}
    BY <1>14 DEF Write, Ignore, Refuse, TypeOK, PublisherTypeOK, JobTypeOK, AtProduct, ProductPc
  <2> DEFINE w == [job[r] EXCEPT !.todo = @ \ {f}, !.written = @ \union {f}]
             x == [job[r] EXCEPT !.todo = @ \ {f}, !.refused = @ \union {f}]
  <2>2. w \in Job /\ w.work # {} /\ x \in Job /\ x.work # {}
    BY <2>1, JobTyped DEF Job
  <2>3. job' = [job EXCEPT ![r] = w] \/ job' = [job EXCEPT ![r] = x]
    BY <1>14 DEF Write, Ignore, Refuse
  <2>5. JobTypeOK'
    <3> HIDE DEF w, x
    <3> QED  BY <2>2, <2>3, NewJobTyped
  <2>6. StoreTypeOK'
    <3>1. CASE Write(r, f)
      <4>1. live' \in [Products -> LiveProduct] /\ shown' \in [Products -> SUBSET Product]
        BY <3>1, ApplyTyped DEF Write
      <4> QED  BY <3>1, <4>1 DEF Write, TypeOK, StoreTypeOK
    <3>2. CASE Ignore(r, f) \/ Refuse(r, f)
      BY <1>2, <3>2 DEF Ignore, Refuse
    <3> QED  BY <1>14, <3>1, <3>2
  <2>7. UNCHANGED <<runStatus, shopStatus, crashes>>
    BY <1>14 DEF Write, Ignore, Refuse
  <2> QED  BY <1>1, <1>3, <2>5, <2>6, <2>7 DEF TypeOK
<1>15. ASSUME NEW f \in Fixes, LostReply(r, f) PROVE TypeOK'
  <2>1. live' \in [Products -> LiveProduct] /\ shown' \in [Products -> SUBSET Product]
    BY <1>15, ApplyTyped DEF LostReply
  <2>2. StoreTypeOK'
    BY <1>15, <2>1 DEF LostReply, TypeOK, StoreTypeOK
  <2> QED  BY <1>1, <1>15, <2>2, EndRunTyped DEF LostReply, TypeOK, PublisherTypeOK
<1>16. CASE TokenUnavailable(r)
  BY <1>1, <1>2, <1>16, EndRunTyped DEF TokenUnavailable, TypeOK, PublisherTypeOK
<1>17. CASE Crash(r)
  <2>1. JobTypeOK'
    BY <1>4, <1>17 DEF Crash, JobPc, ProductPc
  <2>2. crashes' \in 0..MaxCrashes
    <3>1. MaxCrashes \in Nat
      BY PublisherAssumption
    <3> QED  BY <1>17, <3>1 DEF Crash, TypeOK, PublisherTypeOK
  <2> QED  BY <1>1, <1>2, <1>17, <2>1, <2>2 DEF Crash, TypeOK, PublisherTypeOK
<1>18. CASE JobTimeout(r)
  <2>1. JobTypeOK'
    BY <1>4, <1>18 DEF JobTimeout, JobPc, ProductPc
  <2> QED  BY <1>1, <1>2, <1>18, <2>1 DEF JobTimeout, TypeOK, PublisherTypeOK
<1> QED
  BY <1>5, <1>6, <1>7, <1>8, <1>9, <1>10, <1>11, <1>12, <1>13, <1>14, <1>15, <1>16, <1>17, <1>18
  DEF RunStep, JobStep, CommitStep, WriteStep

\* The optimizer, the webhooks, an ingest, the merchant.
LEMMA EnvStepTyped == TypeOK /\ EnvNext => TypeOK'
<1> SUFFICES ASSUME TypeOK, EnvNext PROVE TypeOK'
  OBVIOUS
<1>1. PICK p \in Products :
        \/ \E new \in SUBSET Fixes : Propose(p, new)
        \/ ProductWebhook(p) \/ Reingest(p) \/ MerchantEdit(p) \/ MerchantDelete(p)
  BY DEF EnvNext
<1>2. UNCHANGED <<dtx, pubVars>> /\ edits' \in {edits, edits + 1}
      /\ (edits' = edits \/ edits < MaxEdits)
  BY <1>1 DEF Propose, ProductWebhook, Reingest, MerchantEdit, MerchantDelete
<1>3. GateTypeOK' /\ PublisherTypeOK' /\ (edits \in 0..MaxEdits)'
  BY <1>2, FixPublishAssumption DEF pubVars, TypeOK, GateTypeOK, PublisherTypeOK, JobTypeOK, AtProduct
<1>4. ASSUME NEW new \in SUBSET Fixes, Propose(p, new) PROVE StoreTypeOK'
  BY <1>4 DEF Propose, TypeOK, StoreTypeOK, FixStatus
<1>5. ASSUME ProductWebhook(p) PROVE StoreTypeOK'
  <2>1. PICK v \in shown[p] : row' = [row EXCEPT ![p].body = v.body, ![p].other = v.other]
    BY <1>5 DEF ProductWebhook
  <2>2. v \in Product /\ row[p] \in Product
    BY DEF TypeOK, StoreTypeOK
  <2>3. [row[p] EXCEPT !.body = v.body, !.other = v.other] \in Product
    BY <2>2 DEF Product
  <2> QED  BY <1>5, <2>1, <2>3 DEF ProductWebhook, TypeOK, StoreTypeOK
<1>6. ASSUME Reingest(p) PROVE StoreTypeOK'
  BY <1>6 DEF Reingest, TypeOK, StoreTypeOK, LiveProduct
<1>7. ASSUME MerchantEdit(p) PROVE StoreTypeOK'
  <2>1. live[p] \in Product
    BY <1>7 DEF MerchantEdit, TypeOK, StoreTypeOK, LiveProduct
  <2>2. live[p].body \in Body /\ live[p].body.lines \in Seq(Blocks)
    BY <2>1 DEF Product, Body
  <2>3. \A copy \in Copies, lines \in {live[p].body.lines, <<>>} :
          [live[p] EXCEPT !.body.copy = copy, !.body.lines = lines] \in Product
    BY <2>1, <2>2, EmptySeq DEF Product, Body
  <2>4. /\ \A cat \in Categories : [live[p] EXCEPT !.cat = cat] \in Product
        /\ \A other \in Others : [live[p] EXCEPT !.other = other] \in Product
    BY <2>1 DEF Product
  <2>5. PICK product \in Product : StoreBecomes(p, product)
    BY <1>7, <2>3, <2>4 DEF MerchantEdit
  <2> QED  BY <1>7, <2>5 DEF MerchantEdit, StoreBecomes, Show, TypeOK, StoreTypeOK, LiveProduct
<1>8. ASSUME MerchantDelete(p) PROVE StoreTypeOK'
  BY <1>8 DEF MerchantDelete, TypeOK, StoreTypeOK, LiveProduct
<1>9. StoreTypeOK'
  BY <1>1, <1>4, <1>5, <1>6, <1>7, <1>8
<1> QED  BY <1>3, <1>9 DEF TypeOK

\* Nothing happens.
LEMMA StutterTyped == TypeOK /\ UNCHANGED vars => TypeOK'
BY DEF TypeOK, StoreTypeOK, GateTypeOK, PublisherTypeOK, JobTypeOK, AtProduct, vars, storeVars, pubVars

\* Every reachable state is well formed: the requests' transactions, the jobs (a job
\* between the fetch and the last commit of a product has work left), the rows, the store.
THEOREM TypeCorrect == Spec => []TypeOK
<1>1. TypeOK /\ [Next]_vars => TypeOK'
  BY GateStepTyped, PublisherStepTyped, EnvStepTyped, StutterTyped
  DEF Next, GateNext, PublisherNext
<1> QED  BY <1>1, InitTyped, PTL DEF Spec

-----------------------------------------------------------------------------
(* The inductive invariant behind the safety of publishing.                *)

\* What a run holds is consented to, belongs to the product it is at, and was found
\* unchanged in a version the store has really shown.
RunOK(r) ==
  /\ job[r].work \subseteq consented
  /\ AtProduct(r) => job[r].todo \union job[r].written \union job[r].refused \subseteq Mine(r)
  /\ ~AtProduct(r) => job[r].written = {} /\ job[r].refused = {}
  /\ job[r].pc # "write" => job[r].todo = {}
  /\ \A f \in job[r].todo : Field(f, job[r].snap) = Before(f)
  /\ AtProduct(r) /\ job[r].snap # NoProduct
       => job[r].snap \in shown[CurrentProduct(job[r].work)]

FixOK(f) ==
  /\ status[f] \in {"approved", "published", "verified", "publish_failed"} => f \in consented
  /\ f \in consented => status[f] # "none"
  /\ status[f] = "verified" => \E v \in shown[ProductOf[f]] : Confirmed(f, v)

ShopOK(p) == live[p] # NoProduct => live[p] \in shown[p]

PublishInv ==
  /\ \A r \in Runs : RunOK(r)
  /\ \A f \in Fixes : FixOK(f)
  /\ \A p \in Products : ShopOK(p)

\* History only grows, and the basis of a fix that exists never changes.
Grows ==
  /\ consented \subseteq consented'
  /\ \A p \in Products : shown[p] \subseteq shown'[p]
  /\ \A f \in Fixes : status[f] # "none" => basis'[f] = basis[f]

\* The fixes of the product a run is at.
LEMMA MineTyped ==
  ASSUME TypeOK, NEW r \in Runs, NEW f \in Mine(r)
  PROVE  f \in Fixes /\ f \in job[r].work /\ ProductOf[f] = CurrentProduct(job[r].work)
         /\ ProductOf[f] \in Products
BY JobTyped, FixStoreAssumption DEF Mine

\* A run at a product has one.
LEMMA AtProductTyped ==
  ASSUME TypeOK, NEW r \in Runs, AtProduct(r)
  PROVE  job[r].work # {} /\ CurrentProduct(job[r].work) \in Products
<1>1. job[r].work # {}
  BY DEF TypeOK, PublisherTypeOK, JobTypeOK
<1> QED  BY <1>1, JobTyped, CurrentProductExists

\* A step that leaves a job alone keeps what holds of it: another run, a request, the
\* environment.
LEMMA RunFrame ==
  ASSUME TypeOK, PublishInv, Grows, NEW r \in Runs, job'[r] = job[r]
  PROVE  RunOK(r)'
<1>1. RunOK(r) /\ job[r].work \subseteq consented /\ job[r].work \subseteq Fixes
  BY JobTyped DEF PublishInv, RunOK
<1>2. \A f \in job[r].work : basis'[f] = basis[f]
  BY <1>1 DEF PublishInv, FixOK, Grows
<1>3. (AtProduct(r)' <=> AtProduct(r)) /\ Mine(r)' = Mine(r)
  BY DEF AtProduct, Mine
<1>4. \A f \in job[r].todo : Field(f, job[r].snap)' = Before(f)'
  <2>1. \A f \in job[r].todo : f \in job[r].work
    BY <1>1, JobTyped DEF RunOK, AtProduct, ProductPc, Mine
  <2> QED  BY <1>1, <1>2, <2>1 DEF RunOK, Before, Field
<1>5. AtProduct(r) /\ job[r].snap # NoProduct => job[r].snap \in shown'[CurrentProduct(job[r].work)]
  BY <1>1, AtProductTyped DEF RunOK, Grows
<1>6. job[r].work \subseteq consented'
  BY <1>1 DEF Grows
<1> QED  BY <1>1, <1>3, <1>4, <1>5, <1>6 DEF RunOK

\* A step that leaves a status alone keeps what holds of the fix.
LEMMA FixFrame ==
  ASSUME TypeOK, PublishInv, Grows, NEW f \in Fixes, status'[f] = status[f],
         f \in consented' => f \in consented
  PROVE  FixOK(f)'
<1>1. FixOK(f) /\ ProductOf[f] \in Products
  BY FixStoreAssumption DEF PublishInv
<1>2. ASSUME status[f] = "verified" PROVE \E v \in shown'[ProductOf[f]] : Confirmed(f, v)'
  <2>1. PICK v \in shown[ProductOf[f]] : Confirmed(f, v)
    BY <1>1, <1>2 DEF FixOK
  <2>2. basis'[f] = basis[f]
    BY <1>2 DEF Grows
  <2>3. Confirmed(f, v)'
    BY <2>1, <2>2 DEF Confirmed, Landed, After, Before, Field
  <2> QED  BY <1>1, <2>1, <2>3 DEF Grows
<1> QED  BY <1>1, <1>2 DEF FixOK, Grows

\* What a step of a run may do to a fix's status: settle a consented fix, as verified
\* only if a version it read of the product confirms the fix.
Settles(r, f) ==
  \/ status'[f] = status[f]
  \/ f \in consented /\ status'[f] \in {"stale", "published", "publish_failed"}
  \/ /\ f \in Mine(r) /\ AtProduct(r) /\ status'[f] = "verified"
     /\ job[r].snap # NoProduct /\ Confirmed(f, job[r].snap)

\* No step of a run does anything else to a status.
LEMMA RunStepSettles ==
  ASSUME TypeOK, PublishInv, NEW r \in Runs, RunStep(r), NEW f \in Fixes
  PROVE  Settles(r, f)
<1>1. RunOK(r) /\ \A g \in Mine(r) : g \in Fixes /\ g \in consented
  BY JobTyped, MineTyped DEF PublishInv, RunOK
<1>2. CASE GateGone(r)
  BY <1>1, <1>2 DEF GateGone, Settles
<1>3. CASE Gate(r)
  <2> DEFINE landed == {g \in Mine(r) : Landed(g, job[r].snap)}
             writable == {g \in Mine(r) : GateResult(r)[g] = "write"}
  <2>1. status' = [g \in Fixes |-> IF g \in Mine(r) \ writable THEN GateResult(r)[g] ELSE status[g]]
    BY <1>3 DEF Gate
  <2>2. CASE f \notin Mine(r) \ writable
    BY <2>1, <2>2 DEF Settles
  <2>3. CASE f \in Mine(r) \ writable
    <3>1. GateResult(r)[f] = GateOutcome(f, job[r].snap, landed)
      BY <2>3 DEF GateResult
    <3>2. status'[f] = GateOutcome(f, job[r].snap, landed) /\ GateOutcome(f, job[r].snap, landed) # "write"
      BY <2>1, <2>3, <3>1
    <3>3. CASE f \in landed
      <4>1. status'[f] = "verified" /\ Confirmed(f, job[r].snap)
        BY <3>2, <3>3 DEF GateOutcome, Confirmed
      <4>2. AtProduct(r) /\ job[r].snap # NoProduct
        BY <1>3 DEF Gate, AtProduct, ProductPc
      <4> QED  BY <2>3, <4>1, <4>2 DEF Settles
    <3>4. CASE f \notin landed
      <4>1. status'[f] = "stale"
        BY <3>2, <3>4 DEF GateOutcome
      <4> QED  BY <1>1, <2>3, <4>1 DEF Settles
    <3> QED  BY <3>3, <3>4
  <2> QED  BY <2>2, <2>3
<1>4. CASE CommitWrites(r)
  <2>1. job[r].written \union job[r].refused \subseteq Mine(r)
    BY <1>1, <1>4 DEF RunOK, CommitWrites, AtProduct, ProductPc
  <2> QED  BY <1>1, <1>4, <2>1 DEF CommitWrites, StatusAfterWrites, Settles
<1>5. CASE Verify(r)
  <2>1. AtProduct(r) /\ job[r].written \subseteq Mine(r)
    BY <1>1, <1>5 DEF RunOK, Verify, AtProduct, ProductPc
  <2> QED  BY <1>1, <1>5, <2>1 DEF Verify, VerifyOutcome, Settles
<1>6. CASE status' = status
  BY <1>6 DEF Settles
<1> QED
  BY <1>2, <1>3, <1>4, <1>5, <1>6
  DEF RunStep, JobStep, CommitStep, WriteStep, StartPublish, Enqueue, EnqueueFails, Select, AbortRun,
      Fetch, Write, Ignore, Refuse, Reread, Complete, Fail, LostReply, TokenUnavailable, Crash,
      JobTimeout, storeVars

\* What no step of a run touches, and what one only adds to.
LEMMA RunStepGrows ==
  ASSUME TypeOK, PublishInv, NEW r \in Runs, RunStep(r)
  PROVE  Grows /\ consented' = consented /\ basis' = basis /\ lock' = lock
         /\ (\A p \in Products : ShopOK(p)') /\ (\A s \in Runs \ {r} : job'[s] = job[s])
<1>1. job \in [Runs -> Job]
  BY JobTyped
<1>2. ASSUME NEW f \in Fixes, NEW value \in Stored(f), Apply(r, f, value)
      PROVE  /\ \A p \in Products : shown[p] \subseteq shown'[p]
             /\ \A p \in Products : ShopOK(p)'
  <2> DEFINE q == CurrentProduct(job[r].work)
             v == WithField(f, live[q], value)
  <2>1. live' = [live EXCEPT ![q] = v] /\ shown' = [shown EXCEPT ![q] = @ \union {v}]
    BY <1>2 DEF Apply, Show
  <2>2. live \in [Products -> LiveProduct] /\ shown \in [Products -> SUBSET Product]
    BY DEF TypeOK, StoreTypeOK
  <2> HIDE DEF q, v
  <2> QED  BY <2>1, <2>2 DEF PublishInv, ShopOK
<1>3. CASE UNCHANGED <<live, shown>>
  <2>1. \A p \in Products : ShopOK(p)' /\ shown[p] \subseteq shown'[p]
    BY <1>3 DEF PublishInv, ShopOK
  <2>2. consented' = consented /\ basis' = basis /\ lock' = lock /\ (\A s \in Runs \ {r} : job'[s] = job[s])
    BY <1>1, <1>3
    DEF RunStep, JobStep, CommitStep, WriteStep, StartPublish, Enqueue, EnqueueFails, Select, AbortRun,
        Fetch, GateGone, Gate, Write, Ignore, Refuse, CommitWrites, Reread, Verify, Complete, Fail,
        LostReply, TokenUnavailable, Crash, JobTimeout, storeVars, EndRun, NextProduct
  <2> QED  BY <2>1, <2>2 DEF Grows
<1>4. ASSUME NEW f \in Fixes, Write(r, f) \/ LostReply(r, f)
      PROVE  Grows /\ consented' = consented /\ basis' = basis /\ lock' = lock
             /\ (\A p \in Products : ShopOK(p)') /\ (\A s \in Runs \ {r} : job'[s] = job[s])
  <2>1. \E value \in Stored(f) : Apply(r, f, value)
    BY <1>4 DEF Write, LostReply
  <2>2. consented' = consented /\ basis' = basis /\ lock' = lock /\ (\A s \in Runs \ {r} : job'[s] = job[s])
    BY <1>1, <1>4 DEF Write, LostReply, EndRun
  <2> QED  BY <1>2, <2>1, <2>2 DEF Grows
<1> QED
  BY <1>3, <1>4
  DEF RunStep, JobStep, CommitStep, WriteStep, StartPublish, Enqueue, EnqueueFails, Select, AbortRun,
      Fetch, GateGone, Gate, Ignore, Refuse, CommitWrites, Reread, Verify, Complete, Fail,
      TokenUnavailable, Crash, JobTimeout, storeVars

\* A job that remembers nothing but the work still to do.
LEMMA FreshRunOK ==
  ASSUME TypeOK, NEW r \in Runs, NEW pc \in JobPc \ ProductPc,
         job'[r].pc = pc, job'[r].work \subseteq consented', job'[r].todo = {}, job'[r].written = {},
         job'[r].refused = {}
  PROVE  RunOK(r)'
BY DEF RunOK, AtProduct

\* A step of a run keeps what holds of its own job.
LEMMA RunStepKeepsRunOK ==
  ASSUME TypeOK, PublishInv, NEW r \in Runs, RunStep(r)
  PROVE  RunOK(r)'
<1>1. RunOK(r) /\ job \in [Runs -> Job] /\ job[r] \in Job
  BY JobTyped DEF PublishInv
<1>2. Grows /\ consented' = consented /\ basis' = basis
  BY RunStepGrows
<1>3. ASSUME NEW pc \in JobPc \ ProductPc, job'[r] = FreshJob(pc) PROVE RunOK(r)'
  BY <1>3, FreshRunOK DEF FreshJob
<1>4. ASSUME NEW outcome, EndRun(r, outcome) PROVE RunOK(r)'
  BY <1>1, <1>4, FreshRunOK DEF EndRun, FreshJob, JobPc, ProductPc
<1>5. ASSUME NextProduct(r) PROVE RunOK(r)'
  BY <1>1, <1>2, <1>5, FreshRunOK DEF NextProduct, FreshJob, JobPc, ProductPc, RunOK
<1>6. \A f \in Fixes, v \in LiveProduct : (Field(f, v)' = Field(f, v)) /\ (Before(f)' = Before(f))
  BY <1>2 DEF Field, Before
<1>7. job'[r].work = job[r].work => Mine(r)' = Mine(r)
  BY DEF Mine
<1>8. CASE StartPublish(r) \/ Crash(r) \/ JobTimeout(r)
  BY <1>1, <1>3, <1>8 DEF StartPublish, Crash, JobTimeout, JobPc, ProductPc
<1>9. CASE Enqueue(r) \/ EnqueueFails(r)
  <2>1. job'[r].pc \in {"queued", "lost"} /\ job[r].pc = "committed" /\ job'[r].work = job[r].work
        /\ job'[r].todo = job[r].todo /\ job'[r].written = job[r].written
        /\ job'[r].refused = job[r].refused
    BY <1>1, <1>9 DEF Enqueue, EnqueueFails, Job
  <2> QED  BY <1>1, <1>2, <2>1 DEF RunOK, AtProduct, ProductPc
<1>10. CASE Select(r)
  <2>1. Selected \subseteq consented
    BY DEF Selected, WithStatus, PublishInv, FixOK
  <2>2. job'[r].pc = "fetch" /\ job'[r].work = Selected /\ job'[r].todo = {} /\ job'[r].written = {}
        /\ job'[r].refused = {}
    BY <1>1, <1>10 DEF Select, FreshJob
  <2> QED  BY <1>2, <2>1, <2>2, FreshRunOK DEF JobPc, ProductPc
<1>11. CASE AbortRun(r) \/ Complete(r) \/ Fail(r) \/ TokenUnavailable(r) \/ \E f \in Fixes : LostReply(r, f)
  BY <1>4, <1>11 DEF AbortRun, Complete, Fail, TokenUnavailable, LostReply
<1>12. CASE Fetch(r) \/ Reread(r)
  <2> DEFINE p == CurrentProduct(job[r].work)
  <2>1. /\ job'[r].pc \in {"gate", "verify"} /\ job'[r].snap = live[p] /\ job'[r].work = job[r].work
        /\ job'[r].todo = job[r].todo /\ job'[r].written = job[r].written
        /\ job'[r].refused = job[r].refused /\ UNCHANGED <<live, shown>>
    BY <1>1, <1>12 DEF Fetch, Reread, Job, storeVars
  <2>2. job[r].todo = {} /\ (Fetch(r) => job[r].written = {} /\ job[r].refused = {})
    BY <1>1, <1>12 DEF RunOK, Fetch, Reread, AtProduct, ProductPc
  <2>3. job[r].work # {}
    BY <1>12 DEF Fetch, Reread, TypeOK, PublisherTypeOK, JobTypeOK, AtProduct, ProductPc
  <2>4. p \in Products
    BY <2>3, JobTyped, CurrentProductExists
  <2>5. live[p] # NoProduct => live[p] \in shown[p]
    BY <2>4 DEF PublishInv, ShopOK
  <2>6. job[r].written \union job[r].refused \subseteq Mine(r)
    BY <1>1, <1>12, <2>2 DEF RunOK, Fetch, Reread, AtProduct, ProductPc
  <2> QED  BY <1>1, <1>2, <1>7, <2>1, <2>2, <2>5, <2>6 DEF RunOK, AtProduct, ProductPc
<1>13. CASE Gate(r)
  <2> DEFINE writable == {f \in Mine(r) : GateResult(r)[f] = "write"}
  <2>1. CASE NextProduct(r)
    BY <1>5, <2>1
  <2>2. CASE job' = [job EXCEPT ![r].pc = "write", ![r].todo = writable]
    <3>1. /\ job'[r].pc = "write" /\ job'[r].todo = writable /\ job'[r].work = job[r].work
          /\ job'[r].snap = job[r].snap /\ job'[r].written = job[r].written
          /\ job'[r].refused = job[r].refused
      BY <1>1, <2>2 DEF Job
    <3>2. \A f \in writable : Field(f, job[r].snap) = Before(f)
      BY DEF GateResult, GateOutcome, BaseMatches
    <3>3. AtProduct(r) /\ UNCHANGED <<shown>>
      BY <1>13 DEF Gate, AtProduct, ProductPc
    <3>4. writable \subseteq Mine(r) /\ writable \subseteq Fixes /\ job[r].snap \in LiveProduct
      BY JobTyped
    <3> HIDE DEF writable
    <3> QED  BY <1>1, <1>2, <1>6, <1>7, <3>1, <3>2, <3>3, <3>4 DEF RunOK, AtProduct, ProductPc
  <2> QED  BY <1>13, <2>1, <2>2 DEF Gate
<1>14. ASSUME NEW f \in Fixes, Write(r, f) \/ Ignore(r, f) \/ Refuse(r, f) PROVE RunOK(r)'
  <2>1. /\ job'[r].pc = "write" /\ job[r].pc = "write" /\ job'[r].work = job[r].work
        /\ job'[r].todo = job[r].todo \ {f} /\ job'[r].snap = job[r].snap
        /\ job'[r].written \union job'[r].refused
             \subseteq job[r].written \union job[r].refused \union {f}
        /\ f \in job[r].todo
    BY <1>1, <1>14 DEF Write, Ignore, Refuse, Job, RiskFirst
  <2>2. AtProduct(r) /\ AtProduct(r)' /\ CurrentProduct(job[r].work) \in Products
    BY <2>1, AtProductTyped DEF AtProduct, ProductPc
  <2>3. job[r].todo \subseteq Fixes /\ job[r].snap \in LiveProduct
    BY JobTyped
  <2>4. job[r].snap # NoProduct => job[r].snap \in shown'[CurrentProduct(job[r].work)]
    BY <1>1, <1>2, <2>2 DEF RunOK, Grows
  <2> QED  BY <1>1, <1>2, <1>6, <1>7, <2>1, <2>2, <2>3, <2>4 DEF RunOK
<1>15. CASE CommitWrites(r)
  <2>1. CASE job' = [job EXCEPT ![r].pc = "reread"]
    <3>1. /\ job'[r].pc = "reread" /\ job'[r].todo = {} /\ job'[r].work = job[r].work
          /\ job'[r].snap = job[r].snap /\ job'[r].written = job[r].written
          /\ job'[r].refused = job[r].refused
      BY <1>1, <1>15, <2>1 DEF CommitWrites, Job
    <3>2. AtProduct(r) /\ UNCHANGED shown
      BY <1>15 DEF CommitWrites, AtProduct, ProductPc
    <3> QED  BY <1>1, <1>2, <1>7, <3>1, <3>2 DEF RunOK, AtProduct, ProductPc
  <2> QED  BY <1>5, <1>15, <2>1 DEF CommitWrites
<1>16. CASE GateGone(r) \/ Verify(r)
  BY <1>5, <1>16 DEF GateGone, Verify
<1> QED
  BY <1>8, <1>9, <1>10, <1>11, <1>12, <1>13, <1>14, <1>15, <1>16
  DEF RunStep, JobStep, CommitStep, WriteStep

\* Neither a request nor the environment touches what a run remembers.
LEMMA OthersKeepPublishInv ==
  ASSUME TypeOK, PublishInv, Grows, UNCHANGED job,
         \A p \in Products : ShopOK(p)',
         \A f \in Fixes : \/ status'[f] = status[f] /\ (f \in consented' => f \in consented)
                          \/ status'[f] \in {"proposed", "rejected", "stale"} /\ (f \in consented' => f \in consented)
                          \/ status'[f] = "approved" /\ f \in consented'
  PROVE  PublishInv'
<1>1. \A r \in Runs : RunOK(r)'
  BY RunFrame
<1>2. ASSUME NEW f \in Fixes PROVE FixOK(f)'
  <2>1. CASE status'[f] = status[f] /\ (f \in consented' => f \in consented)
    BY <2>1, FixFrame
  <2> QED  BY <2>1 DEF FixOK
<1> QED  BY <1>1, <1>2 DEF PublishInv

\* A step of a run.
LEMMA RunStepKeepsPublishInv ==
  ASSUME TypeOK, PublishInv, NEW r \in Runs, RunStep(r)
  PROVE  PublishInv'
<1>1. Grows /\ consented' = consented /\ basis' = basis /\ (\A p \in Products : ShopOK(p)')
      /\ (\A s \in Runs \ {r} : job'[s] = job[s])
  BY RunStepGrows
<1>2. \A s \in Runs : RunOK(s)'
  BY <1>1, RunFrame, RunStepKeepsRunOK
<1>3. ASSUME NEW f \in Fixes PROVE FixOK(f)'
  <2>1. CASE status'[f] = status[f]
    BY <1>1, <2>1, FixFrame
  <2>2. CASE f \in consented /\ status'[f] \in {"stale", "published", "publish_failed"}
    BY <1>1, <2>2 DEF FixOK
  <2>3. CASE /\ f \in Mine(r) /\ AtProduct(r) /\ status'[f] = "verified"
             /\ job[r].snap # NoProduct /\ Confirmed(f, job[r].snap)
    <3>1. f \in consented /\ ProductOf[f] \in Products /\ job[r].snap \in shown[ProductOf[f]]
      BY <2>3, MineTyped DEF PublishInv, RunOK
    <3>2. PICK v : v = job[r].snap
      OBVIOUS
    <3>3. Confirmed(f, v)'
      BY <1>1, <2>3, <3>2 DEF Confirmed, Landed, After, Before, Field
    <3>4. v \in shown'[ProductOf[f]]
      BY <1>1, <3>1, <3>2 DEF Grows
    <3> QED  BY <1>1, <2>3, <3>1, <3>3, <3>4 DEF FixOK
  <2> QED  BY <2>1, <2>2, <2>3, RunStepSettles DEF Settles
<1> QED  BY <1>1, <1>2, <1>3 DEF PublishInv

\* A step of a request: an approval is consented to in the commit that records it.
LEMMA GateStepKeepsPublishInv ==
  ASSUME TypeOK, PublishInv, NEW d \in Deciders, GateStep(d), UNCHANGED <<pubVars, edits>>
  PROVE  PublishInv'
<1>1. UNCHANGED <<basis, row, live, shown, job>> /\ consented \subseteq consented'
  BY DEF GateStep, Load, BeginSupersede, LockRival, CommitDecision, AbortDecision, storeVars, pubVars
<1>2. Grows /\ \A p \in Products : ShopOK(p)'
  BY <1>1 DEF Grows, PublishInv, ShopOK
<1>3. ASSUME NEW f \in Fixes
      PROVE  \/ status'[f] = status[f] /\ (f \in consented' => f \in consented)
             \/ status'[f] \in {"proposed", "rejected", "stale"} /\ (f \in consented' => f \in consented)
             \/ status'[f] = "approved" /\ f \in consented'
  <2>1. CASE CommitDecision(d)
    <3>1. dtx[d].want \in {"approved", "rejected"}
      BY <2>1 DEF CommitDecision, TypeOK, GateTypeOK, DecisionTx, OpenTx, IdleTx
    <3> QED  BY <2>1, <3>1 DEF CommitDecision, CommitStatus
  <2>2. CASE UNCHANGED <<status, consented>>
    BY <2>2
  <2> QED  BY <2>1, <2>2 DEF GateStep, Load, BeginSupersede, LockRival, AbortDecision, storeVars
<1> QED  BY <1>1, <1>2, <1>3, OthersKeepPublishInv

\* A step of the environment: a new proposal takes a slot nobody has consented to.
LEMMA EnvStepKeepsPublishInv ==
  ASSUME TypeOK, PublishInv, EnvNext
  PROVE  PublishInv'
<1>1. PICK p \in Products :
        \/ \E new \in SUBSET Fixes : Propose(p, new)
        \/ ProductWebhook(p) \/ Reingest(p) \/ MerchantEdit(p) \/ MerchantDelete(p)
  BY DEF EnvNext
<1>2. UNCHANGED <<job, consented>>
  BY <1>1 DEF Propose, ProductWebhook, Reingest, MerchantEdit, MerchantDelete, pubVars
<1>3. ASSUME NEW f \in Fixes
      PROVE  /\ status'[f] = status[f] \/ status'[f] = "proposed"
             /\ status[f] # "none" => basis'[f] = basis[f]
  <2>1. CASE \E new \in SUBSET Fixes : Propose(p, new)
    BY <2>1 DEF Propose, TypeOK, StoreTypeOK
  <2>2. CASE UNCHANGED <<status, basis>>
    BY <2>2
  <2> QED  BY <1>1, <2>1, <2>2 DEF ProductWebhook, Reingest, MerchantEdit, MerchantDelete
<1>4. \A q \in Products : ShopOK(q)' /\ shown[q] \subseteq shown'[q]
  <2>1. CASE UNCHANGED <<live, shown>>
    BY <2>1 DEF PublishInv, ShopOK
  <2>2. CASE MerchantEdit(p)
    <3>1. PICK product : live' = [live EXCEPT ![p] = product] /\ shown' = [shown EXCEPT ![p] = @ \union {product}]
      BY <2>2 DEF MerchantEdit, StoreBecomes, Show
    <3> QED  BY <3>1 DEF PublishInv, ShopOK, TypeOK, StoreTypeOK
  <2>3. CASE MerchantDelete(p)
    BY <2>3 DEF MerchantDelete, PublishInv, ShopOK, TypeOK, StoreTypeOK
  <2> QED  BY <1>1, <2>1, <2>2, <2>3 DEF Propose, ProductWebhook, Reingest
<1> QED  BY <1>2, <1>3, <1>4, OthersKeepPublishInv DEF Grows

\* Nothing is approved, picked up or written yet.
LEMMA InitPublishInv == Init => PublishInv
<1> SUFFICES ASSUME Init PROVE PublishInv
  OBVIOUS
<1>1. \A r \in Runs : job[r].pc = "none" /\ job[r].work = {} /\ job[r].todo = {}
                      /\ job[r].written = {} /\ job[r].refused = {}
  BY DEF Init, PublisherInit, FreshJob
<1>2. \A f \in Fixes : status[f] = "none"
  BY DEF Init
<1>3. live = row /\ shown = [p \in Products |-> {row[p]}] /\ consented = {}
  BY DEF Init
<1> QED  BY <1>1, <1>2, <1>3 DEF PublishInv, RunOK, AtProduct, ProductPc, FixOK, ShopOK

\* Nothing happens.
LEMMA StutterPublishInv ==
  ASSUME TypeOK, PublishInv, UNCHANGED vars
  PROVE  PublishInv'
<1>1. Grows /\ UNCHANGED <<job, status, consented, live, shown>>
  BY DEF Grows, vars, storeVars, pubVars
<1>2. \A p \in Products : ShopOK(p)'
  BY <1>1 DEF PublishInv, ShopOK
<1> QED  BY <1>1, <1>2, OthersKeepPublishInv

\* The invariant holds in every reachable state, whatever overlaps, fails or starts over.
THEOREM PublishInvariant == Spec => [](TypeOK /\ PublishInv)
<1>1. TypeOK /\ PublishInv /\ [Next]_vars => PublishInv'
  BY GateStepKeepsPublishInv, RunStepKeepsPublishInv, EnvStepKeepsPublishInv, StutterPublishInv
  DEF Next, GateNext, PublisherNext
<1> QED  BY <1>1, InitPublishInv, TypeCorrect, PTL DEF Spec

\* A publish run never holds, and so never sends, a fix whose approval was not committed;
\* only such fixes are ever published, verified or publish_failed.
THEOREM ConsentTheorem == Spec => []OnlyConsentedIsPublished
<1>1. TypeOK /\ PublishInv => OnlyConsentedIsPublished
  <2> SUFFICES ASSUME TypeOK, PublishInv, NEW r \in Runs
               PROVE  job[r].work \union job[r].todo \union job[r].written \subseteq consented
    BY DEF OnlyConsentedIsPublished, PublishInv, FixOK
  <2>1. RunOK(r) /\ Mine(r) \subseteq job[r].work
    BY JobTyped DEF PublishInv
  <2> QED  BY <2>1 DEF RunOK, AtProduct, ProductPc
<1> QED  BY <1>1, PublishInvariant, PTL

\* verified always rests on a version of the product that the merchant's store has shown.
THEOREM VerifiedTheorem == Spec => []VerifiedWasLive
<1>1. PublishInv => VerifiedWasLive
  BY DEF PublishInv, FixOK, VerifiedWasLive, WithStatus
<1> QED  BY <1>1, PublishInvariant, PTL

\* A mutation sent to a store still as the run saw it replaces exactly the value the fix was
\* computed from.
THEOREM WriteTheorem == Spec => WriteReplacesItsBasis
<1>1. PublishInv /\ [Next]_vars =>
        [\A r \in Runs : \A f \in job[r].todo :
           (/\ live'[ProductOf[f]] # live[ProductOf[f]]
            /\ job'[r] # job[r] /\ f \notin job'[r].todo
            /\ Field(f, live[ProductOf[f]]) = Field(f, job[r].snap))
             => Field(f, live[ProductOf[f]]) = Before(f)]_vars
  BY DEF PublishInv, RunOK
<1> QED  BY <1>1, PublishInvariant, PTL DEF Spec, WriteReplacesItsBasis

-----------------------------------------------------------------------------
(* At most one approved fix per target, when requests on a target do not overlap. *)

Apart(d, e) ==
  Active(d) /\ Active(e) => dtx[d].fix # dtx[e].fix /\ ~SameTarget(dtx[d].fix, dtx[e].fix)

\* An approval that has begun its supersede still has to reach each approved rival of its
\* fix, or holds the rival's row.
TxOK(d) ==
  /\ dtx[d].todo \subseteq Rivals(dtx[d].fix)
  /\ dtx[d].pc = "superseding" =>
       /\ dtx[d].want = "approved"
       /\ \A g \in Rivals(dtx[d].fix) : status[g] = "approved" => g \in dtx[d].todo \/ lock[g] = d
  /\ \A g \in Fixes : lock[g] = d => dtx[d].pc = "superseding" /\ g \in Rivals(dtx[d].fix)

ApprovalInv ==
  /\ AtMostOneApproved
  /\ \A d \in Deciders : TxOK(d)
  /\ \A d, e \in Deciders : d # e => Apart(d, e)

\* Sharing a target is symmetric.
LEMMA RivalsSymmetric ==
  ASSUME NEW f \in Fixes, NEW g \in Fixes
  PROVE  SameTarget(f, g) <=> SameTarget(g, f)
BY DEF SameTarget

\* A step that opens, locks and approves nothing.
LEMMA ApprovalFrame ==
  ASSUME TypeOK, ApprovalInv, UNCHANGED <<dtx, lock>>,
         \A f \in Fixes : status'[f] = "approved" => status[f] = "approved"
  PROVE  ApprovalInv'
<1>1. AtMostOneApproved'
  BY DEF ApprovalInv, AtMostOneApproved, WithStatus, SameTarget
<1>2. \A d \in Deciders : TxOK(d)'
  BY DEF ApprovalInv, TxOK, Rivals, SameTarget
<1>3. \A d, e \in Deciders : d # e => Apart(d, e)'
  BY DEF ApprovalInv, Apart, Active, SameTarget
<1> QED  BY <1>1, <1>2, <1>3 DEF ApprovalInv

\* A step of a request.
LEMMA GateStepKeepsApprovalInv ==
  ASSUME SerialDecisions, TypeOK, ApprovalInv, NEW d \in Deciders, GateStep(d)
  PROVE  ApprovalInv'
<1>1. /\ dtx \in [Deciders -> DecisionTx] /\ lock \in [Fixes -> Deciders \union {Free}]
      /\ status \in [Fixes -> FixStatus \union {"none"}] /\ Free \notin Deciders
  BY FixStoreAssumption DEF TypeOK, GateTypeOK, StoreTypeOK
<1>2. IdleTx.pc = "idle" /\ IdleTx.todo = {}
  BY DEF IdleTx
<1>3. Active(d) => dtx[d] \in OpenTx
  BY <1>1 DEF Active, DecisionTx, IdleTx
<1>4. ASSUME NEW f \in Fixes, NEW want \in {"approved", "rejected"}, Load(d, f, want)
      PROVE  ApprovalInv'
  <2> DEFINE tx == [pc |-> "loaded", fix |-> f, want |-> want, todo |-> {}]
  <2>1. dtx'[d] = tx /\ tx.pc = "loaded" /\ tx.fix = f /\ tx.todo = {}
        /\ (\A e \in Deciders \ {d} : dtx'[e] = dtx[e]) /\ UNCHANGED <<status, lock>>
    BY <1>1, <1>4 DEF Load, storeVars
  <2> HIDE DEF tx
  <2>2. \A e \in Deciders : Active(e) => dtx[e].fix # f /\ ~SameTarget(dtx[e].fix, f)
    BY <1>4 DEF Load
  <2>3. AtMostOneApproved'
    BY <2>1 DEF ApprovalInv, AtMostOneApproved, WithStatus, SameTarget
  <2>4. \A e \in Deciders : TxOK(e)'
    <3>1. TxOK(d)'
      BY <1>4, <2>1 DEF ApprovalInv, TxOK, Load, Active
    <3>2. \A e \in Deciders \ {d} : TxOK(e)'
      BY <2>1 DEF ApprovalInv, TxOK, Rivals, SameTarget
    <3> QED  BY <3>1, <3>2
  <2>5. \A e, g \in Deciders : e # g => Apart(e, g)'
    BY <2>1, <2>2 DEF ApprovalInv, Apart, Active, SameTarget
  <2> QED  BY <2>3, <2>4, <2>5 DEF ApprovalInv
<1>5. ASSUME BeginSupersede(d) PROVE ApprovalInv'
  <2>1. dtx[d] \in OpenTx
    BY <1>3, <1>5 DEF BeginSupersede, Active
  <2>2. /\ dtx'[d].pc = "superseding" /\ dtx'[d].fix = dtx[d].fix /\ dtx'[d].want = "approved"
        /\ dtx'[d].todo = RivalsToSupersede(dtx[d].fix)
        /\ (\A e \in Deciders \ {d} : dtx'[e] = dtx[e]) /\ UNCHANGED <<status, lock>>
    BY <1>1, <1>5, <2>1 DEF BeginSupersede, storeVars, OpenTx
  <2>3. AtMostOneApproved'
    BY <2>2 DEF ApprovalInv, AtMostOneApproved, WithStatus, SameTarget
  <2>4. TxOK(d)'
    BY <1>5, <2>2 DEF ApprovalInv, TxOK, BeginSupersede, RivalsToSupersede, Supersedable, Rivals, SameTarget
  <2>5. \A e \in Deciders \ {d} : TxOK(e)'
    BY <2>2 DEF ApprovalInv, TxOK, Rivals, SameTarget
  <2>6. dtx[d].pc = "loaded"
    BY <1>5 DEF BeginSupersede
  <2>7. \A e, g \in Deciders : e # g => Apart(e, g)'
    BY <2>2, <2>6 DEF ApprovalInv, Apart, Active, SameTarget
  <2> QED  BY <2>3, <2>4, <2>5, <2>7 DEF ApprovalInv
<1>6. ASSUME NEW g \in Fixes, LockRival(d, g) PROVE ApprovalInv'
  <2>1. dtx[d] \in OpenTx
    BY <1>3, <1>6 DEF LockRival, Active
  <2>2. /\ dtx'[d].pc = "superseding" /\ dtx[d].pc = "superseding"
        /\ dtx'[d].fix = dtx[d].fix /\ dtx'[d].want = dtx[d].want
        /\ dtx'[d].todo = dtx[d].todo \ {g}
        /\ (\A e \in Deciders \ {d} : dtx'[e] = dtx[e]) /\ UNCHANGED status
        /\ g \in dtx[d].todo /\ lock[g] = Free
    BY <1>1, <1>6, <2>1 DEF LockRival, OpenTx
  <2>3. /\ \A h \in Fixes \ {g} : lock'[h] = lock[h]
        /\ lock'[g] \in {Free, d}
        /\ status[g] = "approved" => lock'[g] = d
    BY <1>1, <1>6 DEF LockRival, Supersedable
  <2>4. AtMostOneApproved'
    BY <2>2 DEF ApprovalInv, AtMostOneApproved, WithStatus, SameTarget
  <2>5. TxOK(d)'
    BY <1>1, <2>2, <2>3 DEF ApprovalInv, TxOK, Rivals, SameTarget
  <2>6. \A e \in Deciders \ {d} : TxOK(e)'
    BY <1>1, <2>2, <2>3 DEF ApprovalInv, TxOK, Rivals, SameTarget
  <2>7. \A e, h \in Deciders : e # h => Apart(e, h)'
    BY <2>2 DEF ApprovalInv, Apart, Active, SameTarget
  <2> QED  BY <2>4, <2>5, <2>6, <2>7 DEF ApprovalInv
<1>7. ASSUME CommitDecision(d) \/ AbortDecision(d) PROVE ApprovalInv'
  <2> DEFINE f == dtx[d].fix
  <2>1. Active(d) /\ dtx[d] \in OpenTx /\ f \in Fixes
    BY <1>3, <1>7 DEF CommitDecision, AbortDecision, Active, OpenTx
  <2>2. /\ dtx'[d] = IdleTx /\ (\A e \in Deciders \ {d} : dtx'[e] = dtx[e])
        /\ \A g \in Fixes : lock'[g] = IF lock[g] = d THEN Free ELSE lock[g]
    BY <1>1, <1>7 DEF CommitDecision, AbortDecision, Released
  <2>3. \A g \in Fixes : status'[g] = "approved" =>
          \/ status[g] = "approved"
          \/ g = f /\ CommitDecision(d) /\ dtx[d].want = "approved"
    BY <1>7 DEF CommitDecision, AbortDecision, CommitStatus
  <2>4. AtMostOneApproved'
    <3>1. ASSUME CommitDecision(d), dtx[d].want = "approved", NEW g \in Rivals(f)
          PROVE  status'[g] # "approved"
      <4>1. g \in Fixes /\ g # f /\ dtx[d].pc = "superseding" /\ dtx[d].todo = {}
        BY <3>1 DEF CommitDecision, Rivals
      <4>2. status[g] = "approved" => lock[g] = d
        BY <3>1, <4>1 DEF ApprovalInv, TxOK
      <4>3. status'[g] = IF lock[g] = d THEN "stale" ELSE status[g]
        BY <3>1, <4>1 DEF CommitDecision, CommitStatus
      <4> QED  BY <4>2, <4>3
    <3>2. SUFFICES ASSUME NEW g \in Fixes, NEW h \in Fixes, SameTarget(g, h), g # h,
                          status'[g] = "approved", status'[h] = "approved"
                   PROVE  FALSE
      BY DEF AtMostOneApproved, WithStatus, SameTarget
    <3>3. ~(status[g] = "approved" /\ status[h] = "approved")
      BY <3>2 DEF ApprovalInv, AtMostOneApproved, WithStatus
    <3>4. CASE g = f /\ CommitDecision(d) /\ dtx[d].want = "approved"
      BY <3>1, <3>2, <3>4 DEF Rivals
    <3>5. CASE h = f /\ CommitDecision(d) /\ dtx[d].want = "approved"
      BY <3>1, <3>2, <3>5, RivalsSymmetric DEF Rivals
    <3> QED  BY <2>3, <3>2, <3>3, <3>4, <3>5
  <2>5. TxOK(d)'
    BY <1>1, <1>2, <2>2 DEF TxOK
  <2>6. ASSUME NEW e \in Deciders \ {d} PROVE TxOK(e)'
    <3>1. TxOK(e) /\ Apart(e, d) /\ dtx'[e] = dtx[e]
      BY <2>2 DEF ApprovalInv
    <3>2. \A g \in Fixes : lock'[g] = e <=> lock[g] = e
      BY <1>1, <2>2
    <3>3. ASSUME dtx[e].pc = "superseding", NEW g \in Rivals(dtx[e].fix), status'[g] = "approved"
          PROVE  status[g] = "approved"
      <4>1. Active(e) /\ g # f
        BY <2>1, <3>1, <3>3 DEF Apart, Active, Rivals
      <4> QED  BY <2>3, <3>3, <4>1 DEF Rivals
    <3> QED  BY <3>1, <3>2, <3>3 DEF TxOK, Rivals, SameTarget
  <2>7. \A e, g \in Deciders : e # g => Apart(e, g)'
    BY <1>2, <2>2 DEF ApprovalInv, Apart, Active, SameTarget
  <2> QED  BY <2>4, <2>5, <2>6, <2>7 DEF ApprovalInv
<1> QED  BY <1>4, <1>5, <1>6, <1>7 DEF GateStep

\* No request is open and nothing is approved.
LEMMA InitApprovalInv == Init => ApprovalInv
<1> SUFFICES ASSUME Init PROVE ApprovalInv
  OBVIOUS
<1>1. \A f \in Fixes : status[f] = "none" /\ lock[f] = Free
  BY DEF Init
<1>2. \A d \in Deciders : dtx[d].pc = "idle" /\ dtx[d].todo = {}
  BY DEF Init, GateInit, IdleTx
<1> QED
  BY <1>1, <1>2, FixStoreAssumption DEF ApprovalInv, AtMostOneApproved, WithStatus, TxOK, Apart, Active

\* Every step keeps it.
LEMMA NextKeepsApprovalInv ==
  ASSUME SerialDecisions, TypeOK, PublishInv, ApprovalInv, [Next]_vars
  PROVE  ApprovalInv'
<1>1. CASE \E d \in Deciders : GateStep(d)
  BY <1>1, GateStepKeepsApprovalInv
<1>2. ASSUME NEW r \in Runs, RunStep(r), UNCHANGED <<dtx, edits>>
      PROVE  ApprovalInv'
  BY <1>2, RunStepSettles, RunStepGrows, ApprovalFrame DEF Settles
<1>3. CASE EnvNext
  <2>1. UNCHANGED <<dtx, lock>>
    BY <1>3 DEF EnvNext, Propose, ProductWebhook, Reingest, MerchantEdit, MerchantDelete
  <2>2. \A f \in Fixes : status'[f] \in {status[f], "proposed"}
    BY <1>3 DEF EnvNext, Propose, ProductWebhook, Reingest, MerchantEdit, MerchantDelete
  <2> QED  BY <2>1, <2>2, ApprovalFrame
<1>4. CASE UNCHANGED vars
  BY <1>4, ApprovalFrame DEF vars, storeVars
<1> QED
  BY <1>1, <1>2, <1>3, <1>4 DEF Next, GateNext, PublisherNext

\* When requests on one target do not overlap, the supersede of an approval leaves at most
\* one approved fix per target, whatever publish runs and the optimizer do meanwhile.
THEOREM OneApprovalTheorem == SerialDecisions => (Spec => []AtMostOneApproved)
<1> SUFFICES ASSUME SerialDecisions PROVE Spec => []AtMostOneApproved
  OBVIOUS
<1>1. TypeOK /\ PublishInv /\ ApprovalInv /\ [Next]_vars => ApprovalInv'
  BY NextKeepsApprovalInv
<1>2. ApprovalInv => AtMostOneApproved
  BY DEF ApprovalInv
<1> QED  BY <1>1, <1>2, InitApprovalInv, PublishInvariant, PTL DEF Spec

=============================================================================
