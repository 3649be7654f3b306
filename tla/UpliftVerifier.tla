--------------------------- MODULE UpliftVerifier ---------------------------
(***************************************************************************)
(* Measuring what the published fixes did: POST /shops/.../verify          *)
(* (api/verify.py), baseline selection (services/baselines.py), the job    *)
(* run_verify_task (jobs/verify.py), run_verifier (graph/verifier.py) and  *)
(* what the read routes make of its rows (services/uplift.py), over the    *)
(* pipeline of ScanPipeline, whose scans are its baselines.                *)
(*                                                                         *)
(* The request is one READ COMMITTED transaction of three steps: it finds  *)
(* the shop, resolves the measured set, then selects the baseline and      *)
(* inserts the run; scans may complete and fixes be published in between.  *)
(***************************************************************************)
EXTENDS ScanPipeline

CONSTANTS
  Fixes,    \* fixes, numbered in the order they are published
  Settle,   \* verify_settle_hours
  Pins      \* values of the query parameter baseline_run_id; 0 is none

ASSUME UpliftAssumption ==
  /\ Fixes \subseteq Nat /\ IsFiniteSet(Fixes)
  /\ Settle \in Nat
  /\ Pins \subseteq Runs \union {0}

VARIABLES
  published,   \* fixes.published_at: 0 until the fix is verified
  order,       \* each verification request: what it decided, and the job's arguments
  ver          \* verifications

vars == <<scanVars, published, order, ver>>

\* began: the transaction's start, which becomes started_at.  stamps: the fixes and their
\* published_at.  decided is a history variable: when the request was granted.
NoOrder == [began |-> 0, stamps |-> <<>>, base |-> 0, force |-> FALSE, decided |-> 0]
NoVerification == [base |-> 0]

Stamps == UNION {[S -> Time] : S \in SUBSET Fixes}
Delta == (-Scale..Scale) \union {NULL}

TypeOK ==
  /\ ScanTypeOK
  /\ published \in [Fixes -> {0} \union Time]
  /\ order \in [Runs -> [began : {0} \union Time, stamps : Stamps \union {<<>>},
                         base : {0} \union Runs, force : BOOLEAN, decided : {0} \union Time]]
  /\ ver \in [Runs -> {NoVerification} \union
                [base : Runs, panel : Panels, pre : Rates \union {NULL},
                 post : Rates \union {NULL}, delta : Delta,
                 rivals : UNION {[S -> Delta] : S \in SUBSET Rivals}, measured : Stamps,
                 settled : BOOLEAN, preAsked : SUBSET Time, postAsked : SUBSET Time]]

Init ==
  /\ ScanInit
  /\ published = [f \in Fixes |-> 0]
  /\ order = [r \in Runs |-> NoOrder]
  /\ ver = [r \in Runs |-> NoVerification]

-----------------------------------------------------------------------------
\* The Publisher confirms a fix in the live store (_mark).
Publish(f) ==
  /\ published[f] = 0
  /\ \A g \in Fixes : g < f => published[g] # 0
  /\ published' = [published EXCEPT ![f] = now]
  /\ UNCHANGED <<scanVars, order, ver>>

-----------------------------------------------------------------------------
(* services/baselines.py *)

\* resolve_measured_set
Published == {f \in Fixes : published[f] # 0}

StampsOf(S) == {S[f] : f \in DOMAIN S}

ScansBefore(cutoff, pin) ==
  {q \in Runs : /\ run[q].status = "completed" /\ run[q].completed < cutoff
                /\ som[q] # NoRow
                /\ pin \in {0, q}}

\* _latest_scan_before: two scans that complete in one tick may be in either order.
LatestScansBefore(cutoff, pin) ==
  {q \in ScansBefore(cutoff, pin) : \A s \in ScansBefore(cutoff, pin) : run[s].completed <= run[q].completed}

\* Anchored on the last publish only.
BaselinesMutLastPublish(stamps, pin) == LatestScansBefore(Max(StampsOf(stamps)), pin)

\* select_baseline_run: before the first publish, else before the last.
Baselines(stamps, pin) ==
  LET first == LatestScansBefore(Min(StampsOf(stamps)), pin)
  IN  IF first # {} THEN first ELSE LatestScansBefore(Max(StampsOf(stamps)), pin)

\* Everything published is credited to the window.
MeasuredMutAll(stamps, base) == stamps

\* published_at > baseline.completed_at
Measured(stamps, base) ==
  [f \in {g \in DOMAIN stamps : stamps[g] > run[base].completed} |-> stamps[f]]

-----------------------------------------------------------------------------
(* start_verification *)

\* _resolve_shop: the request's first statement, where its transaction begins.
ResolveShop(r) ==
  /\ NextOf(Verifications, r)
  /\ order' = [order EXCEPT ![r].began = now]
  /\ JobAt(r, "opened")
  /\ UNCHANGED <<now, run, rows, som, faults, published, ver>>

\* The snapshot: READ COMMITTED shows it what was published since the transaction began.
ResolveMeasuredSet(r) ==
  /\ job[r] = "opened"
  /\ Published # {}
  /\ order' = [order EXCEPT ![r].stamps = [f \in Published |-> published[f]]]
  /\ JobAt(r, "resolved")
  /\ UNCHANGED <<now, run, rows, som, faults, published, ver>>

SettledBy(time, stamps) == time >= Max(StampsOf(stamps)) + Settle

\* The request may be granted with this baseline.
Measurable(r, base, force) ==
  LET measured == Measured(order[r].stamps, base)
  IN  DOMAIN measured # {} /\ (force \/ SettledBy(now, measured))

\* The panel the Interrogator would build at the time of the request.
PanelForMutRebuilt(base) == BuildQueryPanel(now)

\* Bind to the baseline's panel, never rebuild it.
PanelFor(base) == run[base].panel

\* The baseline is selected, the gate passed, the run committed.
BindBaseline(r, pin, force) ==
  /\ job[r] = "resolved"
  /\ \E base \in Baselines(order[r].stamps, pin) :
       /\ Measurable(r, base, force)
       /\ CreateAgentRun(r, PanelFor(base))
       /\ order' = [order EXCEPT ![r] =
                      [began |-> @.began, stamps |-> Measured(@.stamps, base), base |-> base,
                       force |-> force, decided |-> now]]
  /\ JobAt(r, "created")
  /\ UNCHANGED <<now, rows, som, faults, published, ver>>

\* No baseline, nothing after it, or too early; force waives the last.
Refused(r, pin) ==
  LET bases == Baselines(order[r].stamps, pin)
  IN  bases = {} \/ \E base \in bases : ~Measurable(r, base, FALSE)

\* 409, also when nothing is published.  Nothing was written.
Refuse(r) ==
  /\ \/ job[r] = "opened" /\ Published = {}
     \/ job[r] = "resolved" /\ {pin \in Pins : Refused(r, pin)} # {}
  /\ order' = [order EXCEPT ![r] = NoOrder]
  /\ JobAt(r, "idle")
  /\ UNCHANGED <<now, run, rows, som, faults, published, ver>>

-----------------------------------------------------------------------------
(* run_verifier *)

\* A missing row and an empty denominator are both no data.
HasData(row) == row # NoRow /\ row.total > 0

\* _side_rates
SideRate(row) == IF HasData(row) THEN row.rate ELSE NULL
SideRivals(row) ==
  IF row = NoRow THEN <<>> ELSE [b \in DOMAIN row.rivals |-> IF HasData(row) THEN row.rivals[b] ELSE NULL]

\* A missing side counts as zero.
DifferenceMutCoalesces(pre, post) ==
  (IF post = NULL THEN 0 ELSE post) - (IF pre = NULL THEN 0 ELSE pre)

\* _delta
Difference(pre, post) == IF NULL \in {pre, post} THEN NULL ELSE post - pre

\* Union of the tracked competitors; dict.get answers NULL for the one a side lacks.
RivalDeltas(pre, post) ==
  [b \in DOMAIN pre \union DOMAIN post |->
     IF b \in DOMAIN pre \intersect DOMAIN post THEN Difference(pre[b], post[b]) ELSE NULL]

\* Nothing to measure, another panel, or too early.  The shop and the fingerprint cannot differ
\* here: both runs are of one shop and no statement rewrites queries_json.
VerifyAborts(r) ==
  \/ DOMAIN order[r].stamps = {}
  \/ run[r].panel # run[order[r].base].panel
  \/ ~SettledBy(order[r].began, order[r].stamps) /\ ~order[r].force

\* The fixes published by the time the job runs.
ManifestMutResolvedAgain(r) == [f \in Published |-> published[f]]

\* The route's snapshot, verbatim.
Manifest(r) == order[r].stamps

\* The row of the run, written or rewritten (uq_verifications_run_engine).
Verification(r) ==
  LET before == som[order[r].base]
      after == som[r]
  IN  [base |-> order[r].base, panel |-> run[r].panel,
       pre |-> SideRate(before), post |-> SideRate(after),
       delta |-> Difference(SideRate(before), SideRate(after)),
       rivals |-> RivalDeltas(SideRivals(before), SideRivals(after)),
       measured |-> Manifest(r),
       settled |-> SettledBy(order[r].began, order[r].stamps),
       preAsked |-> before.asked, postAsked |-> after.asked]

RunVerifier(r) ==
  /\ job[r] = "verify" /\ ~VerifyAborts(r)
  /\ ver' = [ver EXCEPT ![r] = Verification(r)]
  /\ JobAt(r, "finish")
  /\ UNCHANGED <<now, run, rows, som, faults, published, order>>

\* VerificationAborted: the scan's rows stay, the run fails, no delta is recorded.
VerificationAborted(r) ==
  /\ job[r] = "verify" /\ VerifyAborts(r)
  /\ CompleteAgentRun(r, "failed")
  /\ JobAt(r, "done")
  /\ ForgetRows(r)
  /\ UNCHANGED <<now, som, faults, published, order, ver>>

-----------------------------------------------------------------------------
(* services/uplift.py: what the read routes say of a run. *)

\* classify_run
ClassifyRun(r) ==
  IF run[r].status # "completed" THEN run[r].status
  ELSE IF ver[r] = NoVerification THEN "empty"
  ELSE IF ver[r].settled THEN "settled" ELSE "unsettled"

DeltasReportable(r) == ClassifyRun(r) = "settled"

\* classify_engine
ClassifyEngine(pre, post) ==
  CASE pre = NULL /\ post = NULL -> "no_data_both"
    [] pre = NULL /\ post # NULL -> "no_data_pre"
    [] pre # NULL /\ post = NULL -> "no_data_post"
    [] OTHER -> IF post > pre THEN "improved" ELSE IF post < pre THEN "declined" ELSE "no_movement"

-----------------------------------------------------------------------------
Next ==
  \/ ScanNext /\ UNCHANGED <<published, order, ver>>
  \/ \E f \in Fixes : Publish(f)
  \/ \E r \in Runs :
       \/ ResolveShop(r) \/ ResolveMeasuredSet(r) \/ Refuse(r)
       \/ RunVerifier(r) \/ VerificationAborted(r)
  \/ \E r \in Runs, pin \in Pins, force \in BOOLEAN : BindBaseline(r, pin, force)

Spec == Init /\ [][Next]_vars

-----------------------------------------------------------------------------
(* What is shown as a result is a before and an after.  A run whose deltas are reportable is  *)
(* completed, asked its baseline's panel, every answer counted before was asked before any    *)
(* measured fix was stamped, and every answer counted after was asked a settle window later   *)
(* (select_baseline_run, start_verification, run_verifier, classify_run).                     *)
ReportableIsSound ==
  \A r \in Runs : DeltasReportable(r) =>
    LET v == ver[r]
    IN  /\ run[r].status = "completed"
        /\ run[v.base].panel = run[r].panel
        /\ \A f \in DOMAIN v.measured :
             /\ \A t \in v.preAsked : t < v.measured[f]
             /\ \A t \in v.postAsked : t >= v.measured[f] + Settle

\* No data is never a number: a delta, ours or a competitor's, stands for two sides that were
\* answered, and the state shown beside it agrees with its sign (_side_rates, _delta,
\* classify_engine).
NoFabricatedDelta ==
  \A r \in Runs : ver[r] # NoVerification =>
    LET v == ver[r]
        answered == v.preAsked # {} /\ v.postAsked # {}
    IN  /\ v.delta # NULL <=> answered
        /\ (\E b \in DOMAIN v.rivals : v.rivals[b] # NULL) => answered
        /\ ClassifyEngine(v.pre, v.post) = "improved" => answered /\ v.delta > 0
        /\ ClassifyEngine(v.pre, v.post) = "declined" => answered /\ v.delta < 0

\* The manifest is the snapshot the gates judged: whatever is published while the job waits and
\* asks, a row names only fixes that were published when the request was granted, and each of them
\* lies between the two sides, in a forced run too: stamped after every answer counted before, and
\* no later than any answer counted after.  The transaction's start is no such mark: a fix
\* published between its first two reads is measured (baselines.py, "snapshotted here, once").
ManifestIsTheSnapshot ==
  \A r \in Runs : ver[r] # NoVerification =>
    LET v == ver[r]
    IN  \A f \in DOMAIN v.measured :
          /\ published[f] = v.measured[f] /\ published[f] <= order[r].decided
          /\ \A t \in v.preAsked : t < published[f]
          /\ \A t \in v.postAsked : published[f] <= t

\* A verification is refused before its panel is paid for: when the job aborts after asking
\* every query, the settle window ended inside the request, after its transaction began, by
\* which the job judges, and no later than its decision (start_verification's gates against
\* run_verifier's).
AbortedOnlyAtTheBoundary ==
  [][\A r \in Runs : VerificationAborted(r) =>
       ~SettledBy(order[r].began, order[r].stamps) /\ SettledBy(order[r].decided, order[r].stamps)]_vars

\* While some usable scan precedes every publish, an unpinned request measures all that was
\* published (select_baseline_run's primary tier).
PrimaryTierDropsNothing ==
  [][\A r \in Runs, force \in BOOLEAN :
       LET stamps == order[r].stamps
       IN  BindBaseline(r, 0, force) /\ ScansBefore(Min(StampsOf(stamps)), 0) # {}
             => order'[r].stamps = stamps]_vars

\* A job that ends says so, and says the truth: its run is terminal, a completed scan has an
\* aggregate (what makes it a baseline), a completed verification a row, and a verification that
\* was refused by its own gates none (jobs/scan.py, jobs/verify.py: the load-bearing commits).
EndIsRecorded ==
  \A r \in Runs :
    /\ job[r] = "done" => run[r].status \in {"completed", "failed"}
    /\ run[r].status = "completed" =>
         som[r] # NoRow /\ (r \in Verifications => ver[r] # NoVerification)
    /\ ver[r] # NoVerification => order[r].force \/ ver[r].settled

-----------------------------------------------------------------------------
\* The answers a job has so far, as the survey hears them: errors are none.
Heard(r) ==
  {[query |-> rows[r][i].query, answer |-> rows[r][i].answer, asked |-> rows[r][i].asked] :
     i \in {j \in DOMAIN rows[r] : rows[r][j].answer # NULL}}

\* An aggregate counts from the moment its run is completed: only then is it read.
Tally(r) == IF run[r].status = "completed" THEN som[r] ELSE NoRow

Survey(r) == INSTANCE Survey WITH
  None <- NoRow,
  status <- run[r].status, panel <- ToSet(run[r].panel), heard <- Heard(r), tally <- Tally(r)

\* A step that touches nothing of a run is no step of its survey.
SurveysAdvance ==
  \A r \in Runs : UNCHANGED <<run[r], rows[r], som[r]>> \/ [Survey(r)!Next]_(Survey(r)!vars)

\* A scan, and the scan inside a verification, is a survey: although a redelivered job asks every
\* query again under the same run, hears a second answer, fails in the middle and rewrites its
\* aggregate, what a completed run shows counts at most one answer per query of its panel, the
\* freshest, with no mention that its answer does not have, and no later step of a job in the
\* model rewrites it (run_engine, run_extractor, run_share_of_model, complete_agent_run).
ImplementsSurvey == (\A r \in Runs : Survey(r)!Init) /\ [][SurveysAdvance]_vars

=============================================================================
