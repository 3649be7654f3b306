---------------------------- MODULE ScanPipeline ----------------------------
(***************************************************************************)
(* The measurement pipeline: POST /shops/.../scan (api/scan.py), the Arq   *)
(* job run_scan_task (jobs/scan.py) and its nodes EngineRunner, Extractor  *)
(* and ShareOfModelAggregator (graph/), for one shop and one engine.       *)
(*                                                                         *)
(* A request and the agent_runs row it inserts share an id.  The job is    *)
(* cut at its commits, where other jobs, requests, publishes and crashes   *)
(* can get in.  Query texts and brands are atoms; a panel row is           *)
(* identified with its content, as (shop_id, fingerprint) is unique.       *)
(***************************************************************************)
EXTENDS Integers, SequencesExt

CONSTANTS
  Scans,       \* ids of the runs of POST .../scan
  Verifications,   \* ids of the runs of POST .../verify
  Generated,   \* the query texts the Interrogator generates, per tick: releases change them
  MaxQueries,  \* build_query_panel's truncation
  Us, Rivals,  \* the store's brand and the tracked competitors
  Answers,     \* what an answer may name: sets of brands
  Claims,      \* what the extractor may claim of an answer: sets of brands
  NULL,        \* SQL NULL, an engine error, a free lock
  Scale,       \* rates are multiples of 1/Scale
  MaxJobs,     \* jobs the worker runs at once (Arq's max_jobs)
  MaxTime,     \* bound on the clock
  Faults,      \* which failures the environment may inject
  MaxFaults    \* bound on the failures in one behaviour

Runs == Scans \union Verifications
Brands == {Us} \union Rivals

ASSUME ScanAssumption ==
  /\ Runs \subseteq Nat \ {0} /\ IsFiniteSet(Runs) /\ Scans \intersect Verifications = {}
  /\ DOMAIN Generated = 1..MaxTime /\ \A t \in 1..MaxTime : Generated[t] \in Seq(ToSet(Generated[t]))
  /\ MaxQueries \in Nat \ {0}
  /\ Us \notin Rivals
  /\ Answers \subseteq SUBSET Brands /\ Claims \subseteq SUBSET Brands
  /\ NULL \notin Int /\ NULL \notin Answers
  /\ Scale \in Nat /\ \A t \in 1..MaxQueries : Scale % t = 0
  /\ MaxJobs \in Nat \ {0} /\ MaxTime \in Nat \ {0} /\ MaxFaults \in Nat
  /\ Faults \subseteq {"crash", "engine", "enqueue", "error", "extract", "timeout"}

VARIABLES
  now,        \* the clock, in steps of the resolution that matters to the verifier
  run,        \* agent_runs
  rows,       \* engine_runs of each run, in insertion order
  som,        \* share_of_model of each run
  job,        \* where each request, and then its job, is
  faults      \* failures injected so far

scanVars == <<now, run, rows, som, job, faults>>

-----------------------------------------------------------------------------
(* graph/interrogator.py *)

\* _dedupe: first occurrences, in order.
Dedupe(queries) ==
  LET firsts == {i \in DOMAIN queries : \A j \in 1..(i - 1) : queries[j] # queries[i]}
      rank(i) == Cardinality({j \in firsts : j <= i})
  IN  [k \in 1..Cardinality(firsts) |-> queries[CHOOSE i \in firsts : rank(i) = k]]

BuildQueryPanel(time) ==
  LET queries == Dedupe(Generated[time])
  IN  SubSeq(queries, 1, Min({MaxQueries, Len(queries)}))

Panels == {BuildQueryPanel(t) : t \in DOMAIN Generated}
Queries == UNION {ToSet(p) : p \in Panels}

-----------------------------------------------------------------------------
NoRun == [status |-> "none", panel |-> <<>>, completed |-> 0]
NoRow == [total |-> NULL]

Time == 1..MaxTime
Rates == 0..Scale

\* asked is a history variable: when the engine was asked.
EngineRun == [query : Queries, answer : Answers \union {NULL},
              cited : (SUBSET Brands) \union {NULL}, asked : Time]

\* rivals is empty when nothing was usable; asked collects the counted answers' times.
ShareOfModel == [mentions : Nat, total : Nat, rate : Rates \union {NULL},
                 rivals : [Rivals -> Rates] \union {<<>>}, asked : SUBSET Time]

\* "created": the row is committed and the job is not enqueued yet; "lost": no process will
\* ever touch the run again although it may not be terminal.
JobPc == {"idle", "opened", "resolved", "created", "ask", "extract", "share", "verify",
          "finish", "done", "lost"}

ScanTypeOK ==
  /\ now \in Time
  /\ run \in [Runs -> {NoRun} \union
                [status : {"running", "completed", "failed"}, panel : Panels,
                 completed : {0} \union Time]]
  /\ rows \in [Runs -> Seq(EngineRun)]
  /\ som \in [Runs -> {NoRow} \union ShareOfModel]
  /\ job \in [Runs -> JobPc]
  /\ faults \in 0..MaxFaults

ScanInit ==
  /\ now = 1
  /\ run = [r \in Runs |-> NoRun]
  /\ rows = [r \in Runs |-> <<>>]
  /\ som = [r \in Runs |-> NoRow]
  /\ job = [r \in Runs |-> "idle"]
  /\ faults = 0

-----------------------------------------------------------------------------
JobAt(r, label) == job' = [job EXCEPT ![r] = label]

\* Inside the try of the job: an exception here is handled.
InTry(r) == job[r] \in {"ask", "extract", "share", "verify", "finish"}

Fault(kind) ==
  /\ kind \in Faults
  /\ faults < MaxFaults
  /\ faults' = faults + 1

\* The ids of a kind are used in order.
NextOf(kind, r) == r \in kind /\ job[r] = "idle" /\ \A q \in kind : q < r => job[q] # "idle"

\* create_agent_run.  started_at, the start of the request's transaction, matters to a
\* verification only, which keeps it among its own.
CreateAgentRun(r, panel) ==
  run' = [run EXCEPT ![r] = [status |-> "running", panel |-> panel, completed |-> 0]]

\* The status is never written.
CompleteAgentRunMutOnlyStamps(r, status) == run' = [run EXCEPT ![r].completed = now]

\* complete_agent_run, committed by the caller
CompleteAgentRun(r, status) ==
  run' = [run EXCEPT ![r].status = status, ![r].completed = now]

\* Nothing reads the engine_runs of a run whose job is over: they are left out from then on.
ForgetRows(r) == rows' = [rows EXCEPT ![r] = <<>>]

\* start_scan up to its commit: the panel is upserted and the run created.
StartScan(r) ==
  /\ NextOf(Scans, r)
  /\ CreateAgentRun(r, BuildQueryPanel(now))
  /\ JobAt(r, "created")
  /\ UNCHANGED <<now, rows, som, faults>>

\* _enqueue, of a scan or of a verification.
Enqueue(r) ==
  /\ job[r] = "created"
  /\ JobAt(r, "ask")
  /\ UNCHANGED <<now, run, rows, som, faults>>

\* Redis refuses the job, or the API dies before it asks: nobody will execute the run.
EnqueueLost(r) ==
  /\ job[r] = "created" /\ Fault("enqueue")
  /\ JobAt(r, "lost")
  /\ UNCHANGED <<now, run, rows, som>>

Running == {r \in Runs : job[r] \in {"extract", "share", "verify", "finish"}}

\* run_query: an answer, or EngineError at the retry cap or a terminal status.
AnswersTo(panel, failed) ==
  {reply \in [ToSet(panel) -> Answers \union {NULL}] :
     \A q \in ToSet(panel) : reply[q] = NULL <=> q \in failed}

\* The job loads its run and panel and run_engine asks every query: one row each, an error
\* envelope where the engine failed, all in one commit.  upsert_panel locks the panel's row from
\* before the first question to that commit, so that of two jobs of one panel the second asks
\* after the first has committed; one step says as much.
EngineAnswers(r, failed) ==
  /\ job[r] = "ask"
  /\ Cardinality(Running) < MaxJobs
  /\ \E reply \in AnswersTo(run[r].panel, failed) :
       rows' = [rows EXCEPT ![r] = @ \o
                  [i \in DOMAIN run[r].panel |->
                     LET q == run[r].panel[i]
                     IN  [query |-> q, answer |-> reply[q], cited |-> NULL, asked |-> now]]]
  /\ JobAt(r, "extract")
  /\ UNCHANGED <<now, run, som>>

RunEngine(r) == EngineAnswers(r, {}) /\ UNCHANGED faults

\* One query's failure does not sink the batch.
EngineFails(r) == Fault("engine") /\ \E failed \in SUBSET ToSet(run[r].panel) \ {{}} : EngineAnswers(r, failed)

\* _ground: a brand is kept when the answer names it.
Ground(claim, answer) == claim \intersect answer

\* Rows of the run that have an answer and no brands yet.
Eligible(r) == {i \in DOMAIN rows[r] : rows[r][i].cited = NULL /\ rows[r][i].answer # NULL}

\* run_extractor: a row whose extraction fails keeps its NULL.
Extracted(r, claims, failed) ==
  [i \in DOMAIN rows[r] |->
     IF i \in Eligible(r) \ failed
       THEN [rows[r][i] EXCEPT !.cited = Ground(claims[i], rows[r][i].answer)]
       ELSE rows[r][i]]

RunExtractor(r) ==
  /\ job[r] = "extract"
  /\ \E claims \in [Eligible(r) -> Claims] : rows' = [rows EXCEPT ![r] = Extracted(r, claims, {})]
  /\ JobAt(r, "share")
  /\ UNCHANGED <<now, run, som, faults>>

\* The extractor fails on one answer: a refusal, a truncated reply, the retry cap.
RunExtractorFails(r) ==
  /\ job[r] = "extract" /\ Fault("extract")
  /\ \E claims \in [Eligible(r) -> Claims], i \in Eligible(r) :
       rows' = [rows EXCEPT ![r] = Extracted(r, claims, {i})]
  /\ JobAt(r, "share")
  /\ UNCHANGED <<now, run, som>>

\* Every row counts.
LatestPerQueryMutAll(r) == DOMAIN rows[r]

\* _latest_per_query
LatestPerQuery(r) ==
  {i \in DOMAIN rows[r] : \A j \in DOMAIN rows[r] : rows[r][j].query = rows[r][i].query => j <= i}

\* A percentage instead of a fraction.
RateOfMutPercent(hits, total) == IF total = 0 THEN NULL ELSE (hits * 100) \div total

\* Mentions of a brand, as a rate of the usable answers; no answers, no rate.
RateOf(hits, total) == IF total = 0 THEN NULL ELSE (hits * Scale) \div total

\* run_share_of_model: the aggregate of one run.
Share(r) ==
  LET usable == {i \in LatestPerQuery(r) : rows[r][i].cited # NULL}
      naming(b) == Cardinality({i \in usable : b \in rows[r][i].cited})
      total == Cardinality(usable)
  IN  [mentions |-> naming(Us), total |-> total, rate |-> RateOf(naming(Us), total),
       rivals |-> IF total = 0 THEN <<>> ELSE [b \in Rivals |-> RateOf(naming(b), total)],
       asked |-> {rows[r][i].asked : i \in usable}]

RunShareOfModel(r) ==
  /\ job[r] = "share"
  /\ som' = [som EXCEPT ![r] = Share(r)]
  /\ JobAt(r, IF r \in Verifications THEN "verify" ELSE "finish")
  /\ UNCHANGED <<now, run, rows, faults>>

\* The load-bearing commit of the terminal status.
Complete(r) ==
  /\ job[r] = "finish"
  /\ CompleteAgentRun(r, "completed")
  /\ JobAt(r, "done")
  /\ ForgetRows(r)
  /\ UNCHANGED <<now, som, faults>>

\* An exception in the try: roll back, mark the run failed, raise.  Arq does not retry it.
JobFails(r) ==
  /\ InTry(r) /\ Fault("error")
  /\ CompleteAgentRun(r, "failed")
  /\ JobAt(r, "done")
  /\ ForgetRows(r)
  /\ UNCHANGED <<now, som>>

\* Arq cancels the job at its time limit: CancelledError passes every handler.
JobTimeout(r) ==
  /\ InTry(r) /\ Fault("timeout")
  /\ JobAt(r, "lost")
  /\ ForgetRows(r)
  /\ UNCHANGED <<now, run, som>>

\* The worker dies: the job is delivered again from its start.  Dying before the first commit
\* leaves nothing behind; dying between the last one and Arq's own record of the end is left out
\* (see the README).
WorkerCrash(r) ==
  /\ InTry(r) /\ job[r] # "ask" /\ Fault("crash")
  /\ JobAt(r, "ask")
  /\ UNCHANGED <<now, run, rows, som>>

Tick ==
  /\ now < MaxTime
  /\ now' = now + 1
  /\ UNCHANGED <<run, rows, som, job, faults>>

\* The steps the job takes by itself.
JobStep(r) ==
  \/ Enqueue(r) \/ RunEngine(r) \/ RunExtractor(r) \/ RunShareOfModel(r)
  \/ Complete(r)

JobFault(r) ==
  \/ EnqueueLost(r) \/ EngineFails(r) \/ RunExtractorFails(r) \/ JobFails(r) \/ JobTimeout(r) \/ WorkerCrash(r)

ScanNext == Tick \/ \E r \in Runs : StartScan(r) \/ JobStep(r) \/ JobFault(r)

-----------------------------------------------------------------------------
(* Every aggregate counts what was said.  When it is stored, every question of the panel was   *)
(* asked; it counts exactly the questions whose last answer was read, each once, and mentions   *)
(* us in exactly those that were read as naming us, which the answer does, although a           *)
(* redelivered job asks every query again under the same run and the extractor over-claims      *)
(* (run_engine, _ground, _latest_per_query).  Nothing read is NULL, never a rate.               *)
CountsAreHonest ==
  \A r \in Runs : job[r] \in {"verify", "finish"} =>
    LET questions(S) == {rows[r][i].query : i \in S}
        later(i) == {j \in DOMAIN rows[r] : j > i}
        read == {i \in DOMAIN rows[r] : /\ rows[r][i].query \notin questions(later(i))
                                        /\ rows[r][i].cited # NULL}
        naming == {i \in read : Us \in rows[r][i].cited}
    IN  /\ questions(DOMAIN rows[r]) = ToSet(run[r].panel)
        /\ som[r].total = Cardinality(questions(read))
        /\ som[r].mentions = Cardinality(questions(naming))
        /\ \A i \in read : /\ rows[r][i].answer # NULL
                            /\ rows[r][i].cited \subseteq rows[r][i].answer
        /\ som[r].rate = NULL <=> read = {}

=============================================================================
