----------------------- MODULE UpliftVerifier_proofs -----------------------
(***************************************************************************)
(* What holds of scans and verifications for any number of them, any       *)
(* panels, answers, fixes, failures and any clock.                         *)
(***************************************************************************)
EXTENDS UpliftVerifier, FiniteSetTheorems, WellFoundedInduction, TLAPS

-----------------------------------------------------------------------------
(* The inductive invariant.  A verification relates four moments: the scan that became its    *)
(* baseline, the request, the answers of its own run and the row written in the end; each part *)
(* says what one of them has settled for the rest.                                             *)

Begun(r) == job[r] \notin {"idle", "opened", "resolved"}

\* Where the job is, and what its tables hold by then.
JobOK(r) ==
  /\ job[r] = "idle" => order[r] = NoOrder
  /\ job[r] \in {"opened", "resolved", "verify"} => r \in Verifications
  /\ ~Begun(r) => run[r] = NoRun /\ rows[r] = <<>> /\ som[r] = NoRow /\ ver[r] = NoVerification
  /\ Begun(r) => run[r] # NoRun
  /\ Begun(r) /\ job[r] # "done" => run[r].status = "running"
  /\ job[r] = "done" => run[r].status # "running" /\ run[r].completed \in 1..now
  /\ job[r] \in {"verify", "finish"} \/ run[r].status = "completed" => som[r] # NoRow
  /\ job[r] = "finish" \/ run[r].status = "completed" =>
       (r \in Verifications => ver[r] # NoVerification)

\* Answers belong to the panel and to the time between the grant and now.
RowsOK(r) ==
  \A i \in DOMAIN rows[r] :
    /\ rows[r][i].query \in ToSet(run[r].panel)
    /\ rows[r][i].asked <= now
    /\ r \in Verifications => order[r].decided <= rows[r][i].asked
    /\ rows[r][i].cited # NULL =>
         rows[r][i].answer # NULL /\ rows[r][i].cited \subseteq rows[r][i].answer

\* An aggregate without answers is all NULL, and its answers are as old as its run.
SomOK(r) ==
  som[r] # NoRow =>
    /\ som[r].total = 0 <=> som[r].asked = {}
    /\ som[r].rate = NULL <=> som[r].total = 0
    /\ som[r].total = 0 => som[r].rivals = <<>>
    /\ \A t \in som[r].asked :
         /\ t <= now
         /\ run[r].status = "completed" => t <= run[r].completed
         /\ r \in Verifications => order[r].decided <= t

\* The rows end with a whole round of the panel from the engine's commit to the end of the job.
RoundOK(r) ==
  job[r] \in {"extract", "share", "verify", "finish"} =>
    \A k \in DOMAIN run[r].panel :
      LET i == Len(rows[r]) - Len(run[r].panel) + k
      IN  i \in DOMAIN rows[r] /\ rows[r][i].query = run[r].panel[k]

\* The questions of some rows, the rows after one, those that are read and those that name us.
QuestionsOf(r, S) == {rows[r][i].query : i \in S}
Later(r, i) == {j \in DOMAIN rows[r] : j > i}
Read(r) == {i \in DOMAIN rows[r] : /\ rows[r][i].query \notin QuestionsOf(r, Later(r, i))
                                  /\ rows[r][i].cited # NULL}
ReadAsUs(r) == {i \in Read(r) : Us \in rows[r][i].cited}

CountsOK(r) ==
  job[r] \in {"verify", "finish"} =>
    /\ som[r].total = Cardinality(QuestionsOf(r, Read(r)))
    /\ som[r].mentions = Cardinality(QuestionsOf(r, ReadAsUs(r)))
    /\ som[r].rate = NULL <=> Read(r) = {}

\* The snapshot of a request is what was published by then.
SnapshotOK(r) ==
  r \in Verifications /\ job[r] # "idle" =>
    /\ order[r].began \in 1..now
    /\ job[r] # "opened" =>
         /\ order[r].stamps \in Stamps /\ DOMAIN order[r].stamps # {}
         /\ \A f \in DOMAIN order[r].stamps :
              published[f] = order[r].stamps[f] /\ published[f] \in 1..now

\* What a granted request was granted on, and when.
GrantOK(r) ==
  r \in Verifications /\ Begun(r) =>
    LET base == order[r].base
    IN  /\ base \in Runs \ {r}
        /\ run[base].status = "completed" /\ run[base].panel = run[r].panel
        /\ \A f \in DOMAIN order[r].stamps :
             run[base].completed < order[r].stamps[f] /\ order[r].stamps[f] <= order[r].decided
        /\ order[r].began <= order[r].decided /\ order[r].decided \in 1..now
        /\ order[r].force \/ SettledBy(order[r].decided, order[r].stamps)

\* No number without two sides.
DeltaOK(v) ==
  LET answered == v.preAsked # {} /\ v.postAsked # {}
  IN  /\ v.delta # NULL <=> answered
      /\ (\E b \in DOMAIN v.rivals : v.rivals[b] # NULL) => answered
      /\ ClassifyEngine(v.pre, v.post) = "improved" => answered /\ v.delta > 0
      /\ ClassifyEngine(v.pre, v.post) = "declined" => answered /\ v.delta < 0

\* A row says what the request was granted on and what was answered before and after.
VerOK(r) ==
  ver[r] # NoVerification =>
    /\ r \in Verifications
    /\ ver[r].base = order[r].base /\ ver[r].measured = order[r].stamps
    /\ ver[r].settled = SettledBy(order[r].began, order[r].stamps)
    /\ order[r].force \/ ver[r].settled
    /\ DeltaOK(ver[r])
    /\ \A t \in ver[r].preAsked : t <= run[order[r].base].completed
    /\ \A t \in ver[r].postAsked : order[r].decided <= t

IInv ==
  /\ TypeOK
  /\ \A f \in Fixes : published[f] <= now
  /\ \A r \in Runs :
       /\ r \in Scans => order[r] = NoOrder
       /\ JobOK(r) /\ RowsOK(r) /\ SomOK(r) /\ RoundOK(r) /\ CountsOK(r)
       /\ SnapshotOK(r) /\ GrantOK(r) /\ VerOK(r)

-----------------------------------------------------------------------------
(* Numbers and sets. *)

LEMMA SmallestNat ==
  ASSUME NEW S \in SUBSET Nat, S # {}
  PROVE  \E i \in S : \A j \in S : i <= j
<1>1. \E R : IsWellFoundedOn(R, Nat) /\ \A i, j \in Nat : i < j => <<i, j>> \in R
  <2> DEFINE R == OpToRel(<, Nat)
  <2>1. IsWellFoundedOn(R, Nat)
    BY NatLessThanWellFounded
  <2>2. \A i, j \in Nat : i < j => <<i, j>> \in R
    BY DEF OpToRel
  <2> HIDE DEF R
  <2> QED
    BY <2>1, <2>2, Zenon
<1>2. PICK R : IsWellFoundedOn(R, Nat) /\ \A i, j \in Nat : i < j => <<i, j>> \in R
  BY <1>1, Zenon
<1>3. \E i \in S : \A j \in S : ~ (<<j, i>> \in R)
  <2>1. IsWellFoundedOn(R, Nat)
    BY <1>2, Zenon
  <2>2. S \subseteq Nat
    OBVIOUS
  <2>3. \A T : T \subseteq Nat /\ T # {} => \E x \in T : \A y \in T : ~ (<<y, x>> \in R)
    BY <2>1, WFMin, Zenon
  <2> QED
    BY <2>2, <2>3
<1>4. \A i, j \in S : ~ (<<j, i>> \in R) => i <= j
  BY <1>2
<1> QED
  BY <1>3, <1>4, Zenon

LEMMA MinIsLeast ==
  ASSUME NEW S \in SUBSET Time, S # {}
  PROVE  Min(S) \in S /\ \A x \in S : Min(S) <= x
<1>1. \E x \in S : \A y \in S : x <= y
  <2>1. S \in SUBSET Nat
    BY ScanAssumption DEF Time
  <2> QED
    BY <2>1, SmallestNat
<1> QED
  BY <1>1 DEF Min

LEMMA MaxIsGreatest ==
  ASSUME NEW S \in SUBSET Time, S # {}
  PROVE  Max(S) \in S /\ \A x \in S : x <= Max(S)
<1> DEFINE Back == {MaxTime - x : x \in S}
<1>1. Back \in SUBSET Nat /\ Back # {}
  BY ScanAssumption DEF Time
<1>2. PICK i \in Back : \A j \in Back : i <= j
  <2> HIDE DEF Back
  <2> QED
    BY <1>1, SmallestNat
<1>3. PICK x \in S : i = MaxTime - x
  BY <1>2
<1>4. \A y \in S : y <= x
  <2> SUFFICES ASSUME NEW y \in S
               PROVE  y <= x
    OBVIOUS
  <2>1. MaxTime - x <= MaxTime - y
    BY <1>2, <1>3
  <2> QED
    BY <2>1, ScanAssumption DEF Time
<1>5. \A y \in S : x >= y
  BY <1>4, ScanAssumption DEF Time
<1>6. Max(S) \in S /\ \A y \in S : Max(S) >= y
  BY <1>5 DEF Max
<1> QED
  BY <1>6, ScanAssumption DEF Time

\* A share of at most everything is a rate.
LEMMA RateTyped ==
  ASSUME NEW hits \in Nat, NEW total \in Nat, hits <= total
  PROVE  /\ RateOf(hits, total) \in Rates \union {NULL}
         /\ RateOf(hits, total) = NULL <=> total = 0
<1>1. CASE total = 0
  BY <1>1 DEF RateOf
<1>2. CASE total # 0
  <2> DEFINE q == (hits * Scale) \div total
  <2>1. hits * Scale <= total * Scale /\ hits * Scale \in Nat /\ Scale \in Nat
    BY ScanAssumption
  <2>2. q \in Nat /\ total * q <= hits * Scale
    BY <1>2, <2>1
  <2>3. total * q <= total * Scale
    BY <2>1, <2>2
  <2>4. q <= Scale
    BY <1>2, <2>1, <2>2, <2>3
  <2>5. q \in Rates /\ q # NULL
    BY <2>1, <2>2, <2>4, ScanAssumption DEF Rates
  <2>6. RateOf(hits, total) = q
    BY <1>2 DEF RateOf
  <2> HIDE DEF q
  <2> QED
    BY <1>2, <2>5, <2>6
<1> QED
  BY <1>1, <1>2

\* A panel is a sequence of the queries there are, no longer than the truncation.
LEMMA PanelIsSequence ==
  ASSUME NEW p \in Panels
  PROVE  /\ p = [i \in 1..Len(p) |-> p[i]] /\ Len(p) \in Nat /\ DOMAIN p = 1..Len(p)
         /\ Len(p) <= MaxQueries
         /\ \A i \in DOMAIN p : p[i] \in Queries
<1>1. PICK t \in DOMAIN Generated : p = BuildQueryPanel(t)
  BY DEF Panels
<1> DEFINE g == Generated[t]
           firsts == {i \in DOMAIN g : \A j \in 1..(i - 1) : g[j] # g[i]}
           n == Cardinality(firsts)
           d == Dedupe(g)
<1>2. g \in Seq(ToSet(g))
  BY ScanAssumption
<1>3. DOMAIN g = 1..Len(g) /\ Len(g) \in Nat
  BY <1>2
<1>4. IsFiniteSet(DOMAIN g)
  BY <1>3, FS_Interval
<1>5. IsFiniteSet(firsts)
  BY <1>4, FS_Subset
<1>6. n \in Nat
  BY <1>5, FS_CardinalityType
<1>7. DOMAIN d = 1..n
  BY DEF Dedupe
<1>8. Len(d) = n
  <2>1. d = [k \in 1..n |-> d[k]]
    BY DEF Dedupe
  <2> HIDE DEF d, n
  <2> QED
    BY <1>6, <2>1
<1> DEFINE m == Min({MaxQueries, Len(d)})
<1>9. m \in Nat /\ m <= MaxQueries
  <2>1. MaxQueries \in Nat /\ Len(d) \in Nat
    BY <1>6, <1>8, ScanAssumption
  <2> HIDE DEF d, n
  <2>2. \E x \in {MaxQueries, Len(d)} : \A y \in {MaxQueries, Len(d)} : x <= y
    BY <2>1
  <2>3. m \in {MaxQueries, Len(d)} /\ m <= MaxQueries
    BY <2>2 DEF Min
  <2> QED
    BY <2>1, <2>3
<1>10. p = SubSeq(d, 1, m)
  BY <1>1 DEF BuildQueryPanel
<1>11. Len(p) = m /\ DOMAIN p = 1..m /\ p = [i \in 1..m |-> p[i]]
  <2>1. p = [i \in 1..m |-> d[i]]
    <3> HIDE DEF d, m
    <3> QED
      BY <1>9, <1>10
  <2> HIDE DEF d, m
  <2> QED
    BY <1>9, <2>1
<1>12. \A i \in DOMAIN p : p[i] \in ToSet(p)
  BY DEF ToSet
<1>13. ToSet(p) \subseteq Queries
  BY DEF Queries
<1> QED
  BY <1>9, <1>11, <1>12, <1>13, Zenon

-----------------------------------------------------------------------------
(* The aggregate of a run. *)

Usable(r) == {i \in LatestPerQuery(r) : rows[r][i].cited # NULL}
Naming(r, b) == {i \in Usable(r) : b \in rows[r][i].cited}

LEMMA ShareFields ==
  ASSUME NEW r
  PROVE  Share(r) = [mentions |-> Cardinality(Naming(r, Us)), total |-> Cardinality(Usable(r)),
                     rate |-> RateOf(Cardinality(Naming(r, Us)), Cardinality(Usable(r))),
                     rivals |-> IF Cardinality(Usable(r)) = 0 THEN <<>>
                                ELSE [b \in Rivals |->
                                        RateOf(Cardinality(Naming(r, b)), Cardinality(Usable(r)))],
                     asked |-> {rows[r][i].asked : i \in Usable(r)}]
BY DEF Share, Usable, Naming

LEMMA UsableFinite ==
  ASSUME NEW r, rows[r] \in Seq(EngineRun)
  PROVE  /\ Usable(r) \subseteq DOMAIN rows[r] /\ IsFiniteSet(Usable(r))
         /\ Cardinality(Usable(r)) \in Nat
         /\ Cardinality(Usable(r)) = 0 <=> Usable(r) = {}
         /\ \A b : /\ IsFiniteSet(Naming(r, b)) /\ Cardinality(Naming(r, b)) \in Nat
                   /\ Cardinality(Naming(r, b)) <= Cardinality(Usable(r))
<1>1. Usable(r) \subseteq DOMAIN rows[r]
  BY DEF Usable, LatestPerQuery
<1>2. IsFiniteSet(Usable(r))
  <2>1. DOMAIN rows[r] = 1..Len(rows[r]) /\ Len(rows[r]) \in Nat
    OBVIOUS
  <2>2. IsFiniteSet(DOMAIN rows[r])
    BY <2>1, FS_Interval
  <2> QED
    BY <1>1, <2>2, FS_Subset
<1>3. \A b : Naming(r, b) \in SUBSET Usable(r)
  BY DEF Naming
<1>4. \A b : /\ IsFiniteSet(Naming(r, b)) /\ Cardinality(Naming(r, b)) \in Nat
             /\ Cardinality(Naming(r, b)) <= Cardinality(Usable(r))
  BY <1>2, <1>3, FS_Subset, FS_CardinalityType
<1>5. Cardinality(Usable(r)) \in Nat /\ (Cardinality(Usable(r)) = 0 <=> Usable(r) = {})
  BY <1>2, FS_CardinalityType, FS_EmptySet
<1> QED
  BY <1>1, <1>2, <1>4, <1>5

\* No usable answer is NULL everywhere, and a rate is a fraction.
LEMMA ShareTyped ==
  ASSUME NEW r, rows[r] \in Seq(EngineRun)
  PROVE  /\ Share(r) \in ShareOfModel /\ Share(r) # NoRow
         /\ Share(r).total = 0 <=> Share(r).asked = {}
         /\ Share(r).rate = NULL <=> Share(r).total = 0
         /\ Share(r).total = 0 => Share(r).rivals = <<>>
         /\ \A t \in Share(r).asked : \E i \in DOMAIN rows[r] : t = rows[r][i].asked
<1> DEFINE total == Cardinality(Usable(r))
           mentions == Cardinality(Naming(r, Us))
           rate == RateOf(mentions, total)
           rivals == IF total = 0 THEN <<>>
                     ELSE [b \in Rivals |-> RateOf(Cardinality(Naming(r, b)), total)]
           asked == {rows[r][i].asked : i \in Usable(r)}
<1>1. Share(r) = [mentions |-> mentions, total |-> total, rate |-> rate,
                  rivals |-> rivals, asked |-> asked]
  BY ShareFields
<1>2. total \in Nat /\ mentions \in Nat /\ mentions <= total
  BY UsableFinite
<1>3. rate \in Rates \union {NULL} /\ (rate = NULL <=> total = 0)
  BY <1>2, RateTyped
<1>4. rivals \in [Rivals -> Rates] \union {<<>>}
  <2>1. CASE total = 0
    BY <2>1
  <2>2. CASE total # 0
    <3>1. \A b \in Rivals : RateOf(Cardinality(Naming(r, b)), total) \in Rates
      <4> SUFFICES ASSUME NEW b \in Rivals
                   PROVE  RateOf(Cardinality(Naming(r, b)), total) \in Rates
        OBVIOUS
      <4>1. Cardinality(Naming(r, b)) \in Nat /\ Cardinality(Naming(r, b)) <= total
        BY UsableFinite
      <4> QED
        BY <1>2, <2>2, <4>1, RateTyped
    <3> QED
      BY <2>2, <3>1
  <2> QED
    BY <2>1, <2>2
<1>5. \A i \in Usable(r) : i \in DOMAIN rows[r] /\ rows[r][i].asked \in Time
  <2>1. \A i \in DOMAIN rows[r] : rows[r][i] \in EngineRun
    OBVIOUS
  <2> QED
    BY <2>1, UsableFinite DEF EngineRun
<1>6. asked \in SUBSET Time /\ (total = 0 <=> asked = {})
  BY <1>5, UsableFinite
<1>7. \A t \in asked : \E i \in DOMAIN rows[r] : t = rows[r][i].asked
  BY <1>5
<1> HIDE DEF total, mentions, rate, rivals, asked
<1>8. Share(r) \in ShareOfModel
  BY <1>1, <1>2, <1>3, <1>4, <1>6 DEF ShareOfModel
<1>9. Share(r) # NoRow
  <2>1. "mentions" \in DOMAIN Share(r)
    BY <1>1
  <2>2. "mentions" \notin DOMAIN NoRow
    BY DEF NoRow
  <2> QED
    BY <2>1, <2>2
<1>10. total = 0 => rivals = <<>>
  BY DEF rivals
<1> QED
  BY <1>1, <1>3, <1>6, <1>7, <1>8, <1>9, <1>10

LEMMA ImageCardinality ==
  ASSUME NEW W, IsFiniteSet(W), NEW f, \A i, j \in W : f[i] = f[j] => i = j
  PROVE  Cardinality({f[i] : i \in W}) = Cardinality(W)
<1> DEFINE image == {f[i] : i \in W}
           g == [i \in W |-> f[i]]
<1>1. g \in Injection(W, image)
  BY DEF Injection, IsInjective
<1>2. g \in Surjection(W, image)
  BY DEF Surjection
<1>3. ExistsBijection(W, image)
  BY <1>1, <1>2 DEF ExistsBijection, Bijection
<1>4. Cardinality(image) = Cardinality(W)
  <2> HIDE DEF image
  <2> QED
    BY <1>3, FS_Bijection
<1> QED
  BY <1>4

\* What is counted is the last row of each question, when it is read.
LEMMA UsableIsRead ==
  ASSUME NEW r, rows[r] \in Seq(EngineRun)
  PROVE  /\ Usable(r) = Read(r) /\ Naming(r, Us) = ReadAsUs(r)
         /\ \A i, j \in Usable(r) : rows[r][i].query = rows[r][j].query => i = j
<1>1. DOMAIN rows[r] \subseteq Int
  OBVIOUS
<1>2. Usable(r) = Read(r)
  BY <1>1 DEF Usable, LatestPerQuery, Read, QuestionsOf, Later
<1>3. Naming(r, Us) = ReadAsUs(r)
  BY <1>2 DEF Naming, ReadAsUs
<1>4. \A i, j \in Usable(r) : rows[r][i].query = rows[r][j].query => i = j
  <2>1. \A i \in Usable(r) : i \in Int
    BY <1>1 DEF Usable, LatestPerQuery
  <2>2. \A i, j \in Usable(r) : rows[r][i].query = rows[r][j].query => i <= j
    BY DEF Usable, LatestPerQuery
  <2> QED
    BY <2>1, <2>2
<1> QED
  BY <1>2, <1>3, <1>4

\* One answer per query of the panel is counted, and of those that name us.
LEMMA ShareCounted ==
  ASSUME NEW r, rows[r] \in Seq(EngineRun), run[r].panel \in Panels, RowsOK(r)
  PROVE  /\ Share(r).total <= Len(run[r].panel)
         /\ Share(r).total = Cardinality(QuestionsOf(r, Read(r)))
         /\ Share(r).mentions = Cardinality(QuestionsOf(r, ReadAsUs(r)))
         /\ Share(r).total = 0 <=> Read(r) = {}
<1> DEFINE panel == run[r].panel
           ask == [i \in DOMAIN rows[r] |-> rows[r][i].query]
<1>1. Len(panel) \in Nat /\ DOMAIN panel = 1..Len(panel)
  BY PanelIsSequence
<1>2. IsFiniteSet(ToSet(panel)) /\ Cardinality(ToSet(panel)) <= Len(panel)
  <2>1. panel \in Surjection(DOMAIN panel, ToSet(panel))
    <3>1. \A i \in DOMAIN panel : panel[i] \in ToSet(panel)
      BY DEF ToSet
    <3>2. \A t \in ToSet(panel) : \E i \in DOMAIN panel : panel[i] = t
      BY DEF ToSet
    <3>3. panel \in [DOMAIN panel -> ToSet(panel)]
      <4>1. panel = [i \in DOMAIN panel |-> panel[i]]
        BY PanelIsSequence
      <4> QED
        BY <3>1, <4>1
    <3> QED
      BY <3>2, <3>3 DEF Surjection
  <2>2. IsFiniteSet(DOMAIN panel) /\ Cardinality(DOMAIN panel) = Len(panel)
    BY <1>1, FS_Interval
  <2> QED
    BY <2>1, <2>2, FS_Surjection
<1>3. \A i, j \in Usable(r) : rows[r][i].query = rows[r][j].query => i = j
  BY UsableIsRead
<1>4. Usable(r) \subseteq DOMAIN rows[r] /\ IsFiniteSet(Usable(r))
  BY UsableFinite
<1>5. ASSUME NEW W \in SUBSET Usable(r)
      PROVE  Cardinality(QuestionsOf(r, W)) = Cardinality(W)
  <2>1. QuestionsOf(r, W) = {ask[i] : i \in W}
    BY <1>4 DEF QuestionsOf
  <2>2. IsFiniteSet(W)
    BY <1>4, FS_Subset
  <2>3. \A i, j \in W : ask[i] = ask[j] => i = j
    BY <1>3, <1>4
  <2> HIDE DEF ask
  <2> QED
    BY <2>1, <2>2, <2>3, ImageCardinality
<1>6. Share(r).total = Cardinality(Usable(r)) /\ Share(r).mentions = Cardinality(Naming(r, Us))
  BY ShareFields
<1>7. Share(r).total <= Len(panel)
  <2>1. QuestionsOf(r, Usable(r)) \in SUBSET ToSet(panel)
    BY <1>4 DEF QuestionsOf, RowsOK
  <2>2. Cardinality(QuestionsOf(r, Usable(r))) <= Cardinality(ToSet(panel))
    BY <1>2, <2>1, FS_Subset
  <2>3. Cardinality(QuestionsOf(r, Usable(r))) = Cardinality(Usable(r))
    BY <1>5
  <2>4. Cardinality(ToSet(panel)) \in Nat /\ Cardinality(Usable(r)) \in Nat
    BY <1>2, <1>4, FS_CardinalityType
  <2> QED
    BY <1>1, <1>2, <1>6, <2>2, <2>3, <2>4
<1>8. Naming(r, Us) \in SUBSET Usable(r)
  BY DEF Naming
<1>9. Share(r).total = 0 <=> Usable(r) = {}
  BY <1>6, UsableFinite
<1> QED
  BY <1>5, <1>6, <1>7, <1>8, <1>9, UsableIsRead

-----------------------------------------------------------------------------
(* What a step leaves alone. *)

RunInv(r) ==
  /\ r \in Scans => order[r] = NoOrder
  /\ JobOK(r) /\ RowsOK(r) /\ SomOK(r) /\ RoundOK(r) /\ CountsOK(r)
  /\ SnapshotOK(r) /\ GrantOK(r) /\ VerOK(r)

\* Nothing of the run q changes.
Same(q) ==
  /\ run'[q] = run[q] /\ rows'[q] = rows[q] /\ som'[q] = som[q]
  /\ job'[q] = job[q] /\ order'[q] = order[q] /\ ver'[q] = ver[q]

\* Time goes on, a stamp and a completed run are for ever.
Onward ==
  /\ now <= now'
  /\ \A f \in Fixes : published[f] # 0 => published'[f] = published[f]
  /\ \A b \in Runs : run[b].status = "completed" => run'[b] = run[b]

LEMMA Clock ==
  ASSUME TypeOK
  PROVE  now \in Nat /\ now >= 1 /\ now <= MaxTime /\ MaxTime \in Nat
BY ScanAssumption DEF TypeOK, ScanTypeOK, Time

LEMMA ClockNext ==
  ASSUME TypeOK'
  PROVE  now' \in Nat
BY ScanAssumption DEF TypeOK, ScanTypeOK, Time

LEMMA RowIsTyped ==
  ASSUME TypeOK, NEW q \in Runs
  PROVE  /\ rows[q] \in Seq(EngineRun) /\ DOMAIN rows[q] = 1..Len(rows[q]) /\ Len(rows[q]) \in Nat
         /\ \A i \in DOMAIN rows[q] : /\ rows[q][i] \in EngineRun
                                      /\ rows[q][i].asked \in Time
                                      /\ rows[q][i].query \in Queries
<1>1. rows[q] \in Seq(EngineRun)
  BY DEF TypeOK, ScanTypeOK
<1>2. \A i \in DOMAIN rows[q] : rows[q][i] \in EngineRun
  BY <1>1
<1> QED
  BY <1>1, <1>2 DEF EngineRun

LEMMA SomIsTyped ==
  ASSUME TypeOK, NEW q \in Runs, som[q] # NoRow
  PROVE  /\ som[q] \in ShareOfModel /\ som[q].asked \in SUBSET Time /\ som[q].total \in Nat
         /\ som[q].rate \in Rates \union {NULL}
         /\ som[q].rivals \in [Rivals -> Rates] \union {<<>>}
<1>1. som[q] \in ShareOfModel
  BY DEF TypeOK, ScanTypeOK
<1> QED
  BY <1>1 DEF ShareOfModel

LEMMA RunIsTyped ==
  ASSUME TypeOK, NEW q \in Runs
  PROVE  run[q] # NoRun => run[q] \in [status : {"running", "completed", "failed"}, panel : Panels,
                                       completed : {0} \union Time]
BY DEF TypeOK, ScanTypeOK

LEMMA OrderIsTyped ==
  ASSUME TypeOK, NEW q \in Runs
  PROVE  order[q] \in [began : {0} \union Time, stamps : Stamps \union {<<>>},
                       base : {0} \union Runs, force : BOOLEAN, decided : {0} \union Time]
BY DEF TypeOK

\* A completed run's job is over.
LEMMA CompletedIsDone ==
  ASSUME IInv, NEW q \in Runs, run[q].status = "completed"
  PROVE  job[q] = "done" /\ som[q] # NoRow
<1>1. JobOK(q)
  BY DEF IInv
<1>2. Begun(q)
  <2>1. NoRun.status = "none"
    BY DEF NoRun
  <2> QED
    BY <1>1, <2>1 DEF JobOK
<1> QED
  BY <1>1, <1>2 DEF JobOK

\* What a run was granted, and what its row says, stands as long as its order does.
LEMMA SnapshotKept ==
  ASSUME IInv, TypeOK', NEW q \in Runs, Onward, order'[q] = order[q],
         job'[q] # "idle" => job[q] # "idle", job'[q] # "opened" => job[q] # "opened"
  PROVE  SnapshotOK(q)'
<1>1. SnapshotOK(q)
  BY DEF IInv
<1>2. now \in Nat /\ now' \in Nat /\ now <= now'
  BY Clock, ClockNext DEF IInv, Onward
<1>3. ASSUME q \in Verifications, job'[q] # "idle"
      PROVE  order[q].began \in 1..now'
  BY <1>1, <1>2, <1>3 DEF SnapshotOK
<1>4. ASSUME q \in Verifications, job'[q] \notin {"idle", "opened"}
      PROVE  /\ order[q].stamps \in Stamps /\ DOMAIN order[q].stamps # {}
             /\ \A f \in DOMAIN order[q].stamps :
                  published'[f] = order[q].stamps[f] /\ published'[f] \in 1..now'
  <2>1. /\ order[q].stamps \in Stamps /\ DOMAIN order[q].stamps # {}
        /\ \A f \in DOMAIN order[q].stamps :
             published[f] = order[q].stamps[f] /\ published[f] \in 1..now
    BY <1>1, <1>4 DEF SnapshotOK
  <2>2. DOMAIN order[q].stamps \subseteq Fixes
    BY <2>1 DEF Stamps
  <2>3. \A f \in DOMAIN order[q].stamps : published'[f] = published[f]
    BY <2>1, <2>2 DEF Onward
  <2> QED
    BY <1>2, <2>1, <2>3
<1> QED
  BY <1>3, <1>4 DEF SnapshotOK

LEMMA GrantKept ==
  ASSUME IInv, TypeOK', NEW q \in Runs, Onward, order'[q] = order[q],
         Begun(q)' => Begun(q), Begun(q) => run'[q].panel = run[q].panel
  PROVE  GrantOK(q)'
<1>1. GrantOK(q)
  BY DEF IInv
<1>2. q \in Verifications /\ Begun(q) => run'[order[q].base] = run[order[q].base]
  BY <1>1 DEF GrantOK, Onward
<1>3. q \in Verifications /\ Begun(q) => order[q].decided \in 1..now'
  <2>1. now \in Nat /\ now' \in Nat /\ now <= now'
    BY Clock, ClockNext DEF IInv, Onward
  <2> QED
    BY <1>1, <2>1 DEF GrantOK
<1>4. /\ SettledBy(order[q].decided, order[q].stamps)'
           = SettledBy(order[q].decided, order[q].stamps)
      /\ order'[q].decided = order[q].decided /\ order'[q].stamps = order[q].stamps
      /\ order'[q].began = order[q].began /\ order'[q].force = order[q].force
      /\ order'[q].base = order[q].base
  BY DEF SettledBy, StampsOf
<1> QED
  BY <1>1, <1>2, <1>3, <1>4 DEF GrantOK

LEMMA VerKept ==
  ASSUME IInv, NEW q \in Runs, Onward, order'[q] = order[q], ver'[q] = ver[q]
  PROVE  VerOK(q)'
<1>1. VerOK(q) /\ GrantOK(q) /\ JobOK(q)
  BY DEF IInv
<1>2. ver[q] # NoVerification => Begun(q)
  BY <1>1 DEF JobOK
<1>3. ver[q] # NoVerification => run'[order[q].base] = run[order[q].base]
  BY <1>1, <1>2 DEF VerOK, GrantOK, Onward
<1> QED
  BY <1>1, <1>3 DEF VerOK

\* What is asked about a run survives the steps of the others.
LEMMA Frame ==
  ASSUME IInv, NEW q \in Runs, Same(q), Onward, TypeOK'
  PROVE  RunInv(q)'
<1>1. TypeOK
  BY DEF IInv
<1>2. now \in Nat /\ now' \in Nat /\ now <= now'
  BY <1>1, Clock, ClockNext DEF Onward
<1>3. RunInv(q)
  BY DEF IInv, RunInv
<1>4. JobOK(q)'
  <2>1. JobOK(q)
    BY <1>3 DEF RunInv
  <2>2. run'[q] = run[q] /\ rows'[q] = rows[q] /\ som'[q] = som[q]
        /\ job'[q] = job[q] /\ order'[q] = order[q] /\ ver'[q] = ver[q]
    BY DEF Same
  <2>3. job[q] = "done" => run[q].completed \in 1..now'
    BY <1>2, <2>1 DEF JobOK
  <2> QED
    BY <2>1, <2>2, <2>3 DEF JobOK, Begun
<1>5. RowsOK(q)'
  <2>1. RowsOK(q) /\ rows'[q] = rows[q] /\ run'[q] = run[q] /\ order'[q] = order[q]
    BY <1>3 DEF RunInv, Same
  <2>2. \A i \in DOMAIN rows[q] : rows[q][i].asked <= now'
    <3>1. \A i \in DOMAIN rows[q] : rows[q][i].asked \in Int /\ rows[q][i].asked <= now
      BY <1>1, <2>1, RowIsTyped DEF RowsOK, Time
    <3> QED
      BY <1>2, <3>1
  <2> QED
    BY <2>1, <2>2 DEF RowsOK
<1>6. SomOK(q)'
  <2>1. SomOK(q) /\ som'[q] = som[q] /\ run'[q] = run[q] /\ order'[q] = order[q]
    BY <1>3 DEF RunInv, Same
  <2>2. som[q] # NoRow => \A t \in som[q].asked : t <= now'
    <3> SUFFICES ASSUME som[q] # NoRow, NEW t \in som[q].asked
                 PROVE  t <= now'
      OBVIOUS
    <3>1. t \in Int /\ t <= now
      BY <1>1, <2>1, SomIsTyped DEF SomOK, Time
    <3> QED
      BY <1>2, <3>1
  <2> QED
    BY <2>1, <2>2 DEF SomOK
<1>7. CountsOK(q)' /\ RoundOK(q)'
  <2>1. /\ CountsOK(q) /\ RoundOK(q) /\ som'[q] = som[q] /\ run'[q] = run[q]
        /\ rows'[q] = rows[q] /\ job'[q] = job[q]
    BY <1>3 DEF RunInv, Same
  <2>2. CountsOK(q)'
    BY <2>1 DEF CountsOK, QuestionsOf, Read, ReadAsUs, Later
  <2>3. RoundOK(q)'
    BY <2>1 DEF RoundOK
  <2> QED
    BY <2>2, <2>3
<1>8. SnapshotOK(q)'
  BY SnapshotKept DEF Same
<1>9. GrantOK(q)'
  BY GrantKept DEF Same, Begun
<1>10. VerOK(q)'
  BY VerKept DEF Same
<1>11. q \in Scans => order'[q] = NoOrder
  BY <1>3 DEF RunInv, Same
<1> QED
  BY <1>4, <1>5, <1>6, <1>7, <1>8, <1>9, <1>10, <1>11 DEF RunInv

\* A step of one run that is not over.
LEMMA OneRun ==
  ASSUME IInv, NEW r \in Runs, TypeOK', RunInv(r)', job[r] # "done",
         now' = now, published' = published, \A q \in Runs \ {r} : Same(q)
  PROVE  IInv'
<1>1. Onward
  <2>1. \A b \in Runs : run[b].status = "completed" => run'[b] = run[b]
    BY CompletedIsDone DEF Same
  <2>2. now <= now'
    BY Clock DEF IInv
  <2> QED
    BY <2>1, <2>2 DEF Onward
<1>2. \A q \in Runs : RunInv(q)'
  BY <1>1, Frame
<1>3. \A f \in Fixes : published'[f] <= now'
  BY DEF IInv
<1> QED
  BY <1>2, <1>3 DEF IInv, RunInv

LEMMA InvInit == Init => IInv
<1> SUFFICES ASSUME Init
             PROVE  IInv
  OBVIOUS
<1>1. TypeOK
  <2>1. now \in Time /\ faults \in 0..MaxFaults
    BY ScanAssumption DEF Init, ScanInit, Time
  <2>2. rows \in [Runs -> Seq(EngineRun)]
    <3>1. <<>> \in Seq(EngineRun)
      OBVIOUS
    <3> QED
      BY <3>1 DEF Init, ScanInit
  <2>3. job \in [Runs -> JobPc] /\ run \in [Runs -> {NoRun}] /\ som \in [Runs -> {NoRow}]
    BY DEF Init, ScanInit, JobPc
  <2>4. ver \in [Runs -> {NoVerification}] /\ published \in [Fixes -> {0}]
    BY DEF Init
  <2>5. order \in [Runs -> [began : {0} \union Time, stamps : Stamps \union {<<>>},
                           base : {0} \union Runs, force : BOOLEAN, decided : {0} \union Time]]
    BY DEF Init, NoOrder
  <2> QED
    BY <2>1, <2>2, <2>3, <2>4, <2>5 DEF TypeOK, ScanTypeOK
<1>2. \A f \in Fixes : published[f] <= now
  BY DEF Init, ScanInit
<1>3. ASSUME NEW r \in Runs
      PROVE  RunInv(r)
  <2>1. /\ run[r] = NoRun /\ rows[r] = <<>> /\ som[r] = NoRow /\ job[r] = "idle"
        /\ order[r] = NoOrder /\ ver[r] = NoVerification
    BY DEF Init, ScanInit
  <2>2. NoRun.status = "none"
    BY DEF NoRun
  <2>3. JobOK(r) /\ RowsOK(r) /\ SomOK(r) /\ RoundOK(r) /\ CountsOK(r)
    BY <2>1, <2>2 DEF JobOK, Begun, RowsOK, SomOK, RoundOK, CountsOK
  <2>4. SnapshotOK(r) /\ GrantOK(r) /\ VerOK(r)
    BY <2>1 DEF SnapshotOK, GrantOK, VerOK, Begun
  <2> QED
    BY <2>1, <2>3, <2>4 DEF RunInv
<1> QED
  BY <1>1, <1>2, <1>3 DEF IInv, RunInv
-----------------------------------------------------------------------------
(* One step of one run. *)

LEMMA OnwardOf ==
  ASSUME IInv, NEW r \in Runs, job[r] # "done", now' = now, published' = published,
         \A q \in Runs \ {r} : run'[q] = run[q]
  PROVE  Onward
<1>1. \A b \in Runs : run[b].status = "completed" => run'[b] = run[b]
  BY CompletedIsDone
<1>2. now <= now'
  BY Clock DEF IInv
<1> QED
  BY <1>1, <1>2 DEF Onward

\* A job that goes on with what it was granted.
LEMMA BegunStep ==
  ASSUME IInv, NEW r \in Runs, Begun(r), job[r] # "done", Begun(r)', TypeOK',
         now' = now, published' = published, order' = order, ver' = ver,
         run'[r].panel = run[r].panel, \A q \in Runs \ {r} : Same(q),
         JobOK(r)', RowsOK(r)', SomOK(r)', RoundOK(r)', CountsOK(r)'
  PROVE  IInv'
<1>1. Onward
  BY OnwardOf DEF Same
<1>2. SnapshotOK(r)'
  BY <1>1, SnapshotKept DEF Begun
<1>3. GrantOK(r)'
  BY <1>1, GrantKept
<1>4. VerOK(r)'
  BY <1>1, VerKept
<1>5. r \in Scans => order'[r] = NoOrder
  BY DEF IInv
<1>6. RunInv(r)'
  BY <1>2, <1>3, <1>4, <1>5 DEF RunInv
<1> QED
  BY <1>6, OneRun

LEMMA Moves ==
  ASSUME TypeOK, NEW r \in Runs, NEW label \in JobPc, JobAt(r, label)
  PROVE  /\ job' \in [Runs -> JobPc] /\ job'[r] = label
         /\ \A q \in Runs \ {r} : job'[q] = job[q]
BY DEF TypeOK, ScanTypeOK, JobAt

LEMMA Creates ==
  ASSUME TypeOK, NEW r \in Runs, NEW panel \in Panels, CreateAgentRun(r, panel)
  PROVE  /\ run' \in [Runs -> {NoRun} \union [status : {"running", "completed", "failed"},
                                               panel : Panels, completed : {0} \union Time]]
         /\ run'[r] # NoRun /\ run'[r].status = "running" /\ run'[r].panel = panel
         /\ \A q \in Runs \ {r} : run'[q] = run[q]
<1> DEFINE new == [status |-> "running", panel |-> panel, completed |-> 0]
<1>1. new \in [status : {"running", "completed", "failed"}, panel : Panels,
               completed : {0} \union Time]
  OBVIOUS
<1>2. new.status = "running" /\ NoRun.status = "none" /\ new.panel = panel
  BY DEF NoRun
<1>3. run' = [run EXCEPT ![r] = new]
  BY DEF CreateAgentRun
<1> HIDE DEF new
<1> QED
  BY <1>1, <1>2, <1>3 DEF TypeOK, ScanTypeOK

LEMMA Completes ==
  ASSUME TypeOK, NEW r \in Runs, run[r] # NoRun, NEW status \in {"completed", "failed"},
         CompleteAgentRun(r, status)
  PROVE  /\ run' \in [Runs -> {NoRun} \union [status : {"running", "completed", "failed"},
                                               panel : Panels, completed : {0} \union Time]]
         /\ run'[r] # NoRun /\ run'[r].status = status
         /\ run'[r].panel = run[r].panel /\ run'[r].completed = now
         /\ \A q \in Runs \ {r} : run'[q] = run[q]
<1> DEFINE new == [status |-> status, panel |-> run[r].panel, completed |-> now]
<1>1. new \in [status : {"running", "completed", "failed"}, panel : Panels,
               completed : {0} \union Time]
  BY RunIsTyped DEF TypeOK, ScanTypeOK
<1>2. /\ new.status = status /\ NoRun.status = "none"
      /\ new.panel = run[r].panel /\ new.completed = now
  BY DEF NoRun
<1>3. run' = [run EXCEPT ![r] = new]
  <2>1. run' = [run EXCEPT ![r] = [[run[r] EXCEPT !.status = status] EXCEPT !.completed = now]]
    BY DEF CompleteAgentRun, TypeOK, ScanTypeOK
  <2>2. [[run[r] EXCEPT !.status = status] EXCEPT !.completed = now] = new
    <3>1. [run[r] EXCEPT !.status = status]
            = [status |-> status, panel |-> run[r].panel, completed |-> run[r].completed]
      BY RunIsTyped
    <3>2. [[status |-> status, panel |-> run[r].panel, completed |-> run[r].completed]
             EXCEPT !.completed = now] = new
      OBVIOUS
    <3> QED
      BY <3>1, <3>2
  <2> QED
    BY <2>1, <2>2
<1> HIDE DEF new
<1> QED
  BY <1>1, <1>2, <1>3 DEF TypeOK, ScanTypeOK

LEMMA Forgets ==
  ASSUME TypeOK, NEW r \in Runs, ForgetRows(r)
  PROVE  /\ rows' \in [Runs -> Seq(EngineRun)] /\ rows'[r] = <<>>
         /\ \A q \in Runs \ {r} : rows'[q] = rows[q]
<1>1. <<>> \in Seq(EngineRun)
  OBVIOUS
<1> QED
  BY <1>1 DEF TypeOK, ScanTypeOK, ForgetRows

LEMMA StepStartScan ==
  ASSUME IInv, NEW r \in Runs, StartScan(r), UNCHANGED <<published, order, ver>>
  PROVE  IInv'
<1> USE DEF StartScan, NextOf
<1>1. TypeOK /\ RunInv(r)
  BY DEF IInv, RunInv
<1>2. r \in Scans /\ r \notin Verifications /\ job[r] = "idle"
  BY ScanAssumption
<1>3. rows[r] = <<>> /\ som[r] = NoRow /\ ver[r] = NoVerification
  BY <1>1, <1>2 DEF RunInv, JobOK, Begun
<1>4. BuildQueryPanel(now) \in Panels
  BY <1>1, ScanAssumption DEF Panels, TypeOK, ScanTypeOK, Time
<1>5. /\ run' \in [Runs -> {NoRun} \union [status : {"running", "completed", "failed"},
                                            panel : Panels, completed : {0} \union Time]]
      /\ run'[r] # NoRun /\ run'[r].status = "running"
      /\ \A q \in Runs \ {r} : run'[q] = run[q]
  BY <1>1, <1>4, Creates
<1>6. job' \in [Runs -> JobPc] /\ job'[r] = "created" /\ \A q \in Runs \ {r} : job'[q] = job[q]
  BY <1>1, Moves DEF JobPc
<1>7. TypeOK'
  BY <1>1, <1>5, <1>6 DEF TypeOK, ScanTypeOK
<1>8. \A q \in Runs \ {r} : Same(q)
  BY <1>5, <1>6 DEF Same
<1>9. JobOK(r)' /\ RowsOK(r)' /\ SomOK(r)' /\ RoundOK(r)' /\ CountsOK(r)'
  BY <1>2, <1>3, <1>5, <1>6 DEF JobOK, Begun, RowsOK, SomOK, RoundOK, CountsOK
<1>10. SnapshotOK(r)' /\ GrantOK(r)' /\ VerOK(r)'
  BY <1>2, <1>3 DEF SnapshotOK, GrantOK, VerOK
<1>11. order'[r] = NoOrder
  BY <1>1, <1>2 DEF RunInv
<1>12. RunInv(r)'
  BY <1>9, <1>10, <1>11 DEF RunInv
<1> QED
  BY <1>2, <1>7, <1>8, <1>12, OneRun

\* The job is where it was not, nothing else changes: enqueued, lost, or delivered again.
LEMMA StepMove ==
  ASSUME IInv, NEW r \in Runs, NEW label \in {"ask", "lost"}, Begun(r), job[r] # "done",
         JobAt(r, label), faults' \in 0..MaxFaults,
         UNCHANGED <<now, run, rows, som, published, order, ver>>
  PROVE  IInv'
<1>1. TypeOK /\ JobOK(r) /\ RowsOK(r) /\ SomOK(r)
  BY DEF IInv
<1>2. job' \in [Runs -> JobPc] /\ job'[r] = label /\ \A q \in Runs \ {r} : job'[q] = job[q]
  BY <1>1, Moves DEF JobPc
<1>3. TypeOK'
  BY <1>1, <1>2 DEF TypeOK, ScanTypeOK
<1>4. \A q \in Runs \ {r} : Same(q)
  BY <1>2 DEF Same
<1>5. Begun(r)' /\ JobOK(r)' /\ RoundOK(r)' /\ CountsOK(r)'
  BY <1>1, <1>2 DEF JobOK, Begun, RoundOK, CountsOK
<1>6. RowsOK(r)' /\ SomOK(r)'
  BY <1>1 DEF RowsOK, SomOK
<1> QED
  BY <1>3, <1>4, <1>5, <1>6, BegunStep

LEMMA FaultsBounded ==
  ASSUME TypeOK, NEW kind, Fault(kind)
  PROVE  faults' \in 0..MaxFaults
BY ScanAssumption DEF Fault, TypeOK, ScanTypeOK

LEMMA ListIsSeq ==
  ASSUME NEW S, NEW n \in Nat, NEW s, s = [i \in 1..n |-> s[i]], \A i \in 1..n : s[i] \in S
  PROVE  s \in Seq(S) /\ Len(s) = n /\ DOMAIN s = 1..n
OBVIOUS

LEMMA Joined ==
  ASSUME NEW S, NEW s \in Seq(S), NEW t \in Seq(S)
  PROVE  /\ s \o t \in Seq(S) /\ DOMAIN (s \o t) = 1..(Len(s) + Len(t))
         /\ \A i \in 1..(Len(s) + Len(t)) :
              (s \o t)[i] = IF i <= Len(s) THEN s[i] ELSE t[i - Len(s)]
OBVIOUS

\* The rows of one round of questions follow those there were.
Appended(r, new) ==
  /\ DOMAIN rows'[r] = 1..(Len(rows[r]) + Len(new))
  /\ \A i \in DOMAIN rows'[r] :
       rows'[r][i] = IF i <= Len(rows[r]) THEN rows[r][i] ELSE new[i - Len(rows[r])]
  /\ \A k \in DOMAIN new :
       /\ new[k].query \in ToSet(run[r].panel) /\ new[k].asked = now /\ new[k].cited = NULL
       /\ \A l \in DOMAIN new : new[k].query = new[l].query => new[k].answer = new[l].answer

\* They are the panel's, in its order.
OfPanel(r, new) ==
  /\ Len(new) = Len(run[r].panel) /\ DOMAIN new = DOMAIN run[r].panel
  /\ \A k \in DOMAIN new : new[k].query = run[r].panel[k]

LEMMA LengthOf ==
  ASSUME NEW S, NEW s \in Seq(S), NEW n \in Nat, DOMAIN s = 1..n
  PROVE  Len(s) = n
<1>1. s = [i \in 1..n |-> s[i]] /\ \A i \in 1..n : s[i] \in S
  OBVIOUS
<1> QED
  BY <1>1, ListIsSeq

\* A round appends an answer or an error to every query of the panel, one to each.
LEMMA RowsAppended ==
  ASSUME IInv, NEW r \in Runs, NEW failed, EngineAnswers(r, failed)
  PROVE  /\ rows' \in [Runs -> Seq(EngineRun)] /\ \A q \in Runs \ {r} : rows'[q] = rows[q]
         /\ \E new \in Seq(EngineRun) : Appended(r, new) /\ OfPanel(r, new)
<1> USE DEF EngineAnswers
<1> DEFINE panel == run[r].panel
           answered(reply) == [i \in DOMAIN panel |->
             [query |-> panel[i], answer |-> reply[panel[i]], cited |-> NULL, asked |-> now]]
<1>1. TypeOK /\ JobOK(r)
  BY DEF IInv
<1>2. Begun(r) /\ run[r] # NoRun
  BY <1>1 DEF Begun, JobOK
<1>3. panel \in Panels
  BY <1>1, <1>2, RunIsTyped
<1>4. /\ Len(panel) \in Nat /\ DOMAIN panel = 1..Len(panel)
      /\ \A i \in DOMAIN panel : panel[i] \in Queries /\ panel[i] \in ToSet(panel)
  BY <1>3, PanelIsSequence DEF ToSet
<1>5. PICK reply \in AnswersTo(panel, failed) :
        rows' = [rows EXCEPT ![r] = rows[r] \o answered(reply)]
  OBVIOUS
<1> DEFINE new == answered(reply)
<1>6. \A i \in DOMAIN panel : reply[panel[i]] \in Answers \union {NULL}
  <2>1. reply \in [ToSet(panel) -> Answers \union {NULL}]
    BY DEF AnswersTo
  <2> QED
    BY <1>4, <2>1
<1>7. /\ new \in Seq(EngineRun) /\ Len(new) = Len(panel) /\ DOMAIN new = 1..Len(panel)
      /\ \A i \in DOMAIN new : /\ new[i].query = panel[i] /\ new[i].answer = reply[panel[i]]
                               /\ new[i].asked = now /\ new[i].cited = NULL
  <2>1. now \in Time
    BY <1>1 DEF TypeOK, ScanTypeOK
  <2>2. \A i \in 1..Len(panel) :
          [query |-> panel[i], answer |-> reply[panel[i]], cited |-> NULL, asked |-> now] \in EngineRun
    BY <1>4, <1>6, <2>1 DEF EngineRun
  <2>3. new = [i \in 1..Len(panel) |-> new[i]] /\ \A i \in 1..Len(panel) : new[i] \in EngineRun
    BY <1>4, <2>2
  <2>4. \A i \in DOMAIN panel : /\ new[i].query = panel[i] /\ new[i].answer = reply[panel[i]]
                                /\ new[i].asked = now /\ new[i].cited = NULL
    OBVIOUS
  <2> HIDE DEF new
  <2>5. new \in Seq(EngineRun) /\ Len(new) = Len(panel) /\ DOMAIN new = 1..Len(panel)
    BY <1>4, <2>3
  <2> QED
    BY <1>4, <2>4, <2>5
<1> HIDE DEF new
<1>8. rows[r] \in Seq(EngineRun)
  BY <1>1, RowIsTyped
<1>9. /\ rows' \in [Runs -> Seq(EngineRun)] /\ rows'[r] = rows[r] \o new
      /\ \A q \in Runs \ {r} : rows'[q] = rows[q]
  <2>1. rows[r] \o new \in Seq(EngineRun)
    BY <1>7, <1>8
  <2>2. rows' = [rows EXCEPT ![r] = rows[r] \o new]
    BY <1>5 DEF new
  <2> QED
    BY <1>1, <2>1, <2>2 DEF TypeOK, ScanTypeOK
<1>10. /\ DOMAIN rows'[r] = 1..(Len(rows[r]) + Len(new))
       /\ \A i \in DOMAIN rows'[r] :
            rows'[r][i] = IF i <= Len(rows[r]) THEN rows[r][i] ELSE new[i - Len(rows[r])]
  <2> DEFINE old == rows[r]
             both == old \o new
  <2>1. old \in Seq(EngineRun) /\ new \in Seq(EngineRun)
    BY <1>7, <1>8
  <2>2. /\ DOMAIN both = 1..(Len(old) + Len(new))
        /\ \A i \in 1..(Len(old) + Len(new)) :
             both[i] = IF i <= Len(old) THEN old[i] ELSE new[i - Len(old)]
    <3> HIDE DEF old
    <3> QED
      BY <2>1, Joined, Zenon
  <2>3. rows'[r] = both
    BY <1>9
  <2> HIDE DEF both
  <2> QED
    BY <2>2, <2>3
<1>11. \A k \in DOMAIN new :
         /\ new[k].query \in ToSet(panel) /\ new[k].asked = now /\ new[k].cited = NULL
         /\ \A l \in DOMAIN new : new[k].query = new[l].query => new[k].answer = new[l].answer
  BY <1>4, <1>7
<1>12. Appended(r, new)
  BY <1>10, <1>11 DEF Appended
<1>13. OfPanel(r, new)
  BY <1>4, <1>7 DEF OfPanel
<1> QED
  BY <1>7, <1>9, <1>12, <1>13

LEMMA StepAnswers ==
  ASSUME IInv, NEW r \in Runs, NEW failed, EngineAnswers(r, failed), faults' \in 0..MaxFaults,
         UNCHANGED <<published, order, ver>>
  PROVE  IInv'
<1> USE DEF EngineAnswers
<1>1. TypeOK /\ JobOK(r) /\ RowsOK(r) /\ SomOK(r) /\ GrantOK(r)
  BY DEF IInv
<1>2. Begun(r) /\ job[r] = "ask" /\ run[r] # NoRun
  BY <1>1 DEF Begun, JobOK
<1>3. rows' \in [Runs -> Seq(EngineRun)] /\ \A q \in Runs \ {r} : rows'[q] = rows[q]
  BY RowsAppended
<1>4. job' \in [Runs -> JobPc] /\ job'[r] = "extract" /\ \A q \in Runs \ {r} : job'[q] = job[q]
  BY <1>1, Moves DEF JobPc
<1>5. TypeOK'
  BY <1>1, <1>3, <1>4 DEF TypeOK, ScanTypeOK
<1>6. \A q \in Runs \ {r} : Same(q)
  BY <1>3, <1>4 DEF Same
<1>7. Begun(r)' /\ JobOK(r)' /\ CountsOK(r)' /\ SomOK(r)'
  BY <1>1, <1>2, <1>4 DEF JobOK, Begun, CountsOK, SomOK
<1>8. RowsOK(r)'
  <2>1. r \in Verifications => order[r].decided <= now
    BY <1>1, <1>2, Clock DEF GrantOK
  <2>2. now <= now
    BY <1>1, Clock
  <2>3. PICK new \in Seq(EngineRun) : Appended(r, new)
    BY RowsAppended
  <2>4. DOMAIN rows[r] = 1..Len(rows[r]) /\ Len(rows[r]) \in Nat
    BY <1>1, RowIsTyped
  <2>5. DOMAIN new = 1..Len(new) /\ Len(new) \in Nat
    OBVIOUS
  <2>6. ASSUME NEW i \in DOMAIN rows'[r]
        PROVE  /\ rows'[r][i].query \in ToSet(run[r].panel)
               /\ rows'[r][i].asked <= now
               /\ r \in Verifications => order[r].decided <= rows'[r][i].asked
               /\ rows'[r][i].cited # NULL =>
                    rows'[r][i].answer # NULL /\ rows'[r][i].cited \subseteq rows'[r][i].answer
    <3>1. CASE i <= Len(rows[r])
      <4>1. i \in DOMAIN rows[r] /\ rows'[r][i] = rows[r][i]
        BY <2>3, <2>4, <2>5, <3>1 DEF Appended
      <4> QED
        BY <1>1, <4>1 DEF RowsOK
    <3>2. CASE ~(i <= Len(rows[r]))
      <4>1. i - Len(rows[r]) \in DOMAIN new /\ rows'[r][i] = new[i - Len(rows[r])]
        <5>1. i \in 1..(Len(rows[r]) + Len(new))
          BY <2>3 DEF Appended
        <5>2. i - Len(rows[r]) \in DOMAIN new
          BY <2>4, <2>5, <3>2, <5>1
        <5> QED
          BY <2>3, <3>2, <5>2 DEF Appended
      <4> QED
        BY <2>1, <2>2, <2>3, <4>1 DEF Appended
    <3> QED
      BY <3>1, <3>2
  <2> QED
    BY <2>6 DEF RowsOK
<1>9. RoundOK(r)'
  <2> DEFINE old == Len(rows[r])
             size == Len(run[r].panel)
             panel == run[r].panel
  <2>1. PICK new \in Seq(EngineRun) : Appended(r, new) /\ OfPanel(r, new)
    BY RowsAppended
  <2>2. old \in Nat /\ rows'[r] \in Seq(EngineRun)
    BY <1>1, <1>3, RowIsTyped
  <2>3. DOMAIN panel = 1..size /\ size \in Nat
    BY <1>1, <1>2, RunIsTyped, PanelIsSequence
  <2>4. /\ DOMAIN rows'[r] = 1..(old + size) /\ DOMAIN new = 1..size
        /\ \A i \in DOMAIN rows'[r] : ~(i <= old) => rows'[r][i] = new[i - old]
        /\ \A k \in DOMAIN new : new[k].query = panel[k]
    BY <2>1, <2>3 DEF Appended, OfPanel
  <2>5. Len(rows'[r]) = old + size
    <3> HIDE DEF old, size
    <3>1. old + size \in Nat
      BY <2>2, <2>3
    <3> QED
      BY <2>2, <2>4, <3>1, LengthOf
  <2> HIDE DEF old, size, panel
  <2>6. ASSUME NEW k \in DOMAIN panel
        PROVE  LET i == Len(rows'[r]) - size + k
               IN  i \in DOMAIN rows'[r] /\ rows'[r][i].query = panel[k]
    <3>1. k \in 1..size
      BY <2>3
    <3>2. /\ old + k \in 1..(old + size) /\ ~(old + k <= old) /\ (old + k) - old = k
          /\ (old + size) - size + k = old + k
      BY <2>2, <2>3, <3>1
    <3>3. rows'[r][old + k] = new[k] /\ new[k].query = panel[k]
      BY <2>4, <3>1, <3>2
    <3> QED
      BY <2>4, <2>5, <3>2, <3>3
  <2> QED
    BY <1>2, <2>6 DEF RoundOK, size, panel
<1> QED
  BY <1>2, <1>5, <1>6, <1>7, <1>8, <1>9, BegunStep

\* Extraction adds to a row the brands its answer names, and changes nothing else of it.
LEMMA RowsExtracted ==
  ASSUME IInv, NEW r \in Runs, NEW failed, NEW claims
  PROVE  LET new == Extracted(r, claims, failed)
         IN  /\ new \in Seq(EngineRun) /\ DOMAIN new = DOMAIN rows[r]
             /\ \A i \in DOMAIN rows[r] :
                  /\ new[i].query = rows[r][i].query
                  /\ new[i].asked = rows[r][i].asked /\ new[i].answer = rows[r][i].answer
                  /\ \/ new[i].cited = rows[r][i].cited
                     \/ new[i].answer # NULL /\ new[i].cited \subseteq new[i].answer
<1> DEFINE new == Extracted(r, claims, failed)
<1>1. /\ rows[r] \in Seq(EngineRun) /\ DOMAIN rows[r] = 1..Len(rows[r]) /\ Len(rows[r]) \in Nat
      /\ \A i \in DOMAIN rows[r] : rows[r][i] \in EngineRun
  BY RowIsTyped DEF IInv
<1>2. \A i \in DOMAIN rows[r] :
        /\ new[i] \in EngineRun /\ new[i].query = rows[r][i].query
        /\ new[i].asked = rows[r][i].asked /\ new[i].answer = rows[r][i].answer
        /\ \/ new[i].cited = rows[r][i].cited
           \/ new[i].answer # NULL /\ new[i].cited \subseteq new[i].answer
  <2> SUFFICES ASSUME NEW i \in DOMAIN rows[r]
               PROVE  /\ new[i] \in EngineRun /\ new[i].query = rows[r][i].query
                      /\ new[i].asked = rows[r][i].asked /\ new[i].answer = rows[r][i].answer
                      /\ \/ new[i].cited = rows[r][i].cited
                         \/ new[i].answer # NULL /\ new[i].cited \subseteq new[i].answer
    OBVIOUS
  <2>1. CASE i \in Eligible(r) \ failed
    <3> DEFINE kept == Ground(claims[i], rows[r][i].answer)
    <3>1. new[i] = [rows[r][i] EXCEPT !.cited = kept]
      BY <2>1 DEF Extracted
    <3>2. rows[r][i].answer # NULL /\ rows[r][i].answer \in Answers
      BY <1>1, <2>1 DEF Eligible, EngineRun
    <3>3. kept \subseteq rows[r][i].answer /\ kept \in SUBSET Brands
      BY <3>2, ScanAssumption DEF Ground
    <3> HIDE DEF kept, new
    <3>4. new[i] \in EngineRun /\ new[i].query = rows[r][i].query
          /\ new[i].asked = rows[r][i].asked /\ new[i].answer = rows[r][i].answer /\ new[i].cited = kept
      BY <1>1, <3>1, <3>3 DEF EngineRun
    <3> QED
      BY <3>2, <3>3, <3>4
  <2>2. CASE i \notin Eligible(r) \ failed
    <3>1. new[i] = rows[r][i]
      BY <2>2 DEF Extracted
    <3> QED
      BY <1>1, <3>1
  <2> QED
    BY <2>1, <2>2
<1>3. DOMAIN new = DOMAIN rows[r] /\ new \in Seq(EngineRun)
  <2>1. new = [i \in 1..Len(rows[r]) |-> new[i]] /\ DOMAIN new = DOMAIN rows[r]
    BY <1>1 DEF Extracted
  <2>2. \A i \in 1..Len(rows[r]) : new[i] \in EngineRun
    BY <1>1, <1>2
  <2> HIDE DEF new
  <2> QED
    BY <1>1, <2>1, <2>2, ListIsSeq
<1> QED
  BY <1>2, <1>3

LEMMA StepExtracted ==
  ASSUME IInv, NEW r \in Runs, NEW failed, NEW claims, job[r] = "extract",
         rows' = [rows EXCEPT ![r] = Extracted(r, claims, failed)], JobAt(r, "share"),
         faults' \in 0..MaxFaults, UNCHANGED <<now, run, som, published, order, ver>>
  PROVE  IInv'
<1> DEFINE new == Extracted(r, claims, failed)
<1>1. TypeOK /\ JobOK(r) /\ RowsOK(r) /\ SomOK(r) /\ RoundOK(r)
  BY DEF IInv
<1>2. Begun(r)
  BY DEF Begun
<1>3. /\ new \in Seq(EngineRun) /\ DOMAIN new = DOMAIN rows[r]
      /\ \A i \in DOMAIN rows[r] :
           /\ new[i].query = rows[r][i].query
           /\ new[i].asked = rows[r][i].asked /\ new[i].answer = rows[r][i].answer
           /\ \/ new[i].cited = rows[r][i].cited
              \/ new[i].answer # NULL /\ new[i].cited \subseteq new[i].answer
  BY RowsExtracted
<1> HIDE DEF new
<1>4. /\ rows' \in [Runs -> Seq(EngineRun)] /\ rows'[r] = new
      /\ \A q \in Runs \ {r} : rows'[q] = rows[q]
  <2>1. rows' = [rows EXCEPT ![r] = new]
    BY DEF new
  <2> QED
    BY <1>1, <1>3, <2>1 DEF TypeOK, ScanTypeOK
<1>5. job' \in [Runs -> JobPc] /\ job'[r] = "share" /\ \A q \in Runs \ {r} : job'[q] = job[q]
  BY <1>1, Moves DEF JobPc
<1>6. TypeOK'
  BY <1>1, <1>4, <1>5 DEF TypeOK, ScanTypeOK
<1>7. \A q \in Runs \ {r} : Same(q)
  BY <1>4, <1>5 DEF Same
<1>8. Begun(r)' /\ JobOK(r)' /\ CountsOK(r)' /\ SomOK(r)'
  BY <1>1, <1>2, <1>5 DEF JobOK, Begun, CountsOK, SomOK
<1>9. RowsOK(r)'
  <2>1. \A i \in DOMAIN new :
          /\ new[i].query \in ToSet(run[r].panel)
          /\ new[i].asked <= now
          /\ r \in Verifications => order[r].decided <= new[i].asked
          /\ new[i].cited # NULL => new[i].answer # NULL /\ new[i].cited \subseteq new[i].answer
    BY <1>1, <1>3 DEF RowsOK
  <2> QED
    BY <1>4, <2>1 DEF RowsOK
<1>10. RoundOK(r)'
  <2>1. Len(new) = Len(rows[r])
    <3>1. DOMAIN new = 1..Len(rows[r]) /\ Len(rows[r]) \in Nat
      BY <1>1, <1>3, RowIsTyped
    <3> QED
      BY <1>3, <3>1, LengthOf
  <2>2. \A i \in DOMAIN rows[r] : i \in DOMAIN new /\ new[i].query = rows[r][i].query
    BY <1>3
  <2>3. ASSUME NEW k \in DOMAIN run[r].panel
        PROVE  LET i == Len(new) - Len(run[r].panel) + k
               IN  i \in DOMAIN new /\ new[i].query = run[r].panel[k]
    <3> DEFINE i == Len(rows[r]) - Len(run[r].panel) + k
    <3>1. i \in DOMAIN rows[r] /\ rows[r][i].query = run[r].panel[k]
      BY <1>1 DEF RoundOK
    <3> HIDE DEF i
    <3>2. i \in DOMAIN new /\ new[i].query = run[r].panel[k]
      BY <2>2, <3>1
    <3> QED
      BY <2>1, <3>2, Zenon DEF i
  <2> QED
    BY <1>4, <2>3, Zenon DEF RoundOK
<1> QED
  BY <1>2, <1>6, <1>7, <1>8, <1>9, <1>10, BegunStep

LEMMA StepShare ==
  ASSUME IInv, NEW r \in Runs, RunShareOfModel(r), UNCHANGED <<published, order, ver>>
  PROVE  IInv'
<1> USE DEF RunShareOfModel
<1> DEFINE share == Share(r)
           next == IF r \in Verifications THEN "verify" ELSE "finish"
<1>1. TypeOK /\ JobOK(r) /\ RowsOK(r) /\ SomOK(r) /\ RoundOK(r)
  BY DEF IInv
<1>2. Begun(r) /\ run[r] # NoRun /\ run[r].status = "running"
  BY <1>1 DEF Begun, JobOK
<1>3. rows[r] \in Seq(EngineRun) /\ run[r].panel \in Panels
  BY <1>1, <1>2, RowIsTyped, RunIsTyped
<1>4. /\ share \in ShareOfModel /\ share # NoRow
      /\ share.total = 0 <=> share.asked = {}
      /\ share.rate = NULL <=> share.total = 0
      /\ share.total = 0 => share.rivals = <<>>
      /\ \A t \in share.asked : \E i \in DOMAIN rows[r] : t = rows[r][i].asked
  BY <1>3, ShareTyped
<1>5. /\ share.total = Cardinality(QuestionsOf(r, Read(r)))
      /\ share.mentions = Cardinality(QuestionsOf(r, ReadAsUs(r)))
      /\ share.total = 0 <=> Read(r) = {}
  BY <1>1, <1>3, ShareCounted
<1> HIDE DEF share
<1>6. /\ som' \in [Runs -> {NoRow} \union ShareOfModel] /\ som'[r] = share
      /\ \A q \in Runs \ {r} : som'[q] = som[q]
  BY <1>1, <1>4 DEF TypeOK, ScanTypeOK, share
<1>7. next \in JobPc
  BY DEF JobPc
<1>8. job' \in [Runs -> JobPc] /\ job'[r] = next /\ \A q \in Runs \ {r} : job'[q] = job[q]
  BY <1>1, <1>7, Moves
<1>9. TypeOK'
  BY <1>1, <1>6, <1>8 DEF TypeOK, ScanTypeOK
<1>10. \A q \in Runs \ {r} : Same(q)
  BY <1>6, <1>8 DEF Same
<1>11. Begun(r)' /\ JobOK(r)'
  BY <1>1, <1>2, <1>4, <1>6, <1>8 DEF JobOK, Begun
<1>12. RowsOK(r)' /\ RoundOK(r)'
  BY <1>1 DEF RowsOK, RoundOK
<1>13. SomOK(r)'
  <2>1. \A t \in share.asked : t <= now /\ (r \in Verifications => order[r].decided <= t)
    BY <1>1, <1>4 DEF RowsOK
  <2> QED
    BY <1>2, <1>4, <1>6, <2>1 DEF SomOK
<1>14. CountsOK(r)'
  <2>1. som'[r].rate = NULL <=> Read(r) = {}
    BY <1>4, <1>5, <1>6
  <2> QED
    BY <1>5, <1>6, <2>1 DEF CountsOK, QuestionsOf, Read, ReadAsUs, Later
<1> QED
  BY <1>2, <1>9, <1>10, <1>11, <1>12, <1>13, <1>14, BegunStep

\* The run of a job that ends is stamped, and its answers are no older than the stamp.
LEMMA StepEnd ==
  ASSUME IInv, NEW r \in Runs, NEW status \in {"completed", "failed"}, Begun(r), job[r] # "done",
         status = "completed" => job[r] = "finish",
         CompleteAgentRun(r, status), JobAt(r, "done"), ForgetRows(r), faults' \in 0..MaxFaults,
         UNCHANGED <<now, som, published, order, ver>>
  PROVE  IInv'
<1>1. TypeOK /\ JobOK(r) /\ RowsOK(r) /\ SomOK(r)
  BY DEF IInv
<1>2. run[r] # NoRun /\ run[r].status = "running"
  BY <1>1 DEF JobOK
<1>3. /\ run' \in [Runs -> {NoRun} \union [status : {"running", "completed", "failed"},
                                           panel : Panels, completed : {0} \union Time]]
      /\ run'[r] # NoRun /\ run'[r].status = status
      /\ run'[r].panel = run[r].panel /\ run'[r].completed = now
      /\ \A q \in Runs \ {r} : run'[q] = run[q]
  BY <1>1, <1>2, Completes
<1>4. /\ rows' \in [Runs -> Seq(EngineRun)] /\ rows'[r] = <<>>
      /\ \A q \in Runs \ {r} : rows'[q] = rows[q]
  BY <1>1, Forgets
<1>5. job' \in [Runs -> JobPc] /\ job'[r] = "done" /\ \A q \in Runs \ {r} : job'[q] = job[q]
  BY <1>1, Moves DEF JobPc
<1>6. TypeOK'
  BY <1>1, <1>3, <1>4, <1>5 DEF TypeOK, ScanTypeOK
<1>7. \A q \in Runs \ {r} : Same(q)
  BY <1>3, <1>4, <1>5 DEF Same
<1>8. now \in 1..now
  BY <1>1, Clock
<1>9. Begun(r)' /\ JobOK(r)'
  BY <1>1, <1>3, <1>5, <1>8 DEF JobOK, Begun
<1>10. RowsOK(r)' /\ RoundOK(r)' /\ CountsOK(r)'
  BY <1>4, <1>5 DEF RowsOK, RoundOK, CountsOK
<1>11. SomOK(r)'
  BY <1>1, <1>3 DEF SomOK
<1> QED
  BY <1>3, <1>6, <1>7, <1>9, <1>10, <1>11, BegunStep

LEMMA StepTimeout ==
  ASSUME IInv, NEW r \in Runs, JobTimeout(r), UNCHANGED <<published, order, ver>>
  PROVE  IInv'
<1> USE DEF JobTimeout, InTry
<1>1. TypeOK /\ JobOK(r) /\ SomOK(r)
  BY DEF IInv
<1>2. Begun(r) /\ faults' \in 0..MaxFaults
  BY <1>1, FaultsBounded DEF Begun
<1>3. /\ rows' \in [Runs -> Seq(EngineRun)] /\ rows'[r] = <<>>
      /\ \A q \in Runs \ {r} : rows'[q] = rows[q]
  BY <1>1, Forgets
<1>4. job' \in [Runs -> JobPc] /\ job'[r] = "lost" /\ \A q \in Runs \ {r} : job'[q] = job[q]
  BY <1>1, Moves DEF JobPc
<1>5. TypeOK'
  BY <1>1, <1>2, <1>3, <1>4 DEF TypeOK, ScanTypeOK
<1>6. \A q \in Runs \ {r} : Same(q)
  BY <1>3, <1>4 DEF Same
<1>7. Begun(r)' /\ JobOK(r)'
  BY <1>1, <1>2, <1>4 DEF JobOK, Begun
<1>8. RowsOK(r)' /\ RoundOK(r)' /\ CountsOK(r)' /\ SomOK(r)'
  BY <1>1, <1>3, <1>4 DEF RowsOK, RoundOK, CountsOK, SomOK
<1> QED
  BY <1>2, <1>5, <1>6, <1>7, <1>8, BegunStep

LEMMA StepTick ==
  ASSUME IInv, Tick, UNCHANGED <<published, order, ver>>
  PROVE  IInv'
<1> USE DEF Tick
<1>1. TypeOK'
  BY ScanAssumption DEF IInv, TypeOK, ScanTypeOK, Time
<1>2. Onward /\ \A q \in Runs : Same(q)
  BY Clock DEF Onward, Same, IInv
<1>3. \A f \in Fixes : published'[f] <= now'
  <2>1. \A f \in Fixes : published[f] \in Int /\ published[f] <= now /\ now \in Int
    BY Clock DEF IInv, TypeOK, Time
  <2> QED
    BY <2>1
<1>4. \A q \in Runs : RunInv(q)'
  BY <1>1, <1>2, Frame
<1> QED
  BY <1>1, <1>3, <1>4 DEF IInv, RunInv

LEMMA StepPublish ==
  ASSUME IInv, NEW f \in Fixes, Publish(f)
  PROVE  IInv'
<1> USE DEF Publish
<1>1. TypeOK'
  BY DEF IInv, TypeOK, ScanTypeOK, scanVars
<1>2. Onward /\ \A q \in Runs : Same(q)
  BY Clock DEF Onward, Same, IInv, TypeOK, scanVars
<1>3. \A g \in Fixes : published'[g] <= now'
  BY Clock DEF IInv, TypeOK, scanVars
<1>4. \A q \in Runs : RunInv(q)'
  BY <1>1, <1>2, Frame
<1> QED
  BY <1>1, <1>3, <1>4 DEF IInv, RunInv

LEMMA StepScan ==
  ASSUME IInv, ScanNext, UNCHANGED <<published, order, ver>>
  PROVE  IInv'
<1>1. TypeOK /\ faults \in 0..MaxFaults
  BY DEF IInv, TypeOK, ScanTypeOK
<1>2. CASE Tick
  BY <1>2, StepTick
<1>3. ASSUME NEW r \in Runs, StartScan(r)
      PROVE  IInv'
  BY <1>3, StepStartScan
<1>4. ASSUME NEW r \in Runs, JobStep(r)
      PROVE  IInv'
  <2>1. CASE Enqueue(r)
    BY <1>1, <2>1, StepMove DEF Enqueue, Begun
  <2>2. CASE RunEngine(r)
    <3>1. EngineAnswers(r, {}) /\ faults' \in 0..MaxFaults
      BY <1>1, <2>2 DEF RunEngine
    <3> QED
      BY <3>1, StepAnswers
  <2>3. CASE RunExtractor(r)
    <3>1. PICK claims \in [Eligible(r) -> Claims] :
            rows' = [rows EXCEPT ![r] = Extracted(r, claims, {})]
      BY <2>3 DEF RunExtractor
    <3>2. /\ job[r] = "extract" /\ JobAt(r, "share") /\ faults' \in 0..MaxFaults
          /\ UNCHANGED <<now, run, som>>
      BY <1>1, <2>3 DEF RunExtractor
    <3> QED
      BY <3>1, <3>2, StepExtracted
  <2>4. CASE RunShareOfModel(r)
    BY <2>4, StepShare
  <2>5. CASE Complete(r)
    BY <1>1, <2>5, StepEnd DEF Complete, Begun
  <2> QED
    BY <1>4, <2>1, <2>2, <2>3, <2>4, <2>5 DEF JobStep
<1>5. ASSUME NEW r \in Runs, JobFault(r)
      PROVE  IInv'
  <2>1. CASE EnqueueLost(r)
    BY <1>1, <2>1, FaultsBounded, StepMove DEF EnqueueLost, Begun
  <2>2. CASE EngineFails(r)
    <3>1. faults' \in 0..MaxFaults /\ \E failed : EngineAnswers(r, failed)
      BY <1>1, <2>2, FaultsBounded DEF EngineFails
    <3> QED
      BY <3>1, StepAnswers
  <2>3. CASE RunExtractorFails(r)
    <3>1. PICK claims \in [Eligible(r) -> Claims], i \in Eligible(r) :
            rows' = [rows EXCEPT ![r] = Extracted(r, claims, {i})]
      BY <2>3 DEF RunExtractorFails
    <3>2. /\ job[r] = "extract" /\ JobAt(r, "share") /\ faults' \in 0..MaxFaults
          /\ UNCHANGED <<now, run, som>>
      BY <1>1, <2>3, FaultsBounded DEF RunExtractorFails
    <3> QED
      BY <3>1, <3>2, StepExtracted
  <2>4. CASE JobFails(r)
    BY <1>1, <2>4, FaultsBounded, StepEnd DEF JobFails, InTry, Begun
  <2>5. CASE JobTimeout(r)
    BY <2>5, StepTimeout
  <2>6. CASE WorkerCrash(r)
    BY <1>1, <2>6, FaultsBounded, StepMove DEF WorkerCrash, InTry, Begun
  <2> QED
    BY <1>5, <2>1, <2>2, <2>3, <2>4, <2>5, <2>6 DEF JobFault
<1> QED
  BY <1>2, <1>3, <1>4, <1>5 DEF ScanNext

-----------------------------------------------------------------------------
(* The request of a verification. *)

LEMMA BaselineIsCompleted ==
  ASSUME NEW stamps, NEW pin, NEW base \in Baselines(stamps, pin)
  PROVE  base \in Runs /\ run[base].status = "completed"
BY DEF Baselines, LatestScansBefore, ScansBefore

Orders == [began : {0} \union Time, stamps : Stamps \union {<<>>},
           base : {0} \union Runs, force : BOOLEAN, decided : {0} \union Time]

LEMMA Decides ==
  ASSUME TypeOK, NEW r \in Runs, NEW new \in Orders, order' = [order EXCEPT ![r] = new]
  PROVE  /\ order' \in [Runs -> Orders] /\ order'[r] = new
         /\ \A q \in Runs \ {r} : order'[q] = order[q]
<1>1. order \in [Runs -> Orders]
  BY DEF TypeOK, Orders
<1> QED
  BY <1>1

\* A request begins: nothing is written yet.
LEMMA StepOpen ==
  ASSUME IInv, NEW r \in Runs, ResolveShop(r)
  PROVE  IInv'
<1> USE DEF ResolveShop, NextOf
<1> DEFINE new == [NoOrder EXCEPT !.began = now]
<1>1. TypeOK /\ JobOK(r)
  BY DEF IInv
<1>2. r \in Verifications /\ r \notin Scans /\ job[r] = "idle" /\ order[r] = NoOrder
  BY <1>1, ScanAssumption DEF JobOK
<1>3. run[r] = NoRun /\ rows[r] = <<>> /\ som[r] = NoRow /\ ver[r] = NoVerification
  BY <1>1, <1>2 DEF JobOK, Begun
<1>4. new \in Orders /\ new.began = now
  BY <1>1 DEF NoOrder, Orders, TypeOK, ScanTypeOK
<1>5. /\ order' \in [Runs -> Orders] /\ order'[r].began = now
      /\ \A q \in Runs \ {r} : order'[q] = order[q]
  <2>1. order' = [order EXCEPT ![r] = new]
    BY <1>1, <1>2 DEF TypeOK
  <2> HIDE DEF new
  <2> QED
    BY <1>1, <1>4, <2>1, Decides
<1>6. job' \in [Runs -> JobPc] /\ job'[r] = "opened" /\ \A q \in Runs \ {r} : job'[q] = job[q]
  BY <1>1, Moves DEF JobPc
<1>7. TypeOK'
  BY <1>1, <1>5, <1>6 DEF TypeOK, ScanTypeOK, Orders
<1>8. \A q \in Runs \ {r} : Same(q)
  BY <1>5, <1>6 DEF Same
<1>9. JobOK(r)' /\ RowsOK(r)' /\ SomOK(r)' /\ RoundOK(r)' /\ CountsOK(r)'
  <2>1. NoRun.status = "none"
    BY DEF NoRun
  <2> QED
    BY <1>2, <1>3, <1>6, <2>1 DEF JobOK, Begun, RowsOK, SomOK, RoundOK, CountsOK
<1>10. SnapshotOK(r)' /\ GrantOK(r)' /\ VerOK(r)'
  BY <1>1, <1>3, <1>5, <1>6, Clock DEF SnapshotOK, GrantOK, VerOK, Begun
<1>11. RunInv(r)'
  BY <1>2, <1>9, <1>10 DEF RunInv
<1> QED
  BY <1>2, <1>7, <1>8, <1>11, OneRun

\* The snapshot is what is published by now.
LEMMA StepResolve ==
  ASSUME IInv, NEW r \in Runs, ResolveMeasuredSet(r)
  PROVE  IInv'
<1> USE DEF ResolveMeasuredSet
<1> DEFINE stamps == [f \in Published |-> published[f]]
           new == [order[r] EXCEPT !.stamps = stamps]
<1>1. TypeOK /\ JobOK(r) /\ SnapshotOK(r)
  BY DEF IInv
<1>2. r \in Verifications /\ r \notin Scans /\ job[r] = "opened"
  BY <1>1, ScanAssumption DEF JobOK
<1>3. run[r] = NoRun /\ rows[r] = <<>> /\ som[r] = NoRow /\ ver[r] = NoVerification
  BY <1>1, <1>2 DEF JobOK, Begun
<1>4. \A f \in Published : f \in Fixes /\ published[f] \in Time /\ published[f] \in 1..now
  BY <1>1, Clock DEF IInv, TypeOK, Published, Time
<1>5. /\ stamps \in Stamps /\ DOMAIN stamps = Published
      /\ \A f \in Published : stamps[f] = published[f]
  <2>1. Published \in SUBSET Fixes
    BY DEF Published
  <2>2. stamps \in [Published -> Time]
    BY <1>4
  <2> QED
    BY <2>1, <2>2 DEF Stamps
<1> HIDE DEF stamps
<1>6. new \in Orders /\ new.began = order[r].began /\ new.stamps = stamps
  BY <1>1, <1>5, OrderIsTyped DEF Orders
<1>7. /\ order' \in [Runs -> Orders]
      /\ order'[r].began = order[r].began /\ order'[r].stamps = stamps
      /\ \A q \in Runs \ {r} : order'[q] = order[q]
  <2>1. order' = [order EXCEPT ![r] = new]
    BY <1>1 DEF stamps, TypeOK
  <2> HIDE DEF new
  <2> QED
    BY <1>1, <1>6, <2>1, Decides
<1>8. job' \in [Runs -> JobPc] /\ job'[r] = "resolved" /\ \A q \in Runs \ {r} : job'[q] = job[q]
  BY <1>1, Moves DEF JobPc
<1>9. TypeOK'
  BY <1>1, <1>7, <1>8 DEF TypeOK, ScanTypeOK, Orders
<1>10. \A q \in Runs \ {r} : Same(q)
  BY <1>7, <1>8 DEF Same
<1>11. JobOK(r)' /\ RowsOK(r)' /\ SomOK(r)' /\ RoundOK(r)' /\ CountsOK(r)'
  <2>1. NoRun.status = "none"
    BY DEF NoRun
  <2> QED
    BY <1>2, <1>3, <1>8, <2>1 DEF JobOK, Begun, RowsOK, SomOK, RoundOK, CountsOK
<1>12. SnapshotOK(r)'
  BY <1>1, <1>2, <1>4, <1>5, <1>7 DEF SnapshotOK
<1>13. GrantOK(r)' /\ VerOK(r)'
  BY <1>3, <1>8 DEF GrantOK, VerOK, Begun
<1>14. RunInv(r)'
  BY <1>2, <1>11, <1>12, <1>13 DEF RunInv
<1> QED
  BY <1>2, <1>9, <1>10, <1>14, OneRun

LEMMA StepRefuse ==
  ASSUME IInv, NEW r \in Runs, Refuse(r)
  PROVE  IInv'
<1>1. TypeOK /\ JobOK(r)
  BY DEF IInv
<1>2. job[r] \in {"opened", "resolved"}
  BY DEF Refuse
<1>3. run[r] = NoRun /\ rows[r] = <<>> /\ som[r] = NoRow /\ ver[r] = NoVerification
  BY <1>1, <1>2 DEF JobOK, Begun
<1>4. order' = [order EXCEPT ![r] = NoOrder]
  BY DEF Refuse
<1>5. NoOrder \in Orders
  BY DEF NoOrder, Orders
<1>6. /\ order' \in [Runs -> Orders] /\ order'[r] = NoOrder
      /\ \A q \in Runs \ {r} : order'[q] = order[q]
  BY <1>1, <1>4, <1>5, Decides
<1>7. JobAt(r, "idle") /\ UNCHANGED <<now, run, rows, som, faults, published, ver>>
  BY DEF Refuse
<1>8. job' \in [Runs -> JobPc] /\ job'[r] = "idle" /\ \A q \in Runs \ {r} : job'[q] = job[q]
  BY <1>1, <1>7, Moves DEF JobPc
<1>9. TypeOK'
  BY <1>1, <1>6, <1>7, <1>8 DEF TypeOK, ScanTypeOK, Orders
<1>10. \A q \in Runs \ {r} : Same(q)
  BY <1>6, <1>7, <1>8 DEF Same
<1>11. JobOK(r)' /\ RowsOK(r)' /\ SomOK(r)' /\ RoundOK(r)' /\ CountsOK(r)'
  <2>1. NoRun.status = "none"
    BY DEF NoRun
  <2> QED
    BY <1>3, <1>6, <1>7, <1>8, <2>1 DEF JobOK, Begun, RowsOK, SomOK, RoundOK, CountsOK
<1>12. SnapshotOK(r)' /\ GrantOK(r)' /\ VerOK(r)'
  BY <1>3, <1>7, <1>8 DEF SnapshotOK, GrantOK, VerOK, Begun
<1>13. RunInv(r)'
  BY <1>6, <1>11, <1>12 DEF RunInv
<1>14. job[r] # "done"
  BY <1>2
<1> QED
  BY <1>14, <1>7, <1>9, <1>10, <1>13, OneRun

\* A granted request measures, on its baseline's panel, what was published after the baseline.
LEMMA StepBind ==
  ASSUME IInv, NEW r \in Runs, NEW pin, NEW force \in BOOLEAN, BindBaseline(r, pin, force)
  PROVE  IInv'
<1>1. TypeOK /\ JobOK(r) /\ SnapshotOK(r)
  BY DEF IInv
<1>2. /\ job[r] = "resolved" /\ JobAt(r, "created")
      /\ UNCHANGED <<now, rows, som, faults, published, ver>>
  BY DEF BindBaseline
<1>3. /\ run[r] = NoRun /\ rows[r] = <<>> /\ som[r] = NoRow /\ ver[r] = NoVerification
      /\ r \in Verifications /\ r \notin Scans
  BY <1>1, <1>2, ScanAssumption DEF JobOK, Begun
<1> DEFINE began == order[r].began
           stamps == order[r].stamps
<1>4. /\ began \in 1..now /\ stamps \in Stamps
      /\ \A f \in DOMAIN stamps : published[f] = stamps[f] /\ published[f] \in 1..now
  BY <1>1, <1>2, <1>3 DEF SnapshotOK
<1>5. PICK base \in Baselines(stamps, pin) :
        /\ Measurable(r, base, force)
        /\ CreateAgentRun(r, PanelFor(base))
        /\ order' = [order EXCEPT ![r] =
                       [began |-> began, stamps |-> Measured(stamps, base), base |-> base,
                        force |-> force, decided |-> now]]
  BY <1>1 DEF BindBaseline, TypeOK
<1>6. base \in Runs \ {r} /\ run[base].status = "completed"
  <2>1. NoRun.status = "none"
    BY DEF NoRun
  <2> QED
    BY <1>3, <2>1, BaselineIsCompleted
<1>7. run[base].panel \in Panels
  <2>1. run[base] # NoRun
    BY <1>6 DEF NoRun
  <2> QED
    BY <1>1, <1>6, <2>1, RunIsTyped
<1> DEFINE measured == Measured(stamps, base)
           new == [began |-> began, stamps |-> measured, base |-> base,
                   force |-> force, decided |-> now]
<1>8. /\ measured \in Stamps /\ DOMAIN measured \subseteq DOMAIN stamps
      /\ \A f \in DOMAIN measured : measured[f] = stamps[f] /\ run[base].completed < measured[f]
  <2>1. PICK S \in SUBSET Fixes : stamps \in [S -> Time]
    BY <1>4 DEF Stamps
  <2> DEFINE after == {g \in DOMAIN stamps : stamps[g] > run[base].completed}
  <2>2. after \in SUBSET Fixes /\ measured \in [after -> Time]
    BY <2>1 DEF Measured
  <2>3. run[base].completed \in Int
    <3>1. run[base] # NoRun
      BY <1>6 DEF NoRun
    <3> QED
      BY <1>1, <1>6, <3>1, RunIsTyped, Clock DEF Time
  <2>4. \A f \in DOMAIN measured : measured[f] = stamps[f] /\ run[base].completed < measured[f]
    BY <2>1, <2>3 DEF Measured, Time
  <2> QED
    BY <2>2, <2>4 DEF Stamps
<1>9. DOMAIN measured # {} /\ (force \/ SettledBy(now, measured))
  BY <1>5 DEF Measurable
<1>10. /\ run' \in [Runs -> {NoRun} \union [status : {"running", "completed", "failed"},
                                            panel : Panels, completed : {0} \union Time]]
       /\ run'[r] # NoRun /\ run'[r].status = "running" /\ run'[r].panel = run[base].panel
       /\ \A q \in Runs \ {r} : run'[q] = run[q]
  BY <1>1, <1>5, <1>7, Creates DEF PanelFor
<1> HIDE DEF measured
<1>11. /\ order' \in [Runs -> Orders]
       /\ order'[r] = new /\ \A q \in Runs \ {r} : order'[q] = order[q]
  <2>1. order' = [order EXCEPT ![r] = new]
    BY <1>5 DEF measured
  <2>2. began \in {0} \union Time /\ now \in Time
    BY <1>1, OrderIsTyped DEF TypeOK, ScanTypeOK
  <2>3. new \in Orders
    BY <1>6, <1>8, <2>2 DEF Orders
  <2> HIDE DEF new
  <2> QED
    BY <1>1, <2>1, <2>3, Decides
<1>12. job' \in [Runs -> JobPc] /\ job'[r] = "created" /\ \A q \in Runs \ {r} : job'[q] = job[q]
  BY <1>1, <1>2, Moves DEF JobPc
<1>13. TypeOK'
  BY <1>1, <1>2, <1>10, <1>11, <1>12 DEF TypeOK, ScanTypeOK, Orders
<1>14. \A q \in Runs \ {r} : Same(q)
  BY <1>2, <1>10, <1>11, <1>12 DEF Same
<1>15. JobOK(r)' /\ RowsOK(r)' /\ SomOK(r)' /\ RoundOK(r)' /\ CountsOK(r)' /\ VerOK(r)'
  BY <1>2, <1>3, <1>10, <1>12 DEF JobOK, Begun, RowsOK, SomOK, RoundOK, CountsOK, VerOK
<1>16. SnapshotOK(r)'
  <2>1. order'[r].began = began /\ order'[r].stamps = measured
    BY <1>11
  <2> QED
    BY <1>2, <1>4, <1>8, <1>9, <2>1 DEF SnapshotOK
<1>17. GrantOK(r)'
  <2>1. /\ order'[r].began = began /\ order'[r].stamps = measured /\ order'[r].base = base
        /\ order'[r].force = force /\ order'[r].decided = now
    BY <1>11
  <2>2. run'[base] = run[base] /\ now' = now
    BY <1>2, <1>6, <1>10
  <2>3. \A f \in DOMAIN measured : measured[f] <= now
    BY <1>4, <1>8
  <2>4. began <= now /\ now \in 1..now
    BY <1>1, <1>4, Clock
  <2>5. SettledBy(order'[r].decided, order'[r].stamps) = SettledBy(now, measured)
    BY <2>1
  <2> QED
    BY <1>6, <1>8, <1>9, <1>10, <2>1, <2>2, <2>3, <2>4, <2>5 DEF GrantOK, SettledBy, StampsOf
<1>18. RunInv(r)'
  BY <1>3, <1>15, <1>16, <1>17 DEF RunInv
<1> QED
  BY <1>2, <1>13, <1>14, <1>18, OneRun

-----------------------------------------------------------------------------
(* The row of a verification. *)

LEMMA SideRateOf ==
  ASSUME NEW row \in ShareOfModel, row # NoRow, row.rate = NULL <=> row.total = 0,
         row.total = 0 <=> row.asked = {}, row.total = 0 => row.rivals = <<>>
  PROVE  /\ SideRate(row) \in Rates \union {NULL}
         /\ SideRate(row) # NULL <=> row.asked # {}
         /\ DOMAIN SideRivals(row) \subseteq Rivals
         /\ \A b \in DOMAIN SideRivals(row) :
              SideRivals(row)[b] \in Rates /\ row.asked # {}
<1>1. row.total \in Nat /\ row.rate \in Rates \union {NULL}
      /\ row.rivals \in [Rivals -> Rates] \union {<<>>}
  BY DEF ShareOfModel
<1>2. HasData(row) <=> row.total # 0
  BY <1>1 DEF HasData
<1>3. SideRate(row) = IF row.total # 0 THEN row.rate ELSE NULL
  BY <1>2 DEF SideRate
<1>4. SideRivals(row) = [b \in DOMAIN row.rivals |-> IF HasData(row) THEN row.rivals[b] ELSE NULL]
  BY DEF SideRivals
<1>5. CASE row.total = 0
  <2>1. DOMAIN SideRivals(row) = {}
    BY <1>4, <1>5
  <2> QED
    BY <1>3, <1>5, <2>1
<1>6. CASE row.total # 0
  <2>1. row.rivals = <<>> => DOMAIN SideRivals(row) = {}
    BY <1>4
  <2>2. row.rivals \in [Rivals -> Rates] =>
          DOMAIN SideRivals(row) = Rivals /\ \A b \in Rivals : SideRivals(row)[b] \in Rates
    BY <1>2, <1>4, <1>6
  <2>3. SideRate(row) = row.rate /\ row.rate # NULL /\ row.asked # {}
    BY <1>3, <1>6
  <2> QED
    BY <1>1, <2>1, <2>2, <2>3
<1> QED
  BY <1>5, <1>6

LEMMA DifferenceTyped ==
  ASSUME NEW pre \in Rates \union {NULL}, NEW post \in Rates \union {NULL}
  PROVE  /\ Difference(pre, post) \in Delta
         /\ Difference(pre, post) # NULL <=> pre # NULL /\ post # NULL
         /\ pre # NULL /\ post # NULL => Difference(pre, post) = post - pre
<1>1. NULL \notin Int /\ Scale \in Nat
  BY ScanAssumption
<1>2. CASE NULL \in {pre, post}
  BY <1>2 DEF Difference, Delta
<1>3. CASE NULL \notin {pre, post}
  <2>1. pre \in 0..Scale /\ post \in 0..Scale
    BY <1>3 DEF Rates
  <2>2. post - pre \in Int /\ post - pre \in -Scale..Scale
    BY <1>1, <2>1
  <2>3. Difference(pre, post) = post - pre
    BY <1>3 DEF Difference
  <2> QED
    BY <1>1, <1>3, <2>2, <2>3 DEF Delta
<1> QED
  BY <1>2, <1>3

\* The state shown beside two rates agrees with the sign of their difference.
LEMMA StateAgrees ==
  ASSUME NEW pre \in Rates \union {NULL}, NEW post \in Rates \union {NULL}
  PROVE  /\ ClassifyEngine(pre, post) = "improved" => pre # NULL /\ post # NULL /\ post - pre > 0
         /\ ClassifyEngine(pre, post) = "declined" => pre # NULL /\ post # NULL /\ post - pre < 0
<1>1. CASE pre = NULL \/ post = NULL
  <2>1. ClassifyEngine(pre, post) \in {"no_data_both", "no_data_pre", "no_data_post"}
    BY <1>1 DEF ClassifyEngine
  <2> QED
    BY <2>1
<1>2. CASE pre # NULL /\ post # NULL
  <2>1. pre \in Int /\ post \in Int
    BY <1>2, ScanAssumption DEF Rates
  <2>2. ClassifyEngine(pre, post)
          = IF post > pre THEN "improved" ELSE IF post < pre THEN "declined" ELSE "no_movement"
    BY <1>2 DEF ClassifyEngine
  <2> QED
    BY <1>2, <2>1, <2>2
<1> QED
  BY <1>1, <1>2

Verdicts == [base : Runs, panel : Panels, pre : Rates \union {NULL},
             post : Rates \union {NULL}, delta : Delta,
             rivals : UNION {[S -> Delta] : S \in SUBSET Rivals}, measured : Stamps,
             settled : BOOLEAN, preAsked : SUBSET Time, postAsked : SUBSET Time]

\* The row run_verifier writes is of its type, honest about missing data, and between two moments.
LEMMA VerdictOK ==
  ASSUME IInv, NEW r \in Runs, job[r] = "verify", ~VerifyAborts(r)
  PROVE  LET v == Verification(r)
         IN  /\ r \in Verifications /\ v \in Verdicts /\ v # NoVerification /\ DeltaOK(v)
             /\ v.base = order[r].base /\ v.measured = order[r].stamps
             /\ v.settled = SettledBy(order[r].began, order[r].stamps)
             /\ order[r].force \/ v.settled
             /\ \A t \in v.preAsked : t <= run[order[r].base].completed
             /\ \A t \in v.postAsked : order[r].decided <= t
<1>1. /\ TypeOK /\ JobOK(r) /\ SomOK(r) /\ SnapshotOK(r) /\ GrantOK(r)
      /\ \A q \in Runs : SomOK(q) /\ JobOK(q)
  BY DEF IInv
<1>2. r \in Verifications /\ Begun(r) /\ som[r] # NoRow /\ run[r] # NoRun
  BY <1>1 DEF JobOK, Begun
<1> DEFINE base == order[r].base
           stamps == order[r].stamps
           settled == SettledBy(order[r].began, stamps)
           before == som[base]
           after == som[r]
           pre == SideRate(before)
           post == SideRate(after)
           delta == Difference(pre, post)
           rivals == RivalDeltas(SideRivals(before), SideRivals(after))
           v == Verification(r)
<1>3. base \in Runs /\ run[base].status = "completed" /\ before # NoRow
  BY <1>1, <1>2 DEF GrantOK, JobOK
<1>4. before \in ShareOfModel /\ after \in ShareOfModel
  BY <1>1, <1>2, <1>3, SomIsTyped
<1>5. /\ before.rate = NULL <=> before.total = 0
      /\ before.total = 0 <=> before.asked = {}
      /\ before.total = 0 => before.rivals = <<>>
      /\ \A t \in before.asked : t <= run[base].completed
  BY <1>1, <1>3 DEF SomOK
<1>6. /\ after.rate = NULL <=> after.total = 0
      /\ after.total = 0 <=> after.asked = {}
      /\ after.total = 0 => after.rivals = <<>>
      /\ \A t \in after.asked : order[r].decided <= t
  BY <1>1, <1>2 DEF SomOK
<1> HIDE DEF before, after
<1>7. /\ pre \in Rates \union {NULL} /\ (pre # NULL <=> before.asked # {})
      /\ DOMAIN SideRivals(before) \subseteq Rivals
      /\ \A b \in DOMAIN SideRivals(before) : SideRivals(before)[b] \in Rates /\ before.asked # {}
  BY <1>3, <1>4, <1>5, SideRateOf DEF before
<1>8. /\ post \in Rates \union {NULL} /\ (post # NULL <=> after.asked # {})
      /\ DOMAIN SideRivals(after) \subseteq Rivals
      /\ \A b \in DOMAIN SideRivals(after) : SideRivals(after)[b] \in Rates /\ after.asked # {}
  BY <1>2, <1>4, <1>6, SideRateOf DEF after
<1> HIDE DEF pre, post
<1>9. /\ delta \in Delta
      /\ delta # NULL <=> before.asked # {} /\ after.asked # {}
      /\ before.asked # {} /\ after.asked # {} => delta = post - pre
  BY <1>7, <1>8, DifferenceTyped
<1>10. /\ rivals \in UNION {[S -> Delta] : S \in SUBSET Rivals}
       /\ \A b \in DOMAIN rivals : rivals[b] # NULL => before.asked # {} /\ after.asked # {}
  <2> DEFINE left == SideRivals(before)
             right == SideRivals(after)
             S == DOMAIN left \union DOMAIN right
  <2>1. rivals = [b \in S |-> IF b \in DOMAIN left \intersect DOMAIN right
                                THEN Difference(left[b], right[b]) ELSE NULL]
    BY DEF RivalDeltas
  <2>2. \A b \in DOMAIN left \intersect DOMAIN right :
          Difference(left[b], right[b]) \in Delta /\ before.asked # {} /\ after.asked # {}
    BY <1>7, <1>8, DifferenceTyped
  <2>3. NULL \in Delta
    BY DEF Delta
  <2>4. S \in SUBSET Rivals
    BY <1>7, <1>8
  <2> HIDE DEF left, right, rivals, S
  <2>5. rivals \in [S -> Delta]
    BY <2>1, <2>2, <2>3
  <2>6. \A b \in DOMAIN rivals : rivals[b] # NULL => before.asked # {} /\ after.asked # {}
    BY <2>1, <2>2
  <2> QED
    BY <2>4, <2>5, <2>6
<1> HIDE DEF delta, rivals
<1>11. v = [base |-> base, panel |-> run[r].panel, pre |-> pre, post |-> post, delta |-> delta,
            rivals |-> rivals, measured |-> stamps, settled |-> settled,
            preAsked |-> before.asked, postAsked |-> after.asked]
  BY DEF Verification, Manifest, before, after, pre, post, delta, rivals
<1>12. settled \in BOOLEAN
  BY DEF SettledBy
<1>13. stamps \in Stamps
  BY <1>1, <1>2 DEF SnapshotOK, Begun
<1>14. run[r].panel \in Panels
  BY <1>1, <1>2, RunIsTyped
<1>15. order[r].force \/ settled
  BY DEF VerifyAborts
<1> HIDE DEF settled, stamps, base
<1>16. before.asked \in SUBSET Time /\ after.asked \in SUBSET Time
  BY <1>4 DEF ShareOfModel
<1> HIDE DEF v
<1>17. v \in Verdicts
  BY <1>3, <1>7, <1>8, <1>9, <1>10, <1>11, <1>12, <1>13, <1>14, <1>16 DEF Verdicts, base
<1>18. v # NoVerification
  <2>1. "panel" \in DOMAIN v
    BY <1>11
  <2>2. "panel" \notin DOMAIN NoVerification
    BY DEF NoVerification
  <2> QED
    BY <2>1, <2>2
<1>19. DeltaOK(v)
  <2>1. /\ v.preAsked = before.asked /\ v.postAsked = after.asked /\ v.delta = delta
        /\ v.rivals = rivals /\ v.pre = pre /\ v.post = post
    BY <1>11
  <2>2. /\ ClassifyEngine(pre, post) = "improved" => pre # NULL /\ post # NULL /\ post - pre > 0
        /\ ClassifyEngine(pre, post) = "declined" => pre # NULL /\ post # NULL /\ post - pre < 0
    BY <1>7, <1>8, StateAgrees
  <2> QED
    BY <1>7, <1>8, <1>9, <1>10, <2>1, <2>2 DEF DeltaOK
<1>20. /\ v.base = base /\ v.measured = stamps /\ v.settled = settled
       /\ v.preAsked = before.asked /\ v.postAsked = after.asked
  BY <1>11
<1> QED
  BY <1>2, <1>5, <1>6, <1>15, <1>17, <1>18, <1>19, <1>20 DEF v, base, stamps, settled

LEMMA StepVerifier ==
  ASSUME IInv, NEW r \in Runs, RunVerifier(r)
  PROVE  IInv'
<1>1. job[r] = "verify" /\ ~VerifyAborts(r) /\ ver' = [ver EXCEPT ![r] = Verification(r)]
      /\ JobAt(r, "finish") /\ UNCHANGED <<now, run, rows, som, faults, published, order>>
  BY DEF RunVerifier
<1>2. /\ TypeOK /\ JobOK(r) /\ RowsOK(r) /\ SomOK(r) /\ RoundOK(r) /\ CountsOK(r) /\ Begun(r)
      /\ r \in Scans => order[r] = NoOrder
  BY <1>1 DEF IInv, Begun
<1> DEFINE v == Verification(r)
<1>3. /\ r \in Verifications /\ v \in Verdicts /\ v # NoVerification /\ DeltaOK(v)
      /\ v.base = order[r].base /\ v.measured = order[r].stamps
      /\ v.settled = SettledBy(order[r].began, order[r].stamps)
      /\ order[r].force \/ v.settled
      /\ \A t \in v.preAsked : t <= run[order[r].base].completed
      /\ \A t \in v.postAsked : order[r].decided <= t
  BY <1>1, VerdictOK
<1> HIDE DEF v
<1>4. /\ ver' \in [Runs -> {NoVerification} \union Verdicts] /\ ver'[r] = v
      /\ \A q \in Runs \ {r} : ver'[q] = ver[q]
  <2>1. ver \in [Runs -> {NoVerification} \union Verdicts]
    BY <1>2 DEF TypeOK, Verdicts
  <2> QED
    BY <1>1, <1>3, <2>1 DEF v
<1>5. job' \in [Runs -> JobPc] /\ job'[r] = "finish" /\ \A q \in Runs \ {r} : job'[q] = job[q]
  BY <1>1, <1>2, Moves DEF JobPc
<1>6. TypeOK'
  BY <1>1, <1>2, <1>4, <1>5 DEF TypeOK, ScanTypeOK, Verdicts
<1>7. \A q \in Runs \ {r} : Same(q)
  BY <1>1, <1>4, <1>5 DEF Same
<1>8. Onward
  BY <1>1, OnwardOf
<1>9. JobOK(r)' /\ Begun(r)'
  BY <1>1, <1>2, <1>3, <1>4, <1>5 DEF JobOK, Begun
<1>10. RowsOK(r)' /\ SomOK(r)' /\ RoundOK(r)' /\ CountsOK(r)'
  <2>1. RowsOK(r)' /\ SomOK(r)' /\ RoundOK(r)'
    BY <1>1, <1>2, <1>5 DEF RowsOK, SomOK, RoundOK
  <2>2. CountsOK(r)'
    BY <1>1, <1>2, <1>5 DEF CountsOK, QuestionsOf, Read, ReadAsUs, Later
  <2> QED
    BY <2>1, <2>2
<1>11. SnapshotOK(r)'
  BY <1>1, <1>6, <1>8, SnapshotKept
<1>12. GrantOK(r)'
  BY <1>1, <1>2, <1>6, <1>8, GrantKept
<1>13. VerOK(r)'
  BY <1>1, <1>3, <1>4 DEF VerOK, SettledBy, StampsOf
<1>14. RunInv(r)'
  BY <1>1, <1>2, <1>9, <1>10, <1>11, <1>12, <1>13 DEF RunInv
<1> QED
  BY <1>1, <1>6, <1>7, <1>14, OneRun

LEMMA StepAborted ==
  ASSUME IInv, NEW r \in Runs, VerificationAborted(r)
  PROVE  IInv'
<1>1. faults \in 0..MaxFaults
  BY DEF IInv, TypeOK, ScanTypeOK
<1> QED
  BY <1>1, StepEnd DEF VerificationAborted, Begun

LEMMA InvStep == IInv /\ [Next]_vars => IInv'
<1> SUFFICES ASSUME IInv, [Next]_vars
             PROVE  IInv'
  OBVIOUS
<1>1. CASE ScanNext /\ UNCHANGED <<published, order, ver>>
  BY <1>1, StepScan
<1>2. ASSUME NEW f \in Fixes, Publish(f)
      PROVE  IInv'
  BY <1>2, StepPublish
<1>3. ASSUME NEW r \in Runs,
             \/ ResolveShop(r) \/ ResolveMeasuredSet(r) \/ Refuse(r)
             \/ RunVerifier(r) \/ VerificationAborted(r)
      PROVE  IInv'
  BY <1>3, StepOpen, StepResolve, StepRefuse, StepVerifier, StepAborted
<1>4. ASSUME NEW r \in Runs, NEW pin \in Pins, NEW force \in BOOLEAN, BindBaseline(r, pin, force)
      PROVE  IInv'
  BY <1>4, StepBind
<1>5. CASE UNCHANGED vars
  <2>1. UNCHANGED <<now, run, rows, som, job, faults, published, order, ver>>
    BY <1>5 DEF vars, scanVars
  <2>2. TypeOK'
    BY <2>1 DEF IInv, TypeOK, ScanTypeOK
  <2>3. Onward /\ \A q \in Runs : Same(q)
    BY <2>1, Clock DEF Onward, Same, IInv
  <2>4. \A q \in Runs : RunInv(q)'
    BY <2>2, <2>3, Frame
  <2> QED
    BY <2>1, <2>2, <2>4 DEF IInv, RunInv
<1> QED
  BY <1>1, <1>2, <1>3, <1>4, <1>5 DEF Next

-----------------------------------------------------------------------------
(* The inductive invariant holds in every reachable state: whatever interleaving of scans,     *)
(* verifications, publishes and failures, a request's snapshot, its grant, its answers and its *)
(* row stay consistent (api/verify.py, jobs/scan.py, jobs/verify.py).                          *)
THEOREM MeasurementInvariant == Spec => []IInv
BY InvInit, InvStep, PTL DEF Spec

(* Every table keeps its type: a rate is a fraction of what was answered and a delta the       *)
(* difference of two rates, or there is none.                                                  *)
THEOREM TypeCorrect == Spec => []TypeOK
<1>1. IInv => TypeOK
  BY DEF IInv
<1> QED
  BY <1>1, MeasurementInvariant, PTL

(* An aggregate counts exactly the questions whose last answer was read, each once, out of a    *)
(* panel asked whole, and as mentions exactly those read as naming us, which their answers do,  *)
(* however often the job is delivered and whatever fails or is over-claimed (run_engine,        *)
(* _ground, _latest_per_query).                                                                 *)
THEOREM CountsTheorem == Spec => []CountsAreHonest
<1>1. ASSUME IInv, NEW r \in Runs, job[r] \in {"verify", "finish"}
      PROVE  /\ QuestionsOf(r, DOMAIN rows[r]) = ToSet(run[r].panel)
             /\ som[r].total = Cardinality(QuestionsOf(r, Read(r)))
             /\ som[r].mentions = Cardinality(QuestionsOf(r, ReadAsUs(r)))
             /\ \A i \in Read(r) : /\ rows[r][i].answer # NULL
                                    /\ rows[r][i].cited \subseteq rows[r][i].answer
             /\ som[r].rate = NULL <=> Read(r) = {}
  <2>1. RowsOK(r) /\ RoundOK(r) /\ CountsOK(r)
    BY <1>1 DEF IInv
  <2>2. QuestionsOf(r, DOMAIN rows[r]) = ToSet(run[r].panel)
    <3>1. \A i \in DOMAIN rows[r] : rows[r][i].query \in ToSet(run[r].panel)
      BY <2>1 DEF RowsOK
    <3>2. \A q \in ToSet(run[r].panel) : \E i \in DOMAIN rows[r] : rows[r][i].query = q
      BY <1>1, <2>1 DEF RoundOK, ToSet
    <3> QED
      BY <3>1, <3>2 DEF QuestionsOf
  <2>3. \A i \in Read(r) : i \in DOMAIN rows[r] /\ rows[r][i].cited # NULL
    BY DEF Read
  <2> QED
    BY <1>1, <2>1, <2>2, <2>3 DEF CountsOK, RowsOK
<1>2. IInv => CountsAreHonest
  BY <1>1 DEF CountsAreHonest, QuestionsOf, Read, ReadAsUs, Later
<1> QED
  BY <1>2, MeasurementInvariant, PTL

(* No delta and no state shown beside it without two answered sides (_side_rates, _delta,      *)
(* classify_engine).                                                                           *)
THEOREM NoFabricatedDeltaTheorem == Spec => []NoFabricatedDelta
<1>1. IInv => NoFabricatedDelta
  BY DEF IInv, VerOK, DeltaOK, NoFabricatedDelta
<1> QED
  BY <1>1, MeasurementInvariant, PTL

(* A row's manifest is the snapshot its request was granted on: each fix was published when the *)
(* manifest says, no later than the grant, after every answer counted before and no later than  *)
(* any answer counted after, whatever is published between the reads of the request or while    *)
(* the job waits (resolve_measured_set, start_verification, run_verifier).                      *)
THEOREM ManifestTheorem == Spec => []ManifestIsTheSnapshot
<1>1. ASSUME IInv, NEW r \in Runs, ver[r] # NoVerification, NEW f \in DOMAIN ver[r].measured
      PROVE  /\ published[f] = ver[r].measured[f] /\ published[f] <= order[r].decided
             /\ \A t \in ver[r].preAsked : t < published[f]
             /\ \A t \in ver[r].postAsked : published[f] <= t
  <2>1. TypeOK /\ JobOK(r) /\ SnapshotOK(r) /\ GrantOK(r) /\ VerOK(r)
    BY <1>1 DEF IInv
  <2>2. /\ r \in Verifications /\ ver[r].base = order[r].base /\ ver[r].measured = order[r].stamps
        /\ \A t \in ver[r].preAsked : t <= run[order[r].base].completed
        /\ \A t \in ver[r].postAsked : order[r].decided <= t
    BY <1>1, <2>1 DEF VerOK
  <2>3. Begun(r) /\ job[r] \notin {"idle", "opened"}
    BY <1>1, <2>1 DEF JobOK, Begun
  <2>4. published[f] = order[r].stamps[f] /\ published[f] \in 1..now /\ now \in Nat
    BY <1>1, <2>1, <2>2, <2>3, Clock DEF SnapshotOK
  <2>5. /\ run[order[r].base].completed < published[f] /\ published[f] <= order[r].decided
        /\ order[r].decided \in 1..now
    BY <1>1, <2>1, <2>2, <2>3, <2>4 DEF GrantOK
  <2>6. run[order[r].base].completed \in Int
    <3>1. order[r].base \in Runs /\ run[order[r].base] # NoRun
      BY <2>1, <2>2, <2>3 DEF GrantOK, NoRun
    <3> QED
      BY <2>1, <3>1, RunIsTyped DEF Time
  <2>7. ver[r].preAsked \in SUBSET Time /\ ver[r].postAsked \in SUBSET Time
    <3>1. ver[r] \in Verdicts
      BY <1>1, <2>1 DEF TypeOK, Verdicts
    <3> QED
      BY <3>1 DEF Verdicts
  <2>8. ASSUME NEW t \in ver[r].preAsked
        PROVE  t < published[f]
    BY <2>2, <2>4, <2>5, <2>6, <2>7 DEF Time
  <2>9. ASSUME NEW t \in ver[r].postAsked
        PROVE  published[f] <= t
    BY <2>2, <2>4, <2>5, <2>7 DEF Time
  <2> QED
    BY <1>1, <2>2, <2>4, <2>5, <2>8, <2>9
<1>2. IInv => ManifestIsTheSnapshot
  BY <1>1 DEF ManifestIsTheSnapshot
<1> QED
  BY <1>2, MeasurementInvariant, PTL

(* A job that ends leaves a terminal run, and a completed run has what its readers take for    *)
(* granted: an aggregate, and of a verification a row that its own gates allowed.              *)
THEOREM EndTheorem == Spec => []EndIsRecorded
<1>1. ASSUME IInv, NEW r \in Runs
      PROVE  /\ job[r] = "done" => run[r].status \in {"completed", "failed"}
             /\ run[r].status = "completed" =>
                  som[r] # NoRow /\ (r \in Verifications => ver[r] # NoVerification)
             /\ ver[r] # NoVerification => order[r].force \/ ver[r].settled
  <2>1. TypeOK /\ JobOK(r) /\ VerOK(r)
    BY <1>1 DEF IInv
  <2>2. job[r] = "done" => run[r].status \in {"completed", "failed"}
    BY <2>1, RunIsTyped DEF JobOK, Begun
  <2> QED
    BY <2>1, <2>2 DEF JobOK, VerOK
<1>2. IInv => EndIsRecorded
  BY <1>1 DEF EndIsRecorded
<1> QED
  BY <1>2, MeasurementInvariant, PTL

LEMMA StampsAreTimes ==
  ASSUME NEW stamps \in Stamps, DOMAIN stamps # {}
  PROVE  /\ StampsOf(stamps) \in SUBSET Time /\ StampsOf(stamps) # {}
         /\ \A f \in DOMAIN stamps : stamps[f] \in Time /\ stamps[f] \in StampsOf(stamps)
         /\ stamps = [f \in DOMAIN stamps |-> stamps[f]]
<1>1. PICK S \in SUBSET Fixes : stamps \in [S -> Time]
  BY DEF Stamps
<1> QED
  BY <1>1 DEF StampsOf

(* What is shown as a result is a before and an after: of a reportable run, every answer       *)
(* counted before was asked before any measured fix was stamped, every answer counted after a  *)
(* settle window later, on one panel (select_baseline_run, start_verification, run_verifier,   *)
(* classify_run).                                                                              *)
THEOREM ReportableTheorem == Spec => []ReportableIsSound
<1>1. ASSUME IInv, NEW r \in Runs, DeltasReportable(r)
      PROVE  /\ run[r].status = "completed"
             /\ run[ver[r].base].panel = run[r].panel
             /\ \A f \in DOMAIN ver[r].measured :
                  /\ \A t \in ver[r].preAsked : t < ver[r].measured[f]
                  /\ \A t \in ver[r].postAsked : t >= ver[r].measured[f] + Settle
  <2>1. TypeOK /\ JobOK(r) /\ SnapshotOK(r) /\ GrantOK(r) /\ VerOK(r)
    BY <1>1 DEF IInv
  <2>2. run[r].status = "completed" /\ ver[r] # NoVerification /\ ver[r].settled
    <3>1. run[r].status # "settled"
      BY <2>1, RunIsTyped DEF NoRun
    <3> QED
      BY <1>1, <3>1 DEF DeltasReportable, ClassifyRun
  <2>3. Begun(r) /\ job[r] \notin {"idle", "opened"}
    BY <2>1, <2>2 DEF JobOK, Begun
  <2>4. /\ r \in Verifications
        /\ ver[r].base = order[r].base /\ ver[r].measured = order[r].stamps
        /\ SettledBy(order[r].began, order[r].stamps)
        /\ \A t \in ver[r].preAsked : t <= run[order[r].base].completed
        /\ \A t \in ver[r].postAsked : order[r].decided <= t
    BY <2>1, <2>2 DEF VerOK
  <2> DEFINE stamps == order[r].stamps
             base == order[r].base
             began == order[r].began
  <2>5. stamps \in Stamps /\ DOMAIN stamps # {} /\ began \in Nat
    BY <2>1, <2>2, <2>3, <2>4, Clock DEF SnapshotOK
  <2>6. began <= order[r].decided /\ order[r].decided \in Nat
    BY <2>1, <2>3, <2>4 DEF GrantOK
  <2>7. /\ base \in Runs /\ run[base].status = "completed" /\ run[base].panel = run[r].panel
        /\ \A f \in DOMAIN stamps : run[base].completed < stamps[f]
    BY <2>1, <2>3, <2>4 DEF GrantOK
  <2>8. run[base].completed \in Int
    <3>1. run[base] # NoRun
      BY <2>7 DEF NoRun
    <3> QED
      BY <2>1, <2>7, <3>1, RunIsTyped DEF Time
  <2>9. ver[r].preAsked \in SUBSET Time /\ ver[r].postAsked \in SUBSET Time
    <3>1. ver[r] \in Verdicts
      BY <2>1, <2>2 DEF TypeOK, Verdicts
    <3> QED
      BY <3>1 DEF Verdicts
  <2>10. ASSUME NEW f \in DOMAIN stamps, NEW t \in ver[r].preAsked
        PROVE  t < stamps[f]
    <3>1. stamps[f] \in Int /\ t \in Int
      BY <2>5, <2>9, StampsAreTimes DEF Time
    <3> QED
      BY <2>4, <2>7, <2>8, <3>1
  <2>11. ASSUME NEW f \in DOMAIN stamps, NEW t \in ver[r].postAsked
         PROVE  t >= stamps[f] + Settle
    <3> DEFINE last == Max(StampsOf(stamps))
    <3>1. stamps[f] \in Int /\ t \in Int /\ last \in Int /\ stamps[f] <= last
      BY <2>5, <2>9, StampsAreTimes, MaxIsGreatest DEF Time
    <3>2. began >= last + Settle
      BY <2>4 DEF SettledBy
    <3>3. began <= t
      BY <2>4, <2>5, <2>6, <3>1
    <3> HIDE DEF last, stamps, began
    <3> QED
      BY <2>5, <3>1, <3>2, <3>3, UpliftAssumption
  <2> QED
    BY <2>2, <2>4, <2>7, <2>10, <2>11
<1>2. IInv => ReportableIsSound
  BY <1>1 DEF ReportableIsSound
<1> QED
  BY <1>2, MeasurementInvariant, PTL

(* A job aborts after asking its panel only when the settle window was open at the start of    *)
(* the request, by which the job judges, and over by its decision, by which the route does:     *)
(* otherwise the request was refused before anything was paid.                                  *)
THEOREM AbortTheorem == Spec => AbortedOnlyAtTheBoundary
<1>1. ASSUME IInv, NEW r \in Runs, VerificationAborted(r)
      PROVE  /\ ~SettledBy(order[r].began, order[r].stamps)
             /\ SettledBy(order[r].decided, order[r].stamps)
  <2>1. JobOK(r) /\ SnapshotOK(r) /\ GrantOK(r)
    BY <1>1 DEF IInv
  <2>2. job[r] = "verify" /\ VerifyAborts(r)
    BY <1>1 DEF VerificationAborted
  <2>3. r \in Verifications /\ Begun(r)
    BY <2>1, <2>2 DEF JobOK, Begun
  <2>4. DOMAIN order[r].stamps # {} /\ run[r].panel = run[order[r].base].panel
        /\ (order[r].force \/ SettledBy(order[r].decided, order[r].stamps))
    BY <2>1, <2>2, <2>3 DEF SnapshotOK, GrantOK
  <2> QED
    BY <2>2, <2>4 DEF VerifyAborts
<1>2. IInv /\ [Next]_vars =>
        [\A r \in Runs : VerificationAborted(r) =>
           ~SettledBy(order[r].began, order[r].stamps) /\ SettledBy(order[r].decided, order[r].stamps)]_vars
  BY <1>1
<1> QED
  BY <1>2, MeasurementInvariant, PTL DEF Spec, AbortedOnlyAtTheBoundary

\* Among scans there is a latest one.
LEMMA LatestExists ==
  ASSUME TypeOK, NEW cutoff, NEW pin, ScansBefore(cutoff, pin) # {}
  PROVE  LatestScansBefore(cutoff, pin) # {}
<1> DEFINE found == ScansBefore(cutoff, pin)
           times == {run[q].completed : q \in found}
<1>1. \A q \in found : q \in Runs /\ run[q].completed \in {0} \union Time
  <2>1. \A q \in found : q \in Runs /\ run[q] # NoRun
    BY DEF ScansBefore, NoRun
  <2> QED
    BY <2>1, RunIsTyped
<1>2. \E q \in found : \A s \in found : run[s].completed <= run[q].completed
  <2>1. CASE \E q \in found : run[q].completed \in Time
    <3> DEFINE later == times \intersect Time
    <3>1. later \in SUBSET Time /\ later # {}
      BY <2>1
    <3>2. Max(later) \in later /\ \A x \in later : x <= Max(later)
      <4> HIDE DEF later
      <4> QED
        BY <3>1, MaxIsGreatest
    <3>3. PICK q \in found : run[q].completed = Max(later)
      BY <3>2
    <3>4. \A s \in found : run[s].completed <= run[q].completed
      <4>1. \A s \in found : run[s].completed \in later \/ run[s].completed = 0
        BY <1>1
      <4>2. run[q].completed \in Nat /\ 0 <= run[q].completed
        BY <3>1, <3>2, <3>3 DEF Time
      <4> HIDE DEF later
      <4> QED
        BY <3>2, <3>3, <4>1, <4>2
    <3> QED
      BY <3>4
  <2>2. CASE \A q \in found : run[q].completed \notin Time
    BY <1>1, <2>2
  <2> QED
    BY <2>1, <2>2
<1> QED
  BY <1>2 DEF LatestScansBefore

(* With a usable scan before every publish, an unpinned request measures all that was          *)
(* published (select_baseline_run's primary tier).                                             *)
THEOREM PrimaryTierTheorem == Spec => PrimaryTierDropsNothing
<1>1. ASSUME IInv, NEW r \in Runs, NEW force \in BOOLEAN, BindBaseline(r, 0, force),
             ScansBefore(Min(StampsOf(order[r].stamps)), 0) # {}
      PROVE  order'[r].stamps = order[r].stamps
  <2> DEFINE stamps == order[r].stamps
             first == Min(StampsOf(stamps))
  <2>1. TypeOK /\ JobOK(r) /\ SnapshotOK(r) /\ job[r] = "resolved"
    BY <1>1 DEF IInv, BindBaseline
  <2>2. stamps \in Stamps /\ DOMAIN stamps # {}
    BY <2>1 DEF JobOK, SnapshotOK
  <2>3. first \in Int /\ \A f \in DOMAIN stamps : stamps[f] \in Int /\ first <= stamps[f]
    BY <2>2, StampsAreTimes, MinIsLeast DEF Time
  <2>4. PICK base \in Baselines(stamps, 0) :
          order' = [order EXCEPT ![r] =
                      [began |-> order[r].began, stamps |-> Measured(stamps, base), base |-> base,
                       force |-> force, decided |-> now]]
    BY <1>1, <2>1 DEF BindBaseline, TypeOK
  <2>5. order'[r].stamps = Measured(stamps, base)
    BY <2>1, <2>4 DEF TypeOK
  <2>6. base \in ScansBefore(first, 0)
    BY <1>1, <2>1, LatestExists DEF Baselines, LatestScansBefore
  <2>7. run[base].completed < first /\ run[base].completed \in Int
    <3>1. base \in Runs /\ run[base] # NoRun /\ run[base].completed < first
      BY <2>6 DEF ScansBefore, NoRun
    <3> QED
      BY <2>1, <3>1, RunIsTyped DEF Time
  <2>8. \A f \in DOMAIN stamps : stamps[f] > run[base].completed
    BY <2>3, <2>7
  <2>9. stamps = [f \in DOMAIN stamps |-> stamps[f]]
    BY <2>2, StampsAreTimes
  <2> QED
    BY <2>5, <2>8, <2>9 DEF Measured
<1>2. IInv /\ [Next]_vars =>
        [\A r \in Runs, force \in BOOLEAN :
           LET stamps == order[r].stamps
           IN  BindBaseline(r, 0, force) /\ ScansBefore(Min(StampsOf(stamps)), 0) # {}
                 => order'[r].stamps = stamps]_vars
  BY <1>1
<1> QED
  BY <1>2, MeasurementInvariant, PTL DEF Spec, PrimaryTierDropsNothing

-----------------------------------------------------------------------------
(* A run is a survey. *)

\* The rows of a run are in the order they were asked, and what the job stored as its aggregate
\* is still the aggregate of its rows: nothing came between the two commits.
SurveyOK(r) ==
  /\ \A i, j \in DOMAIN rows[r] : i <= j => rows[r][i].asked <= rows[r][j].asked
  /\ job[r] \in {"verify", "finish"} => som[r] = Share(r)

SInv == \A r \in Runs : SurveyOK(r)

LEMMA SameCardinality ==
  ASSUME NEW r, NEW W
  PROVE  Survey(r)!Cardinality(W) = Cardinality(W)
BY Zenon DEF Survey!Cardinality, Cardinality

\* A rate is exact: a panel is short enough for its number of answers to divide the scale.
LEMMA ExactRate ==
  ASSUME NEW hits \in Nat, NEW total \in Nat, total <= MaxQueries, total # 0
  PROVE  RateOf(hits, total) * total = hits * Scale
<1> DEFINE k == Scale \div total
<1>1. Scale \in Nat /\ Scale % total = 0
  <2>1. total \in 1..MaxQueries
    BY ScanAssumption
  <2> QED
    BY <2>1, ScanAssumption
<1>2. k \in Nat /\ Scale = total * k
  BY <1>1
<1> HIDE DEF k
<1>3. hits * Scale = total * (hits * k) /\ hits * k \in Nat
  BY <1>2
<1>4. \A m \in Nat : (total * m) \div total = m
  OBVIOUS
<1>5. RateOf(hits, total) = hits * k
  BY <1>3, <1>4 DEF RateOf
<1> QED
  BY <1>3, <1>5

LEMMA RateIsExact ==
  ASSUME NEW r, NEW hits \in Nat, NEW total \in Nat, total <= MaxQueries
  PROVE  Survey(r)!IsRate(RateOf(hits, total), hits, total)
BY ExactRate DEF Survey!IsRate, RateOf

\* What one step may do to one run.
Quiet(q) ==
  /\ run'[q] = run[q] /\ rows'[q] = rows[q] /\ som'[q] = som[q]
  /\ job'[q] \in {"verify", "finish"} => job[q] \in {"verify", "finish"}

Started(q) ==
  /\ run[q].status = "none" /\ run'[q].status = "running" /\ run'[q].panel \in Panels
  /\ job'[q] = "created" /\ rows'[q] = rows[q] /\ som'[q] = som[q]

Asked(q) ==
  /\ run[q].status = "running" /\ run'[q] = run[q] /\ som'[q] = som[q]
  /\ job'[q] = "extract" /\ \E new \in Seq(EngineRun) : Appended(q, new)

BrandsRead(q) ==
  /\ run'[q] = run[q] /\ som'[q] = som[q] /\ job'[q] = "share"
  /\ DOMAIN rows'[q] = DOMAIN rows[q]
  /\ \A i \in DOMAIN rows[q] : /\ rows'[q][i].query = rows[q][i].query
                               /\ rows'[q][i].answer = rows[q][i].answer
                               /\ rows'[q][i].asked = rows[q][i].asked

Aggregated(q) ==
  /\ run[q].status = "running" /\ run'[q] = run[q] /\ rows'[q] = rows[q] /\ som'[q] = Share(q)

Ended(q) ==
  /\ run[q].status = "running" /\ run'[q].panel = run[q].panel
  /\ run'[q].status \in {"running", "failed", "completed"}
  /\ run'[q].status = "completed" => job[q] = "finish"
  /\ job'[q] \in {"done", "lost"} /\ rows'[q] = <<>> /\ som'[q] = som[q]

LEMMA QuietOf ==
  ASSUME NEW q, run' = run, rows' = rows, som' = som, job'[q] = job[q]
  PROVE  Quiet(q)
BY DEF Quiet

\* The status of a run that has begun and is not over.
LEMMA IsRunning ==
  ASSUME IInv, NEW r \in Runs, Begun(r), job[r] # "done"
  PROVE  run[r].status = "running" /\ run[r] # NoRun
BY DEF IInv, JobOK

LEMMA IsNone ==
  ASSUME IInv, NEW r \in Runs, ~Begun(r)
  PROVE  run[r].status = "none"
BY DEF IInv, JobOK, NoRun

\* A job ends, one way or another.
LEMMA KindEnd ==
  ASSUME IInv, NEW r \in Runs, NEW label \in {"done", "lost"}, JobAt(r, label), ForgetRows(r),
         Begun(r), job[r] # "done", som' = som,
         \/ run' = run
         \/ CompleteAgentRun(r, "failed")
         \/ job[r] = "finish" /\ CompleteAgentRun(r, "completed"),
         NEW q \in Runs
  PROVE  Quiet(q) \/ Ended(q)
<1>1. TypeOK
  BY DEF IInv
<1>2. run[r].status = "running" /\ run[r] # NoRun
  BY IsRunning
<1>3. job'[r] = label /\ \A p \in Runs \ {r} : job'[p] = job[p]
  BY <1>1, Moves DEF JobPc
<1>4. rows'[r] = <<>> /\ \A p \in Runs \ {r} : rows'[p] = rows[p]
  BY <1>1, Forgets
<1>5. /\ run'[r].panel = run[r].panel /\ \A p \in Runs \ {r} : run'[p] = run[p]
      /\ run'[r].status \in {"running", "failed", "completed"}
      /\ run'[r].status = "completed" => job[r] = "finish"
  BY <1>1, <1>2, Completes
<1> QED
  BY <1>2, <1>3, <1>4, <1>5 DEF Quiet, Ended

LEMMA KindAsked ==
  ASSUME IInv, NEW r \in Runs, NEW failed, EngineAnswers(r, failed), NEW q \in Runs
  PROVE  Quiet(q) \/ Asked(q)
<1>1. job[r] = "ask" /\ JobAt(r, "extract") /\ UNCHANGED <<run, som>>
  BY DEF EngineAnswers
<1>2. run[r].status = "running"
  BY <1>1, IsRunning DEF Begun
<1>3. job'[r] = "extract" /\ \A p \in Runs \ {r} : job'[p] = job[p]
  BY <1>1, Moves DEF JobPc, IInv
<1>4. /\ \A p \in Runs \ {r} : rows'[p] = rows[p]
      /\ \E new \in Seq(EngineRun) : Appended(r, new)
  BY RowsAppended
<1> QED
  BY <1>1, <1>2, <1>3, <1>4 DEF Quiet, Asked

LEMMA KindExtracted ==
  ASSUME IInv, NEW r \in Runs, NEW failed, NEW claims, JobAt(r, "share"), UNCHANGED <<run, som>>,
         rows' = [rows EXCEPT ![r] = Extracted(r, claims, failed)], NEW q \in Runs
  PROVE  Quiet(q) \/ BrandsRead(q)
<1>1. job'[r] = "share" /\ \A p \in Runs \ {r} : job'[p] = job[p]
  BY Moves DEF JobPc, IInv
<1>2. rows'[r] = Extracted(r, claims, failed) /\ \A p \in Runs \ {r} : rows'[p] = rows[p]
  BY DEF IInv, TypeOK, ScanTypeOK
<1>3. /\ DOMAIN rows'[r] = DOMAIN rows[r]
      /\ \A i \in DOMAIN rows[r] : /\ rows'[r][i].query = rows[r][i].query
                                   /\ rows'[r][i].answer = rows[r][i].answer
                                   /\ rows'[r][i].asked = rows[r][i].asked
  BY <1>2, RowsExtracted
<1> QED
  BY <1>1, <1>2, <1>3 DEF Quiet, BrandsRead

LEMMA KindShared ==
  ASSUME IInv, NEW r \in Runs, RunShareOfModel(r), NEW q \in Runs
  PROVE  Quiet(q) \/ Aggregated(q)
<1>1. job[r] = "share" /\ UNCHANGED <<run, rows>> /\ som' = [som EXCEPT ![r] = Share(r)]
  BY DEF RunShareOfModel
<1>2. run[r].status = "running"
  BY <1>1, IsRunning DEF Begun
<1>3. som'[r] = Share(r) /\ \A p \in Runs \ {r} : som'[p] = som[p]
  BY <1>1 DEF IInv, TypeOK, ScanTypeOK
<1>4. \A p \in Runs \ {r} : job'[p] = job[p]
  BY DEF RunShareOfModel, JobAt, IInv, TypeOK, ScanTypeOK
<1> QED
  BY <1>1, <1>2, <1>3, <1>4 DEF Quiet, Aggregated

\* The run of a request is created.
LEMMA KindStarted ==
  ASSUME IInv, NEW r \in Runs, ~Begun(r), NEW panel \in Panels, CreateAgentRun(r, panel),
         JobAt(r, "created"), UNCHANGED <<rows, som>>, NEW q \in Runs
  PROVE  Quiet(q) \/ Started(q)
<1>1. run'[r].status = "running" /\ run'[r].panel = panel /\ \A p \in Runs \ {r} : run'[p] = run[p]
  BY Creates DEF IInv
<1>2. job'[r] = "created" /\ \A p \in Runs \ {r} : job'[p] = job[p]
  BY Moves DEF JobPc, IInv
<1>3. run[r].status = "none"
  BY IsNone
<1> QED
  BY <1>1, <1>2, <1>3 DEF Quiet, Started

\* The job moves, and not past its aggregate.
LEMMA KindMoved ==
  ASSUME IInv, NEW r \in Runs, NEW label \in JobPc, JobAt(r, label), UNCHANGED <<run, rows, som>>,
         label = "finish" => job[r] = "verify", label # "verify", NEW q \in Runs
  PROVE  Quiet(q)
<1>1. job'[r] = label /\ \A p \in Runs \ {r} : job'[p] = job[p]
  BY Moves DEF IInv
<1> QED
  BY <1>1 DEF Quiet

LEMMA KindScan ==
  ASSUME IInv, ScanNext, NEW q \in Runs
  PROVE  Quiet(q) \/ Started(q) \/ Asked(q) \/ BrandsRead(q) \/ Aggregated(q) \/ Ended(q)
<1>1. CASE Tick
  BY <1>1, QuietOf DEF Tick
<1>2. ASSUME NEW r \in Runs, StartScan(r)
      PROVE  Quiet(q) \/ Started(q)
  <2>1. BuildQueryPanel(now) \in Panels
    BY ScanAssumption DEF Panels, IInv, TypeOK, ScanTypeOK, Time
  <2> QED
    BY <1>2, <2>1, KindStarted DEF StartScan, NextOf, Begun
<1>3. ASSUME NEW r \in Runs, Enqueue(r) \/ EnqueueLost(r) \/ WorkerCrash(r)
      PROVE  Quiet(q)
  <2>1. Enqueue(r) \/ WorkerCrash(r) => Quiet(q)
    BY KindMoved DEF Enqueue, WorkerCrash, JobPc
  <2>2. EnqueueLost(r) => Quiet(q)
    BY KindMoved DEF EnqueueLost, JobPc
  <2> QED
    BY <1>3, <2>1, <2>2
<1>4. ASSUME NEW r \in Runs, RunEngine(r) \/ EngineFails(r)
      PROVE  Quiet(q) \/ Asked(q)
  BY <1>4, KindAsked DEF RunEngine, EngineFails
<1>5. ASSUME NEW r \in Runs, RunExtractor(r) \/ RunExtractorFails(r)
      PROVE  Quiet(q) \/ BrandsRead(q)
  BY <1>5, KindExtracted DEF RunExtractor, RunExtractorFails
<1>6. ASSUME NEW r \in Runs, RunShareOfModel(r)
      PROVE  Quiet(q) \/ Aggregated(q)
  BY <1>6, KindShared
<1>7. ASSUME NEW r \in Runs, Complete(r) \/ JobFails(r) \/ JobTimeout(r)
      PROVE  Quiet(q) \/ Ended(q)
  <2>1. Complete(r) => Quiet(q) \/ Ended(q)
    BY KindEnd DEF Complete, Begun
  <2>2. JobFails(r) => Quiet(q) \/ Ended(q)
    BY KindEnd DEF JobFails, InTry, Begun
  <2>3. JobTimeout(r) => Quiet(q) \/ Ended(q)
    BY KindEnd DEF JobTimeout, InTry, Begun
  <2> QED
    BY <1>7, <2>1, <2>2, <2>3
<1> QED
  BY <1>1, <1>2, <1>3, <1>4, <1>5, <1>6, <1>7 DEF ScanNext, JobStep, JobFault

\* Every step is one of these to every run.
LEMMA Kinds ==
  ASSUME IInv, [Next]_vars, NEW q \in Runs
  PROVE  Quiet(q) \/ Started(q) \/ Asked(q) \/ BrandsRead(q) \/ Aggregated(q) \/ Ended(q)
<1>1. CASE ScanNext
  BY <1>1, KindScan
<1>2. ASSUME NEW f \in Fixes, Publish(f)
      PROVE  Quiet(q)
  BY <1>2, QuietOf DEF Publish, scanVars
<1>3. ASSUME NEW r \in Runs,
             ResolveShop(r) \/ ResolveMeasuredSet(r) \/ Refuse(r) \/ RunVerifier(r)
      PROVE  Quiet(q)
  <2>1. ResolveShop(r) => Quiet(q)
    BY KindMoved DEF ResolveShop, JobPc
  <2>2. Refuse(r) => Quiet(q)
    BY KindMoved DEF Refuse, JobPc
  <2>3. ResolveMeasuredSet(r) => Quiet(q)
    BY KindMoved DEF ResolveMeasuredSet, JobPc
  <2>4. RunVerifier(r) => Quiet(q)
    BY KindMoved DEF RunVerifier, JobPc
  <2> QED
    BY <1>3, <2>1, <2>2, <2>3, <2>4
<1>4. ASSUME NEW r \in Runs, VerificationAborted(r)
      PROVE  Quiet(q) \/ Ended(q)
  BY <1>4, KindEnd DEF VerificationAborted, Begun
<1>5. ASSUME NEW r \in Runs, NEW pin \in Pins, NEW force \in BOOLEAN, BindBaseline(r, pin, force)
      PROVE  Quiet(q) \/ Started(q)
  <2>1. PICK base \in Baselines(order[r].stamps, pin) : CreateAgentRun(r, PanelFor(base))
    BY <1>5 DEF BindBaseline
  <2>2. PanelFor(base) \in Panels
    <3>1. base \in Runs /\ run[base] # NoRun
      BY BaselineIsCompleted DEF NoRun
    <3> QED
      BY <3>1, RunIsTyped DEF PanelFor, IInv
  <2> QED
    BY <1>5, <2>1, <2>2, KindStarted DEF BindBaseline, Begun
<1>6. CASE UNCHANGED vars
  BY <1>6, QuietOf DEF vars, scanVars
<1> QED
  BY <1>1, <1>2, <1>3, <1>4, <1>5, <1>6 DEF Next

\* Nothing that an aggregate is made of changes.
LEMMA ShareStands ==
  ASSUME NEW q, rows'[q] = rows[q]
  PROVE  Share(q)' = Share(q)
BY DEF Share, LatestPerQuery

LEMMA SurveyInit == Init => SInv
BY DEF Init, ScanInit, SInv, SurveyOK

LEMMA SurveyStep ==
  ASSUME IInv, SInv, [Next]_vars, NEW q \in Runs
  PROVE  SurveyOK(q)'
<1>1. SurveyOK(q) /\ RowsOK(q)
  BY DEF IInv, SInv
<1>2. CASE Quiet(q)
  BY <1>1, <1>2, ShareStands DEF Quiet, SurveyOK
<1>3. CASE Started(q)
  BY <1>1, <1>3 DEF Started, SurveyOK
<1>4. CASE Asked(q)
  <2>1. PICK new \in Seq(EngineRun) : Appended(q, new)
    BY <1>4 DEF Asked
  <2>2. DOMAIN rows[q] = 1..Len(rows[q]) /\ Len(rows[q]) \in Nat /\ now \in Int
        /\ \A i \in DOMAIN rows[q] : rows[q][i].asked \in Int /\ rows[q][i].asked <= now
    BY <1>1, RowIsTyped, Clock DEF IInv, RowsOK, Time
  <2>3. DOMAIN new = 1..Len(new) /\ Len(new) \in Nat
    OBVIOUS
  <2>4. ASSUME NEW i \in DOMAIN rows'[q]
        PROVE  \/ i \in DOMAIN rows[q] /\ rows'[q][i] = rows[q][i]
               \/ i > Len(rows[q]) /\ rows'[q][i].asked = now
    <3>1. i \in 1..(Len(rows[q]) + Len(new))
      BY <2>1 DEF Appended
    <3>2. CASE i <= Len(rows[q])
      BY <2>1, <2>2, <3>1, <3>2 DEF Appended
    <3>3. CASE ~(i <= Len(rows[q]))
      <4>1. i - Len(rows[q]) \in DOMAIN new
        BY <2>2, <2>3, <3>1, <3>3
      <4> QED
        BY <2>1, <2>2, <3>1, <3>3, <4>1 DEF Appended
    <3> QED
      BY <3>2, <3>3
  <2>5. DOMAIN rows'[q] \subseteq Int
    BY <2>1, <2>2, <2>3 DEF Appended
  <2>6. \A i, j \in DOMAIN rows'[q] : i <= j => rows'[q][i].asked <= rows'[q][j].asked
    <3> SUFFICES ASSUME NEW i \in DOMAIN rows'[q], NEW j \in DOMAIN rows'[q], i <= j
                 PROVE  rows'[q][i].asked <= rows'[q][j].asked
      OBVIOUS
    <3>1. CASE j \in DOMAIN rows[q] /\ rows'[q][j] = rows[q][j]
      <4>1. i \in DOMAIN rows[q] /\ rows'[q][i] = rows[q][i]
        BY <2>2, <2>4, <2>5, <3>1
      <4> QED
        BY <1>1, <3>1, <4>1 DEF SurveyOK
    <3>2. CASE j > Len(rows[q]) /\ rows'[q][j].asked = now
      BY <2>2, <2>4, <3>2
    <3> QED
      BY <2>4, <3>1, <3>2
  <2> QED
    BY <1>4, <2>6 DEF SurveyOK, Asked
<1>5. CASE BrandsRead(q)
  BY <1>1, <1>5 DEF BrandsRead, SurveyOK
<1>6. CASE Aggregated(q)
  BY <1>1, <1>6, ShareStands DEF Aggregated, SurveyOK
<1>7. CASE Ended(q)
  BY <1>7 DEF Ended, SurveyOK
<1> QED
  BY <1>2, <1>3, <1>4, <1>5, <1>6, <1>7, Kinds

LEMMA SurveyInvariantStep == IInv /\ SInv /\ [Next]_vars => SInv'
BY SurveyStep DEF SInv

AsHeard(row) == [query |-> row.query, answer |-> row.answer, asked |-> row.asked]

LEMMA HeardIs ==
  ASSUME NEW q
  PROVE  /\ \A i \in DOMAIN rows[q] : rows[q][i].answer # NULL => AsHeard(rows[q][i]) \in Heard(q)
         /\ \A a \in Heard(q) : \E i \in DOMAIN rows[q] : rows[q][i].answer # NULL /\ a = AsHeard(rows[q][i])
BY DEF Heard, AsHeard

LEMMA HeardIsNext ==
  ASSUME NEW q
  PROVE  /\ \A i \in DOMAIN rows'[q] : rows'[q][i].answer # NULL => AsHeard(rows'[q][i]) \in Heard(q)'
         /\ \A a \in Heard(q)' :
              \E i \in DOMAIN rows'[q] : rows'[q][i].answer # NULL /\ a = AsHeard(rows'[q][i])
BY DEF Heard, AsHeard

\* A round of questions, whichever failed, is heard.
LEMMA HearStep ==
  ASSUME IInv, IInv', NEW q \in Runs, Asked(q)
  PROVE  Survey(q)!Hear
<1>1. PICK new \in Seq(EngineRun) : Appended(q, new)
  BY DEF Asked
<1>2. DOMAIN rows[q] = 1..Len(rows[q]) /\ Len(rows[q]) \in Nat
  BY RowIsTyped DEF IInv
<1>3. DOMAIN new = 1..Len(new) /\ Len(new) \in Nat
  OBVIOUS
<1>4. \A i \in DOMAIN rows[q] : i \in DOMAIN rows'[q] /\ rows'[q][i] = rows[q][i]
  BY <1>1, <1>2, <1>3 DEF Appended
<1>5. ASSUME NEW i \in DOMAIN rows'[q]
      PROVE  \/ i \in DOMAIN rows[q] /\ rows'[q][i] = rows[q][i]
             \/ \E k \in DOMAIN new : rows'[q][i] = new[k]
  <2>1. i \in 1..(Len(rows[q]) + Len(new))
    BY <1>1 DEF Appended
  <2>2. CASE i <= Len(rows[q])
    BY <1>1, <1>2, <2>1, <2>2 DEF Appended
  <2>3. CASE ~(i <= Len(rows[q]))
    <3>1. i - Len(rows[q]) \in DOMAIN new
      BY <1>2, <1>3, <2>1, <2>3
    <3> QED
      BY <1>1, <2>1, <2>3, <3>1 DEF Appended
  <2> QED
    BY <2>2, <2>3
<1>6. Heard(q) \subseteq Heard(q)'
  BY <1>4, HeardIs, HeardIsNext
<1>7. \A a \in Heard(q)' \ Heard(q) : \E k \in DOMAIN new : a = AsHeard(new[k])
  BY <1>5, HeardIs, HeardIsNext
<1>8. \A a, b \in Heard(q)' \ Heard(q) : a.query = b.query => a = b
  <2> SUFFICES ASSUME NEW a \in Heard(q)' \ Heard(q), NEW b \in Heard(q)' \ Heard(q), a.query = b.query
               PROVE  a = b
    OBVIOUS
  <2>1. PICK k \in DOMAIN new : a = AsHeard(new[k])
    BY <1>7
  <2>2. PICK l \in DOMAIN new : b = AsHeard(new[l])
    BY <1>7
  <2>3. new[k].query = new[l].query
    BY <2>1, <2>2 DEF AsHeard
  <2>4. new[k].answer = new[l].answer /\ new[k].asked = new[l].asked
    BY <1>1, <2>3 DEF Appended
  <2> QED
    BY <2>1, <2>2, <2>3, <2>4 DEF AsHeard
<1>9. \A a \in Heard(q)' : a \in Survey(q)!Reply /\ a.query \in ToSet(run[q].panel)
  <2> SUFFICES ASSUME NEW a \in Heard(q)'
               PROVE  a \in Survey(q)!Reply /\ a.query \in ToSet(run[q].panel)
    OBVIOUS
  <2>1. PICK i \in DOMAIN rows'[q] : rows'[q][i].answer # NULL /\ a = AsHeard(rows'[q][i])
    BY HeardIsNext
  <2>2. rows'[q][i] \in EngineRun /\ rows'[q][i].query \in ToSet(run'[q].panel)
    <3>1. rows'[q] \in Seq(EngineRun) /\ RowsOK(q)'
      BY DEF IInv, TypeOK, ScanTypeOK
    <3> QED
      BY <3>1 DEF RowsOK
  <2>3. /\ rows'[q][i].query \in Queries /\ rows'[q][i].asked \in Time
        /\ rows'[q][i].answer \in SUBSET Brands
    BY <2>1, <2>2, ScanAssumption DEF EngineRun
  <2>4. a \in Survey(q)!Reply
    BY <2>1, <2>3 DEF AsHeard, Survey!Reply, Survey!Brands, Brands
  <2>5. a.query = rows'[q][i].query
    BY <2>1 DEF AsHeard
  <2> QED
    BY <2>2, <2>4, <2>5 DEF Asked
<1>10. run[q].status = "running" /\ run'[q] = run[q] /\ Tally(q)' = Tally(q)
  BY DEF Asked, Tally
<1>11. /\ Survey(q)!OnePerQuery(Heard(q)' \ Heard(q))
       /\ \A a \in Heard(q)' \ Heard(q) : a \in Survey(q)!Reply /\ a.query \in ToSet(run[q].panel)
  BY <1>8, <1>9 DEF Survey!OnePerQuery
<1> QED
  BY <1>6, <1>10, <1>11 DEF Survey!Hear

\* The aggregate of the rows is a tally of the freshest answers.
LEMMA ShareIsATally ==
  ASSUME IInv, SInv, NEW q \in Runs, run[q] # NoRun
  PROVE  \E replies \in SUBSET Heard(q) : \E cited \in [replies -> SUBSET Survey(q)!Brands] :
           /\ Survey(q)!OnePerQuery(replies) /\ Survey(q)!Freshest(replies)
           /\ \A a \in replies : cited[a] \subseteq a.answer
           /\ Survey(q)!IsTally(Share(q), replies, cited)
<1> DEFINE said == [i \in DOMAIN rows[q] |-> AsHeard(rows[q][i])]
           replies == {said[i] : i \in Usable(q)}
           row == [a \in replies |-> CHOOSE i \in Usable(q) : said[i] = a]
           cited == [a \in replies |-> rows[q][row[a]].cited]
<1>1. RowsOK(q) /\ SurveyOK(q) /\ rows[q] \in Seq(EngineRun)
  BY RowIsTyped DEF IInv, SInv
<1>2. /\ Usable(q) \subseteq DOMAIN rows[q] /\ IsFiniteSet(Usable(q))
      /\ DOMAIN rows[q] \subseteq Int
  BY <1>1, UsableFinite, RowIsTyped DEF IInv
<1>3. ASSUME NEW i \in Usable(q)
      PROVE  /\ said[i] = AsHeard(rows[q][i]) /\ said[i] \in Heard(q)
             /\ rows[q][i].cited \subseteq rows[q][i].answer /\ rows[q][i].cited \in SUBSET Brands
             /\ said[i].query = rows[q][i].query /\ said[i].answer = rows[q][i].answer
             /\ said[i].asked = rows[q][i].asked
  <2>1. i \in DOMAIN rows[q] /\ rows[q][i].cited # NULL
    BY <1>2 DEF Usable
  <2>2. rows[q][i] \in EngineRun
    BY <1>1, <2>1
  <2>3. /\ rows[q][i].cited \in SUBSET Brands
        /\ rows[q][i].answer # NULL /\ rows[q][i].cited \subseteq rows[q][i].answer
    BY <1>1, <2>1, <2>2 DEF RowsOK, EngineRun
  <2>4. said[i] = AsHeard(rows[q][i])
    BY <2>1
  <2> HIDE DEF said
  <2>5. said[i] \in Heard(q)
    BY <2>1, <2>3, <2>4, HeardIs
  <2>6. /\ said[i].query = rows[q][i].query /\ said[i].answer = rows[q][i].answer
        /\ said[i].asked = rows[q][i].asked
    BY <2>4 DEF AsHeard
  <2> QED
    BY <2>3, <2>4, <2>5, <2>6
<1>4. \A i, j \in Usable(q) : rows[q][i].query = rows[q][j].query => i = j
  BY <1>1, UsableIsRead
<1> HIDE DEF said
<1>5. \A i, j \in Usable(q) : said[i] = said[j] => i = j
  BY <1>3, <1>4
<1>6. \A a \in replies : row[a] \in Usable(q) /\ said[row[a]] = a
  OBVIOUS
<1>7. \A i \in Usable(q) : said[i] \in replies /\ row[said[i]] = i
  <2>1. \A i \in Usable(q) : said[i] \in replies
    OBVIOUS
  <2> HIDE DEF row, replies
  <2> QED
    BY <1>5, <1>6, <2>1
<1> HIDE DEF row
<1>8. replies \in SUBSET Heard(q) /\ cited \in [replies -> SUBSET Survey(q)!Brands]
  <2>1. \A a \in replies : cited[a] \in SUBSET Survey(q)!Brands
    BY <1>3, <1>6 DEF Survey!Brands, Brands
  <2> QED
    BY <1>3, <2>1
<1>9. \A a \in replies : cited[a] = rows[q][row[a]].cited /\ cited[a] \subseteq a.answer
  BY <1>3, <1>6
<1>10. \A i \in Usable(q) : cited[said[i]] = rows[q][i].cited
  BY <1>7
<1> HIDE DEF cited, replies
<1>11. Survey(q)!OnePerQuery(replies)
  <2>1. \A a, b \in replies : a.query = b.query => row[a] = row[b]
    BY <1>3, <1>4, <1>6
  <2> QED
    BY <1>6, <2>1 DEF Survey!OnePerQuery
<1>12. Survey(q)!Freshest(replies)
  <2> SUFFICES ASSUME NEW a \in replies, NEW b \in Heard(q), a.query = b.query
               PROVE  b.asked <= a.asked
    BY DEF Survey!Freshest
  <2>1. PICK j \in DOMAIN rows[q] : b = AsHeard(rows[q][j])
    BY HeardIs
  <2>2. row[a] \in Usable(q) /\ a.query = rows[q][row[a]].query /\ a.asked = rows[q][row[a]].asked
    BY <1>3, <1>6
  <2>3. rows[q][j].query = rows[q][row[a]].query /\ b.asked = rows[q][j].asked
    BY <2>1, <2>2 DEF AsHeard
  <2>4. j <= row[a] /\ row[a] \in DOMAIN rows[q]
    BY <2>2, <2>3 DEF Usable, LatestPerQuery
  <2> QED
    BY <1>1, <2>1, <2>2, <2>3, <2>4 DEF SurveyOK
<1>13. Cardinality(replies) = Cardinality(Usable(q))
  BY <1>2, <1>5, ImageCardinality DEF replies
<1>14. \A b : Cardinality({a \in replies : b \in cited[a]}) = Cardinality(Naming(q, b))
  <2> TAKE b
  <2>1. {a \in replies : b \in cited[a]} = {said[i] : i \in Naming(q, b)}
    <3>1. ASSUME NEW i \in Naming(q, b)
          PROVE  said[i] \in replies /\ b \in cited[said[i]]
      BY <1>7, <1>10 DEF Naming
    <3>2. ASSUME NEW a \in replies, b \in cited[a]
          PROVE  row[a] \in Naming(q, b) /\ a = said[row[a]]
      BY <1>6, <1>9, <3>2 DEF Naming
    <3> QED
      BY <3>1, <3>2
  <2>2. IsFiniteSet(Naming(q, b)) /\ Naming(q, b) \subseteq Usable(q)
    BY <1>1, UsableFinite DEF Naming
  <2> QED
    BY <1>5, <2>1, <2>2, ImageCardinality
<1>15. {a.asked : a \in replies} = {rows[q][i].asked : i \in Usable(q)}
  <2>1. \A a \in replies : row[a] \in Usable(q) /\ a.asked = rows[q][row[a]].asked
    BY <1>3, <1>6
  <2>2. \A i \in Usable(q) : said[i] \in replies /\ said[i].asked = rows[q][i].asked
    BY <1>3, <1>7
  <2> QED
    BY <2>1, <2>2
<1>16. Survey(q)!IsTally(Share(q), replies, cited)
  <2> DEFINE total == Cardinality(Usable(q))
             hits(b) == Cardinality(Naming(q, b))
  <2>1. /\ Share(q).mentions = hits(Us) /\ Share(q).total = total
        /\ Share(q).rate = RateOf(hits(Us), total)
        /\ Share(q).asked = {rows[q][i].asked : i \in Usable(q)}
        /\ total # 0 => \A b \in Rivals : Share(q).rivals[b] = RateOf(hits(b), total)
    BY ShareFields
  <2>2. total \in Nat /\ \A b : hits(b) \in Nat
    BY <1>1, UsableFinite
  <2>3. total <= MaxQueries
    <3>1. run[q].panel \in Panels
      BY RunIsTyped DEF IInv
    <3>2. total <= Len(run[q].panel)
      BY <1>1, <2>1, <3>1, ShareCounted
    <3>3. Len(run[q].panel) <= MaxQueries /\ Len(run[q].panel) \in Nat /\ MaxQueries \in Nat
      BY <3>1, PanelIsSequence, ScanAssumption
    <3> QED
      BY <2>2, <3>2, <3>3
  <2>4. \A b : Survey(q)!IsRate(RateOf(hits(b), total), hits(b), total)
    BY <2>2, <2>3, RateIsExact
  <2>5. /\ Survey(q)!Cardinality(replies) = total
        /\ \A b : Survey(q)!Cardinality({a \in replies : b \in cited[a]}) = hits(b)
    BY <1>13, <1>14, SameCardinality
  <2> HIDE DEF total, hits
  <2> QED
    BY <1>15, <2>1, <2>4, <2>5 DEF Survey!IsTally
<1> QED
  BY <1>8, <1>9, <1>11, <1>12, <1>16

LEMMA BeginStep ==
  ASSUME NEW q, Started(q)
  PROVE  Survey(q)!Begin
<1>1. ToSet(run'[q].panel) \in SUBSET Queries
  BY DEF Started, Queries
<1>2. Heard(q)' = Heard(q)
  BY DEF Heard, Started
<1>3. Tally(q)' = Tally(q)
  BY DEF Tally, Started
<1> QED
  BY <1>1, <1>2, <1>3 DEF Survey!Begin, Started

\* What an extraction writes is not heard.
LEMMA BrandsReadIsSilent ==
  ASSUME NEW q, BrandsRead(q)
  PROVE  UNCHANGED Survey(q)!vars
<1>1. Heard(q)' = Heard(q)
  <2>1. DOMAIN rows'[q] = DOMAIN rows[q]
    BY DEF BrandsRead
  <2>2. \A i \in DOMAIN rows[q] : /\ AsHeard(rows'[q][i]) = AsHeard(rows[q][i])
                                  /\ rows'[q][i].answer = rows[q][i].answer
    BY DEF BrandsRead, AsHeard
  <2>3. \A a : a \in Heard(q)' <=> a \in Heard(q)
    BY <2>1, <2>2, HeardIs, HeardIsNext
  <2> QED
    BY <2>3 DEF Heard
<1>2. Tally(q)' = Tally(q)
  BY DEF Tally, BrandsRead
<1> QED
  BY <1>1, <1>2 DEF Survey!vars, BrandsRead

LEMMA EndStep ==
  ASSUME IInv, SInv, NEW q \in Runs, Ended(q)
  PROVE  Survey(q)!Count \/ Survey(q)!GiveUp
<1>1. Heard(q)' = {}
  BY DEF Heard, Ended
<1>2. /\ run[q].status = "running" /\ ToSet(run'[q].panel) = ToSet(run[q].panel)
      /\ run'[q].status \in {"running", "failed", "completed"}
  BY DEF Ended
<1>3. CASE run'[q].status # "completed"
  <2>1. Tally(q)' = Tally(q)
    BY <1>2, <1>3 DEF Tally
  <2> QED
    BY <1>1, <1>2, <1>3, <2>1 DEF Survey!GiveUp
<1>4. CASE run'[q].status = "completed"
  <2>1. job[q] = "finish" /\ som'[q] = som[q]
    BY <1>4 DEF Ended
  <2>2. Tally(q)' = Share(q)
    BY <1>4, <2>1 DEF Tally, SInv, SurveyOK
  <2>3. run[q] # NoRun
    BY <1>2 DEF NoRun
  <2>4. \E replies \in SUBSET Heard(q) : \E cited \in [replies -> SUBSET Survey(q)!Brands] :
          /\ Survey(q)!OnePerQuery(replies) /\ Survey(q)!Freshest(replies)
          /\ \A a \in replies : cited[a] \subseteq a.answer
          /\ Survey(q)!IsTally(Tally(q)', replies, cited)
    BY <2>2, <2>3, ShareIsATally
  <2> QED
    BY <1>1, <1>2, <1>4, <2>4 DEF Survey!Count
<1> QED
  BY <1>3, <1>4

LEMMA SurveyMove ==
  ASSUME IInv, IInv', SInv, [Next]_vars, NEW q \in Runs
  PROVE  [Survey(q)!Next]_(Survey(q)!vars)
<1>1. CASE Quiet(q)
  <2>1. Heard(q)' = Heard(q)
    BY <1>1 DEF Heard, Quiet
  <2>2. Tally(q)' = Tally(q)
    BY <1>1 DEF Tally, Quiet
  <2> QED
    BY <1>1, <2>1, <2>2 DEF Survey!vars, Quiet
<1>2. CASE Started(q)
  BY <1>2, BeginStep DEF Survey!Next
<1>3. CASE Asked(q)
  BY <1>3, HearStep DEF Survey!Next
<1>4. CASE BrandsRead(q)
  BY <1>4, BrandsReadIsSilent
<1>5. CASE Aggregated(q)
  <2>1. Heard(q)' = Heard(q)
    BY <1>5 DEF Heard, Aggregated
  <2>2. Tally(q)' = Tally(q)
    BY <1>5 DEF Tally, Aggregated
  <2> QED
    BY <1>5, <2>1, <2>2 DEF Survey!vars, Aggregated
<1>6. CASE Ended(q)
  BY <1>6, EndStep DEF Survey!Next
<1> QED
  BY <1>1, <1>2, <1>3, <1>4, <1>5, <1>6, Kinds

LEMMA SurveyBegins == Init => \A r \in Runs : Survey(r)!Init
<1> SUFFICES ASSUME Init, NEW q \in Runs
             PROVE  Survey(q)!Init
  OBVIOUS
<1>1. run[q] = NoRun /\ rows[q] = <<>>
  BY DEF Init, ScanInit
<1>2. run[q].status = "none" /\ ToSet(run[q].panel) = {}
  BY <1>1 DEF NoRun, ToSet
<1>3. Heard(q) = {}
  BY <1>1 DEF Heard
<1> QED
  BY <1>2, <1>3 DEF Survey!Init, Tally

(* The rows of a run are in the order they were asked, from the engine's commit to the end of   *)
(* the job the last of them are one whole round of the panel (RoundOK, in IInv), and between    *)
(* the commit of its aggregate and its end no other job touches what was aggregated             *)
(* (run_engine, run_share_of_model).                                                            *)
THEOREM SurveyInvariant == Spec => [](IInv /\ SInv)
BY InvInit, InvStep, SurveyInit, SurveyInvariantStep, PTL DEF Spec

(* Each run is a survey: however often its job is delivered, fails or is interleaved with       *)
(* others, what it shows once completed is the tally of at most one answer to each question of  *)
(* its panel, the freshest it heard, exact, with no mention that its answer does not have, and  *)
(* no step of the model changes it (a worker that dies between the last commit and Arq's record *)
(* of the end is none).                                                                         *)
THEOREM SurveyRefinement == Spec => ImplementsSurvey
<1>1. IInv /\ IInv' /\ SInv /\ [Next]_vars => [SurveysAdvance]_vars
  BY SurveyMove DEF SurveysAdvance
<1> QED
  BY <1>1, SurveyBegins, SurveyInvariant, PTL DEF Spec, ImplementsSurvey

=============================================================================
