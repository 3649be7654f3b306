------------------------------- MODULE Survey -------------------------------
(***************************************************************************)
(* What one measurement promises, whatever happens to its job until it is  *)
(* completed: one tally, over at most one answer to each question, the     *)
(* freshest of those that were heard.  A question may be asked and heard   *)
(* again; failing in the middle, extracting brands and rewriting           *)
(* intermediate rows are no part of the promise.                           *)
(***************************************************************************)
EXTENDS Integers, FiniteSets

CONSTANTS
  Queries, Us, Rivals, Time,
  Scale,   \* rates are multiples of 1/Scale
  NULL,    \* the rate of no answers
  None     \* not counted yet

VARIABLES
  status,   \* what is said of the run
  panel,    \* the questions it asks
  heard,    \* the answers it has so far: who was named, and when it was asked
  tally     \* what was counted

vars == <<status, panel, heard, tally>>

Brands == {Us} \union Rivals
Reply == [query : Queries, answer : SUBSET Brands, asked : Time]

Init == status = "none" /\ panel = {} /\ heard = {} /\ tally = None

OnePerQuery(replies) == \A a, b \in replies : a.query = b.query => a = b

Freshest(replies) == \A a \in replies, b \in heard : a.query = b.query => b.asked <= a.asked

\* No answers, no rate.
IsRate(rate, hits, total) == IF total = 0 THEN rate = NULL ELSE rate * total = hits * Scale

IsTally(t, replies, cited) ==
  LET hits(b) == Cardinality({a \in replies : b \in cited[a]})
      total == Cardinality(replies)
  IN  /\ t.mentions = hits(Us) /\ t.total = total /\ t.asked = {a.asked : a \in replies}
      /\ IsRate(t.rate, hits(Us), total)
      /\ total # 0 => \A b \in Rivals : IsRate(t.rivals[b], hits(b), total)

-----------------------------------------------------------------------------
Begin ==
  /\ status = "none" /\ status' = "running"
  /\ panel' \in SUBSET Queries
  /\ UNCHANGED <<heard, tally>>

\* Some of the questions are answered, perhaps not for the first time.
Hear ==
  /\ status = "running"
  /\ heard \subseteq heard' /\ OnePerQuery(heard' \ heard)
  /\ \A a \in heard' \ heard : a \in Reply /\ a.query \in panel
  /\ UNCHANGED <<status, panel, tally>>

\* An answer counts for brands it names.
Count ==
  /\ status = "running" /\ status' = "completed"
  /\ \E replies \in SUBSET heard : \E cited \in [replies -> SUBSET Brands] :
       /\ OnePerQuery(replies) /\ Freshest(replies)
       /\ \A a \in replies : cited[a] \subseteq a.answer
       /\ IsTally(tally', replies, cited)
  /\ heard' = {}
  /\ UNCHANGED panel

\* It fails, or nobody works on it any more.
GiveUp ==
  /\ status = "running" /\ status' \in {"running", "failed"}
  /\ heard' = {}
  /\ UNCHANGED <<panel, tally>>

Next == Begin \/ Hear \/ Count \/ GiveUp

Spec == Init /\ [][Next]_vars

=============================================================================
