---------------------------- MODULE FixLifecycle ----------------------------
(***************************************************************************)
(* What the approval gate and the publisher promise together about         *)
(* fixes.status, with no transaction, job or store in sight: a decision    *)
(* and its supersede are one step, an outcome of publishing is one step,   *)
(* at most one fix of a target is approved, and verified, publish_failed   *)
(* and rejected are final.                                                 *)
(***************************************************************************)
CONSTANTS Fixes, Rival(_, _)

VARIABLE status

With(s) == {f \in Fixes : status[f] = s}

Init == status = [f \in Fixes |-> "none"]

Becomes(S, s) == status' = [f \in Fixes |-> IF f \in S THEN s ELSE status[f]]

Propose(S) == S \subseteq With("none") /\ Becomes(S, "proposed")

\* Approving retires every approved rival; an undecided one may stay for later.
Approve(f, S) ==
  /\ f \in With("proposed")
  /\ S \subseteq {g \in With("proposed") \union With("approved") : Rival(f, g)}
  /\ {g \in With("approved") : Rival(f, g)} \subseteq S
  /\ status' = [g \in Fixes |-> IF g = f THEN "approved"
                                ELSE IF g \in S THEN "stale" ELSE status[g]]

Reject(f) == f \in With("proposed") /\ Becomes({f}, "rejected")

\* A publish run may still settle a fix that was superseded after the run picked it up.
Publishing == With("approved") \union With("stale") \union With("published")

\* The outcomes a run may record for a fix: one without a write, the write, and what the
\* re-read shows of a fix already written.
Outcomes(f) ==
  CASE status[f] = "published" -> {"verified", "publish_failed"}
    [] OTHER -> {"stale", "published", "verified", "publish_failed"}

Settle(S) ==
  /\ S \subseteq Publishing
  /\ \A f \in S : status'[f] \in Outcomes(f)
  /\ status' \in [Fixes -> {status'[f] : f \in S} \union {status[f] : f \in Fixes}]
  /\ \A f \in Fixes \ S : status'[f] = status[f]

Next ==
  \/ \E S \in SUBSET Fixes : Propose(S) \/ Settle(S)
  \/ \E f \in Fixes, S \in SUBSET Fixes : Approve(f, S)
  \/ \E f \in Fixes : Reject(f)

Spec == Init /\ [][Next]_status

=============================================================================
