---------------------------- MODULE ApprovalGate ----------------------------
(***************************************************************************)
(* api/fixes.py: POST .../approve and .../reject (`_decide').              *)
(*                                                                         *)
(* Each request is one READ COMMITTED transaction of a session with        *)
(* autoflush off: it SELECTs the row without locking it, then (approve)    *)
(* runs the supersede UPDATE over the rivals, and only at COMMIT flushes   *)
(* its own `UPDATE fixes SET status = ... WHERE id = ...', which does not  *)
(* look at the old status.  The supersede UPDATE collects its rows in the  *)
(* statement's snapshot, then locks them one by one, testing each again    *)
(* once it has it.                                                         *)
(***************************************************************************)
EXTENDS FixStore

CONSTANT SerialDecisions   \* TRUE: no two requests on one target overlap

ASSUME SerialDecisionsAssumption == SerialDecisions \in BOOLEAN

VARIABLE dtx    \* the transaction of each request

ApprovableTypes == {"description", "category"}

IdleTx == [pc |-> "idle", fix |-> Free, want |-> "rejected", todo |-> {}]

OpenTx == [pc : {"loaded", "superseding"},
           fix : Fixes,
           want : {"approved", "rejected"},
           todo : SUBSET Fixes]      \* rows the supersede UPDATE has not reached

DecisionTx == {IdleTx} \union OpenTx

GateTypeOK == dtx \in [Deciders -> DecisionTx]

GateInit == dtx = [d \in Deciders |-> IdleTx]

Active(d) == dtx[d].pc # "idle"

HeldBy(d) == {g \in Fixes : lock[g] = d}

Released(d) == [g \in Fixes |-> IF lock[g] = d THEN Free ELSE lock[g]]

\* The rows the supersede UPDATE is about, and the test it makes on each.
Supersedable == {"proposed", "approved"}

RivalsToSupersedeMutForgetsApproved(f) == {g \in Rivals(f) : status[g] = "proposed"}

RivalsToSupersede(f) == {g \in Rivals(f) : status[g] \in Supersedable}

\* A request reads the row; any answer but "still proposed" ends it with nothing written.
Load(d, f, want) ==
  /\ ~Active(d)
  /\ TypeOf[f] \in ApprovableTypes
  /\ status[f] = "proposed"
  /\ SerialDecisions =>
       \A e \in Deciders : Active(e) => dtx[e].fix # f /\ ~SameTarget(dtx[e].fix, f)
  /\ dtx' = [dtx EXCEPT ![d] = [pc |-> "loaded", fix |-> f, want |-> want, todo |-> {}]]
  /\ UNCHANGED storeVars

\* Approve only: the supersede statement takes its snapshot.
BeginSupersede(d) ==
  /\ dtx[d].pc = "loaded"
  /\ dtx[d].want = "approved"
  /\ dtx' = [dtx EXCEPT ![d].pc = "superseding",
                        ![d].todo = RivalsToSupersede(dtx[d].fix)]
  /\ UNCHANGED storeVars

\* The statement reaches one more row: waits for its lock, tests it again, keeps it.
LockRival(d, g) ==
  /\ dtx[d].pc = "superseding"
  /\ g \in dtx[d].todo
  /\ lock[g] = Free
  /\ lock' = IF status[g] \in Supersedable THEN [lock EXCEPT ![g] = d] ELSE lock
  /\ dtx' = [dtx EXCEPT ![d].todo = @ \ {g}]
  /\ UNCHANGED <<status, basis, row, live, shown, consented>>

CommitStatus(d) ==
  [g \in Fixes |-> IF g = dtx[d].fix THEN dtx[d].want
                   ELSE IF lock[g] = d THEN "stale" ELSE status[g]]

\* COMMIT: the flush of the row's own UPDATE (which waits for the row), then the end.
CommitDecision(d) ==
  /\ \/ dtx[d].pc = "superseding" /\ dtx[d].todo = {}
     \/ dtx[d].pc = "loaded" /\ dtx[d].want = "rejected"
  /\ lock[dtx[d].fix] = Free
  /\ status' = CommitStatus(d)
  /\ lock' = Released(d)
  /\ consented' = IF dtx[d].want = "approved" THEN consented \union {dtx[d].fix}
                                              ELSE consented
  /\ dtx' = [dtx EXCEPT ![d] = IdleTx]
  /\ UNCHANGED <<basis, row, live, shown>>

\* The victim of a deadlock, a dropped connection, or a web process that dies.
AbortDecision(d) ==
  /\ Active(d)
  /\ lock' = Released(d)
  /\ dtx' = [dtx EXCEPT ![d] = IdleTx]
  /\ UNCHANGED <<status, basis, row, live, shown, consented>>

GateStep(d) ==
  \/ \E f \in Fixes, want \in {"approved", "rejected"} : Load(d, f, want)
  \/ BeginSupersede(d)
  \/ \E g \in Fixes : LockRival(d, g)
  \/ CommitDecision(d)
  \/ AbortDecision(d)

GateNext == \E d \in Deciders : GateStep(d)

=============================================================================
