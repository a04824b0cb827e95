----------------------------- MODULE RunOutcomes -----------------------------
(***************************************************************************)
(* What the Dojo promises of its runs.  A run that waits is started, may   *)
(* be put back and started over, and ends once; its results grow while it  *)
(* runs, numbered without a gap.  Several runs may move in one step.       *)
(***************************************************************************)
EXTENDS Integers

CONSTANTS Run, Points

VARIABLES status, cancelled, results

vars == <<status, cancelled, results>>

Init ==
  /\ status = [r \in Run |-> "none"]
  /\ cancelled = {}
  /\ results = [r \in Run |-> {}]

Moves(r, from, to) == status[r] = from /\ status'[r] = to
Same(r) == status'[r] = status[r] /\ results'[r] = results[r]
Empty(r) == results'[r] = {}
Grows(r) == \E n \in 0 .. Points : results'[r] = 1 .. n /\ results[r] \subseteq results'[r]

Queue(r) == Moves(r, "none", "queued") /\ Empty(r) /\ r \notin cancelled'
Start(r) == Moves(r, "queued", "running") /\ results[r] = {} /\ Empty(r)
Save(r) == Moves(r, "running", "running") /\ Grows(r)
Succeed(r) == Moves(r, "running", "succeeded") /\ Grows(r) /\ r \notin cancelled
Fail(r) == Moves(r, "running", "failed") /\ Grows(r)
PutBack(r) == Moves(r, "running", "queued") /\ Empty(r) /\ r \notin cancelled
CancelWaiting(r) == Moves(r, "queued", "cancelled") /\ Empty(r)
CancelRunning(r) == Moves(r, "running", "cancelled") /\ (Grows(r) \/ Empty(r)) /\ r \in cancelled
Delete(r) == status[r] \in {"succeeded", "failed", "cancelled"} /\ status'[r] = "none" /\ Empty(r)

Step(r) ==
  \/ Queue(r) \/ Start(r) \/ Save(r) \/ Succeed(r) \/ Fail(r) \/ PutBack(r)
  \/ CancelWaiting(r) \/ CancelRunning(r) \/ Delete(r)

\* A cancellation is accepted of a run that runs, and forgotten with the run.
Accepted ==
  \A r \in Run : /\ r \in cancelled' \ cancelled => status[r] = "running"
                 /\ r \in cancelled \ cancelled' => status'[r] = "none"

Next == Accepted /\ \A r \in Run : Step(r) \/ Same(r)

Spec == Init /\ [][Next]_vars
=============================================================================
