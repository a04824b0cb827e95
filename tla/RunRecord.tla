------------------------------ MODULE RunRecord ------------------------------
(***************************************************************************)
(* What the database promises about a RADAR run: the saved detector state  *)
(* only ever grows by the results of the worker that saves it, with the    *)
(* evidence of each of them; the worker that saved last is the only one    *)
(* that may add evidence ahead of it or fail the run, and once another     *)
(* worker has saved, a former owner never writes again.                    *)
(***************************************************************************)
EXTENDS Naturals, Sequences

CONSTANTS Worker, NoWorker

VARIABLES
  owner,     \* the worker that saved last
  former,    \* workers another one has taken over from
  history,   \* the results behind the saved state: who computed each
  evidence,  \* stored results <<position, worker>>
  outcome    \* "open" or "failed"

recordVars == <<owner, former, history, evidence, outcome>>

Init ==
  /\ owner = NoWorker
  /\ former = {}
  /\ history = <<>>
  /\ evidence = {}
  /\ outcome = "open"

\* w saves its state, which continues the one saved last with results of its own.
Save(w) ==
  /\ w \notin former
  /\ Len(history') >= Len(history)
  /\ \A i \in 1 .. Len(history') :
       history'[i] = IF i <= Len(history) THEN history[i] ELSE w
  /\ evidence' = evidence \cup {<<i, w>> : i \in Len(history) + 1 .. Len(history')}
  /\ owner' = w
  /\ former' = former \cup ({owner} \ {w, NoWorker})
  /\ UNCHANGED outcome

\* The owner stores results ahead of the saved state.
Store(w) ==
  /\ owner = w
  /\ evidence \subseteq evidence'
  /\ \A e \in evidence' \ evidence : e[1] > Len(history) /\ e[2] = w
  /\ UNCHANGED <<owner, former, history, outcome>>

Fail(w) ==
  /\ owner = w
  /\ outcome' = "failed"
  /\ UNCHANGED <<owner, former, history, evidence>>

Next == \E w \in Worker : Save(w) \/ Store(w) \/ Fail(w)

Spec == Init /\ [][Next]_recordVars
=============================================================================
