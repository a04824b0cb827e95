----------------------------- MODULE SensorClaims -----------------------------
(***************************************************************************)
(* What the services table promises about the readings of a collection: a  *)
(* monitor claims its readings for one run, overlapping monitors never     *)
(* claim together, only a claiming monitor has a worker, and the claim is  *)
(* given up, for good, once the worker is gone.                            *)
(***************************************************************************)
CONSTANTS Monitor, Overlap

VARIABLES
  holders,   \* monitors that claim their readings
  workers,   \* monitors with a worker admitted to write
  closed     \* monitors whose run has ended

abstractVars == <<holders, workers, closed>>

Init ==
  /\ holders = {}
  /\ workers = {}
  /\ closed = {}

Claim(m) ==
  /\ m \notin holders \cup closed
  /\ \A n \in holders : <<m, n>> \notin Overlap
  /\ holders' = holders \cup {m}
  /\ UNCHANGED <<workers, closed>>

StartWorker(m) ==
  /\ m \in holders \ closed
  /\ workers' = workers \cup {m}
  /\ UNCHANGED <<holders, closed>>

StopWorker(m) ==
  /\ workers' = workers \ {m}
  /\ UNCHANGED <<holders, closed>>

\* The run may end, with its outcome, while its worker is still to be stopped.
CloseRun(m) ==
  /\ closed' = closed \cup {m}
  /\ UNCHANGED <<holders, workers>>

Release(m) ==
  /\ m \in holders \ workers
  /\ holders' = holders \ {m}
  /\ closed' = closed \cup {m}
  /\ UNCHANGED workers

Next ==
  \E m \in Monitor :
    \/ Claim(m) \/ StartWorker(m) \/ StopWorker(m) \/ CloseRun(m) \/ Release(m)

Spec == Init /\ [][Next]_abstractVars
=============================================================================
