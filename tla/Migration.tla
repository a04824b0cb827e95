------------------------------- MODULE Migration -------------------------------
(***************************************************************************)
(* The schema of the database: releases apply their reviewed migrations,   *)
(* each in one transaction with the ledger that records them, to databases *)
(* of any age; and the sync service creates what is missing and reports    *)
(* when the schema is ready.                                               *)
(***************************************************************************)
EXTENDS Integers, Sequences, FiniteSets, Functions

CONSTANTS
  Release,       \* releases: functions from 1 .. n to the checksums of their migrations
  Baseline,      \* migrations a database with the baseline tables holds: 1 .. Baseline
  Maintenance,   \* ... that also knows maintenance: 1 .. Maintenance
  System,        \* ... that also has the system tables: 1 .. System
  Conversion,    \* the migration with which the saved catalogue is converted
  Reads,         \* migrations that read the converted catalogue
  MaxRuns,       \* upgrades
  MaxRetries     \* attempts of the sync service to reach the database

MigrationAssumption ==
  /\ {Baseline, Maintenance, System, Conversion} \subseteq Nat
  /\ Baseline < Maintenance /\ Maintenance < System /\ System < Conversion
  /\ Baseline > 0 /\ Reads \subseteq Nat /\ \A v \in Reads : v > Conversion
  /\ \A r \in Release : Len(r) \in Nat /\ DOMAIN r = 1 .. Len(r) /\ Len(r) >= Conversion

VARIABLES
  db,      \* the database
  was,     \* what it held at first
  tx,      \* the transactions of upgrades
  runs,
  sync     \* the sync service

migrationVars == <<db, was, tx, runs, sync>>

Upgrade == 1 .. 2
All(r) == 1 .. Len(r)
NoTx == [phase |-> "none", release |-> << >>, db |-> [shape |-> "none"], fresh |-> FALSE,
         pending |-> {}, next |-> 0, deferred |-> << >>, ran |-> << >>]
Converted == 0   \* stands for the conversion in what was run

-----------------------------------------------------------------------------
(* What a release finds.                                                   *)
\* the migrations that a database from before the ledger holds, by the tables it has
Adopted(base) ==
  IF base.effects \subseteq 1 .. Maintenance - 1 THEN 1 .. Baseline
  ELSE IF System \in base.effects THEN 1 .. System
  ELSE 1 .. Maintenance

Known(base) == {row[1] : row \in base.ledger}
Fresh(base) == base.effects = {}

\* the ledger is an ordered prefix of the release, with its checksums
LedgerFits(base, r) ==
  /\ \A row \in base.ledger : row[1] \in All(r) /\ r[row[1]] = row[2]
  /\ Known(base) = 1 .. Cardinality(Known(base))

\* a database without a ledger is of a known shape, or empty
Supported(base, r) ==
  IF base.ledger # {} THEN LedgerFits(base, r)
  ELSE IF Fresh(base) THEN base.shape # "foreign"
  ELSE base.shape = "plain" /\ base.effects \subseteq All(r) /\ 1 .. Baseline \subseteq base.effects

Pending(base, r) ==
  All(r) \ (IF base.ledger # {} THEN Known(base) ELSE IF Fresh(base) THEN {} ELSE Adopted(base))

\* the bootstrap creates what is missing of tables, but changes none
Bootstraps(base, r) == base.effects \in {{}, All(r)} /\ base.shape # "altered"

-----------------------------------------------------------------------------
(* An upgrade.                                                             *)
\* as mutated: upgrades do not exclude each other
LockUnneeded(u) == TRUE

LockFree(u) == \A other \in Upgrade : tx[other].phase = "none"

Begin(u) ==
  /\ tx[u].phase = "none" /\ LockFree(u) /\ runs < MaxRuns
  /\ runs' = runs + 1
  /\ \E r \in Release :
       /\ Supported(db, r)
       /\ tx' = [tx EXCEPT ![u] =
                   [phase |-> "applying", release |-> r, fresh |-> Fresh(db), next |-> 1,
                    pending |-> Pending(db, r), deferred |-> << >>, ran |-> << >>,
                    db |-> IF Fresh(db) THEN [db EXCEPT !.effects = All(r), !.shape = "plain"] ELSE db]]
  /\ UNCHANGED <<db, was, sync>>

Converting(t) == ~t.fresh /\ Conversion \in t.pending

\* as mutated: what reads the catalogue runs in its turn
NeverDeferred(t, v) == FALSE

Deferred(t, v) == Converting(t) /\ v \in Reads

Ran(t, v) == [t EXCEPT !.db.effects = @ \cup {v}, !.ran = Append(@, v)]

Apply(u) ==
  LET t == tx[u]
      v == t.next
      done == IF t.fresh \/ v \notin t.pending THEN t
              ELSE IF Deferred(t, v) THEN [t EXCEPT !.deferred = Append(@, v)]
              ELSE Ran(t, v)
  IN  /\ t.phase = "applying" /\ v \in DOMAIN t.release
      /\ tx' = [tx EXCEPT ![u] =
           [done EXCEPT !.next = v + 1,
                        !.db.ledger = IF v \in Known(t.db) THEN @ ELSE @ \cup {<<v, t.release[v]>>}]]
      /\ UNCHANGED <<db, was, runs, sync>>

\* the saved catalogue is converted, and what waited for it is run; then everything commits
Finish(u) ==
  LET t == tx[u]
      converted == IF Converting(t)
                   THEN [t EXCEPT !.ran = Append(@, Converted) \o t.deferred,
                                  !.db.effects = @ \cup Range(t.deferred)]
                   ELSE t
  IN  /\ t.phase = "applying" /\ t.next \notin DOMAIN t.release
      /\ db' = IF Bootstraps(converted.db, t.release)
               THEN [converted.db EXCEPT !.ran = db.ran \o converted.ran]
               ELSE db
      /\ tx' = [tx EXCEPT ![u] = NoTx]
      /\ UNCHANGED <<was, runs, sync>>

\* a statement fails or times out, or the process ends: nothing was done
Abort(u) ==
  /\ tx[u].phase # "none"
  /\ tx' = [tx EXCEPT ![u] = NoTx]
  /\ UNCHANGED <<db, was, runs, sync>>

-----------------------------------------------------------------------------
(* The sync service.                                                       *)
\* the database answers, or one attempt of the limited number is spent
WaitForDatabase ==
  /\ sync.phase = "waiting"
  /\ \E answers \in BOOLEAN :
       sync' = IF answers THEN [sync EXCEPT !.phase = "initialize"]
               ELSE IF sync.attempt < MaxRetries THEN [sync EXCEPT !.attempt = @ + 1]
               ELSE [sync EXCEPT !.phase = "stopped"]
  /\ UNCHANGED <<db, was, tx, runs>>

\* its statements wait for those of an upgrade that is under way
InitializeDatabase ==
  /\ sync.phase = "initialize" /\ \A u \in Upgrade : tx[u].phase = "none"
  /\ IF Bootstraps(db, sync.release)
     THEN /\ db' = [db EXCEPT !.effects = All(sync.release), !.shape = "plain"]
          /\ sync' = [sync EXCEPT !.phase = "running", !.ready = TRUE]
     ELSE sync' = [sync EXCEPT !.phase = "stopped"] /\ UNCHANGED db
  /\ UNCHANGED <<was, tx, runs>>

StopSync ==
  /\ sync.phase = "running"
  /\ sync' = [sync EXCEPT !.phase = "stopped", !.ready = FALSE]
  /\ UNCHANGED <<db, was, tx, runs>>

-----------------------------------------------------------------------------
\* what an upgrade may find: a database that is empty, foreign, or older than the ledger
Found ==
  [shape : {"plain", "foreign", "altered"},
   effects : {{}, 1 .. Baseline, 1 .. Maintenance, 1 .. System}, ledger : {{}}, ran : {<< >>}]

Init ==
  /\ db \in {f \in Found : (f.shape = "foreign" => f.effects = {}) /\ (f.shape = "altered" => f.effects # {})}
  /\ was = db.effects
  /\ tx = [u \in Upgrade |-> NoTx] /\ runs = 0
  /\ \E r \in Release : sync = [phase |-> "waiting", attempt |-> 1, release |-> r, ready |-> FALSE]

Next ==
  \/ \E u \in Upgrade : Begin(u) \/ Apply(u) \/ Finish(u) \/ Abort(u)
  \/ WaitForDatabase \/ InitializeDatabase \/ StopSync

Spec == Init /\ [][Next]_migrationVars

-----------------------------------------------------------------------------
(* The ledger and the schema agree: what it records was done or there      *)
(* before, in an unbroken prefix of one release; a database that is not    *)
(* known is never changed by an upgrade (migration_status).                *)
LedgerTrue ==
  /\ Known(db) \subseteq db.effects /\ Known(db) = 1 .. Cardinality(Known(db))
  /\ db.ledger # {} => \E r \in Release : LedgerFits(db, r) /\ db.effects = All(r)
  /\ db.shape \in {"foreign", "altered"} => db.ran = << >> /\ db.effects = was

(* No migration is run twice, none that the database held when its         *)
(* upgrades began, and each after those before it, but for the conversion  *)
(* and those that read the catalogue: on a database that held anything,    *)
(* these run after the conversion (apply_migrations).                      *)
RunOnceInOrder ==
  /\ IsInjective(db.ran)
  /\ \A k \in DOMAIN db.ran : db.ran[k] \notin was
  /\ \A j, k \in DOMAIN db.ran :
       j < k /\ db.ran[j] > db.ran[k] => db.ran[k] \in Reads \cup {Converted}
  /\ was # {} =>
       \A k \in DOMAIN db.ran : db.ran[k] \in Reads => \E j \in 1 .. k - 1 : db.ran[j] = Converted

(* The sync service says that the schema is ready when nothing of its      *)
(* release is missing, and a service that starts waits for that            *)
(* (get_health_status).                                                    *)
ReadyIsCurrent ==
  sync.ready => sync.phase = "running" /\ All(sync.release) \subseteq db.effects
=============================================================================
