--------------------------- MODULE SensorAlignment ---------------------------
(***************************************************************************)
(* How readings of several sensors become vectors: a reading is refused    *)
(* when its time is not newer than that of the last one accepted, and a    *)
(* vector is emitted when every sensor has a new one and all of them are   *)
(* fresh and close together.  The times that were accepted are part of a   *)
(* snapshot, the readings are not.  The clocks of the worker advance       *)
(* together; a reading has its own time, and waits before it is handled.   *)
(***************************************************************************)
EXTENDS Integers, FiniteSets

CONSTANTS Sensor,              \* required_sensors
          Charger, MaxChargers,
          Freshness, MaxAge, Tolerance, MaxSkew, Ttl, CleanupInterval,
          MaxTime, MaxUpdates

AlignmentAssumption ==
  /\ Sensor # {} /\ MaxChargers \in Nat
  /\ {Freshness, MaxAge, Tolerance, MaxSkew, Ttl, CleanupInterval} \subseteq Nat
  /\ MaxTime \in Nat /\ MaxUpdates \in Nat

VARIABLES
  now,         \* the clock, and with it the time of receipts
  readings,    \* _readings_by_charger
  watermarks,  \* the time of the last reading accepted, per charger and sensor
  versions,    \* _last_emitted_versions
  update,      \* _next_update_seq
  cleaned,     \* _last_cleanup
  vector,      \* the times in the last vector the detector was given, or Never
  image        \* the watermarks in the last snapshot, with that vector

vars == <<now, readings, watermarks, versions, update, cleaned, vector, image>>

Time == 0 .. MaxTime + Tolerance
Never == -1
NoReading == [seq |-> 0]
Reading == [at : Time, heard : Time, time : Time, seq : 1 .. MaxUpdates, number : BOOLEAN]
Unheard == [c \in Charger |-> [s \in Sensor |-> Never]]

AlignmentTypeOK ==
  /\ now \in 0 .. MaxTime /\ cleaned \in 0 .. MaxTime /\ update \in 0 .. MaxUpdates
  /\ readings \in [Charger -> [Sensor -> Reading \cup {NoReading}]]
  /\ watermarks \in [Charger -> [Sensor -> Time \cup {Never}]]
  /\ versions \in [Charger -> [Sensor -> 0 .. MaxUpdates]]
  /\ vector \in [Charger -> [Sensor -> Time \cup {Never}]]
  /\ image.watermarks \in [Charger -> [Sensor -> Time \cup {Never}]]
  /\ image.vector \in [Charger -> [Sensor -> Time \cup {Never}]]

Emptied == [c \in Charger |-> [s \in Sensor |-> NoReading]]
NoVersion == [c \in Charger |-> [s \in Sensor |-> 0]]

Init ==
  /\ now = 0 /\ cleaned = 0 /\ update = 0
  /\ readings = Emptied /\ versions = NoVersion
  /\ watermarks = Unheard /\ vector = Unheard
  /\ image = [watermarks |-> Unheard, vector |-> Unheard]

Known == {c \in Charger : \E s \in Sensor : watermarks[c][s] # Never}

\* Mutant: a reading of the same time is new.
NotOlder(c, s, t) == t >= watermarks[c][s]
Newer(c, s, t) == t > watermarks[c][s]

\* _observation_rejection, and the receipt that is too old before it
Accepted(c, s, t, heard) ==
  /\ now - heard <= Freshness
  /\ now - t <= MaxAge /\ t - now <= Tolerance
  /\ Newer(c, s, t)
  /\ c \in Known \/ Cardinality(Known) < MaxChargers

\* _cleanup_stale_entries: readings go, and versions with the last reading of a charger.
Expired(r) == r # NoReading /\ now - r.at > Ttl
Cleaned == [c \in Charger |-> [s \in Sensor |->
             IF Expired(readings[c][s]) THEN NoReading ELSE readings[c][s]]]
Cleans == now - cleaned > CleanupInterval
Kept == IF Cleans THEN Cleaned ELSE readings
Versions == IF Cleans THEN [c \in Charger |-> IF \A s \in Sensor : Cleaned[c][s] = NoReading
                                                THEN NoVersion[c] ELSE versions[c]]
                      ELSE versions

\* Mutant: the barrier opens when one sensor has a new reading.
AnyNew(cache, last) == \E s \in Sensor : cache[s].seq > last[s]
AllNew(cache, last) == \A s \in Sensor : cache[s].seq > last[s]

\* _alignment_blocker and _build_aligned_features
Emits(cache, last) ==
  /\ \A s \in Sensor : cache[s] # NoReading
  /\ \A s \in Sensor : now - cache[s].heard <= Freshness /\ now - cache[s].time <= MaxAge
  /\ \A s, u \in Sensor : cache[s].time - cache[u].time <= MaxSkew
  /\ AllNew(cache, last)
  /\ \A s \in Sensor : cache[s].number

\* update_with_status
Update(c, s, t, heard, number) ==
  /\ update < MaxUpdates
  /\ Accepted(c, s, t, heard)
  /\ update' = update + 1
  /\ watermarks' = [watermarks EXCEPT ![c][s] = t]
  /\ cleaned' = IF Cleans THEN now ELSE cleaned
  /\ readings' = [Kept EXCEPT ![c][s] =
       [at |-> now, heard |-> heard, time |-> t, seq |-> update', number |-> number]]
  /\ IF Emits(readings'[c], Versions[c])
       THEN /\ versions' = [Versions EXCEPT ![c] = [u \in Sensor |-> readings'[c][u].seq]]
            /\ vector' = [vector EXCEPT ![c] = [u \in Sensor |-> readings'[c][u].time]]
       ELSE versions' = Versions /\ UNCHANGED vector
  /\ UNCHANGED <<now, image>>

Tick ==
  /\ now < MaxTime
  /\ now' = now + 1
  /\ UNCHANGED <<readings, watermarks, versions, update, cleaned, vector, image>>

\* export_watermarks, in one snapshot with the detector that saw the vector
Save ==
  /\ image' = [watermarks |-> watermarks, vector |-> vector]
  /\ UNCHANGED <<now, readings, watermarks, versions, update, cleaned, vector>>

\* Mutant: what was accepted is forgotten with the readings.
Forgotten == Unheard
Restored == image.watermarks

\* restore_watermarks, in a worker that starts again
Restart ==
  /\ update > 0
  /\ watermarks' = Restored /\ vector' = image.vector
  /\ readings' = Emptied /\ versions' = NoVersion
  /\ cleaned' = now
  /\ UNCHANGED <<now, update, image>>

Next ==
  \/ Tick \/ Save \/ Restart
  \/ \E c \in Charger, s \in Sensor, t \in Time, heard \in 0 .. now, number \in BOOLEAN :
       Update(c, s, t, heard, number)

Spec == Init /\ [][Next]_vars

-----------------------------------------------------------------------------
(* What holds the times together: nothing in a vector, a cache or a        *)
(* snapshot is newer than what was accepted.                               *)
WithinWatermarks ==
  \A c \in Charger, s \in Sensor :
    /\ vector[c][s] <= watermarks[c][s]
    /\ image.vector[c][s] <= image.watermarks[c][s]
    /\ readings[c][s] # NoReading => readings[c][s].time <= watermarks[c][s]

(* The detector is given no reading twice, and time goes forward for every *)
(* sensor from one vector to the next, through a cleanup, late readings    *)
(* and the restart of a snapshot; the readings of a vector are close       *)
(* together and none is too old.                                           *)
VectorsGoForward ==
  vector' # vector /\ vector' # image.vector =>
    \E c \in Charger :
      /\ \A d \in Charger \ {c} : vector'[d] = vector[d]
      /\ \A s \in Sensor : vector'[c][s] > vector[c][s] /\ now - vector'[c][s] <= MaxAge
      /\ \A s, u \in Sensor : vector'[c][s] - vector'[c][u] <= MaxSkew
VectorsAdvance == [][VectorsGoForward]_vars
=============================================================================
