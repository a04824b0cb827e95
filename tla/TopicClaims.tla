------------------------------ MODULE TopicClaims ------------------------------
(***************************************************************************)
(* Topics of measurements.  A monitor claims the topics it reads, and no   *)
(* claim may overlap another one; its readings are named after their       *)
(* topics, and a message finds its reading by the same name.  A topic, or  *)
(* a filter that stands for several, is a sequence of levels.              *)
(***************************************************************************)
EXTENDS Integers, Sequences, FiniteSets, Functions

CONSTANTS
  Owner,       \* monitors
  Requested,   \* lists of filters that monitors are created with
  Earlier,     \* lists of valid filters that monitors of earlier versions hold
  Level,       \* levels of the topics of messages
  MaxLevels,   \* and how many a topic or filter has
  AcceptedTopic,    \* topics of the readings in the catalogue
  Malformed,   \* levels that are empty, or hold a wildcard and something else
  MaxActive    \* monitors that may run

VARIABLES
  claims,      \* the topics of each monitor that has some, and how its readings are named
  refused      \* the last request, if it was refused, and the claim it was refused for

topicVars == <<claims, refused>>

NotRefused == [topics |-> << >>, for |-> << >>]

-----------------------------------------------------------------------------
(* Filters.                                                                *)
Wildcard == {"+", "#"}

\* topics of messages, and lists of whatever may be given as filters
Topic == UNION {[1 .. n -> Level] : n \in 1 .. MaxLevels}
FilterLists == Seq({f \in Seq(Level \cup Wildcard \cup Malformed) : Len(f) <= MaxLevels})

ValidFilter(f) ==
  /\ f # << >>
  /\ \A i \in DOMAIN f : f[i] \notin Malformed /\ (f[i] = "#" => i = Len(f))

TopicsAssumption ==
  /\ Level # {} /\ Level \cap (Wildcard \cup Malformed) = {} /\ MaxLevels \in Nat /\ MaxActive \in Nat
  /\ AcceptedTopic \subseteq Topic /\ Requested \subseteq FilterLists /\ Earlier \subseteq FilterLists
  /\ \A list \in Earlier : \A i \in DOMAIN list : ValidFilter(list[i])

TelemetryFilter(f) ==
  /\ ValidFilter(f)
  /\ f = <<"telemetry", "#">> \/ (f[1] = "telemetry" /\ Len(f) >= 3)

\* as mutated: the end of the longer filter is not looked at
OverlapOfBeginnings(left, right) ==
  \A i \in DOMAIN left \cap DOMAIN right :
    left[i] = right[i] \/ {left[i], right[i]} \cap Wildcard # {}

\* level by level, up to the first that decides
Overlap(left, right) ==
  LET both == DOMAIN left \cap DOMAIN right
      Decides(i) == "#" \in {left[i], right[i]} \/ ("+" \notin {left[i], right[i]} /\ left[i] # right[i])
      First(i) == Decides(i) /\ \A j \in 1 .. i - 1 : ~Decides(j)
      longer == IF Len(left) > Len(right) THEN left ELSE right
  IN  IF \E i \in both : Decides(i)
      THEN \E i \in both : First(i) /\ "#" \in {left[i], right[i]}
      ELSE \/ Len(left) = Len(right)
           \/ Len(longer) = Cardinality(both) + 1 /\ longer[Len(longer)] = "#"

Overlapping(requested, claimed) ==
  \E i \in DOMAIN requested, j \in DOMAIN claimed : Overlap(requested[i], claimed[j])

\* what a broker delivers for a filter
Matches(f, t) ==
  \/ Len(f) = Len(t) /\ \A i \in DOMAIN f : f[i] = t[i] \/ f[i] \in Wildcard
  \/ /\ f[Len(f)] = "#" /\ Len(t) >= Len(f) - 1
     /\ \A i \in 1 .. Len(f) - 1 : f[i] = t[i] \/ f[i] = "+"

-----------------------------------------------------------------------------
(* Names.                                                                  *)
Strategy == {"full_hierarchy", "top_level", "leaf"}

\* the entity and the path of a concrete topic
Extracts(t) ==
  /\ Len(t) >= 3 /\ t[1] = "telemetry"
  /\ \A i \in 2 .. Len(t) : t[i] \notin Wildcard \cup Malformed

Entity(t) == t[2]
Path(t) == SubSeq(t, 3, Len(t))

SensorKey(t, strategy) ==
  CASE strategy = "top_level"      -> <<Head(Path(t))>>
    [] strategy = "leaf"           -> <<t[Len(t)]>>
    [] strategy = "full_hierarchy" -> Path(t)

\* concrete topics of one entity
Static(topics) ==
  /\ topics # << >> /\ \A i \in DOMAIN topics : TelemetryFilter(topics[i]) /\ Extracts(topics[i])
  /\ \A i, j \in DOMAIN topics : Entity(topics[i]) = Entity(topics[j])

\* as mutated: topics with one name are not looked for
AnyKeys(topics, strategy) == TRUE

KeysApart(topics, strategy) ==
  \A i, j \in DOMAIN topics : SensorKey(topics[i], strategy) = SensorKey(topics[j], strategy) => i = j

SensorKeys(topics, strategy) == [i \in DOMAIN topics |-> SensorKey(topics[i], strategy)]

\* what the worker waits for before its first vector
RequiredSensors(topics, strategy) ==
  LET Concrete(f) == TelemetryFilter(f) /\ Len(f) >= 3 /\ Range(Path(f)) \cap Wildcard = {}
  IN  {SensorKey(f, strategy) : f \in {f \in Range(topics) : Concrete(f)}}

\* each filter once, in the order in which they come
Distinct(list) ==
  LET First(f) == CHOOSE i \in DOMAIN list : list[i] = f /\ \A j \in 1 .. i - 1 : list[j] # f
  IN  {topics \in UNION {[1 .. n -> Range(list)] : n \in 0 .. Len(list)} :
         /\ Range(topics) = Range(list)
         /\ \A i, j \in DOMAIN topics : i < j => First(topics[i]) < First(topics[j])}

-----------------------------------------------------------------------------
Claim(topics, strategy) == [topics |-> topics, strategy |-> strategy]

\* a request is refused for its topics, for the number of monitors, or for another's claim
Create(m) ==
  /\ m \notin DOMAIN claims
  /\ \E list \in Requested, strategy \in Strategy : \E topics \in Distinct(list) :
       LET rivals == {o \in DOMAIN claims : Overlapping(topics, claims[o].topics)}
       IN  IF /\ Static(topics) /\ KeysApart(topics, strategy)
              /\ Cardinality(DOMAIN claims) < MaxActive /\ rivals = {}
           THEN /\ claims' = [o \in DOMAIN claims \cup {m} |->
                                IF o = m THEN Claim(topics, strategy) ELSE claims[o]]
                /\ refused' = NotRefused
           ELSE /\ UNCHANGED claims
                /\ \/ ~(Static(topics) /\ KeysApart(topics, strategy)) /\ refused' = NotRefused
                   \/ Static(topics) /\ rivals = {} /\ refused' = NotRefused
                   \/ /\ Static(topics)
                      /\ \E o \in rivals : refused' = [topics |-> topics, for |-> claims[o].topics]

Stop(m) ==
  /\ m \in DOMAIN claims
  /\ claims' = [o \in DOMAIN claims \ {m} |-> claims[o]] /\ refused' = NotRefused

\* the readings of the catalogue that a list of filters, however old, takes
WatchedBy(filters) ==
  {t \in AcceptedTopic : \E i \in DOMAIN filters : ValidFilter(filters[i]) /\ Overlap(filters[i], t)}

Init ==
  /\ refused = NotRefused
  /\ claims \in UNION {[held -> {Claim(list, "earlier") : list \in Earlier}] : held \in SUBSET Owner}
  /\ \A m, o \in DOMAIN claims : m # o => ~Overlapping(claims[m].topics, claims[o].topics)

Next == \E m \in Owner : Create(m) \/ Stop(m)

Spec == Init /\ [][Next]_topicVars

-----------------------------------------------------------------------------
Reaches(t, topics) == \E i \in DOMAIN topics : ValidFilter(topics[i]) /\ Matches(topics[i], t)

(* No message reaches two monitors, whatever wildcards their claims have,  *)
(* and one that is refused for another's claim would have shared a message *)
(* with it (mqtt_topic_filters_overlap, first_overlap).                    *)
TopicsApart ==
  /\ \A m, o \in DOMAIN claims : m # o =>
       \A t \in Topic : ~(Reaches(t, claims[m].topics) /\ Reaches(t, claims[o].topics))
  /\ refused # NotRefused => \E t \in Topic : Reaches(t, refused.topics) /\ Reaches(t, refused.for)

(* Each message that a monitor gets finds one reading of it, each reading  *)
(* is found by the messages of one topic, and the readings that the worker *)
(* waits for are these; and what the catalogue shows as watched by a       *)
(* monitor is what reaches it (extract_ids, derive_monitoring_sensor_keys, *)
(* derive_required_sensors, watched_by).                                   *)
ReadingsFound ==
  \A m \in DOMAIN claims :
    LET topics == claims[m].topics
        strategy == claims[m].strategy
        got == {t \in Topic : Reaches(t, topics)}
    IN  /\ WatchedBy(topics) = got \cap AcceptedTopic
        /\ strategy # "earlier" =>
             /\ \A t \in got : Extracts(t) /\ Entity(t) = Entity(topics[1])
             /\ \A t, u \in got : SensorKey(t, strategy) = SensorKey(u, strategy) => t = u
             /\ {SensorKey(t, strategy) : t \in got} = Range(SensorKeys(topics, strategy))
             /\ RequiredSensors(topics, strategy) = Range(SensorKeys(topics, strategy))
=============================================================================
