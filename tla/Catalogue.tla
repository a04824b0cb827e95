------------------------------- MODULE Catalogue -------------------------------
(***************************************************************************)
(* The catalogue as members edit it: its document of readings and the      *)
(* rules that say which of them are recorded.  A change of what a running  *)
(* monitor reads pauses the monitor first, and for that the lock of the    *)
(* configuration is let go; before the change is written, everything it    *)
(* rests on is looked at again.                                            *)
(***************************************************************************)
EXTENDS Integers, Sequences, FiniteSets

CONSTANTS
  Editor,      \* members who edit
  Documents,   \* documents: functions from readings to [broker, topic, device]
  Begin,       \* the one that the catalogue begins with, and the rule it is recorded by
  Scopes,      \* what a rule is about: [kind, broker, prefix, reading]
  Monitor,     \* monitors that may be started
  MaxWrites    \* changes that are written

\* topics, and the prefixes of rules, are sequences of levels
CatalogueAssumption ==
  /\ \A k \in Scopes \cup {Begin.scope} : Len(k.prefix) \in Nat
  /\ \A document \in Documents : \A id \in DOMAIN document : Len(document[id].topic) \in Nat

VARIABLES
  saved,      \* the row of the document: its revision and readings, with their policies
  runtime,    \* the row of the collection: revision, generation and definition
  seen,       \* the revisions that each editor loaded
  edit,       \* the change of each editor that waits for monitors to stop
  monitors,   \* the state of each monitor and what it reads
  pending     \* what an activation has reserved

catalogueVars == <<saved, runtime, seen, edit, monitors, pending>>

None == [id \in {} |-> "off"]
NoRules == [k \in {} |-> [policy |-> "none", future |-> FALSE, admitted |-> 0]]
Empty == [streams |-> None, policies |-> None, bindings |-> None, rules |-> NoRules,
          clock |-> 0, registered |-> None]
NoEdit == [phase |-> "idle", proposed |-> Empty, guard |-> <<0, 0>>, affected |-> {}]
Now == <<saved.revision, runtime.revision>>

-----------------------------------------------------------------------------
(* Which policy a reading has: its own, or that of the nearest rule above  *)
(* it, provided the reading was admitted there.                            *)
Own(def, id) ==
  [kind |-> "reading", broker |-> def.streams[id].broker, prefix |-> << >>, reading |-> id]

\* the scope is the broker of the reading, or the beginning of its topic
Matches(k, s) ==
  /\ k.kind # "reading" /\ k.broker = s.broker /\ Len(k.prefix) <= Len(s.topic)
  /\ \A i \in 1 .. Len(k.prefix) : k.prefix[i] = s.topic[i]

\* as mutated: whatever is below a rule is admitted
AdmitAll(def, id, rule) == TRUE

Admitted(def, id, rule) ==
  \/ Own(def, id) \in DOMAIN def.rules
  \/ rule.future
  \/ def.registered[id] <= rule.admitted

Parents(def, id) == {k \in DOMAIN def.rules : Matches(k, def.streams[id])}
Nearest(def, id) ==
  CHOOSE k \in Parents(def, id) : \A other \in Parents(def, id) : Len(other.prefix) <= Len(k.prefix)

Resolve(def, id) ==
  IF Own(def, id) \in DOMAIN def.rules /\ def.rules[Own(def, id)].policy # "none"
  THEN [policy |-> def.rules[Own(def, id)].policy, review |-> FALSE]
  ELSE IF Parents(def, id) = {} THEN [policy |-> "off", review |-> FALSE]
  ELSE LET rule == def.rules[Nearest(def, id)]
       IN  IF Admitted(def, id, rule) THEN [policy |-> rule.policy, review |-> FALSE]
           ELSE [policy |-> "off", review |-> TRUE]

Materialized(def) ==
  [def EXCEPT !.policies = [id \in DOMAIN def.streams |-> Resolve(def, id).policy]]

-----------------------------------------------------------------------------
(* A document becomes a definition, with what is kept of the one before.   *)
Input(s) == <<s.broker, s.topic>>
New(document, def) ==
  {id \in DOMAIN document : id \notin DOMAIN def.streams \/ Input(def.streams[id]) # Input(document[id])}

\* saved bindings stay while their device does
Bindings(document, def) ==
  [id \in DOMAIN document |->
     IF id \in DOMAIN def.bindings /\ def.bindings[id].device = document[id].device
     THEN def.bindings[id]
     ELSE [device |-> document[id].device,
           entity |-> IF document[id].device = "none" THEN document[id].broker ELSE document[id].device]]

\* a rule goes with its broker or reading, an admission also when the reading's input changes
RulesKept(document, def) ==
  {k \in DOMAIN def.rules :
     /\ k.kind = "reading" =>
          /\ k.reading \in DOMAIN document /\ document[k.reading].broker = k.broker
          /\ def.rules[k].policy # "none" \/ k.reading \notin New(document, def)
     /\ k.kind # "reading" => \E id \in DOMAIN document : document[id].broker = k.broker}

Project(document, def) ==
  LET new == New(document, def)
      clock == def.clock + (IF new = {} THEN 0 ELSE 1)
  IN  Materialized(
        [streams |-> document, policies |-> None, bindings |-> Bindings(document, def),
         rules |-> [k \in RulesKept(document, def) |-> def.rules[k]], clock |-> clock,
         registered |-> [id \in DOMAIN document |-> IF id \in new THEN clock ELSE def.registered[id]]])

Selected(def) == {id \in DOMAIN def.streams : def.policies[id] # "off"}

\* the topic a reading is accepted under, and everything about it that a reader depends on
Accepted(def, id) == <<def.bindings[id].entity, id>>
Signature(def, id) == <<def.bindings[id], Input(def.streams[id]), def.policies[id]>>
Inputs(def) == {<<Accepted(def, id), Signature(def, id)>> : id \in Selected(def)}
ChangedInputs(before, after) ==
  {x[1] : x \in (Inputs(before) \ Inputs(after)) \cup (Inputs(after) \ Inputs(before))}

-----------------------------------------------------------------------------
(* Edits of rules.                                                         *)
Rule(policy, future, admitted) == [policy |-> policy, future |-> future, admitted |-> admitted]
With(def, k, rule) ==
  [def EXCEPT !.rules = [j \in DOMAIN def.rules \cup {k} |-> IF j = k THEN rule ELSE def.rules[j]]]
Without(def, k) == [def EXCEPT !.rules = [j \in DOMAIN def.rules \ {k} |-> def.rules[j]]]

\* what is there when a rule is made is admitted; what came since stays out when it changes
SetRule(def, k, policy, future) ==
  LET cutoff == IF k \notin DOMAIN def.rules \/ (def.rules[k].future /\ ~future) THEN def.clock
                ELSE def.rules[k].admitted
  IN  With(def, k, Rule(policy, future, cutoff))

RestoreRule(def, k, rule) ==
  IF rule.policy = "none" /\ k.kind # "reading" THEN Without(def, k) ELSE With(def, k, rule)

Inherit(def, k) ==
  IF k.kind = "reading" THEN With(def, k, Rule("none", FALSE, 0)) ELSE Without(def, k)

\* the readings below that await a review are admitted
Include(def, k) ==
  LET below == IF k.kind = "reading" THEN {k.reading}
               ELSE {id \in DOMAIN def.streams : Matches(k, def.streams[id])}
      admit == {Own(def, id) : id \in {id \in below : Resolve(def, id).review}}
  IN  [def EXCEPT !.rules = [j \in DOMAIN def.rules \cup admit |->
                               IF j \in admit THEN Rule("none", FALSE, 0) ELSE def.rules[j]]]

Scoped(def) ==
  {k \in Scopes : IF k.kind = "reading" THEN k.reading \in DOMAIN def.streams /\ def.streams[k.reading].broker = k.broker
                  ELSE \E id \in DOMAIN def.streams : def.streams[id].broker = k.broker}

RuleEdits(def) ==
  UNION {{SetRule(def, k, c[1], c[2]) :
            c \in {"on", "off"} \X (IF k.kind = "reading" THEN {FALSE} ELSE BOOLEAN)}
         \cup {Inherit(def, k), Include(def, k)}
         \cup {RestoreRule(def, k, Rule(policy, FALSE, 0)) : policy \in {"none", "on"}} : k \in Scoped(def)}

-----------------------------------------------------------------------------
(* Writing.                                                                *)
Metadata(def) == <<def.rules, def.registered, def.clock>>

\* as mutated: only a change of the rules makes a revision
MetadataOnly(before, after) == Metadata(before) # Metadata(after)

NewRevision(before, after) ==
  Inputs(before) # Inputs(after) \/ Metadata(before) # Metadata(after)

\* both rows, in the transaction that holds the lock
Write(def) ==
  /\ runtime' = [revision |-> runtime.revision + (IF NewRevision(runtime.def, def) THEN 1 ELSE 0),
                 generation |-> runtime.generation + (IF Inputs(runtime.def) # Inputs(def) THEN 1 ELSE 0),
                 def |-> def]
  /\ saved' = IF saved.streams = def.streams /\ saved.policies = def.policies THEN saved
              ELSE [revision |-> saved.revision + 1, streams |-> def.streams, policies |-> def.policies]

Claims(m) == monitors[m].state \in {"running", "stopping"}
Affected(def) ==
  {m \in Monitor : Claims(m) /\ monitors[m].topics \cap ChangedInputs(runtime.def, def) # {}}
Reserved(def) == pending.topics \cap ChangedInputs(runtime.def, def) # {}

\* a change that affects no monitor is written at once; another one asks them to stop
Protect(e, def) ==
  /\ ~Reserved(def)
  /\ IF Affected(def) = {}
     THEN Write(def) /\ UNCHANGED <<edit, monitors>>
     ELSE /\ edit' = [edit EXCEPT ![e] = [phase |-> "pausing", proposed |-> def, guard |-> Now,
                                          affected |-> Affected(def)]]
          /\ monitors' = [m \in Monitor |-> IF m \in Affected(def)
                                            THEN [monitors[m] EXCEPT !.state = "stopping"] ELSE monitors[m]]
          /\ UNCHANGED <<saved, runtime>>

Load(e) ==
  /\ edit[e].phase = "idle" /\ seen[e] # Now
  /\ seen' = [seen EXCEPT ![e] = Now]
  /\ UNCHANGED <<saved, runtime, edit, monitors, pending>>

More == saved.revision + runtime.revision < MaxWrites

\* the document, by one who saw its current revision
Save(e) ==
  /\ edit[e].phase = "idle" /\ seen[e][1] = saved.revision /\ More
  /\ \E document \in Documents : Protect(e, Project(document, runtime.def))
  /\ UNCHANGED <<seen, pending>>

\* the rules, by one who saw both revisions
ApplyCollection(e) ==
  /\ edit[e].phase = "idle" /\ seen[e] = Now /\ More
  /\ \E def \in RuleEdits(Project(saved.streams, runtime.def)) : Protect(e, Materialized(def))
  /\ UNCHANGED <<seen, pending>>

\* as mutated: monitors that were started meanwhile are not looked for
StillAlone(e) == ~Reserved(edit[e].proposed)

\* what is affected now has been stopped
NoneStarted(e) ==
  ~Reserved(edit[e].proposed) /\ Affected(edit[e].proposed) \subseteq edit[e].affected

\* as mutated: the revisions are not compared again
GuardUnneeded(e) == TRUE
GuardHolds(e) == edit[e].guard = Now

\* the monitors have stopped, and the lock is taken again; or one could not be stopped
Resume(e) ==
  /\ edit[e].phase = "pausing"
  /\ \/ /\ \A m \in edit[e].affected : monitors[m].state = "stopped"
        /\ IF GuardHolds(e) /\ NoneStarted(e) THEN Write(edit[e].proposed)
           ELSE UNCHANGED <<saved, runtime>>
     \/ UNCHANGED <<saved, runtime>>
  /\ edit' = [edit EXCEPT ![e] = NoEdit]
  /\ UNCHANGED <<seen, monitors, pending>>

-----------------------------------------------------------------------------
(* Monitors.                                                               *)
\* an activation reserves recorded readings that nobody has
Reserve ==
  /\ pending.topics = {}
  /\ \E ids \in SUBSET Selected(runtime.def) \ {{}} :
       LET topics == {Accepted(runtime.def, id) : id \in ids}
       IN  /\ \A m \in Monitor : Claims(m) => monitors[m].topics \cap topics = {}
           /\ pending' = [topics |-> topics,
                          reads |-> {x \in Inputs(runtime.def) : x[1] \in topics}]
  /\ UNCHANGED <<saved, runtime, seen, edit, monitors>>

\* it starts its monitor, if what it reads is still what was verified, or is given up
Launch ==
  /\ pending.topics # {}
  /\ pending' = [topics |-> {}, reads |-> {}]
  /\ \/ UNCHANGED monitors
     \/ /\ pending.reads \subseteq Inputs(runtime.def)
        /\ \E m \in Monitor :
             /\ monitors[m].state = "new"
             /\ monitors' = [monitors EXCEPT ![m] = [state |-> "running", topics |-> pending.topics,
                                                     reads |-> pending.reads]]
  /\ UNCHANGED <<saved, runtime, seen, edit>>

Stop(m) ==
  /\ monitors[m].state = "stopping"
  /\ monitors' = [monitors EXCEPT ![m].state = "stopped"]
  /\ UNCHANGED <<saved, runtime, seen, edit, pending>>

-----------------------------------------------------------------------------
\* a first document, and what a member has chosen to record of it
First == Materialized(SetRule(Project(Begin.document, Empty), Begin.scope, "on", FALSE))

Init ==
  /\ saved = [revision |-> 1, streams |-> First.streams, policies |-> First.policies]
  /\ runtime = [revision |-> 1, generation |-> 1, def |-> First]
  /\ seen = [e \in Editor |-> Now] /\ edit = [e \in Editor |-> NoEdit]
  /\ monitors = [m \in Monitor |-> [state |-> "new", topics |-> {}, reads |-> {}]]
  /\ pending = [topics |-> {}, reads |-> {}]

Next ==
  \/ \E e \in Editor : Load(e) \/ Save(e) \/ ApplyCollection(e) \/ Resume(e)
  \/ Reserve \/ Launch \/ \E m \in Monitor : Stop(m)

Spec == Init /\ [][Next]_catalogueVars

-----------------------------------------------------------------------------
(* What a monitor reads does not change under it, nor what an activation   *)
(* has reserved: as long as it runs, each of its inputs is recorded as it  *)
(* was when it started (protect_monitors, affected).                       *)
MonitorsFed ==
  /\ \A m \in Monitor : monitors[m].state = "running" => monitors[m].reads \subseteq Inputs(runtime.def)
  /\ pending.reads \subseteq Inputs(runtime.def)

(* The two rows tell the same story: the document, with the policy of      *)
(* every reading as the rules make it.                                     *)
RowsAgree ==
  /\ saved.streams = runtime.def.streams /\ saved.policies = runtime.def.policies
  /\ runtime.def = Materialized(runtime.def)

Reviewed(old, def) ==
  def.streams # old.streams =>
    \A id \in DOMAIN def.streams :
      /\ id \in New(def.streams, old) /\ def.policies[id] = "on" =>
           \E k \in DOMAIN def.rules :
             \/ k = Own(def, id) /\ def.rules[k].policy = "on"
             \/ Matches(k, def.streams[id]) /\ def.rules[k].future
      /\ id \in DOMAIN old.streams /\ old.streams[id].device = def.streams[id].device =>
           def.bindings[id] = old.bindings[id]

(* A save of the document records nothing new by itself: a reading that it *)
(* adds, or connects elsewhere, is off until a member has reviewed it,     *)
(* unless a rule above includes what comes; and no reading goes to another *)
(* entity while its device stays (project, resolve, build_bindings).       *)
NewReadingsWait == [][Reviewed(runtime.def, runtime'.def)]_catalogueVars

ChangesApart(old, def) ==
  def.streams # old.streams =>
    /\ DOMAIN def.rules \subseteq DOMAIN old.rules
    /\ \A k \in DOMAIN def.rules : def.rules[k] = old.rules[k]

(* Of two changes that waited for monitors to stop, the later does not     *)
(* take the other back: what changes the document changes no rule but      *)
(* those of readings and brokers that go (_locked_revision, _guard).       *)
OneChangeAtATime == [][ChangesApart(runtime.def, runtime'.def)]_catalogueVars

Revised ==
  /\ runtime'.def # runtime.def /\ saved'.revision = saved.revision =>
       runtime'.revision > runtime.revision
  /\ Inputs(runtime'.def) # Inputs(runtime.def) =>
       runtime'.revision > runtime.revision /\ runtime'.generation > runtime.generation
  /\ runtime'.revision >= runtime.revision /\ saved'.revision >= saved.revision

(* Whoever applies the collection is told by its revision that anything    *)
(* about it changed, and a new generation is begun exactly when what is    *)
(* recorded changes (persist).                                             *)
RevisionsTell == [][Revised]_catalogueVars
=============================================================================
