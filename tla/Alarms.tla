------------------------------- MODULE Alarms -------------------------------
(***************************************************************************)
(* The detections engine (extensions/detections/engine.py): one rule and   *)
(* the state machines it keeps, one for each module.                       *)
(*                                                                         *)
(* The engine is a thread.  A tick empties the queue of the subscription   *)
(* (the rules that look at observations), then evaluates the rules that    *)
(* look at time; waiting for the next tick is waiting to empty the queue.  *)
(* Meanwhile the event loop adopts and loses modules and moves their       *)
(* states, and threads of the API acknowledge alarms.  The watchdog that   *)
(* ends a tick is part of Adoption.                                        *)
(*                                                                         *)
(* Time is what has elapsed: a pending alarm ripens when its debounce is   *)
(* over, a channel ages when its last good observation is older than the   *)
(* window.  Rules share nothing but the stream, so that one is enough; all *)
(* modules here have its channel and, while they have any, its role.       *)
(***************************************************************************)
EXTENDS Naturals, Sequences, FiniteSets

CONSTANTS
  Module,      \* the instruments
  NoModule,    \* none
  Rule,        \* the rules that may be configured
  Caller,      \* threads that acknowledge
  Streak,      \* count of a quality_streak
  QueueCap,    \* capacity of the subscription (1000 in the code)
  MaxInputs,   \* bound: envelopes of interest, moves of modules, acknowledgements
  MaxTroubles  \* bound: appends that fail, and restarts of the hub

RuleType == {"threshold", "stale_data", "cal_overdue", "health_flag", "quality_streak"}

ASSUME AlarmAssumption ==
  /\ NoModule \notin Module /\ Module # {}
  /\ Rule \subseteq [type : RuleType, debounced : BOOLEAN, suppresses : BOOLEAN]
  /\ Streak \in Nat \ {0} /\ QueueCap \in Nat \ {0}
  /\ {MaxInputs, MaxTroubles} \subseteq Nat

VARIABLES
  rule,        \* the rule
  \* the hub
  sessions,    \* modules that are adopted
  known,       \* modules whose registry entry has the role
  busy,        \* adopted modules in a state the rule may be suppressed in
  queue,       \* the engine's subscription
  \* the engine
  tick,        \* where its thread is, and the modules still to be evaluated
  state,       \* of each instance
  ripe,        \* pending instances whose debounce is over
  acked,       \* instances that are acknowledged
  streak,      \* bad observations in a row
  observed,    \* modules with a good observation, or a calibration
  aged,        \* modules whose last one is too old
  seen,        \* modules that produced the channel
  health,      \* the latest health of each module, as to the flag
  call,        \* the threads that acknowledge
  \* the evidence
  last,        \* the last alert of each module
  audited,     \* modules whose last alert has an acknowledgement after it
  \* history
  doubt,       \* modules whose last alert is not on record
  crossed,     \* modules whose alarm changed while it was acknowledged
  \* bounded counters
  inputs, troubles

hubVars == <<sessions, known, busy>>
instanceVars == <<state, ripe, acked, streak>>
feedVars == <<observed, aged, seen, health>>
logVars == <<last, audited, doubt, crossed>>
bounds == <<inputs, troubles>>
vars == <<rule, hubVars, queue, tick, instanceVars, feedVars, call, logVars, bounds>>

Waiting == [at |-> "drain", todo |-> {}]
Unasked == [at |-> "idle", on |-> NoModule]

Init ==
  /\ rule \in Rule
  /\ sessions = {} /\ known = {} /\ busy = {}
  /\ queue = <<>>
  /\ tick = Waiting
  /\ state = [m \in Module |-> "inactive"]
  /\ streak = [m \in Module |-> 0]
  /\ health = [m \in Module |-> "unknown"]
  /\ ripe = {} /\ acked = {} /\ observed = {} /\ aged = {} /\ seen = {}
  /\ call = [k \in Caller |-> Unasked]
  /\ last = [m \in Module |-> "none"]
  /\ audited = {} /\ doubt = {} /\ crossed = {}
  /\ inputs = 0 /\ troubles = 0

\* A new engine knows nothing and its clock starts now; calibrations are read
\* from the store.
Fresh ==
  LET kept == IF rule.type = "cal_overdue" THEN observed ELSE {} IN
  /\ queue' = <<>>
  /\ tick' = Waiting
  /\ state' = [m \in Module |-> "inactive"]
  /\ streak' = [m \in Module |-> 0]
  /\ health' = [m \in Module |-> "unknown"]
  /\ ripe' = {} /\ acked' = {} /\ seen' = {}
  /\ observed' = kept /\ aged' = aged \cap kept
  /\ call' = [k \in Caller |-> Unasked]

Active == {m \in Module : state[m] = "active"}
Suppressed(m) == rule.suppresses /\ m \in busy

------------------------------------------------------------------------------
(***************************************************************************)
(* The hub around the engine.                                              *)
(***************************************************************************)
Failed == [at |-> "failed", todo |-> {}]

\* The table of sessions changes: a thread that iterates over it at this moment
\* fails.
Disturbed ==
  \/ tick' = tick
  \/ /\ tick.at = "evaluate" /\ rule.type \in {"stale_data", "cal_overdue", "health_flag"}
     /\ tick' = Failed

\* A module is adopted; it has reported no state yet.
Adopt(m) ==
  /\ m \notin sessions /\ inputs < MaxInputs
  /\ sessions' = sessions \cup {m}
  /\ known' = known \cup {m}
  /\ inputs' = inputs + 1
  /\ Disturbed
  /\ UNCHANGED <<rule, busy, queue, instanceVars, feedVars, call, logVars, troubles>>

\* Its session ends; the registry keeps its role.
Remove(m) ==
  /\ m \in sessions /\ inputs < MaxInputs
  /\ sessions' = sessions \ {m}
  /\ busy' = busy \ {m}
  /\ inputs' = inputs + 1
  /\ Disturbed
  /\ UNCHANGED <<rule, known, queue, instanceVars, feedVars, call, logVars, troubles>>

\* A module that dials is quarantined: its registry entry has no role.
Quarantine(m) ==
  /\ m \notin sessions /\ m \in known /\ inputs < MaxInputs
  /\ known' = known \ {m}
  /\ inputs' = inputs + 1
  /\ UNCHANGED <<rule, sessions, busy, queue, tick, instanceVars, feedVars, call, logVars, troubles>>

\* It starts or ends priming, calibrating or what else the rule names.
ChangeState(m) ==
  /\ rule.suppresses
  /\ m \in sessions /\ inputs < MaxInputs
  /\ busy' = IF m \in busy THEN busy \ {m} ELSE busy \cup {m}
  /\ inputs' = inputs + 1
  /\ UNCHANGED <<rule, sessions, known, queue, tick, instanceVars, feedVars, call, logVars, troubles>>

Word ==
  CASE rule.type = "threshold"      -> {"low", "between", "high"}
    [] rule.type = "stale_data"     -> {"good", "bad"}
    [] rule.type = "quality_streak" -> {"good", "bad"}
    [] rule.type = "health_flag"    -> {"hit", "ok", "silent"}
    [] rule.type = "cal_overdue"    -> {}

\* An observation of the channel, or a health report, enters the log and is
\* offered to the engine's queue.
Tell(m, word) ==
  /\ m \in sessions /\ inputs < MaxInputs
  /\ queue' = IF Len(queue) < QueueCap THEN Append(queue, [from |-> m, word |-> word]) ELSE queue
  /\ inputs' = inputs + 1
  /\ UNCHANGED <<rule, hubVars, tick, instanceVars, feedVars, call, logVars, troubles>>

\* A calibration: the engine reads it from the store.
Calibrate(m) ==
  /\ rule.type = "cal_overdue"
  /\ m \in sessions /\ inputs < MaxInputs
  /\ observed' = observed \cup {m}
  /\ aged' = aged \ {m}
  /\ inputs' = inputs + 1
  /\ UNCHANGED <<rule, hubVars, queue, tick, instanceVars, seen, health, call, logVars, troubles>>

\* Time passes: the debounce of a pending alarm is over, ...
Ripen(m) ==
  /\ state[m] = "pending" /\ m \notin ripe
  /\ ripe' = ripe \cup {m}
  /\ UNCHANGED <<rule, hubVars, queue, tick, state, acked, streak, feedVars, call, logVars, bounds>>

\* ... or the window since the last good observation or calibration, and since
\* the start of the engine for all that never had one.
Age(m) ==
  /\ rule.type \in {"stale_data", "cal_overdue"}
  /\ aged' = aged \cup (IF m \in observed THEN {m} ELSE Module \ observed)
  /\ UNCHANGED <<rule, hubVars, queue, tick, instanceVars, observed, seen, health, call, logVars, bounds>>

------------------------------------------------------------------------------
(***************************************************************************)
(* The engine.                                                             *)
(***************************************************************************)
Now(m, to) == state' = [state EXCEPT ![m] = to]

\* Threads that have looked at the alarm of m and are not through with it.
Acking(m) == {k \in Caller : call[k].on = m}

\* Mutant: what is raised again is still acknowledged.
StillAcked(m, to) == acked

\* What a transition does to the acknowledgement.
Unacked(m, to) == IF to = "raised" THEN acked \ {m} ELSE acked

\* _transition: the state first, the evidence after it.  An append that raises
\* ends the tick.
Transition(m, to, then) ==
  /\ Now(m, IF to = "raised" THEN "active" ELSE "inactive")
  /\ ripe' = ripe \ {m}
  /\ acked' = Unacked(m, to)
  /\ crossed' = IF Acking(m) # {} THEN crossed \cup {m} ELSE crossed \ {m}
  /\ \/ /\ last' = [last EXCEPT ![m] = to]
        /\ audited' = audited \ {m}
        /\ doubt' = doubt \ {m}
        /\ tick' = then
        /\ UNCHANGED troubles
     \/ /\ troubles < MaxTroubles
        /\ doubt' = doubt \cup {m}
        /\ tick' = Failed
        /\ troubles' = troubles + 1
        /\ UNCHANGED <<last, audited>>

\* Mutant: the clock of the pending alarm goes on.
StayRipe(m, to, then) ==
  /\ Now(m, to)
  /\ tick' = then
  /\ UNCHANGED <<ripe, acked, logVars, troubles>>

Stay(m, to, then) ==
  /\ Now(m, to)
  /\ ripe' = ripe \ {m}
  /\ tick' = then
  /\ UNCHANGED <<acked, logVars, troubles>>

Keep(then) == tick' = then /\ UNCHANGED <<state, ripe, acked, logVars, troubles>>

Selected(m) == m \in sessions \cup known

\* The threshold rule on a good value; what is suppressed is skipped.
OnValue(m, word, then) ==
  IF Suppressed(m) THEN Keep(then)
  ELSE CASE state[m] = "inactive" /\ word = "high" ->
              IF rule.debounced THEN Stay(m, "pending", then) ELSE Transition(m, "raised", then)
         [] state[m] = "pending" /\ word # "high" -> Stay(m, "inactive", then)
         [] state[m] = "active" /\ word = "low" -> Transition(m, "cleared", then)
         [] OTHER -> Keep(then)

OnFresh(m, then) == IF state[m] = "active" THEN Transition(m, "cleared", then) ELSE Keep(then)

OnQuality(m, word, then) ==
  CASE state[m] # "active" /\ streak'[m] >= Streak -> Transition(m, "raised", then)
    [] state[m] = "active" /\ word = "good" -> Transition(m, "cleared", then)
    [] OTHER -> Keep(then)

\* One envelope of the queue.
Drain ==
  LET m == Head(queue).from  word == Head(queue).word IN
  /\ tick.at = "drain" /\ queue # <<>>
  /\ queue' = Tail(queue)
  /\ seen' = IF rule.type = "stale_data" THEN seen \cup {m} ELSE seen
  /\ health' = IF rule.type = "health_flag" THEN [health EXCEPT ![m] = word] ELSE health
  /\ IF ~Selected(m) THEN Keep(tick) /\ UNCHANGED <<observed, aged, streak>>
     ELSE /\ IF rule.type = "stale_data" /\ word = "good"
             THEN observed' = observed \cup {m} /\ aged' = aged \ {m}
             ELSE UNCHANGED <<observed, aged>>
          /\ streak' = IF rule.type # "quality_streak" THEN streak
                       ELSE [streak EXCEPT ![m] = CASE word = "good" -> 0
                                                    [] @ = Streak -> Streak
                                                    [] OTHER -> @ + 1]
          /\ CASE rule.type = "threshold" -> OnValue(m, word, tick)
               [] rule.type = "stale_data" /\ word = "good" -> OnFresh(m, tick)
               [] rule.type = "quality_streak" -> OnQuality(m, word, tick)
               [] OTHER -> Keep(tick)
  /\ UNCHANGED <<rule, hubVars, call, inputs>>

\* Mutant: only modules that are there are evaluated.
DrainedPresent ==
  /\ tick.at = "drain" /\ queue = <<>>
  /\ tick' = IF sessions = {} THEN Waiting ELSE [at |-> "evaluate", todo |-> sessions]
  /\ UNCHANGED <<rule, hubVars, queue, instanceVars, feedVars, call, logVars, bounds>>

Drained ==
  /\ tick.at = "drain" /\ queue = <<>>
  /\ tick' = [at |-> "evaluate", todo |-> Module]
  /\ UNCHANGED <<rule, hubVars, queue, instanceVars, feedVars, call, logVars, bounds>>

\* Another module of the role is there and produces.
Superseded(m) == m \in known /\ \E other \in sessions \ {m} : other \in observed \ aged

\* Mutant: what stands is raised again at every tick.
OnAgeAgain(m, then) ==
  IF Selected(m) /\ m \in (seen \cup sessions) \cap aged THEN Transition(m, "raised", then) ELSE Keep(then)

\* Mutant: the alarm of a module that has a successor is left alone.
OnAgeStays(m, then) ==
  IF Selected(m) /\ m \in (seen \cup sessions) \cap aged /\ state[m] # "active"
     /\ ~(m \notin sessions /\ Superseded(m))
  THEN Transition(m, "raised", then) ELSE Keep(then)

OnAge(m, then) ==
  CASE ~(Selected(m) /\ m \in seen \cup sessions) -> Keep(then)
    [] m \notin sessions /\ Superseded(m) ->
         IF state[m] = "active" THEN Transition(m, "cleared", then) ELSE Keep(then)
    [] OTHER -> IF state[m] # "active" /\ m \in aged THEN Transition(m, "raised", then) ELSE Keep(then)

OnDebounce(m, then) ==
  IF state[m] = "pending" /\ (m \in ripe \/ ~rule.debounced)
  THEN Transition(m, "raised", then) ELSE Keep(then)

OnCalibration(m, then) ==
  CASE m \in sessions /\ state[m] # "active" /\ m \in aged -> Transition(m, "raised", then)
    [] m \in sessions /\ state[m] = "active" /\ m \notin aged -> Transition(m, "cleared", then)
    [] OTHER -> Keep(then)

OnHealth(m, then) ==
  CASE m \notin sessions \/ health[m] \in {"unknown", "silent"} -> Keep(then)
    [] state[m] = "inactive" /\ health[m] = "hit" -> Stay(m, "pending", then)
    [] state[m] = "pending" /\ health[m] # "hit" -> Stay(m, "inactive", then)
    [] state[m] = "active" /\ health[m] # "hit" -> Transition(m, "cleared", then)
    [] OTHER -> OnDebounce(m, then)

\* The rule that looks at time, for one module.
Evaluate(m) ==
  LET then == IF tick.todo = {m} THEN Waiting ELSE [tick EXCEPT !.todo = @ \ {m}] IN
  /\ tick.at = "evaluate" /\ m \in tick.todo
  /\ CASE rule.type = "threshold" -> OnDebounce(m, then)
       [] rule.type = "stale_data" -> OnAge(m, then)
       [] rule.type = "cal_overdue" -> OnCalibration(m, then)
       [] rule.type = "health_flag" -> OnHealth(m, then)
       [] OTHER -> Keep(then)
  /\ UNCHANGED <<rule, hubVars, queue, streak, feedVars, call, inputs>>

\* The error of a tick becomes an event; when that cannot be written either,
\* the thread is gone.
ReportError ==
  /\ tick.at = "failed"
  /\ \/ tick' = Waiting /\ UNCHANGED troubles
     \/ /\ troubles < MaxTroubles
        /\ tick' = [at |-> "dead", todo |-> {}]
        /\ troubles' = troubles + 1
  /\ UNCHANGED <<rule, hubVars, queue, instanceVars, feedVars, call, logVars, inputs>>

------------------------------------------------------------------------------
(***************************************************************************)
(* POST /v1/alerts/ack, on a thread of the API: look, mark, write.         *)
(***************************************************************************)
AckLook(k, m) ==
  /\ call[k].at = "idle" /\ inputs < MaxInputs
  /\ state[m] = "active" /\ m \notin acked
  /\ call' = [call EXCEPT ![k] = [at |-> "seen", on |-> m]]
  /\ inputs' = inputs + 1
  /\ UNCHANGED <<rule, hubVars, queue, tick, instanceVars, feedVars, logVars, troubles>>

AckMark(k) ==
  /\ call[k].at = "seen"
  /\ acked' = acked \cup {call[k].on}
  /\ call' = [call EXCEPT ![k].at = "marked"]
  /\ UNCHANGED <<rule, hubVars, queue, tick, state, ripe, streak, feedVars, logVars, bounds>>

AckWrite(k) ==
  /\ call[k].at = "marked"
  /\ call' = [call EXCEPT ![k] = Unasked]
  /\ \/ audited' = audited \cup {call[k].on} /\ UNCHANGED <<crossed, troubles>>
     \/ /\ troubles < MaxTroubles
        /\ crossed' = crossed \cup {call[k].on}
        /\ troubles' = troubles + 1
        /\ UNCHANGED audited
  /\ UNCHANGED <<rule, hubVars, queue, tick, instanceVars, feedVars, last, doubt, inputs>>

\* The hub stops or dies, and comes back.
Restart ==
  /\ troubles < MaxTroubles
  /\ Fresh
  /\ sessions' = {} /\ known' = {} /\ busy' = {}
  /\ doubt' = {m \in Module : last[m] = "raised"}
  /\ crossed' = Module
  /\ troubles' = troubles + 1
  /\ UNCHANGED <<rule, last, audited, inputs>>

------------------------------------------------------------------------------
Hub ==
  \E m \in Module :
    \/ Adopt(m) \/ Remove(m) \/ Quarantine(m) \/ ChangeState(m)
    \/ \E word \in Word : Tell(m, word)
    \/ Calibrate(m) \/ Ripen(m) \/ Age(m)

Engine == Drain \/ Drained \/ (\E m \in Module : Evaluate(m)) \/ ReportError

Operator == \E k \in Caller : (\E m \in Module : AckLook(k, m)) \/ AckMark(k) \/ AckWrite(k)

Next == Hub \/ Engine \/ Operator \/ Restart

Spec == Init /\ [][Next]_vars

\* The engine ticks on, whatever happens around it, and debounces end.
FairSpec == Spec /\ WF_vars(Engine) /\ \A m \in Module : WF_vars(Ripen(m))

------------------------------------------------------------------------------
(***************************************************************************)
(* Properties.                                                             *)
(***************************************************************************)
AlarmTypeOK ==
  /\ rule \in Rule
  /\ busy \subseteq sessions /\ sessions \subseteq known /\ known \subseteq Module
  /\ queue \in Seq([from : Module, word : Word]) /\ Len(queue) <= QueueCap
  /\ tick \in [at : {"drain", "evaluate", "failed", "dead"}, todo : SUBSET Module]
  /\ (tick.todo # {}) = (tick.at = "evaluate")
  /\ state \in [Module -> {"inactive", "pending", "active"}]
  /\ ripe \subseteq {m \in Module : state[m] = "pending"}
  /\ streak \in [Module -> 0..Streak]
  /\ {acked, observed, aged, seen} \subseteq SUBSET Module
  /\ health \in [Module -> {"unknown", "hit", "ok", "silent"}]
  /\ call \in [Caller -> [at : {"idle", "seen", "marked"}, on : Module \cup {NoModule}]]
  /\ \A k \in Caller : (call[k].on = NoModule) = (call[k].at = "idle")
  /\ last \in [Module -> {"none", "raised", "cleared"}]
  /\ {audited, doubt, crossed} \subseteq SUBSET Module

\* The board and the evidence tell one story of each alarm: raised and cleared
\* in turn, whatever modules, acknowledgements, failing writes and restarts do
\* meanwhile (_transition, and the conditions around it).
Cycle == INSTANCE AlarmCycle WITH standing <- Active, acked <- acked \cap Active
LifeCycle == Cycle!Spec

\* A standing alarm is shown as acknowledged exactly if its acknowledgement is
\* in the evidence after it: what is raised again must be acknowledged again.
\* Not so while somebody acknowledges, nor when the alarm changed under the
\* hands of who did (ack() takes no lock).
AckOnRecord ==
  \A m \in Active \ (doubt \cup crossed) : Acking(m) = {} => (m \in acked <=> m \in audited)

\* An alarm stands exactly if its last record says so, unless that is in doubt.
BoardOnRecord == \A m \in Module \ doubt : m \in Active <=> last[m] = "raised"

\* Who has marked an alarm and not yet written it down.
Marking(m) == {k \in Caller : call[k] = [at |-> "marked", on |-> m]}

\* The two halves of an acknowledgement, while it is under way.
AckUnderWay ==
  \A m \in Active \ (doubt \cup crossed) :
    /\ m \in audited => m \in acked
    /\ Marking(m) # {} => m \in acked
    /\ Marking(m) = {} /\ m \in acked => m \in audited

\* The types of the state, the board and the acknowledgements.
AlarmInv == AlarmTypeOK /\ BoardOnRecord /\ AckUnderWay /\ AckOnRecord

Alive == tick.at # "dead"

\* What the rule is about is the case for m.
Wrong(m) ==
  CASE rule.type = "stale_data" ->
         Selected(m) /\ m \in (seen \cup sessions) \cap aged /\ ~(m \notin sessions /\ Superseded(m))
    [] rule.type = "cal_overdue" -> m \in sessions \cap aged
    [] rule.type = "health_flag" -> m \in sessions /\ health[m] = "hit"
    [] OTHER -> FALSE

\* It is over.
Right(m) ==
  CASE rule.type = "stale_data" -> m \in seen \ sessions /\ Superseded(m)
    [] rule.type = "cal_overdue" -> m \in sessions \ aged
    [] rule.type = "health_flag" -> m \in sessions /\ health[m] = "ok"
    [] OTHER -> FALSE

\* A module that falls silent, whose calibration is overdue or whose health is
\* bad gets its alarm, unless that passes: also one that is gone, as long as no
\* other has its role and produces.
RaisedInTime == \A m \in Module : Wrong(m) ~> m \in Active \/ ~Wrong(m) \/ ~Alive

\* The alarm ends when its cause has: a removed module is silent for ever, but
\* its alarm is not kept once another has taken its role ("Anti-stale-alarm"),
\* if it ever produced.
ClearedInTime == \A m \in Module : Right(m) ~> m \notin Active \/ ~Right(m) \/ ~Alive

\* The alarms follow what the rules are about, as long as the thread lives.
AlarmsFollow == RaisedInTime /\ ClearedInTime
==============================================================================
