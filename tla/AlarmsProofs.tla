----------------------------- MODULE AlarmsProofs -----------------------------
(***************************************************************************)
(* What holds of the detections engine for any modules, rules, queue and   *)
(* bounds: board and evidence agree, an acknowledgement belongs to the     *)
(* alarm that stands, and each alarm lives through the cycle of AlarmCycle.*)
(***************************************************************************)
EXTENDS Alarms, SequenceTheorems, TLAPS

Ticks == {t \in [at : {"drain", "evaluate", "failed", "dead"}, todo : SUBSET Module] :
            (t.todo # {}) = (t.at = "evaluate")}

\* All that the engine does to the alarm of m in one step.
Effect(m, then) ==
  \/ Keep(then)
  \/ m \notin Active /\ Stay(m, "inactive", then)
  \/ m \notin Active /\ Stay(m, "pending", then)
  \/ m \notin Active /\ Transition(m, "raised", then)
  \/ m \in Active /\ Transition(m, "cleared", then)

\* What the board and the acknowledgements are made of.
boardVars == <<state, acked, call, last, audited, doubt, crossed>>

LEMMA TickType ==
  ASSUME AlarmTypeOK
  PROVE  tick \in Ticks
  BY DEF AlarmTypeOK, Ticks

\* No step changes the rule, nor what there is to hear of.
LEMMA RuleFixed ==
  ASSUME [Next]_vars
  PROVE  rule' = rule /\ Word' = Word
  <1>1. rule' = rule
    BY DEF Next, Hub, Engine, Operator, Adopt, Remove, Quarantine, ChangeState, Tell, Calibrate,
       Ripen, Age, Drain, Drained, Evaluate, ReportError, AckLook, AckMark, AckWrite, Restart, vars
  <1> QED
    BY <1>1 DEF Word

(***************************************************************************)
(* What the engine does in a step is one of the effects.                   *)
(***************************************************************************)
LEMMA EvaluateEffect ==
  ASSUME AlarmTypeOK, NEW m \in Module, Evaluate(m)
  PROVE  \E then \in Ticks : Effect(m, then)
  <1> DEFINE then == IF tick.todo = {m} THEN Waiting ELSE [tick EXCEPT !.todo = @ \ {m}]
  <1>1. then \in Ticks
    <2>1. Waiting \in Ticks
      BY DEF Waiting, Ticks
    <2>2. tick.at = "evaluate" /\ m \in tick.todo /\ tick.todo \subseteq Module
      BY TickType DEF Evaluate, Ticks
    <2>3. [tick EXCEPT !.todo = @ \ {m}] = [at |-> "evaluate", todo |-> tick.todo \ {m}]
      BY <2>2, TickType DEF Ticks
    <2>4. tick.todo # {m} => [at |-> "evaluate", todo |-> tick.todo \ {m}] \in Ticks
      BY <2>2 DEF Ticks
    <2> QED
      BY <2>1, <2>3, <2>4
  <1>2. \/ OnDebounce(m, then) \/ OnAge(m, then) \/ OnCalibration(m, then)
        \/ OnHealth(m, then) \/ Keep(then)
    BY DEF Evaluate
  <1> HIDE DEF then
  <1>3. state[m] \in {"inactive", "pending", "active"}
    BY DEF AlarmTypeOK
  <1>4. OnDebounce(m, then) => Effect(m, then)
    BY <1>3 DEF OnDebounce, Effect, Active
  <1>5. OnAge(m, then) => Effect(m, then)
    BY <1>3 DEF OnAge, Effect, Active
  <1>6. OnCalibration(m, then) => Effect(m, then)
    BY <1>3 DEF OnCalibration, Effect, Active
  <1>7. OnHealth(m, then) => Effect(m, then)
    BY <1>3, <1>4 DEF OnHealth, Effect, Active
  <1> QED
    BY <1>1, <1>2, <1>4, <1>5, <1>6, <1>7 DEF Effect

LEMMA HeadIsTold ==
  ASSUME AlarmTypeOK, Drain
  PROVE  Head(queue).from \in Module /\ Head(queue).word \in Word
  <1>1. queue \in Seq([from : Module, word : Word]) /\ queue # <<>>
    BY DEF Drain, AlarmTypeOK
  <1>2. Head(queue) \in [from : Module, word : Word]
    BY <1>1, HeadTailProperties
  <1> QED
    BY <1>2

LEMMA DrainEffect ==
  ASSUME AlarmTypeOK, Drain
  PROVE  \E m \in Module : \E then \in Ticks : Effect(m, then)
  <1> DEFINE m == Head(queue).from
             word == Head(queue).word
  <1>1. m \in Module
    BY HeadIsTold
  <1>2. tick \in Ticks
    BY TickType
  <1>3. state[m] \in {"inactive", "pending", "active"}
    BY <1>1 DEF AlarmTypeOK
  <1>4. \/ Keep(tick) \/ OnValue(m, word, tick) \/ OnFresh(m, tick) \/ OnQuality(m, word, tick)
    BY DEF Drain
  <1> HIDE DEF m, word
  <1>5. OnValue(m, word, tick) => Effect(m, tick)
    BY <1>1, <1>3 DEF OnValue, Effect, Active
  <1>6. OnFresh(m, tick) => Effect(m, tick)
    BY <1>1, <1>3 DEF OnFresh, Effect, Active
  <1>7. OnQuality(m, word, tick) => Effect(m, tick)
    BY <1>1, <1>3 DEF OnQuality, Effect, Active
  <1> QED
    BY <1>1, <1>2, <1>4, <1>5, <1>6, <1>7 DEF Effect

(***************************************************************************)
(* The types of the state.                                                 *)
(***************************************************************************)
LEMMA InitType == Init => AlarmTypeOK
  <1> SUFFICES ASSUME Init PROVE AlarmTypeOK
    OBVIOUS
  <1>1. queue \in Seq([from : Module, word : Word]) /\ Len(queue) <= QueueCap
    BY AlarmAssumption, EmptySeq DEF Init
  <1>2. streak \in [Module -> 0..Streak]
    BY AlarmAssumption DEF Init
  <1>3. tick \in Ticks
    BY DEF Init, Ticks, Waiting
  <1>4. call \in [Caller -> [at : {"idle", "seen", "marked"}, on : Module \cup {NoModule}]]
    BY DEF Init, Unasked
  <1>5. \A k \in Caller : (call[k].on = NoModule) = (call[k].at = "idle")
    BY DEF Init, Unasked
  <1> QED
    BY <1>1, <1>2, <1>3, <1>4, <1>5 DEF Init, AlarmTypeOK, Ticks

LEMMA HubTypes ==
  ASSUME AlarmTypeOK, Hub, rule' = rule, Word' = Word
  PROVE  AlarmTypeOK'
  <1> PICK m \in Module :
        \/ Adopt(m) \/ Remove(m) \/ Quarantine(m) \/ ChangeState(m)
        \/ (\E word \in Word : Tell(m, word))
        \/ Calibrate(m) \/ Ripen(m) \/ Age(m)
    BY DEF Hub
  <1> USE DEF hubVars, instanceVars, feedVars, logVars
  <1>1. UNCHANGED <<streak, state, seen, health, call, last, audited, doubt, crossed, acked>>
    BY DEF Adopt, Remove, Quarantine, ChangeState, Tell, Calibrate, Ripen, Age
  <1>2. tick' \in Ticks
    <2>1. Failed \in Ticks
      BY DEF Failed, Ticks
    <2>2. tick' = tick \/ tick' = Failed
      BY DEF Adopt, Remove, Quarantine, ChangeState, Tell, Calibrate, Ripen, Age, Disturbed
    <2> QED
      BY <2>1, <2>2, TickType
  <1>3. queue' \in Seq([from : Module, word : Word]) /\ Len(queue') <= QueueCap
    <2>1. CASE \E word \in Word : Tell(m, word)
      <3> PICK word \in Word : Tell(m, word)
        BY <2>1
      <3>1. CASE Len(queue) < QueueCap
        <4>1. queue' = Append(queue, [from |-> m, word |-> word])
          BY <3>1 DEF Tell
        <4>2. Len(queue') = Len(queue) + 1
          BY <4>1, AppendProperties DEF AlarmTypeOK
        <4>3. Len(queue) \in Nat
          BY LenProperties DEF AlarmTypeOK
        <4> QED
          BY <3>1, <4>1, <4>2, <4>3, AppendProperties, AlarmAssumption DEF AlarmTypeOK
      <3>2. CASE ~(Len(queue) < QueueCap)
        BY <3>2 DEF Tell, AlarmTypeOK
      <3> QED
        BY <3>1, <3>2
    <2>2. CASE queue' = queue
      BY <2>2 DEF AlarmTypeOK
    <2> QED
      BY <2>1, <2>2 DEF Adopt, Remove, Quarantine, ChangeState, Calibrate, Ripen, Age
  <1>4. busy' \subseteq sessions' /\ sessions' \subseteq known' /\ known' \subseteq Module
    BY DEF Adopt, Remove, Quarantine, ChangeState, Tell, Calibrate, Ripen, Age, AlarmTypeOK
  <1>5. ripe' \subseteq {x \in Module : state'[x] = "pending"}
    BY DEF Adopt, Remove, Quarantine, ChangeState, Tell, Calibrate, Ripen, Age, AlarmTypeOK
  <1>6. observed' \subseteq Module /\ aged' \subseteq Module
    <2>1. observed' \in {observed, observed \cup {m}}
      BY DEF Adopt, Remove, Quarantine, ChangeState, Tell, Calibrate, Ripen, Age
    <2>2. aged' \in {aged, aged \ {m}, aged \cup {m}, aged \cup (Module \ observed)}
      BY DEF Adopt, Remove, Quarantine, ChangeState, Tell, Calibrate, Ripen, Age
    <2> QED
      BY <2>1, <2>2 DEF AlarmTypeOK
  <1> QED
    BY <1>1, <1>2, <1>3, <1>4, <1>5, <1>6 DEF AlarmTypeOK, Ticks

\* An effect leaves the types of what it touches alone.
LEMMA EffectTypes ==
  ASSUME AlarmTypeOK, NEW m \in Module, NEW then \in Ticks, Effect(m, then)
  PROVE  /\ tick' \in Ticks
         /\ state' \in [Module -> {"inactive", "pending", "active"}]
         /\ ripe' \subseteq {x \in Module : state'[x] = "pending"}
         /\ last' \in [Module -> {"none", "raised", "cleared"}]
         /\ {acked', audited', doubt', crossed'} \subseteq SUBSET Module
  <1>1. CASE Keep(then)
    BY <1>1 DEF Keep, AlarmTypeOK, logVars
  <1>2. CASE Stay(m, "inactive", then) \/ Stay(m, "pending", then)
    BY <1>2 DEF Stay, Now, AlarmTypeOK, logVars
  <1>3. ASSUME NEW to \in {"raised", "cleared"}, Transition(m, to, then)
        PROVE  /\ tick' \in Ticks
               /\ state' \in [Module -> {"inactive", "pending", "active"}]
               /\ ripe' \subseteq {x \in Module : state'[x] = "pending"}
               /\ last' \in [Module -> {"none", "raised", "cleared"}]
               /\ {acked', audited', doubt', crossed'} \subseteq SUBSET Module
    <2>1. Failed \in Ticks
      BY DEF Failed, Ticks
    <2>2. tick' \in Ticks
      BY <1>3, <2>1 DEF Transition
    <2>3. state' \in [Module -> {"inactive", "pending", "active"}]
      BY <1>3 DEF Transition, Now, AlarmTypeOK
    <2>4. ripe' \subseteq {x \in Module : state'[x] = "pending"}
      BY <1>3 DEF Transition, Now, AlarmTypeOK
    <2>5. last' \in [Module -> {"none", "raised", "cleared"}]
      BY <1>3 DEF Transition, AlarmTypeOK
    <2>6. /\ acked' \in {acked, acked \ {m}} /\ audited' \in {audited, audited \ {m}}
          /\ doubt' \in {doubt \cup {m}, doubt \ {m}} /\ crossed' \in {crossed \cup {m}, crossed \ {m}}
      BY <1>3 DEF Transition, Unacked
    <2>7. {acked', audited', doubt', crossed'} \subseteq SUBSET Module
      BY <2>6 DEF AlarmTypeOK
    <2> QED
      BY <2>2, <2>3, <2>4, <2>5, <2>7
  <1> QED
    BY <1>1, <1>2, <1>3 DEF Effect

LEMMA EngineTypes ==
  ASSUME AlarmTypeOK, Engine, rule' = rule, Word' = Word
  PROVE  AlarmTypeOK'
  <1> USE DEF hubVars, instanceVars, feedVars, logVars
  <1>1. CASE Drain
    <2> DEFINE m == Head(queue).from
               word == Head(queue).word
    <2>1. PICK x \in Module, then \in Ticks : Effect(x, then)
      BY <1>1, DrainEffect
    <2>2. /\ tick' \in Ticks
          /\ state' \in [Module -> {"inactive", "pending", "active"}]
          /\ ripe' \subseteq {y \in Module : state'[y] = "pending"}
          /\ last' \in [Module -> {"none", "raised", "cleared"}]
          /\ {acked', audited', doubt', crossed'} \subseteq SUBSET Module
      BY <2>1, EffectTypes
    <2>3. m \in Module /\ word \in Word
      BY <1>1, HeadIsTold
    <2>4. queue' \in Seq([from : Module, word : Word]) /\ Len(queue') <= QueueCap
      <3>1. queue' = Tail(queue) /\ queue # <<>>
        BY <1>1 DEF Drain
      <3>2. Len(queue') = Len(queue) - 1 /\ Len(queue) \in Nat
        BY <3>1, HeadTailProperties, LenProperties DEF AlarmTypeOK
      <3> QED
        BY <3>1, <3>2, HeadTailProperties, AlarmAssumption DEF AlarmTypeOK
    <2>5. streak' \in [Module -> 0..Streak]
      <3>1. streak[m] \in 0..Streak
        BY <2>3 DEF AlarmTypeOK
      <3>2. PICK n \in {0, Streak, streak[m] + 1, streak[m]} :
              /\ streak' = [streak EXCEPT ![m] = n]
              /\ n = streak[m] + 1 => streak[m] # Streak
        BY <1>1, <2>3, <3>1, AlarmAssumption DEF Drain, AlarmTypeOK
      <3> HIDE DEF m, word
      <3>3. n \in 0..Streak
        BY <3>1, <3>2, AlarmAssumption
      <3> QED
        BY <2>3, <3>2, <3>3 DEF AlarmTypeOK
    <2>6. {observed', aged', seen'} \subseteq SUBSET Module
      <3>1. /\ observed' \in {observed, observed \cup {m}}
            /\ aged' \in {aged, aged \ {m}}
            /\ seen' \in {seen, seen \cup {m}}
        BY <1>1 DEF Drain
      <3> HIDE DEF m
      <3> QED
        BY <2>3, <3>1 DEF AlarmTypeOK
    <2>7. health' \in [Module -> {"unknown", "hit", "ok", "silent"}]
      <3>1. rule.type = "health_flag" => word \in {"hit", "ok", "silent"}
        BY <2>3 DEF Word
      <3>2. health' = IF rule.type = "health_flag" THEN [health EXCEPT ![m] = word] ELSE health
        BY <1>1 DEF Drain
      <3> HIDE DEF m, word
      <3> QED
        BY <2>3, <3>1, <3>2 DEF AlarmTypeOK
    <2>8. UNCHANGED <<sessions, known, busy, call>>
      BY <1>1 DEF Drain
    <2> QED
      BY SMTT(30), <2>2, <2>4, <2>5, <2>6, <2>7, <2>8 DEF AlarmTypeOK, Ticks
  <1>2. ASSUME NEW m \in Module, Evaluate(m) PROVE AlarmTypeOK'
    <2>1. PICK then \in Ticks : Effect(m, then)
      BY <1>2, EvaluateEffect
    <2>2. /\ tick' \in Ticks
          /\ state' \in [Module -> {"inactive", "pending", "active"}]
          /\ ripe' \subseteq {y \in Module : state'[y] = "pending"}
          /\ last' \in [Module -> {"none", "raised", "cleared"}]
          /\ {acked', audited', doubt', crossed'} \subseteq SUBSET Module
      BY <2>1, EffectTypes
    <2>3. UNCHANGED <<sessions, known, busy, queue, streak, observed, aged, seen, health, call>>
      BY <1>2 DEF Evaluate
    <2> QED
      BY <2>2, <2>3 DEF AlarmTypeOK, Ticks
  <1>3. CASE Drained \/ ReportError
    <2>1. tick' \in Ticks
      BY <1>3, AlarmAssumption DEF Drained, ReportError, Ticks, Waiting
    <2>2. UNCHANGED <<sessions, known, busy, queue, state, ripe, acked, streak, observed, aged, seen,
                      health, call, last, audited, doubt, crossed>>
      BY <1>3 DEF Drained, ReportError
    <2> QED
      BY <2>1, <2>2 DEF AlarmTypeOK, Ticks
  <1> QED
    BY <1>1, <1>2, <1>3 DEF Engine

LEMMA OperatorTypes ==
  ASSUME AlarmTypeOK, Operator, rule' = rule, Word' = Word
  PROVE  AlarmTypeOK'
  <1> USE DEF hubVars, instanceVars, feedVars, logVars
  <1> PICK k \in Caller : (\E m \in Module : AckLook(k, m)) \/ AckMark(k) \/ AckWrite(k)
    BY DEF Operator
  <1>1. UNCHANGED <<sessions, known, busy, queue, tick, state, ripe, streak, observed, aged, seen,
                    health, last, doubt>>
    BY DEF AckLook, AckMark, AckWrite
  <1>2. call[k] \in [at : {"idle", "seen", "marked"}, on : Module \cup {NoModule}]
    BY DEF AlarmTypeOK
  <1>3. call[k].at # "idle" => call[k].on \in Module
    BY <1>2 DEF AlarmTypeOK
  <1>4. /\ call' \in [Caller -> [at : {"idle", "seen", "marked"}, on : Module \cup {NoModule}]]
        /\ \A j \in Caller : (call'[j].on = NoModule) = (call'[j].at = "idle")
    <2>1. ASSUME NEW m \in Module, AckLook(k, m)
          PROVE  call' = [call EXCEPT ![k] = [at |-> "seen", on |-> m]]
      BY <2>1 DEF AckLook
    <2>2. AckMark(k) => call' = [call EXCEPT ![k] = [at |-> "marked", on |-> call[k].on]] /\ call[k].on \in Module
      <3> SUFFICES ASSUME AckMark(k)
                   PROVE  /\ call' = [call EXCEPT ![k] = [at |-> "marked", on |-> call[k].on]]
                          /\ call[k].on \in Module
        OBVIOUS
      <3>1. call[k].on \in Module
        BY <1>3 DEF AckMark
      <3>2. [call[k] EXCEPT !.at = "marked"] = [at |-> "marked", on |-> call[k].on]
        BY <1>2
      <3>3. call' = [call EXCEPT ![k] = [call[k] EXCEPT !.at = "marked"]]
        BY DEF AckMark, AlarmTypeOK
      <3> QED
        BY <3>1, <3>2, <3>3
    <2>3. AckWrite(k) => call' = [call EXCEPT ![k] = [at |-> "idle", on |-> NoModule]]
      BY DEF AckWrite, Unasked
    <2> QED
      <3>1. PICK a \in [at : {"idle", "seen", "marked"}, on : Module \cup {NoModule}] :
              call' = [call EXCEPT ![k] = a] /\ (a.on = NoModule) = (a.at = "idle")
        <4>1. ASSUME NEW m \in Module, AckLook(k, m)
              PROVE  /\ [at |-> "seen", on |-> m] \in [at : {"idle", "seen", "marked"}, on : Module \cup {NoModule}]
                     /\ m # NoModule
          BY AlarmAssumption
        <4>2. AckMark(k) => /\ [at |-> "marked", on |-> call[k].on] \in
                                  [at : {"idle", "seen", "marked"}, on : Module \cup {NoModule}]
                            /\ call[k].on # NoModule
          BY <2>2, AlarmAssumption
        <4>3. [at |-> "idle", on |-> NoModule] \in [at : {"idle", "seen", "marked"}, on : Module \cup {NoModule}]
          OBVIOUS
        <4> QED
          BY <2>1, <2>2, <2>3, <4>1, <4>2, <4>3
      <3> QED
        BY <3>1 DEF AlarmTypeOK
  <1>5. {acked', audited', crossed'} \subseteq SUBSET Module
    BY <1>3 DEF AckLook, AckMark, AckWrite, AlarmTypeOK
  <1> QED
    BY <1>1, <1>4, <1>5 DEF AlarmTypeOK

LEMMA RestartTypes ==
  ASSUME AlarmTypeOK, Restart, rule' = rule, Word' = Word
  PROVE  AlarmTypeOK'
  <1>1. queue' \in Seq([from : Module, word : Word]) /\ Len(queue') <= QueueCap
    BY AlarmAssumption, EmptySeq DEF Restart, Fresh
  <1>2. streak' \in [Module -> 0..Streak]
    BY AlarmAssumption DEF Restart, Fresh
  <1>3. tick' \in Ticks
    BY DEF Restart, Fresh, Ticks, Waiting
  <1>4. /\ call' \in [Caller -> [at : {"idle", "seen", "marked"}, on : Module \cup {NoModule}]]
        /\ \A k \in Caller : (call'[k].on = NoModule) = (call'[k].at = "idle")
    BY DEF Restart, Fresh, Unasked
  <1>5. {acked', observed', aged', seen', audited', doubt', crossed'} \subseteq SUBSET Module
    BY DEF Restart, Fresh, AlarmTypeOK
  <1> QED
    BY <1>1, <1>2, <1>3, <1>4, <1>5 DEF Restart, Fresh, AlarmTypeOK, Ticks

(***************************************************************************)
(* The board, the acknowledgements and the evidence.                       *)
(***************************************************************************)

\* Who has marked an alarm acknowledges it.
LEMMA MarkingIsAcking ==
  ASSUME NEW m \in Module
  PROVE  Marking(m) \subseteq Acking(m)
  BY DEF Marking, Acking

\* What is shown once nobody acknowledges follows from what holds while they do.
LEMMA ShownOnRecord == AckUnderWay => AckOnRecord
  BY MarkingIsAcking DEF AckUnderWay, AckOnRecord, Active

LEMMA InitBoard == Init => BoardOnRecord /\ AckUnderWay
  BY DEF Init, BoardOnRecord, AckUnderWay, Active

\* Steps that touch neither.
LEMMA BoardStays ==
  ASSUME BoardOnRecord, AckUnderWay, UNCHANGED boardVars
  PROVE  (BoardOnRecord /\ AckUnderWay)'
  BY DEF boardVars, BoardOnRecord, AckUnderWay, Active, Marking

\* The engine: a change of the alarm is on record or in doubt, and it ends
\* every acknowledgement, or crosses it.
LEMMA EffectBoard ==
  ASSUME AlarmTypeOK, BoardOnRecord, AckUnderWay, call' = call,
         NEW m \in Module, NEW then \in Ticks, Effect(m, then)
  PROVE  (BoardOnRecord /\ AckUnderWay)'
  <1>1. CASE Keep(then)
    BY <1>1, BoardStays DEF Keep, boardVars, logVars
  <1>2. CASE m \notin Active /\ (Stay(m, "inactive", then) \/ Stay(m, "pending", then))
    <2>1. Active' = Active
      BY <1>2 DEF Stay, Now, Active, AlarmTypeOK
    <2>2. UNCHANGED <<acked, last, audited, doubt, crossed>>
      BY <1>2 DEF Stay, logVars
    <2> QED
      BY <2>1, <2>2 DEF BoardOnRecord, AckUnderWay, Marking
  <1>3. ASSUME NEW to \in {"raised", "cleared"}, Transition(m, to, then)
        PROVE  (BoardOnRecord /\ AckUnderWay)'
    <2>1. Active' = IF to = "raised" THEN Active \cup {m} ELSE Active \ {m}
      BY <1>3 DEF Transition, Now, Active, AlarmTypeOK
    <2>2. \/ /\ last' = [last EXCEPT ![m] = to] /\ doubt' = doubt \ {m}
             /\ audited' = audited \ {m}
          \/ /\ last' = last /\ doubt' = doubt \cup {m} /\ audited' = audited
      BY <1>3 DEF Transition
    <2>3. BoardOnRecord'
      BY <2>1, <2>2 DEF BoardOnRecord, AlarmTypeOK
    <2>4. /\ acked' = IF to = "raised" THEN acked \ {m} ELSE acked
          /\ crossed' = IF Acking(m) # {} THEN crossed \cup {m} ELSE crossed \ {m}
      BY <1>3 DEF Transition, Unacked
    <2>5. \A x \in Module : Marking(x)' = Marking(x)
      BY DEF Marking
    <2>6. ASSUME NEW x \in (Active \ (doubt \cup crossed))'
          PROVE  /\ x \in audited' => x \in acked'
                 /\ Marking(x)' # {} => x \in acked'
                 /\ Marking(x)' = {} /\ x \in acked' => x \in audited'
      <3>1. x \in Module
        BY DEF Active
      <3>2. CASE x = m
        BY <2>1, <2>2, <2>4, <2>5, <3>1, <3>2, MarkingIsAcking
      <3>3. CASE x # m
        BY <2>1, <2>2, <2>4, <2>5, <3>1, <3>3 DEF AckUnderWay
      <3> QED
        BY <3>2, <3>3
    <2> QED
      BY <2>3, <2>6 DEF AckUnderWay
  <1> QED
    BY <1>1, <1>2, <1>3 DEF Effect

\* The two halves of an acknowledgement.
LEMMA OperatorBoard ==
  ASSUME AlarmTypeOK, BoardOnRecord, AckUnderWay, Operator
  PROVE  (BoardOnRecord /\ AckUnderWay)'
  <1> PICK k \in Caller : (\E m \in Module : AckLook(k, m)) \/ AckMark(k) \/ AckWrite(k)
    BY DEF Operator
  <1> DEFINE m == call[k].on
  <1>1. UNCHANGED <<state, last, doubt>>
    BY DEF AckLook, AckMark, AckWrite, logVars, instanceVars
  <1>2. BoardOnRecord' /\ Active' = Active
    BY <1>1 DEF BoardOnRecord, Active
  <1>3. call[k] \in [at : {"idle", "seen", "marked"}, on : Module \cup {NoModule}]
    BY DEF AlarmTypeOK
  <1>4. CASE \E x \in Module : AckLook(k, x)
    <2>1. \A x \in Module : Marking(x)' = Marking(x)
      BY <1>4 DEF AckLook, Marking, AlarmTypeOK
    <2>2. UNCHANGED <<acked, audited, crossed>>
      BY <1>4 DEF AckLook, logVars, instanceVars
    <2> QED
      BY <1>1, <1>2, <2>1, <2>2 DEF AckUnderWay, Active
  <1>5. CASE AckMark(k)
    <2>1. call' = [call EXCEPT ![k] = [at |-> "marked", on |-> m]]
      <3>1. [call[k] EXCEPT !.at = "marked"] = [at |-> "marked", on |-> m]
        BY <1>3
      <3>2. call' = [call EXCEPT ![k] = [call[k] EXCEPT !.at = "marked"]]
        BY <1>5 DEF AckMark, AlarmTypeOK
      <3> QED
        BY <3>1, <3>2
    <2>2. /\ acked' = acked \cup {m}
          /\ UNCHANGED <<audited, crossed>>
          /\ call[k].at = "seen"
      BY <1>5 DEF AckMark, logVars
    <2>3. \A x \in Module : Marking(x)' = IF x = m THEN Marking(x) \cup {k} ELSE Marking(x)
      BY <1>3, <2>1, <2>2 DEF Marking, AlarmTypeOK
    <2> QED
      BY <1>1, <1>2, <2>2, <2>3 DEF AckUnderWay, Active
  <1>6. CASE AckWrite(k)
    <2>1. call[k].at = "marked" /\ acked' = acked
      BY <1>6 DEF AckWrite, instanceVars
    <2>2. k \in Marking(m)
      BY <1>3, <2>1 DEF Marking
    <2>3. \/ audited' = audited \cup {m} /\ crossed' = crossed
          \/ crossed' = crossed \cup {m} /\ audited' = audited
      BY <1>6 DEF AckWrite
    <2>4. \A x \in Module : Marking(x)' = Marking(x) \ {k}
      BY <1>6, AlarmAssumption DEF AckWrite, Marking, Unasked, AlarmTypeOK
    <2>5. \A x \in Module : x # m => k \notin Marking(x)
      BY DEF Marking
    <2> HIDE DEF m
    <2> QED
      BY <1>1, <1>2, <2>1, <2>2, <2>3, <2>4, <2>5 DEF AckUnderWay, Active
  <1> QED
    BY <1>4, <1>5, <1>6

LEMMA RestartBoard ==
  ASSUME Restart
  PROVE  (BoardOnRecord /\ AckUnderWay)'
  BY DEF Restart, Fresh, BoardOnRecord, AckUnderWay, Active

LEMMA InvStep == AlarmInv /\ [Next]_vars => AlarmInv'
  <1> SUFFICES ASSUME AlarmInv, [Next]_vars PROVE AlarmInv'
    OBVIOUS
  <1>0. AckUnderWay' => AckOnRecord'
    BY ShownOnRecord, PTL
  <1>1. AlarmTypeOK /\ BoardOnRecord /\ AckUnderWay
    BY DEF AlarmInv
  <1>2. rule' = rule /\ Word' = Word
    BY RuleFixed
  <1>3. CASE Hub
    <2>1. UNCHANGED boardVars
      BY <1>3 DEF Hub, Adopt, Remove, Quarantine, ChangeState, Tell, Calibrate, Ripen, Age,
         boardVars, instanceVars, logVars
    <2> QED
      BY <1>1, <1>2, <1>3, <2>1, HubTypes, BoardStays, <1>0 DEF AlarmInv
  <1>4. CASE Engine
    <2>1. AlarmTypeOK'
      BY <1>1, <1>2, <1>4, EngineTypes
    <2>2. (BoardOnRecord /\ AckUnderWay)'
      <3>1. CASE Drain
        BY <1>1, <3>1, DrainEffect, EffectBoard DEF Drain
      <3>2. ASSUME NEW m \in Module, Evaluate(m) PROVE (BoardOnRecord /\ AckUnderWay)'
        BY <1>1, <3>2, EvaluateEffect, EffectBoard DEF Evaluate
      <3>3. CASE Drained \/ ReportError
        BY <1>1, <3>3, BoardStays DEF Drained, ReportError, boardVars, instanceVars, logVars
      <3> QED
        BY <1>4, <3>1, <3>2, <3>3 DEF Engine
    <2> QED
      BY <2>1, <2>2, <1>0 DEF AlarmInv
  <1>5. CASE Operator
    BY <1>1, <1>2, <1>5, OperatorTypes, OperatorBoard, <1>0 DEF AlarmInv
  <1>6. CASE Restart
    BY <1>1, <1>2, <1>6, RestartTypes, RestartBoard, <1>0 DEF AlarmInv
  <1>7. CASE UNCHANGED vars
    <2>1. UNCHANGED boardVars
      BY <1>7 DEF vars, boardVars, instanceVars, logVars
    <2>2. AlarmTypeOK'
      BY <1>1, <1>2, <1>7 DEF AlarmTypeOK, vars, hubVars, instanceVars, feedVars, logVars
    <2> QED
      BY <1>1, <2>1, <2>2, BoardStays, <1>0 DEF AlarmInv
  <1> QED
    BY <1>3, <1>4, <1>5, <1>6, <1>7 DEF Next

LEMMA Invariant == Spec => []AlarmInv
  <1>1. Init => AlarmInv
    BY InitType, InitBoard, ShownOnRecord DEF AlarmInv
  <1> QED
    BY <1>1, InvStep, PTL DEF Spec

(***************************************************************************)
(* The cycle of an alarm: the effects of the engine are its raises and     *)
(* clearings, the mark of an operator its acknowledgement.                 *)
(***************************************************************************)
LEMMA InitCycle == Init => Cycle!Init
  BY DEF Init, Cycle!Init, Active

\* What moves neither board nor evidence is a step of no alarm.
LEMMA CycleStutters ==
  ASSUME Active' = Active, UNCHANGED <<acked, last, doubt>>
  PROVE  UNCHANGED Cycle!vars
  BY DEF Cycle!vars

LEMMA EffectCycle ==
  ASSUME AlarmTypeOK, BoardOnRecord, NEW m \in Module, NEW then \in Ticks, Effect(m, then)
  PROVE  [Cycle!Next]_Cycle!vars
  <1>1. CASE Keep(then)
    BY <1>1, CycleStutters DEF Keep, logVars, Active
  <1>2. CASE m \notin Active /\ (Stay(m, "inactive", then) \/ Stay(m, "pending", then))
    <2>1. Active' = Active
      BY <1>2 DEF Stay, Now, Active, AlarmTypeOK
    <2> QED
      BY <1>2, <2>1, CycleStutters DEF Stay, logVars
  <1>3. CASE m \notin Active /\ Transition(m, "raised", then)
    <2>1. Active' = Active \cup {m}
      BY <1>3 DEF Transition, Now, Active, AlarmTypeOK
    <2>2. (acked \cap Active)' = (acked \cap Active) \ {m}
      BY <1>3, <2>1 DEF Transition, Unacked
    <2>3. Cycle!Written(m, "raised")
      BY <1>3 DEF Transition, Cycle!Written
    <2>4. m \notin doubt => last[m] # "raised"
      BY <1>3 DEF BoardOnRecord
    <2> QED
      BY <1>3, <2>1, <2>2, <2>3, <2>4 DEF Cycle!Next, Cycle!Raise
  <1>4. CASE m \in Active /\ Transition(m, "cleared", then)
    <2>1. Active' = Active \ {m}
      BY <1>4 DEF Transition, Now, Active, AlarmTypeOK
    <2>2. (acked \cap Active)' = (acked \cap Active) \ {m}
      BY <1>4, <2>1 DEF Transition, Unacked
    <2>3. Cycle!Written(m, "cleared")
      BY <1>4 DEF Transition, Cycle!Written
    <2>4. m \notin doubt => last[m] = "raised"
      BY <1>4 DEF BoardOnRecord
    <2> QED
      BY <1>4, <2>1, <2>2, <2>3, <2>4 DEF Cycle!Next, Cycle!Clear
  <1> QED
    BY <1>1, <1>2, <1>3, <1>4 DEF Effect

LEMMA CycleStep == AlarmInv /\ [Next]_vars => [Cycle!Next]_Cycle!vars
  <1> SUFFICES ASSUME AlarmInv, [Next]_vars PROVE [Cycle!Next]_Cycle!vars
    OBVIOUS
  <1>1. AlarmTypeOK /\ BoardOnRecord
    BY DEF AlarmInv
  <1>2. CASE Hub \/ Drained \/ ReportError \/ UNCHANGED vars
    <2>1. UNCHANGED <<state, acked, last, doubt>>
      BY <1>2 DEF Hub, Adopt, Remove, Quarantine, ChangeState, Tell, Calibrate, Ripen, Age,
         Drained, ReportError, vars, instanceVars, logVars
    <2> QED
      BY <2>1, CycleStutters DEF Active
  <1>3. CASE Drain
    BY <1>1, <1>3, DrainEffect, EffectCycle
  <1>4. ASSUME NEW m \in Module, Evaluate(m) PROVE [Cycle!Next]_Cycle!vars
    BY <1>1, <1>4, EvaluateEffect, EffectCycle
  <1>5. ASSUME NEW k \in Caller, (\E m \in Module : AckLook(k, m)) \/ AckWrite(k)
        PROVE  [Cycle!Next]_Cycle!vars
    <2>1. UNCHANGED <<state, acked, last, doubt>>
      BY <1>5 DEF AckLook, AckWrite, instanceVars, logVars
    <2> QED
      BY <2>1, CycleStutters DEF Active
  <1>6. ASSUME NEW k \in Caller, AckMark(k) PROVE [Cycle!Next]_Cycle!vars
    <2>1. UNCHANGED <<state, last, doubt>> /\ acked' = acked \cup {call[k].on}
      BY <1>6 DEF AckMark, logVars
    <2>2. Active' = Active
      BY <2>1 DEF Active
    <2>3. CASE call[k].on \in Active \ acked
      <3>1. call[k].on \in Module
        BY <2>3 DEF Active
      <3>2. Cycle!Acknowledge(call[k].on)
        BY <2>1, <2>2, <2>3 DEF Cycle!Acknowledge
      <3> QED
        BY <3>1, <3>2 DEF Cycle!Next
    <2>4. CASE call[k].on \notin Active \ acked
      BY <2>1, <2>2, <2>4 DEF Cycle!vars
    <2> QED
      BY <2>3, <2>4
  <1>7. CASE Restart
    BY <1>7 DEF Restart, Fresh, Active, Cycle!Next, Cycle!Lapse
  <1> QED
    BY <1>2, <1>3, <1>4, <1>5, <1>6, <1>7 DEF Next, Engine, Operator

(***************************************************************************)
(* Theorems.                                                               *)
(***************************************************************************)

\* Board and evidence agree on what stands, for alarms that no failed write has
\* put in doubt, and a standing one is acknowledged on the board exactly if its
\* acknowledgement is written, unless the acknowledgement crossed a change of
\* the engine: through drains, ticks, swaps and restarts (_transition and ack,
\* engine.py:364-381 and 111-119).
THEOREM BoardSafe == Spec => []AlarmInv
  BY Invariant, PTL

\* Every alarm is raised and cleared in turn and acknowledged only while it
\* stands: the engine implements the cycle of AlarmCycle.
THEOREM AlarmsImplementCycle == Spec => LifeCycle
  BY InitCycle, CycleStep, Invariant, PTL DEF Spec, LifeCycle, Cycle!Spec
==============================================================================
