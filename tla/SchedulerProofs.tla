---------------------------- MODULE SchedulerProofs ----------------------------
(***************************************************************************)
(* What holds of the scheduler for any modules and bounds: one command at  *)
(* a time is under way with a module to which no submission raised, and    *)
(* none is asked for control twice while it is adopted.                    *)
(***************************************************************************)
EXTENDS Scheduler, SequenceTheorems, TLAPS

Ticks == {t \in [at : {"look", "submit", "dead"}, todo : SUBSET Module,
                 of : SUBSET Module, command : Command \cup {"none"}] :
            (t.at = "submit") = (t.command # "none") /\ (t.at = "submit") = (t.of # {})}

\* Steps of modules, plant and clock that the scheduler's commands do not notice.
Aside(m) == Degrade(m) \/ Recover(m) \/ Report(m) \/ HandBack(m) \/ Occupy(m) \/ Free(m) \/ Age(m)

LEMMA TickType ==
  ASSUME SchedTypeOK
  PROVE  tick \in Ticks
  BY DEF SchedTypeOK, Ticks

LEMMA AsleepType == Asleep \in Ticks /\ [Asleep EXCEPT !.at = "dead"] \in Ticks
  BY DEF Asleep, Ticks

LEMMA InflightLength ==
  ASSUME SchedTypeOK, NEW m \in Module
  PROVE  /\ inflight[m] \in Seq(Command)
         /\ Len(inflight[m]) \in Nat
         /\ (inflight[m] = <<>>) = (Len(inflight[m]) = 0)
  <1>1. inflight[m] \in Seq(Command)
    BY DEF SchedTypeOK
  <1> QED
    BY <1>1, LenProperties, EmptySeq

LEMMA InitInv == Init => SchedInv
  <1> SUFFICES ASSUME Init PROVE SchedInv
    OBVIOUS
  <1> USE DEF Init
  <1>1. SchedTypeOK
    <2>1. inflight \in [Module -> Seq(Command)]
      BY EmptySeq
    <2>2. tick \in Ticks
      BY AsleepType
    <2>3. asked \in [Module -> Nat] /\ troubles \in 0..MaxTroubles
      BY SchedulerAssumption
    <2> QED
      BY <2>1, <2>2, <2>3 DEF SchedTypeOK, Ticks
  <1>2. \A m \in Module : inflight[m] = <<>> /\ Len(inflight[m]) = 0
    BY EmptySeq
  <1>3. tick.of = {} /\ tick.command = "none"
    BY DEF Asleep
  <1> QED
    BY <1>1, <1>2, <1>3 DEF SchedInv, WaitedFor, Remembered, OneAtATime, AskedOnce, Present

(***************************************************************************)
(* The modules, the plant and the clock.                                   *)
(***************************************************************************)
LEMMA AsideKeeps ==
  ASSUME SchedInv, (\E m \in Module : Aside(m)) \/ FallDue \/ UNCHANGED vars
  PROVE  SchedInv'
  <1> USE DEF moduleVars, hubVars, schedulerVars, historyVars, bounds, Move
  <1>1. UNCHANGED <<auto, inflight, tick, pending, requested, flagged, asked, raised, troubles>>
    BY DEF Aside, Degrade, Recover, Report, HandBack, Occupy, Free, Age, FallDue, vars
  <1>2. /\ session' \in [Module -> {"none", "operational", "degraded"}]
        /\ \A m \in Module : (session'[m] = "none") = (session[m] = "none")
    <2>1. \/ session' = session
          \/ \E m \in Module : \E state \in {"operational", "degraded"} :
               session[m] # "none" /\ session' = [session EXCEPT ![m] = state]
      BY DEF Aside, Degrade, Recover, Report, HandBack, Occupy, Free, Age, FallDue, vars
    <2>2. session \in [Module -> {"none", "operational", "degraded"}]
      BY DEF SchedInv, SchedTypeOK
    <2> QED
      BY <2>1, <2>2
  <1>3. /\ real' \in [Module -> {"BRIDGE", "ENDPOINT"}]
        /\ mode' \in [Module -> {"unknown", "BRIDGE", "ENDPOINT"}]
    <2>1. \/ real' = real
          \/ \E m \in Module : real' = [real EXCEPT ![m] = "BRIDGE"]
      BY DEF Aside, Degrade, Recover, Report, HandBack, Occupy, Free, Age, FallDue, vars
    <2>2. \/ mode' = mode
          \/ \E m \in Module : mode' = [mode EXCEPT ![m] = real[m]]
      BY DEF Aside, Degrade, Recover, Report, HandBack, Occupy, Free, Age, FallDue, vars
    <2>3. real' \in [Module -> {"BRIDGE", "ENDPOINT"}]
      BY <2>1 DEF SchedInv, SchedTypeOK
    <2>4. real \in [Module -> {"BRIDGE", "ENDPOINT"}]
      BY DEF SchedInv, SchedTypeOK
    <2>5. mode \in [Module -> {"unknown", "BRIDGE", "ENDPOINT"}]
      BY DEF SchedInv, SchedTypeOK
    <2> QED
      BY <2>2, <2>3, <2>4, <2>5
  <1>4. taken' \subseteq Module /\ calibrated' \subseteq Module
    BY DEF SchedInv, SchedTypeOK, Aside, Degrade, Recover, Report, HandBack, Occupy, Free, Age, FallDue, vars
  <1>5. due' \in BOOLEAN /\ owed' \in BOOLEAN
    BY DEF SchedInv, SchedTypeOK, Aside, Degrade, Recover, Report, HandBack, Occupy, Free, Age, FallDue, vars
  <1>6. SchedTypeOK'
    BY <1>1, <1>2, <1>3, <1>4, <1>5 DEF SchedInv, SchedTypeOK
  <1>7. Present' = Present
    BY <1>2 DEF Present
  <1> QED
    BY <1>1, <1>2, <1>6, <1>7 DEF SchedInv, WaitedFor, Remembered, OneAtATime, AskedOnce

LEMMA AdoptKeeps ==
  ASSUME SchedInv, NEW m \in Module, Adopt(m)
  PROVE  SchedInv'
  <1> USE DEF moduleVars, hubVars, schedulerVars, historyVars, bounds, Move
  <1>1. /\ UNCHANGED <<auto, real, taken, inflight, mode, calibrated, tick, pending, requested, flagged, due,
                       asked, owed, raised, troubles>>
        /\ session' = [session EXCEPT ![m] = "operational"]
    BY DEF Adopt
  <1>2. SchedTypeOK'
    BY <1>1 DEF SchedInv, SchedTypeOK
  <1>3. Present' = Present \cup {m}
    BY <1>1 DEF Present, SchedInv, SchedTypeOK
  <1>4. \A x \in Module : session'[x] = "none" => session[x] = "none"
    BY <1>1 DEF SchedInv, SchedTypeOK
  <1>5. WaitedFor'
    BY <1>1, <1>4 DEF SchedInv, WaitedFor
  <1>6. Remembered' /\ AskedOnce' /\ OneAtATime'
    BY <1>1, <1>3 DEF SchedInv, Remembered, AskedOnce, OneAtATime
  <1> QED
    BY <1>2, <1>5, <1>6 DEF SchedInv

\* The module goes on, or starts afresh: then it has nothing to answer, and what
\* was open is lost.
LEMMA ReadoptKeeps ==
  ASSUME SchedInv, NEW m \in Module, Readopt(m)
  PROVE  SchedInv'
  <1> USE DEF Move
  <1>1. /\ UNCHANGED <<auto, taken, calibrated, tick, requested, flagged, due, owed, troubles>>
        /\ session[m] # "none"
        /\ session' = [session EXCEPT ![m] = "operational"]
        /\ mode' = [mode EXCEPT ![m] = "unknown"]
        /\ asked' = [asked EXCEPT ![m] = 0]
    BY DEF Readopt
  <1>2. Present' = Present /\ \A x \in Module : (session'[x] = "none") = (session[x] = "none")
    BY <1>1 DEF Present, SchedInv, SchedTypeOK
  <1>3. real' \in [Module -> {"BRIDGE", "ENDPOINT"}] /\ raised' \subseteq Module
    BY DEF Readopt, SchedInv, SchedTypeOK
  <1>4. asked' \in [Module -> Nat] /\ \A x \in Module : asked'[x] = 0 \/ asked'[x] = asked[x]
    BY <1>1 DEF SchedInv, SchedTypeOK
  <1>5. Remembered' /\ AskedOnce'
    BY <1>1, <1>2, <1>4 DEF SchedInv, Remembered, AskedOnce
  <1>6. CASE UNCHANGED <<real, inflight, pending, raised>>
    <2>1. SchedTypeOK'
      BY <1>1, <1>3, <1>4, <1>6 DEF SchedInv, SchedTypeOK
    <2>2. WaitedFor' /\ OneAtATime'
      BY <1>1, <1>2, <1>6 DEF SchedInv, WaitedFor, OneAtATime
    <2> QED
      BY <1>5, <2>1, <2>2 DEF SchedInv
  <1>7. CASE /\ inflight' = [inflight EXCEPT ![m] = <<>>]
             /\ pending' = [pending EXCEPT ![m] = IF @ = "open" THEN "lost" ELSE @]
             /\ raised' = raised \ {m}
    <2>1. <<>> \in Seq(Command) /\ Len(<<>>) = 0
      BY EmptySeq
    <2>2. /\ inflight' \in [Module -> Seq(Command)] /\ inflight'[m] = <<>>
          /\ \A x \in Module : x # m => inflight'[x] = inflight[x]
      BY <1>7, <2>1 DEF SchedInv, SchedTypeOK
    <2>3. /\ pending' \in [Module -> {"none", "open", "lost"}]
          /\ \A x \in Module : x # m => pending'[x] = pending[x]
          /\ pending[m] = "none" => pending'[m] = "none"
      BY <1>7 DEF SchedInv, SchedTypeOK
    <2>4. SchedTypeOK'
      BY <1>1, <1>3, <1>4, <2>2, <2>3 DEF SchedInv, SchedTypeOK
    <2>5. troubles \in Nat
      BY SchedulerAssumption DEF SchedInv, SchedTypeOK
    <2>6. WaitedFor'
      <3>1. ASSUME NEW x \in Module
            PROVE  /\ x \notin raised' /\ inflight'[x] # <<>> => pending'[x] = "open"
                   /\ Len(inflight'[x]) <= IF pending'[x] = "open" THEN troubles' + 1 ELSE troubles'
                   /\ session'[x] = "none" => inflight'[x] = <<>>
        <4>1. CASE x = m
          BY <1>1, <2>1, <2>2, <2>5, <4>1
        <4>2. CASE x # m
          BY <1>1, <1>2, <1>7, <2>2, <2>3, <4>2 DEF SchedInv, WaitedFor
        <4> QED
          BY <4>1, <4>2
      <3>2. \A x \in tick'.of : pending'[x] = "none"
        BY <1>1, <1>7 DEF SchedInv, SchedTypeOK, WaitedFor
      <3> QED
        BY <3>1, <3>2 DEF WaitedFor
    <2>7. OneAtATime'
      BY <1>7, <2>1, <2>2 DEF SchedInv, OneAtATime
    <2> QED
      BY <1>5, <2>4, <2>6, <2>7 DEF SchedInv
  <1> QED
    BY <1>6, <1>7 DEF Readopt

LEMMA LeaveKeeps ==
  ASSUME SchedInv, NEW m \in Module, Leave(m)
  PROVE  SchedInv'
  <1> USE SchedulerAssumption DEF historyVars
  <1>1. /\ UNCHANGED <<auto, taken, calibrated, tick, requested, flagged, due, owed>>
        /\ session' = [session EXCEPT ![m] = "none"]
        /\ inflight' = [inflight EXCEPT ![m] = <<>>]
        /\ mode' = [mode EXCEPT ![m] = "unknown"]
        /\ asked' = [asked EXCEPT ![m] = 0]
        /\ raised' = raised \ {m}
    BY DEF Leave
  <1>2. /\ troubles' \in 0..MaxTroubles /\ troubles <= troubles'
        /\ troubles \in 0..MaxTroubles
    BY DEF Leave, Move, Trouble, SchedInv, SchedTypeOK
  <1>3. PICK p \in {"none", "lost"} :
          pending' = [pending EXCEPT ![m] = p] /\ (pending[m] = "none" => p = "none")
    BY DEF Leave, SchedInv, SchedTypeOK
  <1>4. real' \in [Module -> {"BRIDGE", "ENDPOINT"}]
    BY DEF Leave, SchedInv, SchedTypeOK
  <1>5. <<>> \in Seq(Command) /\ Len(<<>>) = 0
    BY EmptySeq
  <1>6. SchedTypeOK'
    <2>1. inflight' \in [Module -> Seq(Command)] /\ pending' \in [Module -> {"none", "open", "lost"}]
      BY <1>1, <1>3, <1>5 DEF SchedInv, SchedTypeOK
    <2>2. /\ session' \in [Module -> {"none", "operational", "degraded"}]
          /\ mode' \in [Module -> {"unknown", "BRIDGE", "ENDPOINT"}]
          /\ asked' \in [Module -> Nat]
      BY <1>1 DEF SchedInv, SchedTypeOK
    <2>3. {taken', calibrated', requested', raised'} \subseteq SUBSET Module
      BY <1>1 DEF SchedInv, SchedTypeOK
    <2> HIDE SchedulerAssumption DEF historyVars
    <2> QED
      BY SMTT(60), <1>1, <1>2, <1>4, <2>1, <2>2, <2>3 DEF SchedInv, SchedTypeOK
  <1>7. Present' = Present \ {m}
    BY <1>1 DEF Present, SchedInv, SchedTypeOK
  <1>8. \A x \in Module : Len(inflight[x]) \in Nat
    BY InflightLength DEF SchedInv
  <1>9. WaitedFor'
    BY <1>1, <1>2, <1>3, <1>5, <1>8 DEF SchedInv, SchedTypeOK, WaitedFor
  <1>10. Remembered' /\ AskedOnce'
    <2>1. asked'[m] = 0 /\ \A x \in Module : x # m => asked'[x] = asked[x]
      BY <1>1 DEF SchedInv, SchedTypeOK
    <2> QED
      BY <1>1, <1>7, <2>1 DEF SchedInv, Remembered, AskedOnce
  <1>11. OneAtATime'
    BY <1>1, <1>5 DEF SchedInv, SchedTypeOK, OneAtATime
  <1> QED
    BY <1>6, <1>9, <1>10, <1>11 DEF SchedInv

LEMMA AnswerKeeps ==
  ASSUME SchedInv, NEW m \in Module, Answer(m)
  PROVE  SchedInv'
  <1> USE SchedulerAssumption DEF historyVars, bounds
  <1>1. /\ UNCHANGED <<auto, taken, session, mode, tick, requested, flagged, due, asked, owed, raised>>
        /\ inflight' = [inflight EXCEPT ![m] = Tail(inflight[m])]
        /\ inflight[m] # <<>> /\ session[m] # "none"
        /\ pending' = IF Len(inflight[m]) = 1 /\ pending[m] = "open"
                      THEN [pending EXCEPT ![m] = "none"] ELSE pending
    BY DEF Answer, SchedInv, SchedTypeOK
  <1>2. /\ troubles' \in 0..MaxTroubles /\ troubles <= troubles'
        /\ troubles \in 0..MaxTroubles
    BY DEF Answer, Trouble, SchedInv, SchedTypeOK
  <1>3. /\ real' \in [Module -> {"BRIDGE", "ENDPOINT"}] /\ calibrated' \subseteq Module
    BY DEF Answer, SchedInv, SchedTypeOK
  <1>4. /\ Tail(inflight[m]) \in Seq(Command)
        /\ Len(Tail(inflight[m])) = Len(inflight[m]) - 1
        /\ (Tail(inflight[m]) = <<>>) = (Len(inflight[m]) = 1)
    <2>1. inflight[m] \in Seq(Command) /\ Len(inflight[m]) \in Nat
      BY InflightLength DEF SchedInv
    <2>2. Tail(inflight[m]) \in Seq(Command) /\ Len(Tail(inflight[m])) = Len(inflight[m]) - 1
      BY <1>1, <2>1, HeadTailProperties
    <2>3. (Tail(inflight[m]) = <<>>) = (Len(Tail(inflight[m])) = 0)
      BY <2>2, EmptySeq
    <2> QED
      BY <2>1, <2>2, <2>3
  <1>5. SchedTypeOK'
    <2>1. pending' \in [Module -> {"none", "open", "lost"}]
      BY <1>1 DEF SchedInv, SchedTypeOK
    <2>2. inflight' \in [Module -> Seq(Command)]
      BY <1>1, <1>4 DEF SchedInv, SchedTypeOK
    <2> QED
      BY SMTT(30), <1>1, <1>2, <1>3, <2>1, <2>2 DEF SchedInv, SchedTypeOK
  <1>6. \A x \in Module : Len(inflight[x]) \in Nat
    BY InflightLength DEF SchedInv
  <1>7. WaitedFor'
    <2>1. ASSUME NEW x \in Module
          PROVE  /\ x \notin raised' /\ inflight'[x] # <<>> => pending'[x] = "open"
                 /\ Len(inflight'[x]) <= IF pending'[x] = "open" THEN troubles' + 1 ELSE troubles'
                 /\ session'[x] = "none" => inflight'[x] = <<>>
      <3>1. CASE x = m
        <4>1. inflight'[x] = Tail(inflight[m])
          BY <1>1, <3>1 DEF SchedInv, SchedTypeOK
        <4>2. pending'[x] = IF Len(inflight[m]) = 1 /\ pending[m] = "open" THEN "none" ELSE pending[m]
          BY <1>1, <3>1 DEF SchedInv, SchedTypeOK
        <4>3. /\ m \notin raised => pending[m] = "open"
              /\ Len(inflight[m]) <= IF pending[m] = "open" THEN troubles + 1 ELSE troubles
          BY <1>1 DEF SchedInv, WaitedFor
        <4>4. Len(inflight[m]) \in Nat
          BY <1>6
        <4>5. m \notin raised' /\ Tail(inflight[m]) # <<>> => pending'[m] = "open"
          BY <1>1, <1>4, <3>1, <4>2, <4>3
        <4>6. Len(inflight[m]) - 1 <= IF pending'[m] = "open" THEN troubles' + 1 ELSE troubles'
          BY <1>2, <3>1, <4>2, <4>3, <4>4
        <4> QED
          BY <1>1, <1>4, <3>1, <4>1, <4>5, <4>6
      <3>2. CASE x # m
        <4>1. inflight'[x] = inflight[x] /\ pending'[x] = pending[x]
          BY <1>1, <3>2 DEF SchedInv, SchedTypeOK
        <4> QED
          BY <1>1, <1>2, <1>6, <4>1 DEF SchedInv, WaitedFor
      <3> QED
        BY <3>1, <3>2
    <2>2. \A x \in tick'.of : pending'[x] = "none"
      BY <1>1 DEF SchedInv, SchedTypeOK, WaitedFor
    <2> QED
      BY <2>1, <2>2 DEF WaitedFor
  <1>8. Remembered' /\ AskedOnce'
    BY <1>1 DEF SchedInv, Remembered, AskedOnce, Present
  <1>9. OneAtATime'
    BY <1>1, <1>4, <1>6 DEF SchedInv, SchedTypeOK, OneAtATime
  <1> QED
    BY <1>5, <1>7, <1>8, <1>9 DEF SchedInv

(***************************************************************************)
(* The scheduler.                                                          *)
(***************************************************************************)

\* A tick begins: what left is forgotten.
LEMMA TickKeeps ==
  ASSUME SchedInv, Tick
  PROVE  SchedInv'
  <1> USE DEF moduleVars, hubVars, historyVars, bounds
  <1>1. UNCHANGED <<auto, real, taken, inflight, session, mode, calibrated, flagged, due, asked, owed,
                    raised, troubles>>
    BY DEF Tick
  <1>2. /\ requested' \in {requested, requested \cap Present}
        /\ Present' = Present
        /\ \A m \in Present : m \in requested => m \in requested'
    BY <1>1 DEF Tick, Present
  <1>3. \A m \in Module : pending'[m] = pending[m] \/ (pending'[m] = "none" /\ session[m] = "none")
    BY DEF Tick, Present
  <1>4. pending' \in [Module -> {"none", "open", "lost"}]
    BY DEF Tick, SchedInv, SchedTypeOK
  <1>5. tick' \in Ticks /\ tick'.of = {} /\ tick'.command = "none"
    <2>1. tick' = [at |-> "look", todo |-> Present, of |-> {}, command |-> "none"]
      BY DEF Tick, Asleep
    <2> QED
      BY <2>1 DEF Ticks, Present
  <1>6. SchedTypeOK'
    BY <1>1, <1>2, <1>4, <1>5 DEF SchedInv, SchedTypeOK, Ticks
  <1>7. \A m \in Module : session[m] = "none" => inflight[m] = <<>> /\ Len(inflight[m]) = 0
    BY InflightLength DEF SchedInv, WaitedFor
  <1>8. WaitedFor'
    BY <1>1, <1>3, <1>5, <1>7 DEF SchedInv, SchedTypeOK, WaitedFor
  <1>9. Remembered' /\ AskedOnce' /\ OneAtATime'
    BY <1>1, <1>2, <1>5 DEF SchedInv, Remembered, AskedOnce, OneAtATime
  <1> QED
    BY <1>6, <1>8, <1>9 DEF SchedInv

LEMMA SkipKeeps ==
  ASSUME SchedInv, NEW m \in Module, Skip(m)
  PROVE  SchedInv'
  <1> USE DEF moduleVars, hubVars, historyVars, bounds
  <1>1. /\ UNCHANGED <<auto, real, taken, inflight, session, mode, calibrated, pending, requested, due,
                       asked, owed, raised, troubles>>
        /\ tick.at = "look"
        /\ tick' = [tick EXCEPT !.todo = tick.todo \ {m}]
    BY DEF Skip
  <1>2. tick' \in Ticks /\ tick'.of = {} /\ tick'.command = "none"
    BY <1>1, TickType DEF SchedInv, Ticks
  <1>3. flagged' \in BOOLEAN
    BY DEF Skip, Gate, SchedInv, SchedTypeOK
  <1>4. SchedTypeOK'
    BY <1>1, <1>2, <1>3 DEF SchedInv, SchedTypeOK, Ticks
  <1>5. WaitedFor'
    BY <1>1, <1>2 DEF SchedInv, WaitedFor
  <1>6. Remembered' /\ AskedOnce' /\ OneAtATime'
    BY <1>1, <1>2 DEF SchedInv, Remembered, AskedOnce, OneAtATime, Present
  <1> QED
    BY <1>4, <1>5, <1>6 DEF SchedInv

LEMMA DecideKeeps ==
  ASSUME SchedInv, NEW m \in Module, Decide(m)
  PROVE  SchedInv'
  <1> USE DEF moduleVars, hubVars, historyVars, bounds
  <1>1. /\ UNCHANGED <<auto, real, taken, inflight, session, mode, calibrated, pending, asked, owed, raised,
                       troubles>>
        /\ ~Pass(m)
    BY DEF Decide
  <1>2. PICK command \in Command :
          /\ tick' = [at |-> "submit", todo |-> tick.todo \ {m}, of |-> {m}, command |-> command]
          /\ requested' = IF command = "take_control" THEN Requested(m) ELSE requested
          /\ due' = (due /\ command # "sample")
          /\ command = "take_control" => mode[m] = "BRIDGE"
    BY DEF Decide, Command
  <1>3. tick' \in Ticks /\ tick'.of = {m} /\ tick'.command = command
    <2>1. tick.todo \ {m} \subseteq Module
      BY TickType DEF SchedInv, Ticks
    <2> QED
      BY <1>2, <2>1 DEF Ticks, Command
  <1>4. flagged' \in BOOLEAN
    BY DEF Decide, Gate, SchedInv, SchedTypeOK
  <1>5. due' \in BOOLEAN
    BY <1>2
  <1>6. requested \subseteq requested' /\ requested' \subseteq Module
    BY <1>2 DEF Requested, SchedInv, SchedTypeOK
  <1>7. SchedTypeOK'
    <2>1. /\ tick' \in [at : {"look", "submit", "dead"}, todo : SUBSET Module,
                         of : SUBSET Module, command : Command \cup {"none"}]
          /\ (tick'.at = "submit") = (tick'.command # "none") /\ (tick'.at = "submit") = (tick'.of # {})
      BY <1>3 DEF Ticks
    <2> QED
      BY SMTT(30), <1>1, <1>4, <1>5, <1>6, <2>1 DEF SchedInv, SchedTypeOK
  <1>8. pending[m] = "none" /\ session[m] = "operational"
    BY <1>1 DEF Pass, Waits
  <1>9. WaitedFor'
    BY <1>1, <1>3, <1>8 DEF SchedInv, WaitedFor
  <1>10. Remembered'
    <2>1. Present' = Present
      BY <1>1 DEF Present
    <2>2. command = "take_control" => m \notin requested /\ m \in requested'
      BY <1>1, <1>2 DEF Pass, Requested
    <2>3. command = "take_control" => asked[m] = 0
      BY <2>2 DEF SchedInv, SchedTypeOK, Remembered
    <2> QED
      BY <1>1, <1>3, <1>6, <2>1, <2>2, <2>3 DEF SchedInv, Remembered
  <1>11. AskedOnce' /\ OneAtATime'
    BY <1>1 DEF SchedInv, AskedOnce, OneAtATime
  <1> QED
    BY <1>7, <1>9, <1>10, <1>11 DEF SchedInv

LEMMA ResumedType ==
  ASSUME SchedTypeOK, tick.at = "submit"
  PROVE  Resumed \in Ticks /\ Resumed.of = {} /\ Resumed.command = "none"
  BY TickType DEF Resumed, Ticks

LEMMA RefusedKeeps ==
  ASSUME SchedInv, NEW m \in Module, Refused(m)
  PROVE  SchedInv'
  <1> USE DEF moduleVars, hubVars, historyVars, bounds
  <1>1. UNCHANGED <<auto, real, taken, inflight, session, mode, calibrated, pending, requested, flagged, due,
                    asked, owed, raised, troubles>>
    BY DEF Refused
  <1>2. tick' \in Ticks /\ tick'.of = {} /\ tick'.command = "none"
    BY ResumedType DEF Refused, SchedInv
  <1>3. SchedTypeOK'
    BY <1>1, <1>2 DEF SchedInv, SchedTypeOK, Ticks
  <1> QED
    BY <1>1, <1>2, <1>3 DEF SchedInv, WaitedFor, Remembered, AskedOnce, OneAtATime, Present

\* A command that gets to its module: nothing was under way with it that had
\* not raised, and it was not asked for control before.
LEMMA SentFacts ==
  ASSUME SchedInv, NEW m \in Module, tick.at = "submit", m \in tick.of, ~Refuses(m), Sent(m)
  PROVE  /\ inflight' \in [Module -> Seq(Command)]
         /\ \A x \in Module : x # m => inflight'[x] = inflight[x]
         /\ inflight'[m] # <<>> /\ Len(inflight'[m]) = Len(inflight[m]) + 1
         /\ Len(inflight[m]) \in Nat /\ Len(inflight[m]) <= troubles
         /\ m \notin raised => Len(inflight'[m]) = 1
         /\ session[m] = "operational" /\ pending[m] = "none"
         /\ asked' \in [Module -> Nat] /\ AskedOnce' /\ owed' \in BOOLEAN
         /\ \A x \in Module : asked'[x] > 0 => x \in requested \cap Present
  <1>1. tick.command \in Command
    BY DEF SchedInv, SchedTypeOK
  <1>2. inflight[m] \in Seq(Command) /\ Len(inflight[m]) \in Nat
        /\ (inflight[m] = <<>>) = (Len(inflight[m]) = 0)
    BY InflightLength DEF SchedInv
  <1>3. inflight' = [inflight EXCEPT ![m] = Append(inflight[m], tick.command)]
    BY DEF Sent
  <1>4. /\ Append(inflight[m], tick.command) \in Seq(Command)
        /\ Append(inflight[m], tick.command) # <<>>
        /\ Len(Append(inflight[m], tick.command)) = Len(inflight[m]) + 1
    BY <1>1, <1>2, AppendProperties
  <1>5. inflight'[m] = Append(inflight[m], tick.command)
    BY <1>3 DEF SchedInv, SchedTypeOK
  <1>6. inflight' \in [Module -> Seq(Command)] /\ \A x \in Module : x # m => inflight'[x] = inflight[x]
    BY <1>3, <1>4 DEF SchedInv, SchedTypeOK
  <1>7. pending[m] = "none" /\ session[m] = "operational"
    BY DEF SchedInv, WaitedFor, Refuses
  <1>8. Len(inflight[m]) <= troubles /\ (m \notin raised => inflight[m] = <<>>)
    BY <1>7 DEF SchedInv, WaitedFor
  <1>9. asked' = [asked EXCEPT ![m] = IF tick.command = "take_control" THEN @ + 1 ELSE @]
    BY DEF Sent
  <1>10. tick.command = "take_control" => asked[m] = 0 /\ m \in requested
    BY <1>7 DEF SchedInv, Remembered, Present
  <1>11. asked' \in [Module -> Nat] /\ AskedOnce'
    BY <1>9, <1>10 DEF SchedInv, SchedTypeOK, AskedOnce
  <1>12. \A x \in Module : asked'[x] > 0 => x \in requested \cap Present
    <2>1. m \in Present /\ \A x \in Module : x # m => asked'[x] = asked[x]
      BY <1>7, <1>9 DEF SchedInv, SchedTypeOK, Present
    <2>2. asked'[m] > 0 => m \in requested
      BY <1>9, <1>10 DEF SchedInv, SchedTypeOK, Remembered
    <2> QED
      BY <2>1, <2>2 DEF SchedInv, Remembered
  <1>13. owed' \in BOOLEAN
    BY DEF Sent
  <1> QED
    BY <1>2, <1>4, <1>5, <1>6, <1>7, <1>8, <1>11, <1>12, <1>13

LEMMA AcceptedKeeps ==
  ASSUME SchedInv, NEW m \in Module, Accepted(m)
  PROVE  SchedInv'
  <1> USE DEF hubVars, bounds
  <1>1. /\ UNCHANGED <<auto, real, taken, session, mode, calibrated, requested, flagged, due, raised, troubles>>
        /\ pending' = [pending EXCEPT ![m] = "open"]
        /\ tick.at = "submit" /\ m \in tick.of /\ ~Refuses(m) /\ Sent(m)
    BY DEF Accepted
  <1>2. tick' \in Ticks /\ tick'.of = {} /\ tick'.command = "none"
    BY ResumedType DEF Accepted, SchedInv
  <1>3. /\ inflight' \in [Module -> Seq(Command)]
        /\ \A x \in Module : x # m => inflight'[x] = inflight[x]
        /\ inflight'[m] # <<>> /\ Len(inflight'[m]) = Len(inflight[m]) + 1
        /\ Len(inflight[m]) \in Nat /\ Len(inflight[m]) <= troubles
        /\ m \notin raised => Len(inflight'[m]) = 1
        /\ session[m] = "operational"
        /\ asked' \in [Module -> Nat] /\ AskedOnce' /\ owed' \in BOOLEAN
        /\ \A x \in Module : asked'[x] > 0 => x \in requested \cap Present
    BY <1>1, SentFacts
  <1>4. SchedTypeOK'
    BY <1>1, <1>2, <1>3 DEF SchedInv, SchedTypeOK, Ticks
  <1>5. WaitedFor'
    <2>1. /\ pending'[m] = "open"
          /\ \A x \in Module : x # m => pending'[x] = pending[x]
          /\ troubles \in Nat
      BY <1>1, SchedulerAssumption DEF SchedInv, SchedTypeOK
    <2>2. ASSUME NEW x \in Module
          PROVE  /\ x \notin raised' /\ inflight'[x] # <<>> => pending'[x] = "open"
                 /\ Len(inflight'[x]) <= IF pending'[x] = "open" THEN troubles' + 1 ELSE troubles'
                 /\ session'[x] = "none" => inflight'[x] = <<>>
      <3>1. CASE x = m
        BY <1>1, <1>3, <2>1, <3>1
      <3>2. CASE x # m
        BY <1>1, <1>3, <2>1, <3>2 DEF SchedInv, WaitedFor
      <3> QED
        BY <3>1, <3>2
    <2> QED
      BY <1>2, <2>2 DEF WaitedFor
  <1>6. Remembered'
    BY <1>1, <1>2, <1>3 DEF Remembered, Present
  <1>7. OneAtATime'
    <2>1. ASSUME NEW x \in Module \ raised PROVE Len(inflight'[x]) <= 1
      <3>1. CASE x = m
        <4>1. m \notin raised
          BY <2>1, <3>1
        <4> QED
          BY <1>3, <3>1, <4>1
      <3>2. CASE x # m
        <4>1. x \in Module /\ inflight'[x] = inflight[x]
          BY <1>3, <2>1, <3>2
        <4> QED
          BY <2>1, <4>1 DEF SchedInv, OneAtATime
      <3> QED
        BY <3>1, <3>2
    <2> QED
      BY <1>1, <2>1 DEF OneAtATime
  <1> QED
    BY <1>3, <1>4, <1>5, <1>6, <1>7 DEF SchedInv

LEMMA RaisedKeeps ==
  ASSUME SchedInv, NEW m \in Module, Raised(m)
  PROVE  SchedInv'
  <1> USE SchedulerAssumption DEF hubVars, Trouble
  <1>1. /\ UNCHANGED <<auto, real, taken, session, mode, calibrated, pending, requested, flagged, due>>
        /\ troubles' = troubles + 1 /\ troubles \in 0..MaxTroubles /\ troubles' \in 0..MaxTroubles
        /\ tick.at = "submit" /\ m \in tick.of
    BY DEF Raised, SchedInv, SchedTypeOK
  <1>2. tick' \in Ticks /\ tick'.of = {} /\ tick'.command = "none"
    BY AsleepType DEF Raised, Asleep
  <1>3. \A x \in Module : Len(inflight[x]) \in Nat
    BY InflightLength DEF SchedInv
  <1>4. CASE UNCHANGED <<inflight, asked, owed, raised>>
    <2>1. SchedTypeOK'
      BY <1>1, <1>2, <1>4 DEF SchedInv, SchedTypeOK, Ticks
    <2>2. WaitedFor'
      BY <1>1, <1>2, <1>3, <1>4 DEF SchedInv, WaitedFor
    <2> QED
      BY <1>1, <1>2, <1>4, <2>1, <2>2 DEF SchedInv, Remembered, AskedOnce, OneAtATime, Present
  <1>5. CASE ~Refuses(m) /\ Sent(m) /\ raised' = raised \cup {m}
    <2>1. /\ inflight' \in [Module -> Seq(Command)]
          /\ \A x \in Module : x # m => inflight'[x] = inflight[x]
          /\ inflight'[m] # <<>> /\ Len(inflight'[m]) = Len(inflight[m]) + 1
          /\ Len(inflight[m]) \in Nat /\ Len(inflight[m]) <= troubles
          /\ session[m] = "operational" /\ pending[m] = "none"
          /\ asked' \in [Module -> Nat] /\ AskedOnce' /\ owed' \in BOOLEAN
          /\ \A x \in Module : asked'[x] > 0 => x \in requested \cap Present
      BY <1>1, <1>5, SentFacts
    <2>2. raised' \subseteq Module
      BY <1>5 DEF SchedInv, SchedTypeOK
    <2>3. SchedTypeOK'
      BY <1>1, <1>2, <2>1, <2>2 DEF SchedInv, SchedTypeOK, Ticks
    <2>4. WaitedFor'
      <3>1. ASSUME NEW x \in Module
            PROVE  /\ x \notin raised' /\ inflight'[x] # <<>> => pending'[x] = "open"
                   /\ Len(inflight'[x]) <= IF pending'[x] = "open" THEN troubles' + 1 ELSE troubles'
                   /\ session'[x] = "none" => inflight'[x] = <<>>
        <4>1. CASE x = m
          BY <1>1, <1>5, <2>1, <4>1
        <4>2. CASE x # m
          <5>1. Len(inflight[x]) \in Nat
            BY <1>3
          <5> QED
            BY <1>1, <1>5, <2>1, <4>2, <5>1 DEF SchedInv, WaitedFor
        <4> QED
          BY <4>1, <4>2
      <3> QED
        BY <1>2, <3>1 DEF WaitedFor
    <2>5. Remembered' /\ OneAtATime'
      BY <1>1, <1>2, <1>5, <2>1 DEF SchedInv, Remembered, OneAtATime, Present
    <2> QED
      BY <2>1, <2>3, <2>4, <2>5 DEF SchedInv
  <1> QED
    BY <1>4, <1>5 DEF Raised

LEMMA RestartKeeps ==
  ASSUME SchedInv, Restart
  PROVE  SchedInv'
  <1> USE SchedulerAssumption DEF Trouble
  <1>1. troubles' \in 0..MaxTroubles
    BY DEF Restart, SchedInv, SchedTypeOK
  <1>2. tick' \in Ticks /\ tick'.of = {} /\ tick'.command = "none"
    BY AsleepType DEF Restart, Asleep
  <1>3. inflight' \in [Module -> Seq(Command)] /\ \A x \in Module : inflight'[x] = <<>> /\ Len(inflight'[x]) = 0
    BY EmptySeq DEF Restart
  <1>4. SchedTypeOK'
    BY <1>1, <1>2, <1>3 DEF Restart, SchedInv, SchedTypeOK, Ticks
  <1>5. WaitedFor'
    BY <1>1, <1>2, <1>3 DEF Restart, WaitedFor
  <1>6. Remembered'
    BY <1>2 DEF Restart, Remembered, Present
  <1>7. AskedOnce' /\ OneAtATime'
    BY <1>3 DEF Restart, SchedInv, AskedOnce, OneAtATime
  <1> QED
    BY <1>4, <1>5, <1>6, <1>7 DEF SchedInv

LEMMA InvStep == SchedInv /\ [Next]_vars => SchedInv'
  <1> SUFFICES ASSUME SchedInv, [Next]_vars PROVE SchedInv'
    OBVIOUS
  <1>1. ASSUME NEW m \in Module, Hub(m) \/ Settle(m) PROVE SchedInv'
    <2>1. \/ Adopt(m) \/ Readopt(m) \/ Leave(m) \/ Answer(m) \/ Aside(m)
      BY <1>1 DEF Hub, Settle, Aside
    <2> QED
      BY <2>1, AdoptKeeps, ReadoptKeeps, LeaveKeeps, AnswerKeeps, AsideKeeps
  <1>2. ASSUME NEW m \in Module, Raised(m) PROVE SchedInv'
    BY <1>2, RaisedKeeps
  <1>3. CASE Thread
    BY <1>3, TickKeeps, SkipKeeps, DecideKeeps, RefusedKeeps, AcceptedKeeps DEF Thread
  <1>4. CASE FallDue \/ UNCHANGED vars
    BY <1>4, AsideKeeps
  <1> QED
    BY <1>1, <1>2, <1>3, <1>4, RestartKeeps DEF Next

(***************************************************************************)
(* Theorems.                                                               *)
(***************************************************************************)

\* However modules come and go, are adopted over a half-open session, answer or
\* lose their commands between a look of the scheduler and its submission, it has
\* at most one command under way with a module to which no submission raised since
\* it was adopted, and asks each for control once while it is adopted
\* (scheduler.py:67-121, 140-144).  A submission that raised after the module had the
\* command is outside: nothing keeps its number, and the next tick sends another.
THEOREM OneCommandAtATime == Spec => []SchedInv
  BY InitInv, InvStep, PTL DEF Spec
==============================================================================
