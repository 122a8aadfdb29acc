------------------------------ MODULE PiModProofs ------------------------------
(***************************************************************************)
(* What holds of the analyzer module for any commands, timeline, ring and  *)
(* bounds: one run at a time works the pumps, plant and hub never take     *)
(* turns at them, and a run that was stopped does not succeed.             *)
(***************************************************************************)
EXTENDS PiMod, SequenceTheorems, TLAPS

\* The inductive invariant.
IInv == PiInv /\ AuthorityKept

LEMMA TimelineLength == Len(Timeline) \in Nat
  BY PiAssumption, LenProperties

\* A step of the task of c moves that task only.
LEMMA TaskMoves ==
  ASSUME PiTypeOK, NEW c \in Cmd, Receive(c) \/ Task(c)
  PROVE  \E to : at' = [at EXCEPT ![c] = to]
  BY DEF Receive, SetMode, AckAbort, Refuse, Begin, Received, At,
     Task, Stop, Acknowledge, Event, Progress, LastWait, Answer, Send

LEMMA InitInv == Init => IInv
  <1> SUFFICES ASSUME Init PROVE IInv
    OBVIOUS
  <1> USE DEF Init
  <1>1. PiTypeOK
    <2>1. ring \in 0..RingCap
      BY PiAssumption
    <2>2. pos \in [Cmd -> 1..(Len(Timeline) + 1)]
      BY TimelineLength
    <2>3. /\ at \in [Cmd -> {"new", "stopping", "begun", "wait", "progress", "unsent", "over"} \cup Verdict]
          /\ heard \in [Cmd -> {"nothing", "ack"} \cup Verdict]
      OBVIOUS
    <2>4. conn \in Linked \cup {"off", "half", "dead"} /\ abort \in BOOLEAN /\ wedged \in BOOLEAN
      OBVIOUS
    <2> QED
      BY <2>1, <2>2, <2>3, <2>4 DEF PiTypeOK
  <1>2. Running = {}
    BY DEF Running, Verdict
  <1>3. TaskInv
    BY DEF TaskInv
  <1> QED
    BY <1>1, <1>2, <1>3 DEF IInv, PiInv, OnePump, NothingOvertakes, LatchInv, StopInv, AuthorityKept

(***************************************************************************)
(* What does not touch the tasks.                                          *)
(***************************************************************************)

\* Neither the connection nor the serial ports touch the runs.
LEMMA OutsideKeeps ==
  ASSUME IInv, Connection \/ Break \/ Health \/ Open \/ Unplug \/ PlantLine
  PROVE  IInv'
  <1> USE PiAssumption DEF IInv, PiInv
  <1>1. UNCHANGED <<mode, latched, taskVars, heard, historyVars>>
    BY DEF Connection, Dial, Adopted, Turned, GiveUp, Lose, Break, Health, Open, Unplug, PlantLine,
       authVars
  <1>2. UNCHANGED <<at, pos, busy, abort, stopped, wedged>>
    BY <1>1 DEF taskVars, historyVars
  <1>3. driver' \in {"none", "plant", "hub"} /\ (driver' = "hub" => driver = "hub")
    BY DEF Connection, Dial, Adopted, Turned, GiveUp, Lose, Break, Health, Open, Unplug, PlantLine,
       authVars, PiTypeOK
  <1>4. port' \in {"open", "closed"}
    BY DEF Connection, Dial, Adopted, Turned, GiveUp, Lose, Break, Health, Open, Unplug, PlantLine,
       PiTypeOK
  <1>5. conn' \in Linked \cup {"off", "half", "dead"}
    BY DEF Connection, Dial, Adopted, Turned, GiveUp, Lose, Break, Health, Open, Unplug, PlantLine,
       PiTypeOK, Linked
  <1>6. ring' \in 0..RingCap /\ (conn' = "served" => ring' = 0)
    BY DEF Connection, Dial, Adopted, RingFlushed, Turned, GiveUp, Lose, Break, Health, Open, Unplug,
       PlantLine, Telem, PiTypeOK, NothingOvertakes, Linked
  <1>7. PiTypeOK'
    BY <1>1, <1>2, <1>3, <1>4, <1>5, <1>6 DEF PiTypeOK
  <1>8. OnePump' /\ TaskInv' /\ LatchInv' /\ StopInv' /\ AuthorityKept'
    BY <1>1, <1>2, <1>3 DEF OnePump, TaskInv, LatchInv, StopInv, AuthorityKept, Running
  <1> QED
    BY <1>6, <1>7, <1>8 DEF NothingOvertakes

LEMMA RestartKeeps == IInv /\ Restart => IInv'
  <1> SUFFICES ASSUME IInv, Restart PROVE IInv'
    OBVIOUS
  <1> USE PiAssumption DEF IInv, PiInv, Restart
  <1>1. \A c \in Cmd : at'[c] \in {"new", "over"} /\ (at'[c] = "new" => at[c] = "new")
    OBVIOUS
  <1>2. PiTypeOK'
    <2>1. at' \in [Cmd -> {"new", "over"}]
      BY DEF PiTypeOK
    <2>2. at' \in [Cmd -> {"new", "stopping", "begun", "wait", "progress", "unsent", "over"} \cup Verdict]
      BY <2>1
    <2>3. ring' \in 0..RingCap
      OBVIOUS
    <2> QED
      BY <2>2, <2>3 DEF PiTypeOK
  <1>3. Running' = {}
    BY <1>1 DEF Running, Verdict
  <1>4. TaskInv'
    BY <1>1 DEF TaskInv
  <1>5. StopInv'
    <2> SUFFICES ASSUME NEW c \in stopped PROVE heard[c] # "succeeded" /\ at'[c] = "over"
      BY DEF StopInv
    <2>1. c \in Cmd /\ heard[c] # "succeeded" /\ at[c] # "new"
      BY DEF StopInv, PiTypeOK
    <2> QED
      BY <2>1
  <1> QED
    BY <1>2, <1>3, <1>4, <1>5 DEF OnePump, NothingOvertakes, LatchInv, AuthorityKept

(***************************************************************************)
(* What a task sends, and what it leaves.                                  *)
(***************************************************************************)

LEMMA TelemKeeps ==
  ASSUME PiTypeOK, NothingOvertakes, Telem \/ UNCHANGED ring, UNCHANGED conn
  PROVE  ring' \in 0..RingCap /\ NothingOvertakes'
  BY PiAssumption DEF PiTypeOK, NothingOvertakes, Telem

\* Of what is sent the hub reads the ACK or the result, or nothing new.
LEMMA SendHeard ==
  ASSUME PiTypeOK, NEW c \in Cmd, NEW msg \in {"ack", "progress"} \cup Verdict, NEW to, NEW onError,
         Send(c, msg, to, onError)
  PROVE  /\ heard' \in [Cmd -> {"nothing", "ack"} \cup Verdict]
         /\ \A d \in Cmd \ {c} : heard'[d] = heard[d]
         /\ heard'[c] \in {heard[c], msg}
         /\ at' = [at EXCEPT ![c] = IF conn = "dead" THEN onError ELSE to]
  BY DEF Send, PiTypeOK

(***************************************************************************)
(* Commands that are no runs.                                              *)
(***************************************************************************)

\* A mode is changed, or not; nothing leaves ENDPOINT once it is latched.
LEMMA SetModeKeeps ==
  ASSUME IInv, NEW c \in Cmd, SetMode(c)
  PROVE  IInv'
  <1> USE PiAssumption DEF IInv, PiInv
  <1>1. /\ at[c] = "new" /\ at' = [at EXCEPT ![c] = "over"]
        /\ UNCHANGED <<driver, port, pos, busy, abort, conn, heard, stopped, wedged>>
    BY DEF SetMode, Received, At, historyVars
  <1>2. ring' \in 0..RingCap /\ NothingOvertakes'
    BY <1>1, TelemKeeps DEF SetMode
  <1>3. mode' \in {"BRIDGE", "ENDPOINT"} /\ latched' \in BOOLEAN
    BY DEF SetMode, PiTypeOK
  <1>4. LatchInv' /\ (mode = "ENDPOINT" => mode' = "ENDPOINT") /\ (latched => latched')
    BY DEF SetMode, Held, LatchInv, PiTypeOK
  <1>5. PiTypeOK'
    BY <1>1, <1>2, <1>3 DEF PiTypeOK
  <1>6. Running' = Running
    BY <1>1 DEF Running, Verdict, PiTypeOK
  <1>7. OnePump' /\ AuthorityKept'
    BY <1>1, <1>4, <1>6 DEF OnePump, AuthorityKept
  <1>8. TaskInv' /\ StopInv'
    BY <1>1 DEF TaskInv, StopInv, PiTypeOK
  <1> QED
    BY <1>2, <1>4, <1>5, <1>7, <1>8

\* An abort is acknowledged, or a run is refused.
LEMMA TurnedDownKeeps ==
  ASSUME IInv, NEW c \in Cmd, AckAbort(c) \/ Refuse(c)
  PROVE  IInv'
  <1> USE PiAssumption DEF IInv, PiInv
  <1>1. /\ at[c] = "new"
        /\ \/ at' = [at EXCEPT ![c] = "over"]
           \/ at' = [at EXCEPT ![c] = "stopping"] /\ TypeOf[c] = "abort"
        /\ UNCHANGED <<mode, latched, driver, port, pos, busy, abort, conn, ring, heard, stopped, wedged>>
    BY DEF AckAbort, Refuse, Received, At, historyVars, authVars
  <1>2. PiTypeOK'
    BY <1>1 DEF PiTypeOK
  <1>3. Running' = Running
    BY <1>1 DEF Running, Verdict, PiTypeOK
  <1>4. TaskInv'
    BY <1>1 DEF TaskInv, PiTypeOK
  <1>5. StopInv'
    BY <1>1 DEF StopInv, PiTypeOK
  <1> QED
    BY <1>1, <1>2, <1>3, <1>4, <1>5 DEF OnePump, NothingOvertakes, LatchInv, AuthorityKept

\* The flag goes up for the run that is busy, or the acknowledgement raised.
LEMMA StopKeeps ==
  ASSUME IInv, NEW c \in Cmd, Stop(c)
  PROVE  IInv'
  <1> USE PiAssumption DEF IInv, PiInv
  <1>1. /\ at[c] = "stopping" /\ at' = [at EXCEPT ![c] = "over"]
        /\ abort' = (abort \/ (busy # NoCmd /\ conn # "dead"))
        /\ stopped \subseteq stopped'
        /\ UNCHANGED <<mode, latched, driver, port, pos, busy, conn, ring, heard, wedged>>
    BY DEF Stop, At, authVars
  <1>2. \A d \in stopped' \ stopped :
          /\ d = busy /\ busy # NoCmd /\ conn # "dead"
          /\ pos[d] <= Len(Timeline) /\ at[d] \in {"begun", "wait"}
    BY DEF Stop
  <1>3. \A d \in stopped' \ stopped : d \in Cmd /\ TypeOf[d] = "run" /\ heard[d] # "succeeded"
    BY <1>2 DEF PiTypeOK, TaskInv
  <1>4. PiTypeOK'
    BY <1>1, <1>3 DEF PiTypeOK
  <1>5. Running' = Running
    BY <1>1 DEF Running, Verdict, PiTypeOK
  <1>6. TaskInv'
    BY <1>1 DEF TaskInv, PiTypeOK
  <1>7. StopInv'
    <2> SUFFICES ASSUME NEW d \in stopped'
                 PROVE  /\ heard[d] # "succeeded"
                        /\ \/ at'[d] \in {"aborted", "over"}
                           \/ at'[d] \in {"begun", "wait"} /\ pos[d] <= Len(Timeline) /\ abort'
      BY <1>1 DEF StopInv
    <2>1. CASE d \in stopped
      BY <2>1, <1>1 DEF StopInv, PiTypeOK
    <2>2. CASE d \in stopped' \ stopped
      <3>1. d \in Cmd /\ d # c
        BY <2>2, <1>1, <1>2, <1>3
      <3> QED
        BY <2>2, <3>1, <1>1, <1>2, <1>3 DEF PiTypeOK
    <2> QED
      BY <2>1, <2>2
  <1> QED
    BY <1>1, <1>4, <1>5, <1>6, <1>7 DEF OnePump, NothingOvertakes, LatchInv, AuthorityKept

(***************************************************************************)
(* Runs.                                                                   *)
(***************************************************************************)

\* A run begins when no other runs: its flag is new.
LEMMA BeginKeeps ==
  ASSUME IInv, NEW c \in Cmd, Begin(c)
  PROVE  IInv'
  <1> USE PiAssumption DEF IInv, PiInv
  <1>1. /\ at[c] = "new" /\ at' = [at EXCEPT ![c] = "begun"] /\ TypeOf[c] = "run"
        /\ mode = "ENDPOINT" /\ busy = NoCmd /\ busy' = c /\ abort' = FALSE
        /\ UNCHANGED <<mode, latched, driver, port, pos, conn, ring, heard, stopped, wedged>>
    BY DEF Begin, Occupied, Received, At, authVars, historyVars
  <1>2. Running = {}
    BY <1>1 DEF OnePump, Running
  <1>3. Running' = {c}
    <2>1. \A d \in Cmd \ {c} : at'[d] = at[d]
      BY <1>1 DEF PiTypeOK
    <2>2. at'[c] = "begun"
      BY <1>1 DEF PiTypeOK
    <2> QED
      BY <1>1, <1>2, <2>1, <2>2 DEF Running
  <1>4. PiTypeOK'
    BY <1>1 DEF PiTypeOK
  <1>5. TaskInv'
    BY <1>1 DEF TaskInv, PiTypeOK
  <1>6. StopInv'
    <2> SUFFICES ASSUME NEW d \in stopped
                 PROVE  heard[d] # "succeeded" /\ at'[d] \in {"aborted", "over"}
      BY <1>1 DEF StopInv
    <2>1. d \in Cmd /\ TypeOf[d] = "run" /\ d \notin Running
      BY <1>2 DEF PiTypeOK
    <2> QED
      BY <2>1, <1>1 DEF StopInv, Running, PiTypeOK
  <1> QED
    BY <1>1, <1>3, <1>4, <1>5, <1>6 DEF OnePump, NothingOvertakes, LatchInv, AuthorityKept

\* Whatever a run does next, it is the one the module is busy with.
LEMMA RunHolds ==
  ASSUME IInv, NEW c \in Cmd, at[c] \in {"begun", "wait", "progress", "unsent"} \cup Verdict
  PROVE  /\ busy = c /\ TypeOf[c] = "run" /\ mode = "ENDPOINT" /\ latched
         /\ Running = {c}
         /\ heard[c] \in {"nothing", "ack"}
  <1>1. TypeOf[c] = "run" /\ heard[c] \in {"nothing", "ack"}
    BY DEF IInv, PiInv, TaskInv, Verdict
  <1>2. c \in Running
    BY <1>1 DEF Running
  <1> QED
    BY <1>1, <1>2 DEF IInv, PiInv, OnePump, AuthorityKept

\* A step of a run that goes on keeps the rest as it is.
LEMMA RunGoesOn ==
  ASSUME IInv, NEW c \in Cmd,
         at[c] \in {"begun", "wait", "progress", "unsent"},
         NEW to \in {"wait", "progress", "unsent"} \cup Verdict,
         at' = [at EXCEPT ![c] = to],
         UNCHANGED <<mode, latched, busy, abort, wedged, port, conn, stopped>>,
         driver' \in {driver, "hub"},
         pos' \in [Cmd -> 1..(Len(Timeline) + 1)],
         \A d \in Cmd \ {c} : pos'[d] = pos[d],
         heard' \in [Cmd -> {"nothing", "ack"} \cup Verdict],
         \A d \in Cmd \ {c} : heard'[d] = heard[d],
         heard'[c] \in {heard[c], "ack", "progress"},
         Telem \/ UNCHANGED ring,
         to \in {"progress", "unsent"} => pos'[c] <= Len(Timeline),
         c \in stopped =>
           to = "aborted" \/ (to = "wait" /\ pos'[c] <= Len(Timeline))
  PROVE  IInv'
  <1> USE PiAssumption DEF IInv, PiInv
  <1>1. /\ busy = c /\ TypeOf[c] = "run" /\ mode = "ENDPOINT" /\ latched
        /\ Running = {c} /\ heard[c] \in {"nothing", "ack"}
    BY RunHolds, Zenon
  <1>2. ring' \in 0..RingCap /\ NothingOvertakes'
    BY TelemKeeps
  <1>3. PiTypeOK'
    <2>1. at' \in [Cmd -> {"new", "stopping", "begun", "wait", "progress", "unsent", "over"} \cup Verdict]
      BY DEF PiTypeOK
    <2> QED
      BY <1>2, <2>1 DEF PiTypeOK
  <1>a. /\ at'[c] = to
        /\ \A d \in Cmd \ {c} : at'[d] = at[d]
    BY DEF PiTypeOK
  <1>4. Running' = {c}
    BY <1>1, <1>a DEF Running
  <1>5. heard'[c] \in {"nothing", "ack"}
    BY <1>1, <1>3 DEF PiTypeOK, Verdict
  <1>6. TaskInv'
    BY <1>1, <1>5, <1>a DEF TaskInv, Verdict
  <1>7. StopInv'
    <2> SUFFICES ASSUME NEW d \in stopped
                 PROVE  /\ heard'[d] # "succeeded"
                        /\ \/ at'[d] \in {"aborted", "over"}
                           \/ at'[d] \in {"begun", "wait"} /\ pos'[d] <= Len(Timeline) /\ abort
      BY DEF StopInv
    <2>1. d \in Cmd
      BY DEF PiTypeOK
    <2>2. CASE d = c
      BY <2>2, <1>5, <1>a DEF StopInv, Verdict
    <2>3. CASE d # c
      BY <2>1, <2>3, <1>a DEF StopInv
    <2> QED
      BY <2>2, <2>3
  <1>8. OnePump' /\ AuthorityKept' /\ LatchInv'
    BY <1>1, <1>4 DEF OnePump, AuthorityKept, LatchInv
  <1> QED
    BY <1>2, <1>3, <1>6, <1>7, <1>8

\* A run that is over has freed the module, or its acknowledgement raised.
LEMMA RunEnds ==
  ASSUME IInv, NEW c \in Cmd,
         at[c] \in {"begun", "wait", "progress", "unsent"} \cup Verdict,
         at' = [at EXCEPT ![c] = "over"],
         UNCHANGED <<mode, latched, driver, abort, port, conn, stopped>>,
         pos' \in [Cmd -> 1..(Len(Timeline) + 1)],
         \A d \in Cmd \ {c} : pos'[d] = pos[d],
         \/ busy' = NoCmd /\ wedged' = wedged
         \/ busy' = busy /\ wedged' = TRUE,
         heard' \in [Cmd -> {"nothing", "ack"} \cup Verdict],
         \A d \in Cmd \ {c} : heard'[d] = heard[d],
         heard'[c] = "succeeded" => heard[c] = "succeeded" \/ c \notin stopped,
         Telem \/ UNCHANGED ring
  PROVE  IInv'
  <1> USE PiAssumption DEF IInv, PiInv
  <1>1. busy = c /\ TypeOf[c] = "run" /\ mode = "ENDPOINT" /\ latched /\ Running = {c}
    BY RunHolds, Zenon
  <1>2. ring' \in 0..RingCap /\ NothingOvertakes'
    BY TelemKeeps
  <1>3. PiTypeOK'
    BY <1>2 DEF PiTypeOK
  <1>a. /\ at'[c] = "over"
        /\ \A d \in Cmd \ {c} : at'[d] = at[d]
    BY DEF PiTypeOK
  <1>4. Running' = {}
    BY <1>1, <1>a DEF Running, Verdict
  <1>5. TaskInv'
    BY <1>1, <1>a DEF TaskInv
  <1>6. StopInv'
    <2> SUFFICES ASSUME NEW d \in stopped
                 PROVE  /\ heard'[d] # "succeeded"
                        /\ \/ at'[d] \in {"aborted", "over"}
                           \/ at'[d] \in {"begun", "wait"} /\ pos'[d] <= Len(Timeline) /\ abort
      BY DEF StopInv
    <2>1. d \in Cmd
      BY DEF PiTypeOK
    <2>2. CASE d = c
      BY <2>2, <1>a DEF StopInv
    <2>3. CASE d # c
      BY <2>1, <2>3, <1>a DEF StopInv
    <2> QED
      BY <2>2, <2>3
  <1>7. OnePump' /\ AuthorityKept' /\ LatchInv'
    BY <1>1, <1>4 DEF OnePump, AuthorityKept, LatchInv
  <1> QED
    BY <1>2, <1>3, <1>5, <1>6, <1>7

LEMMA AcknowledgeKeeps ==
  ASSUME IInv, NEW c \in Cmd, Acknowledge(c)
  PROVE  IInv'
  <1> USE DEF IInv, PiInv
  <1>1. at[c] = "begun" /\ abort' = abort /\ Send(c, "ack", "wait", "over")
        /\ UNCHANGED <<mode, latched, driver, port, pos, busy, conn, stopped>>
    BY DEF Acknowledge, AbortKept, authVars
  <1>2. /\ heard' \in [Cmd -> {"nothing", "ack"} \cup Verdict]
        /\ \A d \in Cmd \ {c} : heard'[d] = heard[d]
        /\ heard'[c] \in {heard[c], "ack"}
        /\ at' = [at EXCEPT ![c] = IF conn = "dead" THEN "over" ELSE "wait"]
    BY <1>1, SendHeard
  <1>3. pos' \in [Cmd -> 1..(Len(Timeline) + 1)] /\ \A d \in Cmd \ {c} : pos'[d] = pos[d]
    BY <1>1 DEF PiTypeOK
  <1>4. CASE conn = "dead"
    <2>1. wedged' = TRUE /\ UNCHANGED ring
      BY <1>4 DEF Acknowledge
    <2> QED
      BY <1>1, <1>2, <1>3, <1>4, <2>1, RunEnds
  <1>5. CASE conn # "dead"
    <2>1. wedged' = wedged /\ Telem
      BY <1>5 DEF Acknowledge, PiTypeOK
    <2>2. c \in stopped => pos'[c] <= Len(Timeline)
      BY <1>1 DEF StopInv
    <2> QED
      BY <1>1, <1>2, <1>3, <1>5, <2>1, <2>2, RunGoesOn
  <1> QED
    BY <1>4, <1>5

\* The flag is looked at when an event is due.
LEMMA EventKeeps ==
  ASSUME IInv, NEW c \in Cmd, Event(c)
  PROVE  IInv'
  <1> USE DEF IInv, PiInv
  <1>1. /\ at[c] = "wait"
        /\ UNCHANGED <<mode, latched, port, pos, busy, abort, conn, heard, stopped, wedged>>
        /\ Telem \/ UNCHANGED ring
        /\ driver' \in {driver, "hub"}
    BY DEF Event, historyVars
  <1>2. /\ pos' \in [Cmd -> 1..(Len(Timeline) + 1)] /\ \A d \in Cmd \ {c} : pos'[d] = pos[d]
        /\ heard' \in [Cmd -> {"nothing", "ack"} \cup Verdict]
        /\ \A d \in Cmd \ {c} : heard'[d] = heard[d]
        /\ heard'[c] = heard[c]
    BY <1>1 DEF PiTypeOK
  <1>3. CASE abort
    <2>1. PICK to \in {"aborted"} : at' = [at EXCEPT ![c] = to]
      BY <1>3 DEF Event, At
    <2> QED
      BY <1>1, <1>2, <2>1, RunGoesOn DEF Verdict
  <1>4. CASE ~ abort
    <2>1. c \notin stopped /\ pos'[c] <= Len(Timeline)
      BY <1>1, <1>4 DEF Event, StopInv
    <2>2. PICK to \in {"progress", "unsent"} : at' = [at EXCEPT ![c] = to]
      BY <1>4 DEF Event, At
    <2> QED
      BY <1>1, <1>2, <2>1, <2>2, RunGoesOn DEF Verdict
  <1> QED
    BY <1>3, <1>4

LEMMA ProgressKeeps ==
  ASSUME IInv, NEW c \in Cmd, Progress(c)
  PROVE  IInv'
  <1> USE DEF IInv, PiInv
  <1>1. /\ at[c] \in {"progress", "unsent"}
        /\ UNCHANGED <<mode, latched, driver, port, abort, conn, stopped, wedged>>
    BY DEF Progress, authVars, historyVars
  <1>2. c \notin stopped
    BY <1>1 DEF StopInv
  <1>3. PICK to \in {"wait", "failed"} : Send(c, "progress", to, "over")
    BY DEF Progress
  <1>4. /\ heard' \in [Cmd -> {"nothing", "ack"} \cup Verdict]
        /\ \A d \in Cmd \ {c} : heard'[d] = heard[d]
        /\ heard'[c] \in {heard[c], "progress"}
        /\ at' = [at EXCEPT ![c] = IF conn = "dead" THEN "over" ELSE to]
    BY <1>3, SendHeard
  <1>5. /\ pos' \in [Cmd -> 1..(Len(Timeline) + 1)]
        /\ \A d \in Cmd \ {c} : pos'[d] = pos[d]
    <2>1. pos[c] \in 1..Len(Timeline)
      BY <1>1, TimelineLength DEF TaskInv, PiTypeOK
    <2>2. pos' = pos \/ pos' = [pos EXCEPT ![c] = @ + 1]
      BY DEF Progress
    <2> QED
      BY <2>1, <2>2, TimelineLength DEF PiTypeOK
  <1>6. CASE conn = "dead"
    <2>1. busy' = NoCmd /\ Telem
      BY <1>6 DEF Progress, Freed
    <2> QED
      BY <1>1, <1>2, <1>4, <1>5, <1>6, <2>1, RunEnds
  <1>7. CASE conn # "dead"
    <2>1. UNCHANGED <<busy, ring>>
      BY <1>7 DEF Progress, Unfreed
    <2> QED
      BY <1>1, <1>2, <1>3, <1>4, <1>5, <1>7, <2>1, RunGoesOn DEF Verdict
  <1> QED
    BY <1>6, <1>7

LEMMA LastWaitKeeps ==
  ASSUME IInv, NEW c \in Cmd, LastWait(c)
  PROVE  IInv'
  <1> USE DEF IInv, PiInv
  <1>1. /\ at[c] = "wait" /\ at' = [at EXCEPT ![c] = "succeeded"] /\ pos[c] > Len(Timeline)
        /\ UNCHANGED <<mode, latched, driver, port, pos, busy, abort, conn, ring, heard, stopped, wedged>>
    BY DEF LastWait, At, authVars, historyVars
  <1>2. c \notin stopped
    BY <1>1, TimelineLength DEF StopInv, PiTypeOK
  <1> QED
    BY <1>1, <1>2, RunGoesOn DEF Verdict, PiTypeOK

LEMMA AnswerKeeps ==
  ASSUME IInv, NEW c \in Cmd, Answer(c)
  PROVE  IInv'
  <1> USE DEF IInv, PiInv
  <1>1. /\ at[c] \in Verdict /\ Send(c, at[c], "over", "over")
        /\ UNCHANGED <<mode, latched, driver, port, pos, abort, conn, stopped, wedged>>
        /\ busy' = NoCmd /\ Telem
    BY DEF Answer, Freed, authVars, historyVars
  <1>2. /\ heard' \in [Cmd -> {"nothing", "ack"} \cup Verdict]
        /\ \A d \in Cmd \ {c} : heard'[d] = heard[d]
        /\ heard'[c] \in {heard[c], at[c]}
        /\ at' = [at EXCEPT ![c] = "over"]
    <2>1. at[c] \in {"ack", "progress"} \cup Verdict /\ PiTypeOK
      BY <1>1
    <2>2. /\ heard' \in [Cmd -> {"nothing", "ack"} \cup Verdict]
          /\ \A d \in Cmd \ {c} : heard'[d] = heard[d]
          /\ heard'[c] \in {heard[c], at[c]}
          /\ at' = [at EXCEPT ![c] = IF conn = "dead" THEN "over" ELSE "over"]
      BY <1>1, <2>1, SendHeard, Zenon
    <2> QED
      BY <2>2
  <1>3. at[c] = "succeeded" => c \notin stopped
    BY DEF StopInv
  <1> QED
    BY <1>1, <1>2, <1>3, RunEnds DEF PiTypeOK

LEMMA InvStep == IInv /\ [Next]_vars => IInv'
  <1> SUFFICES ASSUME IInv, [Next]_vars PROVE IInv'
    OBVIOUS
  <1>1. ASSUME NEW c \in Cmd, Receive(c) PROVE IInv'
    BY <1>1, SetModeKeeps, TurnedDownKeeps, BeginKeeps DEF Receive
  <1>2. ASSUME NEW c \in Cmd, Task(c) PROVE IInv'
    BY <1>2, StopKeeps, AcknowledgeKeeps, EventKeeps, ProgressKeeps, LastWaitKeeps, AnswerKeeps
    DEF Task
  <1>3. CASE UNCHANGED vars
    <2>1. UNCHANGED <<mode, latched, driver, port, at, pos, busy, abort, conn, ring, heard, stopped, wedged>>
      BY <1>3 DEF vars, authVars, taskVars, historyVars
    <2> QED
      BY <2>1 DEF IInv, PiInv, PiTypeOK, OnePump, Running, NothingOvertakes, TaskInv, LatchInv, StopInv,
         AuthorityKept
  <1> QED
    BY <1>1, <1>2, <1>3, OutsideKeeps, RestartKeeps DEF Next

LEMMA Invariant == Spec => []IInv
  BY InitInv, InvStep, PTL DEF Spec

(***************************************************************************)
(* Theorems.                                                               *)
(***************************************************************************)

\* The module is busy with the one run that works the pumps, also while its
\* acknowledgement is on the way, and telemetry is not overtaken
\* (pimod.py:230-253, 147-169).
THEOREM PumpsSafe == Spec => []PiInv
  <1>1. IInv => PiInv
    BY DEF IInv
  <1> QED
    BY <1>1, Invariant, PTL

\* Once the hub has driven the pumps the plant does not, whatever commands
\* arrive (pimod.py:117-123, 176-192).
THEOREM AuthoritySafe == Spec => []AuthorityKept
  <1>1. IInv => AuthorityKept
    BY DEF IInv
  <1> QED
    BY <1>1, Invariant, PTL

\* A run whose flag an abort raised with an event still to come never succeeds,
\* nor does the hub hear so, also when the abort came while the run was being
\* acknowledged.  Not of an abort in the last wait, or whose own acknowledgement
\* raised (pimod.py:216-226, 255-311).
THEOREM AbortSafe == Spec => []AbortCounts
  <1>1. IInv => AbortCounts
    BY DEF IInv, PiInv, StopInv, AbortCounts
  <1> QED
    BY <1>1, Invariant, PTL
==============================================================================
