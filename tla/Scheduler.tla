------------------------------- MODULE Scheduler -------------------------------
(***************************************************************************)
(* The scheduler (extensions/scheduler/scheduler.py): for the module that  *)
(* holds the role it takes control, has it calibrated and takes samples,   *)
(* one command at a time, as a client of the gateway.                      *)
(*                                                                         *)
(* It is a thread.  A tick looks at the sessions one after the other;      *)
(* between its looks and its submissions the event loop adopts and loses   *)
(* modules and reads their reports.  Of the gateway (CommandPath, Gateway) *)
(* a submission keeps what the scheduler can tell: refused, accepted, or   *)
(* raised; of a module, that it takes a command and answers it.  Time is   *)
(* what has elapsed: a sample falls due, a calibration gets too old.       *)
(***************************************************************************)
EXTENDS Naturals, Sequences, FiniteSets

CONSTANTS
  Module,      \* the modules that may hold the role
  Early,       \* those that are adopted before the first tick
  MaxMoves,    \* bound: what modules, the plant, other actors and age do
  MaxTroubles  \* bound: appends and submissions that fail, restarts of the hub

ASSUME SchedulerAssumption == {MaxMoves, MaxTroubles} \subseteq Nat

VARIABLES
  auto,       \* the role's auto_calibrate; auto_take_control is set
  \* the modules
  real,       \* who controls each
  taken,      \* those that work for another actor
  inflight,   \* the scheduler's commands each is to answer since it was adopted
  \* the hub
  session,    \* of each
  mode,       \* what each has reported
  calibrated, \* those with a complete and fresh calibration on record
  \* the scheduler
  tick,       \* where the thread is: the sessions to look at, its command
  pending,    \* of each: the command it waits for has no result, or its result is lost
  requested,  \* _control_requested
  flagged,    \* cal-required was raised
  due,        \* the interval is over
  \* history
  asked,      \* how often each was asked for control since it was adopted
  owed,       \* a sample fell due and none was accepted
  raised,     \* modules a submission to which raised since they were adopted
  \* bounded counters
  moves, troubles

moduleVars == <<real, taken, inflight>>
hubVars == <<session, mode, calibrated>>
schedulerVars == <<tick, pending, requested, flagged, due>>
historyVars == <<asked, owed, raised>>
bounds == <<moves, troubles>>
vars == <<auto, moduleVars, hubVars, schedulerVars, historyVars, bounds>>

\* Between two ticks nothing is left to look at.
Asleep == [at |-> "look", todo |-> {}, of |-> {}, command |-> "none"]

Init ==
  /\ auto \in BOOLEAN
  /\ real = [m \in Module |-> "BRIDGE"]
  /\ taken = {}
  /\ inflight = [m \in Module |-> <<>>]
  /\ session = [m \in Module |-> IF m \in Early THEN "operational" ELSE "none"]
  /\ mode = [m \in Module |-> "unknown"]
  /\ calibrated = {}
  /\ tick = Asleep
  /\ pending = [m \in Module |-> "none"]
  /\ requested = {} /\ flagged = FALSE
  /\ due = TRUE
  /\ asked = [m \in Module |-> 0]
  /\ owed = TRUE
  /\ raised = {}
  /\ moves = 0 /\ troubles = 0

Present == {m \in Module : session[m] # "none"}

Move == moves < MaxMoves /\ moves' = moves + 1 /\ UNCHANGED troubles
Trouble == troubles < MaxTroubles /\ troubles' = troubles + 1 /\ UNCHANGED moves

------------------------------------------------------------------------------
(***************************************************************************)
(* Modules and their sessions.                                             *)
(***************************************************************************)
\* A session enters the table.  A predecessor in the role whose connection is half
\* open may still be there.
Adopt(m) ==
  /\ Move
  /\ session[m] = "none"
  /\ session' = [session EXCEPT ![m] = "operational"]
  /\ UNCHANGED <<auto, moduleVars, mode, calibrated, schedulerVars, historyVars>>

\* The same over the module's own half-open session.  The module goes on with what it
\* was sent; or it never had it, or was restarted: the old session answers, if it ends.
Readopt(m) ==
  /\ Move
  /\ session[m] # "none"
  /\ session' = [session EXCEPT ![m] = "operational"]
  /\ mode' = [mode EXCEPT ![m] = "unknown"]
  /\ asked' = [asked EXCEPT ![m] = 0]
  /\ \/ UNCHANGED <<real, inflight, pending, raised>>
     \/ /\ real' \in {real, [real EXCEPT ![m] = "BRIDGE"]}
        /\ inflight' = [inflight EXCEPT ![m] = <<>>]
        /\ pending' = [pending EXCEPT ![m] = IF @ = "open" THEN "lost" ELSE @]
        /\ raised' = raised \ {m}
  /\ UNCHANGED <<auto, taken, calibrated, tick, requested, flagged, due, owed>>

\* A session ends, and its open commands with it; the append of a result may
\* fail.  A module that was restarted is in BRIDGE again.  A half-open session that
\* ends late takes its successor out of the table (Adoption): that is a Leave too.
Leave(m) ==
  /\ session[m] # "none"
  /\ session' = [session EXCEPT ![m] = "none"]
  /\ \/ Move /\ pending' = [pending EXCEPT ![m] = "none"]
     \/ Trouble /\ pending' = [pending EXCEPT ![m] = IF @ = "open" THEN "lost" ELSE @]
  /\ real' \in {real, [real EXCEPT ![m] = "BRIDGE"]}
  /\ inflight' = [inflight EXCEPT ![m] = <<>>]
  /\ mode' = [mode EXCEPT ![m] = "unknown"]
  /\ asked' = [asked EXCEPT ![m] = 0]
  /\ raised' = raised \ {m}
  /\ UNCHANGED <<auto, taken, calibrated, tick, requested, flagged, due, owed>>

\* The watchdog, and telemetry after it.
Degrade(m) ==
  /\ Move
  /\ session[m] = "operational"
  /\ session' = [session EXCEPT ![m] = "degraded"]
  /\ UNCHANGED <<auto, moduleVars, mode, calibrated, schedulerVars, historyVars>>

Recover(m) ==
  /\ session[m] = "degraded"
  /\ session' = [session EXCEPT ![m] = "operational"]
  /\ UNCHANGED <<auto, moduleVars, mode, calibrated, schedulerVars, historyVars, bounds>>

Report(m) ==
  /\ session[m] # "none"
  /\ mode[m] # real[m]
  /\ mode' = [mode EXCEPT ![m] = real[m]]
  /\ UNCHANGED <<auto, moduleVars, session, calibrated, schedulerVars, historyVars, bounds>>

\* The plant, or a person, takes the module back; another actor has it work.
HandBack(m) ==
  /\ Move
  /\ session[m] # "none" /\ real[m] = "ENDPOINT"
  /\ real' = [real EXCEPT ![m] = "BRIDGE"]
  /\ UNCHANGED <<auto, taken, inflight, hubVars, schedulerVars, historyVars>>

Occupy(m) ==
  /\ Move
  /\ session[m] # "none" /\ m \notin taken
  /\ taken' = taken \cup {m}
  /\ UNCHANGED <<auto, real, inflight, hubVars, schedulerVars, historyVars>>

Free(m) ==
  /\ m \in taken
  /\ taken' = taken \ {m}
  /\ UNCHANGED <<auto, real, inflight, hubVars, schedulerVars, historyVars, bounds>>

Age(m) ==
  /\ Move
  /\ m \in calibrated
  /\ calibrated' = calibrated \ {m}
  /\ UNCHANGED <<auto, moduleVars, session, mode, schedulerVars, historyVars>>

\* The module answers its oldest command: it may have refused it, or the run, or
\* the fit of its captures, may have failed.
Answer(m) ==
  /\ session[m] # "none" /\ inflight[m] # <<>>
  /\ inflight' = [inflight EXCEPT ![m] = Tail(@)]
  /\ pending' = IF Len(inflight[m]) = 1 /\ pending[m] = "open"
                THEN [pending EXCEPT ![m] = "none"] ELSE pending
  /\ \/ /\ Head(inflight[m]) = "take_control"
        /\ real' = [real EXCEPT ![m] = "ENDPOINT"]
        /\ UNCHANGED <<calibrated, bounds>>
     \/ /\ Head(inflight[m]) = "calibrate"
        /\ calibrated' = calibrated \cup {m}
        /\ UNCHANGED <<real, bounds>>
     \/ /\ Head(inflight[m]) = "sample"
        /\ UNCHANGED <<real, calibrated, bounds>>
     \/ Trouble /\ UNCHANGED <<real, calibrated>>
  /\ UNCHANGED <<auto, taken, session, mode, tick, requested, flagged, due, historyVars>>

------------------------------------------------------------------------------
(***************************************************************************)
(* The scheduler.                                                          *)
(***************************************************************************)
\* The interval is over.
FallDue ==
  /\ ~due
  /\ due' = TRUE /\ owed' = TRUE
  /\ UNCHANGED <<auto, moduleVars, hubVars, tick, pending, requested, flagged, asked, raised, bounds>>

\* A tick forgets modules that left, and takes the list of the sessions.
Tick ==
  /\ tick = Asleep
  /\ requested' = requested \cap Present
  /\ pending' = [m \in Module |-> IF m \in Present THEN pending[m] ELSE "none"]
  /\ tick' = [Asleep EXCEPT !.todo = Present]
  /\ UNCHANGED <<auto, moduleVars, hubVars, flagged, due, historyVars, bounds>>

\* Mutant: a command that is under way is not waited for.
WaitsNever(m) == FALSE

\* The last command has no result yet.
Waits(m) == pending[m] # "none"

\* Mutant: the request is forgotten.
Unrequested(m) == requested

Requested(m) == requested \cup {m}

\* Mutant: one calibrate for each cal-required.
CalibratesOnce == auto /\ ~flagged

Calibrates == auto

\* What is left undone for this time.
Pass(m) ==
  \/ session[m] # "operational"
  \/ Waits(m)
  \/ mode[m] = "BRIDGE" /\ m \in requested
  \/ mode[m] # "BRIDGE" /\ \/ m \in taken
                           \/ m \notin calibrated /\ ~Calibrates
                           \/ m \in calibrated /\ ~due

\* The calibration gate: cal-required once, until there is a calibration.
Gate(m) ==
  flagged' = IF session[m] = "operational" /\ ~Waits(m) /\ mode[m] # "BRIDGE" /\ m \notin taken
             THEN m \notin calibrated ELSE flagged

Skip(m) ==
  /\ tick.at = "look" /\ m \in tick.todo
  /\ Pass(m)
  /\ tick' = [tick EXCEPT !.todo = @ \ {m}]
  /\ Gate(m)
  /\ UNCHANGED <<auto, moduleVars, hubVars, pending, requested, due, historyVars, bounds>>

Decide(m) ==
  /\ tick.at = "look" /\ m \in tick.todo
  /\ ~Pass(m)
  /\ LET command == IF mode[m] = "BRIDGE" THEN "take_control"
                    ELSE IF m \notin calibrated THEN "calibrate" ELSE "sample" IN
     /\ tick' = [at |-> "submit", todo |-> tick.todo \ {m}, of |-> {m}, command |-> command]
     /\ requested' = IF command = "take_control" THEN Requested(m) ELSE requested
     /\ due' = (due /\ command # "sample")
  /\ Gate(m)
  /\ UNCHANGED <<auto, moduleVars, hubVars, pending, historyVars, bounds>>

\* The gateway looks at the session once more.
Refuses(m) ==
  \/ session[m] # "operational"
  \/ tick.command # "take_control" /\ (m \in taken \/ mode[m] = "BRIDGE")

Resumed == [tick EXCEPT !.at = "look", !.of = {}, !.command = "none"]

Refused(m) ==
  /\ tick.at = "submit" /\ m \in tick.of
  /\ Refuses(m)
  /\ tick' = Resumed
  /\ UNCHANGED <<auto, moduleVars, hubVars, pending, requested, flagged, due, historyVars, bounds>>

Sent(m) ==
  /\ inflight' = [inflight EXCEPT ![m] = Append(@, tick.command)]
  /\ asked' = [asked EXCEPT ![m] = IF tick.command = "take_control" THEN @ + 1 ELSE @]
  /\ owed' = (owed /\ tick.command # "sample")

Accepted(m) ==
  /\ tick.at = "submit" /\ m \in tick.of
  /\ ~Refuses(m)
  /\ Sent(m)
  /\ pending' = [pending EXCEPT ![m] = "open"]
  /\ tick' = Resumed
  /\ UNCHANGED <<auto, real, taken, hubVars, requested, flagged, due, raised, bounds>>

\* The submission raises, before or after the module has the command, and ends
\* the tick.  The error is put on record: when that raises too, the thread ends.
Raised(m) ==
  /\ tick.at = "submit" /\ m \in tick.of
  /\ Trouble
  /\ \/ UNCHANGED <<inflight, asked, owed, raised>>
     \/ ~Refuses(m) /\ Sent(m) /\ raised' = raised \cup {m}
  /\ tick' \in {Asleep, [Asleep EXCEPT !.at = "dead"]}
  /\ UNCHANGED <<auto, real, taken, hubVars, pending, requested, flagged, due>>

\* The hub is restarted: every session ends, and the scheduler starts anew.
Restart ==
  /\ Trouble
  /\ session' = [m \in Module |-> "none"]
  /\ inflight' = [m \in Module |-> <<>>]
  /\ tick' = Asleep
  /\ pending' = [m \in Module |-> "none"]
  /\ requested' = {} /\ flagged' = FALSE
  /\ due' = TRUE /\ owed' = TRUE
  /\ mode' = [m \in Module |-> "unknown"]
  /\ asked' = [m \in Module |-> 0] /\ raised' = {}
  /\ UNCHANGED <<auto, real, taken, calibrated>>

------------------------------------------------------------------------------
Hub(m) == Adopt(m) \/ Readopt(m) \/ Leave(m) \/ Degrade(m) \/ HandBack(m) \/ Occupy(m) \/ Age(m)
Settle(m) == Recover(m) \/ Report(m) \/ Free(m) \/ Answer(m)
Thread ==
  \/ Tick
  \/ \E m \in Module : Skip(m) \/ Decide(m) \/ Refused(m) \/ Accepted(m)

Next ==
  \/ \E m \in Module : Hub(m) \/ Settle(m) \/ Raised(m)
  \/ Thread \/ FallDue \/ Restart

Spec == Init /\ [][Next]_vars

\* Modules report and answer, runs come to an end, time passes, and the thread
\* ticks.
FairSpec ==
  /\ Spec
  /\ \A m \in Module : WF_vars(Recover(m)) /\ WF_vars(Report(m)) /\ WF_vars(Free(m)) /\ WF_vars(Answer(m))
  /\ WF_vars(Thread) /\ WF_vars(FallDue)

------------------------------------------------------------------------------
(***************************************************************************)
(* Properties.                                                             *)
(***************************************************************************)
Command == {"take_control", "calibrate", "sample"}

SchedTypeOK ==
  /\ auto \in BOOLEAN /\ flagged \in BOOLEAN /\ due \in BOOLEAN /\ owed \in BOOLEAN
  /\ real \in [Module -> {"BRIDGE", "ENDPOINT"}]
  /\ mode \in [Module -> {"unknown", "BRIDGE", "ENDPOINT"}]
  /\ session \in [Module -> {"none", "operational", "degraded"}]
  /\ {taken, calibrated, requested, raised} \subseteq SUBSET Module
  /\ inflight \in [Module -> Seq(Command)]
  /\ tick \in [at : {"look", "submit", "dead"}, todo : SUBSET Module,
               of : SUBSET Module, command : Command \cup {"none"}]
  /\ (tick.at = "submit") = (tick.command # "none") /\ (tick.at = "submit") = (tick.of # {})
  /\ pending \in [Module -> {"none", "open", "lost"}]
  /\ asked \in [Module -> Nat] /\ troubles \in 0..MaxTroubles

\* What a module is still to answer is waited for, but for what raised on its
\* way there; nothing is expected of the module a command is meant for.
WaitedFor ==
  /\ \A m \in Module :
       /\ m \notin raised /\ inflight[m] # <<>> => pending[m] = "open"
       /\ Len(inflight[m]) <= IF pending[m] = "open" THEN troubles + 1 ELSE troubles
       /\ session[m] = "none" => inflight[m] = <<>>
  /\ \A m \in tick.of : pending[m] = "none"

\* Who was asked for control while it was adopted, or is about to be, is
\* remembered.
Remembered ==
  /\ \A m \in Module : asked[m] > 0 => m \in requested \cap Present
  /\ tick.command = "take_control" =>
       tick.of \subseteq requested /\ \A m \in tick.of : asked[m] = 0

\* The scheduler has one command at a time under way with a module, whatever
\* modules come, go and answer between its looks and its submissions, unless a
\* submission raised after the module had the command.
OneAtATime == \A m \in Module \ raised : Len(inflight[m]) <= 1

\* A module is asked for control once while it is adopted ("request ENDPOINT
\* once"), however often it is handed back to the plant.
AskedOnce == \A m \in Module : asked[m] <= 1

\* The types of the state, and what the scheduler asks of the modules.
SchedInv == SchedTypeOK /\ WaitedFor /\ Remembered /\ OneAtATime /\ AskedOnce

\* What a role may wait for forever: no module that is operational, a result that
\* was lost, control that was asked for before, calibrations nobody makes, or a
\* thread that has ended.
Stuck ==
  \/ tick.at = "dead"
  \/ \A m \in Module :
       \/ session[m] = "none"
       \/ pending[m] = "lost"
       \/ mode[m] = "BRIDGE" /\ m \in requested
       \/ m \notin calibrated /\ ~auto

\* Samples go on being taken for the role, through swaps of modules, failures
\* and races, unless there is such a reason.
CadenceGoesOn == []<>~owed \/ <>[]Stuck
==============================================================================
