-------------------------------- MODULE PiMod --------------------------------
(***************************************************************************)
(* The analyzer module (uii_analyzer/pimod.py): the latch between the two  *)
(* authorities over its pumps, the execution of commands, the connection   *)
(* to the hub, and the serial ports (uii_analyzer/hw.py).                  *)
(*                                                                         *)
(* Everything but the serial threads runs on one event loop: an action is  *)
(* what happens between two awaits of a task.  A write awaits drain(),     *)
(* which raises once the connection is known to be lost.  Timelines        *)
(* (timelines.py) are sequences of events with the times left out.  What   *)
(* commands other than runs answer changes nothing and is left out.        *)
(***************************************************************************)
EXTENDS Naturals, Sequences, FiniteSets

CONSTANTS
  Cmd,         \* commands the hub sends
  NoCmd,       \* none
  TypeOf,      \* what each asks for
  Timeline,    \* the events of a run: "send" to the pumps, or "adc"
  RingCap,     \* telemetry kept without a connection (500 in the code)
  MaxBreaks,   \* bound: connections that break
  MaxTroubles  \* bound: serial ports that fail, restarts of the module

\* take_control, bridge, abort; "run" stands for prime, calibrate and sample.
CmdType == {"take_control", "bridge", "abort", "run"}

ASSUME PiAssumption ==
  /\ NoCmd \notin Cmd
  /\ TypeOf \in [Cmd -> CmdType]
  /\ Timeline \in Seq({"send", "adc"})
  /\ RingCap \in Nat \ {0}
  /\ {MaxBreaks, MaxTroubles} \subseteq Nat

VARIABLES
  \* authority
  mode,     \* BRIDGE: the plant drives; ENDPOINT: the hub does
  latched,  \* endpoint_latched
  driver,   \* who wrote to the pumps last
  port,     \* port B: the pumps
  \* execution
  at,       \* where the task of each command is
  pos,      \* the event its timeline has come to
  busy,     \* the command that runs
  abort,    \* the flag that ends it
  \* the connection
  conn,     \* as the module will find it
  ring,     \* how much telemetry is kept
  heard,    \* the last the hub has read of each run: its ACK, its RESULT
  \* history
  stopped,  \* runs that were to be aborted with an event still to come
  wedged,   \* the ACK of a run raised
  \* bounded counters
  breaks, troubles

authVars == <<mode, latched, driver>>
taskVars == <<at, pos, busy, abort>>
historyVars == <<stopped, wedged>>
bounds == <<breaks, troubles>>
vars == <<authVars, port, taskVars, conn, ring, heard, historyVars, bounds>>

Init ==
  /\ mode = "BRIDGE" /\ latched = FALSE /\ driver = "none"
  /\ port = "closed"
  /\ at = [c \in Cmd |-> "new"]
  /\ pos = [c \in Cmd |-> 1]
  /\ busy = NoCmd /\ abort = FALSE
  /\ conn = "off" /\ ring = 0
  /\ heard = [c \in Cmd |-> "nothing"]
  /\ stopped = {} /\ wedged = FALSE
  /\ breaks = 0 /\ troubles = 0

------------------------------------------------------------------------------
(***************************************************************************)
(* Messages.                                                               *)
(***************************************************************************)
\* Mutant: a ring without a limit.
TelemUnbounded == ring' = IF conn = "off" THEN ring + 1 ELSE ring

\* telem(): kept while there is no writer, the oldest out of a full ring.
Telem == ring' = IF conn = "off" /\ ring < RingCap THEN ring + 1 ELSE ring

Verdict == {"succeeded", "failed", "aborted"}

At(c, from, to) == at[c] = from /\ at' = [at EXCEPT ![c] = to]

\* Mutant: a run that did not succeed has no result.
OnlySuccess(c, msg, to, onError) ==
  /\ at' = [at EXCEPT ![c] = IF conn = "dead" THEN onError ELSE to]
  /\ heard' = IF conn = "served" /\ msg \in {"ack", "succeeded"}
              THEN [heard EXCEPT ![c] = msg] ELSE heard

\* send(): without a writer nothing happens; what is written before the module
\* is adopted, or into a half-open connection, nobody reads.  Of what the hub
\* reads, the fate of the runs is kept.
Send(c, msg, to, onError) ==
  /\ at' = [at EXCEPT ![c] = IF conn = "dead" THEN onError ELSE to]
  /\ heard' = IF conn = "served" /\ msg \in {"ack"} \cup Verdict
              THEN [heard EXCEPT ![c] = msg] ELSE heard

------------------------------------------------------------------------------
(***************************************************************************)
(* The connection.                                                         *)
(***************************************************************************)
Linked == {"hello", "held", "served"}

\* HELLO is written as soon as the connection is open.
Dial ==
  /\ conn = "off"
  /\ conn' = "hello"
  /\ UNCHANGED <<authVars, port, taskVars, ring, heard, historyVars, bounds>>

\* Mutant: what was flushed is kept.
RingKept == ring

RingFlushed == 0

\* HELLO_OK: the role is applied, ROLE_OK is sent, the ring is flushed.
Adopted ==
  /\ conn = "hello"
  /\ conn' = "served"
  /\ ring' = RingFlushed
  /\ UNCHANGED <<authVars, port, taskVars, heard, historyVars, bounds>>

\* QUARANTINE, another answer or none in time; release, or the hub hangs up.
Turned ==
  /\ \/ conn = "hello" /\ conn' \in {"held", "off"}
     \/ conn = "held" /\ conn' = "off"
  /\ UNCHANGED <<authVars, port, taskVars, ring, heard, historyVars, bounds>>

\* The connection breaks without a trace, or both ends know.
Break ==
  /\ conn \in Linked /\ breaks < MaxBreaks
  /\ conn' \in {"half", "dead"}
  /\ breaks' = breaks + 1
  /\ UNCHANGED <<authVars, port, taskVars, ring, heard, historyVars, troubles>>

\* Telemetry that is never acknowledged ends a half-open connection.
GiveUp ==
  /\ conn = "half" /\ conn' = "dead"
  /\ UNCHANGED <<authVars, port, taskVars, ring, heard, historyVars, bounds>>

\* The loop wakes up at the end of its stream.
Lose ==
  /\ conn = "dead" /\ conn' = "off"
  /\ UNCHANGED <<authVars, port, taskVars, ring, heard, historyVars, bounds>>

\* A health report; every other telemetry is part of the action that sends it.
Health ==
  /\ Telem
  /\ UNCHANGED <<authVars, port, taskVars, conn, heard, historyVars, bounds>>

------------------------------------------------------------------------------
(***************************************************************************)
(* The serial ports, and the plant behind port A.                          *)
(***************************************************************************)
\* The worker of the port opens it again and again.
Open ==
  /\ port = "closed" /\ port' = "open"
  /\ UNCHANGED <<authVars, taskVars, conn, ring, heard, historyVars, bounds>>

Unplug ==
  /\ port = "open" /\ troubles < MaxTroubles
  /\ port' = "closed"
  /\ troubles' = troubles + 1
  /\ UNCHANGED <<authVars, taskVars, conn, ring, heard, historyVars, breaks>>

\* A line of the plant: reported, and forwarded in BRIDGE.
PlantLine ==
  /\ driver' = IF mode = "BRIDGE" /\ port = "open" THEN "plant" ELSE driver
  /\ Telem
  /\ UNCHANGED <<mode, latched, port, taskVars, conn, heard, historyVars, bounds>>

------------------------------------------------------------------------------
(***************************************************************************)
(* Commands.                                                               *)
(***************************************************************************)
\* The loop reads a command and makes it a task, which comes to its first await.
Received(c, type, to) ==
  /\ conn = "served"
  /\ TypeOf[c] \in type
  /\ At(c, "new", to)

\* Mutant: the latch is not looked at.
NeverHeld(to) == FALSE

\* set_mode: what refuses to leave ENDPOINT.
Held(to) == latched /\ mode = "ENDPOINT" /\ to # "ENDPOINT"

SetMode(c) ==
  LET to == IF TypeOf[c] = "take_control" THEN "ENDPOINT" ELSE "BRIDGE" IN
  /\ Received(c, {"take_control", "bridge"}, "over")
  /\ IF Held(to) THEN UNCHANGED <<mode, latched, ring>>
     ELSE /\ mode' = to
          /\ latched' = (latched \/ to = "ENDPOINT")
          /\ Telem
  /\ UNCHANGED <<driver, port, pos, busy, abort, conn, heard, historyVars, bounds>>

\* abort: acknowledged first; then whatever runs by then is asked to stop, unless
\* the acknowledgement raised.
AckAbort(c) ==
  /\ Received(c, {"abort"}, "stopping")
  /\ UNCHANGED <<authVars, port, pos, busy, abort, conn, ring, heard, historyVars, bounds>>

Stop(c) ==
  /\ At(c, "stopping", "over")
  /\ abort' = (abort \/ (busy # NoCmd /\ conn # "dead"))
  /\ stopped' = IF /\ busy # NoCmd /\ conn # "dead"
                   /\ pos[busy] <= Len(Timeline) /\ at[busy] \in {"begun", "wait"}
                THEN stopped \cup {busy} ELSE stopped
  /\ UNCHANGED <<authVars, port, pos, busy, conn, ring, heard, wedged, bounds>>

\* Mutant: a run that is acknowledging does not count.
SeenBusy == busy # NoCmd /\ at[busy] # "begun"

Occupied == busy # NoCmd

\* A run is refused: in BRIDGE, while another runs, or for what it asks for (the
\* concentration of a standard, which is not modelled); ...
Refuse(c) ==
  /\ Received(c, {"run"}, "over")
  /\ UNCHANGED <<authVars, port, pos, busy, abort, conn, ring, heard, historyVars, bounds>>

\* ... or takes the module.
Begin(c) ==
  /\ mode = "ENDPOINT" /\ ~Occupied
  /\ Received(c, {"run"}, "begun")
  /\ busy' = c
  /\ abort' = FALSE
  /\ UNCHANGED <<authVars, port, pos, conn, ring, heard, historyVars, bounds>>

\* Mutant: the flag is cleared when the run starts to work.
ClearedLate == FALSE

AbortKept == abort

\* Its acknowledgement is outside of the try: when it raises, busy stays.
Acknowledge(c) ==
  /\ at[c] = "begun"
  /\ Send(c, "ack", "wait", "over")
  /\ abort' = AbortKept
  /\ wedged' = (wedged \/ conn = "dead")
  /\ IF conn = "dead" THEN UNCHANGED ring ELSE Telem
  /\ UNCHANGED <<authVars, port, pos, busy, conn, stopped, bounds>>

\* One event of the timeline, unless the flag is up when it is due.
Event(c) ==
  /\ at[c] = "wait" /\ pos[c] <= Len(Timeline)
  /\ \/ /\ abort
        /\ At(c, "wait", "aborted")
        /\ UNCHANGED <<driver, ring>>
     \/ /\ ~abort /\ Timeline[pos[c]] = "send"
        /\ At(c, "wait", IF port = "open" THEN "progress" ELSE "unsent")
        /\ driver' = IF port = "open" THEN "hub" ELSE driver
        /\ Telem
     \/ /\ ~abort /\ Timeline[pos[c]] = "adc"
        /\ At(c, "wait", "progress")
        /\ Telem
        /\ UNCHANGED driver
  /\ UNCHANGED <<mode, latched, port, pos, busy, abort, conn, heard, historyVars, bounds>>

\* Mutant: a run whose last message could not be written does not free it.
FreedUnlessError(c) == busy' = (IF conn = "dead" THEN busy ELSE NoCmd) /\ Telem

\* The finally of execute(): the module is free again.
Freed(c) == busy' = NoCmd /\ Telem

Unfreed == UNCHANGED <<busy, ring>>

Progress(c) ==
  /\ \/ /\ at[c] = "progress"
        /\ Send(c, "progress", "wait", "over")
        /\ pos' = [pos EXCEPT ![c] = @ + 1]
     \/ /\ at[c] = "unsent"
        /\ Send(c, "progress", "failed", "over")
        /\ UNCHANGED pos
  /\ IF conn = "dead" THEN Freed(c) ELSE Unfreed
  /\ UNCHANGED <<authVars, port, abort, conn, historyVars, bounds>>

\* The wait after the last event is a plain sleep.
LastWait(c) ==
  /\ pos[c] > Len(Timeline)
  /\ At(c, "wait", "succeeded")
  /\ UNCHANGED <<authVars, port, pos, busy, abort, conn, ring, heard, historyVars, bounds>>

\* The one RESULT of a run.
Answer(c) ==
  /\ at[c] \in Verdict
  /\ Send(c, at[c], "over", "over")
  /\ Freed(c)
  /\ UNCHANGED <<authVars, port, pos, abort, conn, historyVars, bounds>>

\* Power fails, or the process is restarted.
Restart ==
  /\ troubles < MaxTroubles
  /\ troubles' = troubles + 1
  /\ mode' = "BRIDGE" /\ latched' = FALSE /\ driver' = "none" /\ port' = "closed"
  /\ at' = [c \in Cmd |-> IF at[c] = "new" THEN "new" ELSE "over"]
  /\ busy' = NoCmd /\ abort' = FALSE /\ wedged' = FALSE
  /\ conn' = "off" /\ ring' = 0
  /\ UNCHANGED <<pos, heard, stopped, breaks>>

------------------------------------------------------------------------------
Receive(c) == SetMode(c) \/ AckAbort(c) \/ Refuse(c) \/ Begin(c)

Task(c) ==
  \/ Stop(c) \/ Acknowledge(c)
  \/ Event(c) \/ Progress(c) \/ LastWait(c) \/ Answer(c)

Connection == Dial \/ Adopted \/ Turned \/ GiveUp \/ Lose

Next ==
  \/ \E c \in Cmd : Receive(c) \/ Task(c)
  \/ Connection \/ Break \/ Health
  \/ Open \/ Unplug \/ PlantLine
  \/ Restart

Spec == Init /\ [][Next]_vars

\* The event loop goes on, and so does the loop that dials.
FairSpec == Spec /\ (\A c \in Cmd : WF_vars(Task(c))) /\ WF_vars(Connection) /\ SF_vars(Adopted)

------------------------------------------------------------------------------
(***************************************************************************)
(* Properties.                                                             *)
(***************************************************************************)
Running == {c \in Cmd : TypeOf[c] = "run"
              /\ at[c] \in {"begun", "wait", "progress", "unsent"} \cup Verdict}

PiTypeOK ==
  /\ mode \in {"BRIDGE", "ENDPOINT"} /\ latched \in BOOLEAN
  /\ driver \in {"none", "plant", "hub"} /\ port \in {"open", "closed"}
  /\ at \in [Cmd -> {"new", "stopping", "begun", "wait", "progress",
                     "unsent", "over"} \cup Verdict]
  /\ pos \in [Cmd -> 1..(Len(Timeline) + 1)]
  /\ busy \in Cmd \cup {NoCmd} /\ abort \in BOOLEAN /\ wedged \in BOOLEAN
  /\ conn \in Linked \cup {"off", "half", "dead"}
  /\ ring \in 0..RingCap
  /\ heard \in [Cmd -> {"nothing", "ack"} \cup Verdict]
  /\ stopped \subseteq {c \in Cmd : TypeOf[c] = "run"}

\* The pumps work for one run at a time, and the module is busy with it: also
\* while its acknowledgement is on the way.  Only an acknowledgement that raises
\* leaves the module busy with nothing.
OnePump ==
  /\ \A c \in Running : busy = c
  /\ busy # NoCmd /\ ~wedged => busy \in Running

\* Plant and hub never take turns at the pumps: once the hub has driven them the
\* plant does not, until the module is restarted, whatever commands arrive.
AuthorityKept ==
  /\ driver = "hub" => mode = "ENDPOINT"
  /\ Running # {} => mode = "ENDPOINT" /\ latched

\* Telemetry reaches the hub in the order of its local_seq, and once: while the
\* module is served nothing older is waiting in the ring (the hub resolves
\* raw_local_seqs by these numbers).
NothingOvertakes == conn = "served" => ring = 0

\* Where the task of a command can be is a matter of its type, and a run that is
\* not over has no result, and an event that was made is one of the timeline.
TaskInv ==
  \A c \in Cmd :
    /\ at[c] = "stopping" => TypeOf[c] = "abort"
    /\ at[c] \notin {"new", "stopping", "over"} => TypeOf[c] = "run"
    /\ at[c] # "over" => heard[c] \in {"nothing", "ack"}
    /\ at[c] \in {"progress", "unsent"} => pos[c] <= Len(Timeline)

\* Only take_control gives authority, and it latches.
LatchInv == mode = "ENDPOINT" => latched

\* The flag stays up for a run that was to be stopped until the run looks at it.
StopInv ==
  \A c \in stopped :
    /\ heard[c] # "succeeded"
    /\ \/ at[c] \in {"aborted", "over"}
       \/ at[c] \in {"begun", "wait"} /\ pos[c] <= Len(Timeline) /\ abort

\* The types of the state, and what its parts owe each other: the tasks and busy,
\* the mode and its latch, the flag and the runs, the connection and the ring.
PiInv == PiTypeOK /\ OnePump /\ NothingOvertakes /\ TaskInv /\ LatchInv /\ StopInv

\* A run whose flag is raised with an event still to come does not succeed, be it
\* still acknowledging.  An abort in the last wait comes too late
\* (pimod.py:300-302), and one whose own acknowledgement raised has asked for
\* nothing (217).
AbortCounts == \A c \in stopped : heard[c] # "succeeded" /\ at[c] # "succeeded"

\* A module that is busy gets free, whatever fails on the way, but for an
\* acknowledgement that raised.
BusyEnds == \A c \in Cmd : busy = c ~> busy # c \/ wedged

\* "the module kept executing and delivers its buffered ACK/PROGRESS/RESULT
\* after we come back" (uii/hub/southbound.py:279-280): this module buffers
\* telemetry only, so that it holds while no connection breaks.  Every run the
\* hub has seen begin has its result heard, whether it succeeds, is aborted, or
\* fails at the serial port.
ResultIfLinked ==
  \A c \in Cmd : heard[c] = "ack" ~> heard[c] # "ack" \/ breaks > 0 \/ troubles > 0
==============================================================================
