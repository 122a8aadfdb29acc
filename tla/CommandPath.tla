----------------------------- MODULE CommandPath -----------------------------
(***************************************************************************)
(* The way of a command: the gateway (uii/hub/commands.py) stores it and   *)
(* sends it through the session of its module (uii/hub/southbound.py), the *)
(* module (uii/refmod.py) acknowledges, runs and answers, and the session  *)
(* turns the answer, or the loss of the module, into a result envelope.    *)
(* The connection breaks, the module restarts, the hub stops and starts.   *)
(*                                                                         *)
(* One module, adopted on sight; of its adoption only the order of         *)
(* messages is kept (module Adoption has the rest), and it dials only when *)
(* the hub has taken note of the end of its last connection.  Progress and *)
(* telemetry are left out: they end no command.                            *)
(***************************************************************************)
EXTENDS Integers, Sequences, FiniteSets

CONSTANTS
  Cmd,          \* commands that actors submit
  NoCmd,        \* the module's "busy" when it runs nothing
  RingCap,      \* capacity of the module's ring buffer (500 in the code)
  MaxStalls,    \* bound: event-loop stalls that outlast the wait of a dispatch
  MaxBlips,     \* bound: connections that break
  MaxReboots,   \* bound: restarts of the module
  MaxRestarts   \* bound: restarts of the hub

ASSUME CmdAssumption == NoCmd \notin Cmd
ASSUME PathBounds ==
  /\ RingCap \in Nat \ {0}
  /\ MaxStalls \in Nat
  /\ MaxBlips \in Nat
  /\ MaxReboots \in Nat
  /\ MaxRestarts \in Nat

VARIABLES
  \* the evidence
  logged,    \* commands with a "command" envelope
  losses,    \* "module-lost" results of each command
  verdicts,  \* results of each command that report the module's answer
  \* the hub
  gw,        \* where the gateway thread of each command is
  session,   \* the module's session: none, waiting for ROLE_OK, serving
  inflight,  \* ModuleSession.commands
  \* the wire
  link,      \* up; cut, and the hub does not know; closed
  toHub,     \* messages on their way to the hub
  toModule,  \* messages on their way to the module
  \* the module
  writer,    \* no connection, handshake, serving
  ring,      \* messages kept for the next connection
  busy,      \* the command that occupies the module
  run,       \* where the task of each command is
  \* bounded counters
  stalls, blips, reboots, restarts

evidenceVars == <<logged, losses, verdicts>>
hubVars == <<gw, session, inflight>>
wireVars == <<link, toHub, toModule>>
moduleVars == <<writer, ring, busy, run>>
boundVars == <<stalls, blips, reboots, restarts>>
pathVars == <<evidenceVars, hubVars, wireVars, moduleVars, boundVars>>

FromModule == {<<"ROLE_OK">>} \cup ({"ACK", "NAK", "RESULT"} \X Cmd)
ToModule == {<<"HELLO_OK">>} \cup ({"CMD"} \X Cmd)

Init ==
  /\ logged = {}
  /\ losses = [c \in Cmd |-> 0]
  /\ verdicts = [c \in Cmd |-> 0]
  /\ gw = [c \in Cmd |-> "new"]
  /\ session = "none"
  /\ inflight = {}
  /\ link = "closed"
  /\ toHub = <<>>
  /\ toModule = <<>>
  /\ writer = "none"
  /\ ring = <<>>
  /\ busy = NoCmd
  /\ run = [c \in Cmd |-> "none"]
  /\ stalls = 0
  /\ blips = 0
  /\ reboots = 0
  /\ restarts = 0

------------------------------------------------------------------------------
(***************************************************************************)
(* The gateway.  submit() and dispatch_env() run on a thread of the API,   *)
(* SouthboundHub.dispatch() on the event loop.                             *)
(***************************************************************************)
GatewayAt(c, from, to) == gw[c] = from /\ gw' = [gw EXCEPT ![c] = to]

\* The session is operational: the command is stored.
Submit(c) ==
  /\ session = "serve"
  /\ GatewayAt(c, "new", "dispatching")
  /\ logged' = logged \cup {c}
  /\ UNCHANGED <<losses, verdicts, session, inflight, wireVars, moduleVars, boundVars>>

\* Mutant: the command is not entered into the session's table.
Untracked(c) == inflight

Tracked(c) == inflight \cup {c}

\* dispatch(): the command is entered, written, and it was sent ...
Sent(c) ==
  /\ session = "serve"
  /\ GatewayAt(c, "dispatching", "done") \/ GatewayAt(c, "overdue", "done")
  /\ inflight' = Tracked(c)
  /\ toModule' = IF link = "up" THEN Append(toModule, <<"CMD", c>>) ELSE toModule
  /\ UNCHANGED <<evidenceVars, session, link, toHub, moduleVars, boundVars>>

\* ... or there is no session, or the broken connection is known and the send
\* raises, which takes the command out again ...
NotSent(c) ==
  /\ session # "serve" \/ link = "closed"
  /\ GatewayAt(c, "dispatching", "lost") \/ GatewayAt(c, "overdue", "done")
  /\ UNCHANGED <<evidenceVars, session, inflight, wireVars, moduleVars, boundVars>>

\* ... or the send buffer of a broken connection is full, and drain() waits.
SendStuck(c) ==
  /\ session = "serve"
  /\ link = "cut"
  /\ GatewayAt(c, "dispatching", "draining") \/ GatewayAt(c, "overdue", "late")
  /\ inflight' = Tracked(c)
  /\ UNCHANGED <<evidenceVars, session, wireVars, moduleVars, boundVars>>

\* The thread waits 5 s for dispatch(), then submit() raises, and nobody will
\* look at what dispatch() returns: while drain() waits ...
DispatchTimeout(c) ==
  /\ GatewayAt(c, "draining", "late")
  /\ UNCHANGED <<evidenceVars, session, inflight, wireVars, moduleVars, boundVars>>

\* ... or before dispatch() has begun, when the event loop is held up.
LoopStall(c) ==
  /\ stalls < MaxStalls
  /\ stalls' = stalls + 1
  /\ GatewayAt(c, "dispatching", "overdue")
  /\ UNCHANGED <<evidenceVars, session, inflight, wireVars, moduleVars, blips,
                 reboots, restarts>>

\* drain() raises when the connection is found lost; the read loop of the
\* session has been woken first.
StuckSendFails(c) ==
  /\ session = "none" \/ link = "up"
  /\ GatewayAt(c, "draining", "lost") \/ GatewayAt(c, "late", "done")
  /\ UNCHANGED <<evidenceVars, session, inflight, wireVars, moduleVars, boundVars>>

\* The thread stores the one result of a command that was not sent.
ReportLost(c) ==
  /\ GatewayAt(c, "lost", "done")
  /\ losses' = [losses EXCEPT ![c] = @ + 1]
  /\ UNCHANGED <<logged, verdicts, session, inflight, wireVars, moduleVars, boundVars>>

------------------------------------------------------------------------------
(***************************************************************************)
(* The session of the module, on the event loop.                           *)
(***************************************************************************)
RoleOk ==
  /\ session = "role"
  /\ toHub # <<>>
  /\ Head(toHub) = <<"ROLE_OK">>
  /\ session' = "serve"
  /\ toHub' = Tail(toHub)
  /\ UNCHANGED <<evidenceVars, gw, inflight, link, toModule, moduleVars, boundVars>>

\* Another message, the end of the stream, or the time limit: the hub closes.
AdoptionFails ==
  /\ session = "role"
  /\ session' = "none"
  /\ link' = "closed"
  /\ toHub' = <<>>
  /\ UNCHANGED <<evidenceVars, gw, inflight, toModule, moduleVars, boundVars>>

\* _handle: an answer that ends the command (a refusal, a result) is stored,
\* whether or not the session knows the command.
Handle ==
  /\ session = "serve"
  /\ toHub # <<>>
  /\ toHub' = Tail(toHub)
  /\ LET t == Head(toHub)[1]
         c == Head(toHub)[2]
     IN  IF t \in {"NAK", "RESULT"}
         THEN /\ inflight' = inflight \ {c}
              /\ verdicts' = [verdicts EXCEPT ![c] = @ + 1]
         ELSE UNCHANGED <<inflight, verdicts>>
  /\ UNCHANGED <<logged, losses, gw, session, link, toModule, moduleVars, boundVars>>

\* One more module-lost result for each of the commands.
Reported(cmds) == [c \in Cmd |-> losses[c] + (IF c \in cmds THEN 1 ELSE 0)]

\* Mutant: the commands stay in the table after they have been reported.
NotCleared == inflight

Cleared == {}

\* The module is gone: every command in flight gets its terminal result.
EndSession ==
  /\ session = "serve"
  /\ toHub = <<>>
  /\ link = "closed"
  /\ session' = "none"
  /\ losses' = Reported(inflight)
  /\ inflight' = Cleared
  /\ UNCHANGED <<logged, verdicts, gw, wireVars, moduleVars, boundVars>>

\* Mutant: the stop of the hub reads like the loss of its modules.
LossesOnStop == Reported(inflight)

\* While the hub stops, sessions emit nothing.
LossesAtRestart == losses

\* The hub stops or crashes, and is started again: sessions, the commands they
\* know and the threads of the gateway are gone.
HubRestart ==
  /\ restarts < MaxRestarts
  /\ restarts' = restarts + 1
  /\ losses' = LossesAtRestart
  /\ gw' = [c \in Cmd |-> IF gw[c] = "new" THEN "new" ELSE "done"]
  /\ session' = "none"
  /\ inflight' = {}
  /\ link' = "closed"
  /\ toHub' = <<>>
  /\ UNCHANGED <<logged, verdicts, toModule, moduleVars, stalls, blips, reboots>>

------------------------------------------------------------------------------
(***************************************************************************)
(* The module.                                                             *)
(***************************************************************************)

\* The ring keeps the newest messages.
Buffered(msg) ==
  LET longer == Append(ring, msg)
  IN  IF Len(longer) > RingCap THEN Tail(longer) ELSE longer

\* send(): to the connection if there is one.  On a broken connection the
\* message vanishes, or the write fails and the message is kept for the next.
Send(msg) ==
  \/ /\ writer = "none"
     /\ ring' = Buffered(msg)
     /\ UNCHANGED <<toHub, writer>>
  \/ /\ writer # "none"
     /\ link = "up"
     /\ toHub' = Append(toHub, msg)
     /\ UNCHANGED <<ring, writer>>
  \/ /\ writer # "none"
     /\ link # "up"
     /\ UNCHANGED <<toHub, ring, writer>>
  \/ /\ writer # "none"
     /\ link # "up"
     /\ ring' = Buffered(msg)
     /\ writer' = "none"
     /\ UNCHANGED toHub

\* Dial and say HELLO; the hub answers with HELLO_OK.
Dial ==
  /\ writer = "none"
  /\ session = "none"
  /\ link # "up"
  /\ link' = "up"
  /\ session' = "role"
  /\ writer' = "hello"
  /\ toHub' = <<>>
  /\ toModule' = <<<<"HELLO_OK">>>>
  /\ UNCHANGED <<evidenceVars, gw, inflight, ring, busy, run, boundVars>>

Die ==
  /\ writer' = "none"
  /\ ring' = <<>>
  /\ busy' = NoCmd
  /\ run' = [c \in Cmd |-> IF run[c] = "none" THEN "none" ELSE "over"]

\* Mutant: what was flushed stays in the ring.
RingKept == ring

RingFlushed == <<>>

\* HELLO_OK: answer ROLE_OK, then empty the ring into the connection.  If the
\* answer cannot be written the loop loses its writer and the flush raises,
\* which ends the module's process.
AnswerHelloOk ==
  /\ writer = "hello"
  /\ toModule # <<>>
  /\ toModule' = Tail(toModule)
  /\ \/ /\ toHub' = IF link = "up" THEN (toHub \o <<<<"ROLE_OK">>>>) \o ring ELSE toHub
        /\ writer' = "serving"
        /\ ring' = RingFlushed
        /\ UNCHANGED <<busy, run>>
     \/ /\ link # "up"
        /\ Die
        /\ UNCHANGED toHub
  /\ UNCHANGED <<evidenceVars, hubVars, link, boundVars>>

\* CMD: a task of its own for each command.
Receive ==
  /\ writer = "serving"
  /\ toModule # <<>>
  /\ toModule' = Tail(toModule)
  /\ run' = [run EXCEPT ![Head(toModule)[2]] = "task"]
  /\ UNCHANGED <<evidenceVars, hubVars, link, toHub, writer, ring, busy, boundVars>>

\* execute(): the module refuses, because it is busy, does not know the
\* command or does not like its parameters.  (An abort is answered at once,
\* too, by an acknowledgement and a result.)
Refuse(c) ==
  /\ run[c] = "task"
  /\ run' = [run EXCEPT ![c] = "over"]
  /\ Send(<<"NAK", c>>)
  /\ UNCHANGED <<evidenceVars, hubVars, link, toModule, busy, boundVars>>

\* Mutant: the module does not mark itself before its first await.
Unmarked(c) == NoCmd

Marked(c) == c

\* A free module marks itself busy, then says so,
Begin(c) ==
  /\ run[c] = "task"
  /\ busy = NoCmd
  /\ busy' = Marked(c)
  /\ run' = [run EXCEPT ![c] = "accepted"]
  /\ UNCHANGED <<evidenceVars, hubVars, wireVars, writer, ring, boundVars>>

Acknowledge(c) ==
  /\ run[c] = "accepted"
  /\ run' = [run EXCEPT ![c] = "running"]
  /\ Send(<<"ACK", c>>)
  /\ UNCHANGED <<evidenceVars, hubVars, link, toModule, busy, boundVars>>

\* hands over the result, and is free again.
Finish(c) ==
  /\ run[c] = "running"
  /\ run' = [run EXCEPT ![c] = "answered"]
  /\ Send(<<"RESULT", c>>)
  /\ UNCHANGED <<evidenceVars, hubVars, link, toModule, busy, boundVars>>

Free(c) ==
  /\ run[c] = "answered"
  /\ run' = [run EXCEPT ![c] = "over"]
  /\ busy' = NoCmd
  /\ UNCHANGED <<evidenceVars, hubVars, wireVars, writer, ring, boundVars>>

\* The module finds its connection broken, and will dial again.
LoseWriter ==
  /\ writer # "none"
  /\ link # "up"
  /\ writer' = "none"
  /\ toModule' = <<>>
  /\ UNCHANGED <<evidenceVars, hubVars, link, toHub, ring, busy, run, boundVars>>

\* The module's process is started anew; the hub may not learn of it.
Reboot ==
  /\ reboots < MaxReboots
  /\ reboots' = reboots + 1
  /\ Die
  /\ IF link = "up" THEN link' \in {"cut", "closed"} ELSE UNCHANGED link
  /\ toModule' = <<>>
  /\ UNCHANGED <<evidenceVars, hubVars, toHub, stalls, blips, restarts>>

------------------------------------------------------------------------------
\* The connection breaks, with a notice to the hub or without; what is on the
\* way arrives in part.
Blip ==
  /\ link = "up"
  /\ blips < MaxBlips
  /\ blips' = blips + 1
  /\ link' \in {"cut", "closed"}
  /\ \E n \in 0..Len(toHub) : toHub' = SubSeq(toHub, 1, n)
  /\ \E n \in 0..Len(toModule) : toModule' = SubSeq(toModule, 1, n)
  /\ UNCHANGED <<evidenceVars, hubVars, moduleVars, stalls, reboots, restarts>>

\* The hub's end of a broken connection finds out.
Notice ==
  /\ link = "cut"
  /\ link' = "closed"
  /\ UNCHANGED <<evidenceVars, hubVars, toHub, toModule, moduleVars, boundVars>>

Gateway(c) ==
  \/ Sent(c)
  \/ NotSent(c)
  \/ SendStuck(c)
  \/ StuckSendFails(c)
  \/ ReportLost(c)

Session ==
  \/ RoleOk
  \/ AdoptionFails
  \/ Handle
  \/ EndSession

Task(c) ==
  \/ Refuse(c)
  \/ Begin(c)
  \/ Acknowledge(c)
  \/ Finish(c)
  \/ Free(c)

Connection ==
  \/ Dial
  \/ AnswerHelloOk
  \/ Receive
  \/ LoseWriter

Next ==
  \/ \E c \in Cmd : Submit(c) \/ Gateway(c) \/ DispatchTimeout(c) \/ LoopStall(c) \/ Task(c)
  \/ Session
  \/ Connection
  \/ HubRestart
  \/ Reboot
  \/ Blip
  \/ Notice

Spec == Init /\ [][Next]_pathVars

\* The event loop, the threads of the gateway, the tasks and the dialling loop
\* of the module all run on.  That a broken connection is ever noticed is not
\* assumed: the hub sends nothing on an idle connection.
FairSpec ==
  /\ Spec
  /\ WF_pathVars(Session)
  /\ WF_pathVars(Connection)
  /\ \A c \in Cmd : WF_pathVars(Gateway(c)) /\ WF_pathVars(Task(c))

------------------------------------------------------------------------------
(***************************************************************************)
(* Properties.                                                             *)
(***************************************************************************)
Results(c) == losses[c] + verdicts[c]

\* The types of the state; the session's table is empty unless it serves.
PathTypeOK ==
  /\ logged \subseteq Cmd
  /\ losses \in [Cmd -> Nat]
  /\ verdicts \in [Cmd -> Nat]
  /\ gw \in [Cmd -> {"new", "dispatching", "overdue", "draining", "late", "lost", "done"}]
  /\ session \in {"none", "role", "serve"}
  /\ inflight \subseteq logged
  /\ session # "serve" => inflight = {}
  /\ link \in {"up", "cut", "closed"}
  /\ toHub \in Seq(FromModule)
  /\ toModule \in Seq(ToModule)
  /\ writer \in {"none", "hello", "serving"}
  /\ ring \in Seq({"ACK", "NAK", "RESULT"} \X Cmd)
  /\ busy \in Cmd \cup {NoCmd}
  /\ run \in [Cmd -> {"none", "task", "accepted", "running", "answered", "over"}]

\* The module's pumps run for one command at a time, however commands arrive:
\* busy is tested and set without an await in between (refmod.py:134-143).
OneRun == Cardinality({c \in Cmd : run[c] \in {"accepted", "running", "answered"}}) <= 1

\* The module's answer to a command becomes one result, through every break of
\* the connection and every restart of either side.
VerdictOnce == \A c \in Cmd : verdicts[c] <= 1

\* "one result per command survives both directions" (ROADMAP.md:34): the stop
\* and start of the hub alone never gives a command a second result.
RestartKeepsOne ==
  blips = 0 /\ reboots = 0 => \A c \in Cmd : Results(c) <= 1

\* One result for each command: of those with the module's answer always, of all
\* while only the hub breaks.
ResultOnce == VerdictOnce /\ RestartKeepsOne

\* No command is ever dropped by a hub that stays up and whose event loop keeps
\* pace, in whatever order the gateway, the session and the connection move: a
\* command without a result is in the hands of somebody who will give it one.
\* (Past the 5 s of commands.py:178 nobody looks at what dispatch() returns.)
NoOrphan ==
  restarts = 0 /\ stalls = 0 =>
    \A c \in logged :
      Results(c) = 0 => c \in inflight \/ gw[c] \in {"dispatching", "overdue", "lost"}

\* "success, failure, rejection, or module loss each terminate"
\* (commands.py:5): on a hub that stays up every command ends, whatever
\* happens to the module and to the connection, provided that the hub's side
\* takes notice of broken connections.
EndsIfNoticed ==
  []<>(link # "cut") => \A c \in Cmd : (c \in logged) ~> (Results(c) > 0 \/ restarts > 0 \/ stalls > 0)

(***************************************************************************)
(* The inductive invariant behind PathTypeOK, OneRun, NoOrphan and         *)
(* ResultOnce.                                                             *)
(***************************************************************************)

\* What the gateway has begun with is stored; only a stall makes it late.
GatewayInv ==
  /\ stalls \in Nat /\ restarts \in Nat
  /\ \A c \in Cmd : gw[c] # "new" => c \in logged
  /\ stalls = 0 => \A c \in Cmd : gw[c] # "overdue"

\* HELLO_OK comes before every command of its connection, so that a module
\* that serves reads commands only.
HelloFirst ==
  \A i \in 1..Len(toModule) :
    toModule[i][1] = "HELLO_OK" => i = 1 /\ writer # "serving"

\* The command whose pumps run is the one the module is busy with.
BusyInv == \A c \in Cmd : run[c] \in {"accepted", "running", "answered"} => busy = c

\* The positions of messages in a sequence of them.
At(s, msgs) == {i \in 1..Len(s) : s[i] \in msgs}

\* The messages that end a command.
Ending(c) == {"NAK", "RESULT"} \X {c}

\* Where a command is on its way to the verdict of its module: with its gateway
\* thread, on the wire, with its task, in the ring, on the wire again, stored.
Places(c) ==
  {<<"gateway", 1>> : at \in {gw[c]} \cap {"new", "dispatching", "overdue"}}
    \cup {<<"toModule", i>> : i \in At(toModule, {<<"CMD", c>>})}
    \cup {<<"task", 1>> : at \in {run[c]} \cap {"task", "accepted", "running"}}
    \cup {<<"ring", i>> : i \in At(ring, Ending(c))}
    \cup {<<"toHub", i>> : i \in At(toHub, Ending(c))}
    \cup {<<"stored", i>> : i \in 1..verdicts[c]}

\* A command is in one place at most, in whatever order the messages of two
\* connections and the flush of the ring meet.
OnePlace == \A c \in Cmd : \A p, q \in Places(c) : p = q

\* While only the hub breaks, it loses a session by its own doing alone, and a
\* command that it reports as lost has never been on its way.
CalmInv ==
  /\ blips \in Nat /\ reboots \in Nat
  /\ blips = 0 /\ reboots = 0 =>
       /\ link # "cut"
       /\ session # "none" => link = "up"
       /\ \A c \in Cmd :
            /\ gw[c] \notin {"draining", "late"}
            /\ losses[c] <= 1
            /\ gw[c] = "lost" => losses[c] = 0
            /\ gw[c] = "lost" \/ losses[c] > 0 => Places(c) = {}

\* The state is well typed, and its parts agree with each other.
PathInv ==
  /\ PathTypeOK
  /\ GatewayInv
  /\ HelloFirst
  /\ BusyInv
  /\ NoOrphan
  /\ OnePlace
  /\ CalmInv

(***************************************************************************)
(* What the documentation says and the code does not keep.                 *)
(***************************************************************************)

==============================================================================
