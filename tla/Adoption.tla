------------------------------- MODULE Adoption -------------------------------
(***************************************************************************)
(* How a module joins the hub: the session coroutines of the southbound    *)
(* gateway (uii/hub/southbound.py), the persistent trust list              *)
(* (uii/hub/config.py), the release call of the API, the watchdog of the   *)
(* detections engine, the stop and the crash of the hub, and the dialling  *)
(* loop of a module (uii/refmod.py).                                       *)
(*                                                                         *)
(* The sessions run on one event loop: what a coroutine does between two   *)
(* awaits is one step.  The API and the watchdog run on threads of their   *)
(* own: each is a step that looks and a step that acts on what it saw.  A  *)
(* release makes two durable writes, the trust file and the event: they    *)
(* are steps of their own, since the process may die in between; the event *)
(* loop does nothing else meanwhile.                                       *)
(*                                                                         *)
(* Every append to the evidence may raise.  A module is known by its       *)
(* identifier, which stands for its serial too if it has one.              *)
(* Connections are numbered in the order in which they are dialled.  0     *)
(* stands for "no connection".                                             *)
(***************************************************************************)
EXTENDS Integers, Sequences

CONSTANTS
  Module,       \* modules that dial the hub
  Allowed,      \* those whose type is in the allowlist of the configuration
  OldProto,     \* those that speak another version of the protocol
  NoSerial,     \* those whose HELLO has no serial
  MaxConns,     \* bound: connections dialled
  MaxTelems,    \* bound: telemetry messages sent
  MaxDrops,     \* bound: modules that restart or lose their link
  MaxRestarts,  \* bound: stops and crashes of the hub
  MaxFaults     \* bound: handlers in which a write, of the trust file or of the evidence, raises

ASSUME ModuleAssumption ==
  /\ Module # {}
  /\ Allowed \subseteq Module /\ OldProto \subseteq Module /\ NoSerial \subseteq Module
ASSUME AdoptionBounds ==
  /\ MaxConns \in Nat
  /\ MaxTelems \in Nat
  /\ MaxDrops \in Nat
  /\ MaxRestarts \in Nat
  /\ MaxFaults \in Nat

Conn == 1..MaxConns

VARIABLES
  \* the hub
  state,        \* ModuleSession.state of the session of each connection
  pos,          \* the await at which the coroutine of the session stands
  sessions,     \* SouthboundHub.sessions: the session commands go to
  quarantined,  \* SouthboundHub.quarantined: the session a release goes to
  trusted,      \* HubConfig.trusted_serials
  trustFile,    \* trust.json
  draining,     \* Hub.stop() has begun
  asked,        \* the session the API thread has picked for a release
  releasing,    \* the release has trusted the serial and not yet said so
  watched,      \* the session the watchdog has found silent
  \* the wire
  owner,        \* the module that dialled each connection
  link,         \* each connection as the hub's side sees it
  inbox,        \* messages on their way to the hub
  outbox,       \* messages on their way to the module
  \* the modules
  on,           \* the connection each module is using
  phase,        \* where the dialling loop of each module is
  \* the evidence
  last,         \* the last identity event of each module
  released,     \* modules of which a "released" event is in the evidence
  \* history
  unrecorded,   \* modules whose release was cut short before its event
  \* bounded counters
  dialled, telems, drops, restarts, faults

hubVars == <<state, pos, sessions, quarantined, draining>>
trustVars == <<trusted, trustFile>>
threadVars == <<asked, releasing, watched>>
wireVars == <<link, inbox, outbox>>
moduleVars == <<owner, on, phase, dialled, telems, drops>>
logVars == <<last, released, unrecorded>>
bounds == <<restarts, faults>>
adoptionVars == <<hubVars, trustVars, threadVars, wireVars, moduleVars, logVars, bounds>>

Init ==
  /\ state = [c \in Conn |-> "NONE"]
  /\ pos = [c \in Conn |-> "none"]
  /\ sessions = [m \in Module |-> 0]
  /\ quarantined = [m \in Module |-> 0]
  /\ trusted = {}
  /\ trustFile = {}
  /\ draining = FALSE
  /\ asked = 0
  /\ releasing = FALSE
  /\ watched = 0
  /\ owner = [c \in Conn |-> CHOOSE m \in Module : TRUE]
  /\ link = [c \in Conn |-> "none"]
  /\ inbox = [c \in Conn |-> <<>>]
  /\ outbox = [c \in Conn |-> <<>>]
  /\ on = [m \in Module |-> 0]
  /\ phase = [m \in Module |-> "off"]
  /\ last = [m \in Module |-> "none"]
  /\ released = {}
  /\ unrecorded = {}
  /\ dialled = 0
  /\ telems = 0
  /\ drops = 0
  /\ restarts = 0
  /\ faults = 0

------------------------------------------------------------------------------
(***************************************************************************)
(* What the steps of a session are made of.                                *)
(***************************************************************************)
Identity(m, event) == last' = [last EXCEPT ![m] = event]

\* A write raises.
Fault == faults < MaxFaults /\ faults' = faults + 1

\* identity_event() where its failure changes nothing but the record.
Logged(m, event) ==
  \/ Identity(m, event) /\ UNCHANGED faults
  \/ UNCHANGED last /\ Fault

\* readline() returns the next message ...
Read(c) == inbox[c] # <<>> /\ inbox' = [inbox EXCEPT ![c] = Tail(@)]

\* Mutant: the end of the stream reads like an empty message.
EndUnseen(c) == FALSE

\* ... or nothing, when the connection has ended.
EndOfStream(c) == inbox[c] = <<>> /\ link[c] = "closed"

\* What is left of a connection's messages when nobody will read them.
Discard(c) == inbox' = [inbox EXCEPT ![c] = <<>>]

\* What the hub writes reaches the module as long as the link is there; a
\* link that is lost without a trace swallows it.
Written(c, msg) ==
  IF link[c] = "up" THEN [outbox EXCEPT ![c] = Append(@, msg)] ELSE outbox

\* The coroutine ends: its "finally" closes the writer.
Finish(c) ==
  /\ pos' = [pos EXCEPT ![c] = "done"]
  /\ link' = [link EXCEPT ![c] = "closed"]

\* Mutant: the entry stays until the next session takes it.
Kept(table, m) == table

\* sessions.pop(module_id): whatever session the entry names.
Pop(table, m) == [table EXCEPT ![m] = 0]

\* The "draining" branch of the "finally", which every ending session takes.
SessionsAtEnd(m) == IF draining THEN Pop(sessions, m) ELSE sessions

\* await self.send(msg): when the connection is already gone, drain() may
\* raise, and the exception leaves run().
SendThenAwait(c, msg, next) ==
  \/ /\ outbox' = Written(c, msg)
     /\ pos' = [pos EXCEPT ![c] = next]
     /\ UNCHANGED <<link, sessions>>
  \/ /\ link[c] = "closed"
     /\ Finish(c)
     /\ sessions' = SessionsAtEnd(owner[c])
     /\ UNCHANGED outbox

------------------------------------------------------------------------------
(***************************************************************************)
(* ModuleSession.run: CONNECTED, VERIFYING, ADOPTING.                      *)
(***************************************************************************)

\* Mutant: the protocol version is not looked at.
TypeOrSerialTrusted(m) == m \in Allowed \cup trusted

Trusts(m) == m \notin OldProto /\ m \in Allowed \cup trusted

\* No HELLO within the time limit: the session ends without a word.
HelloMissing(c) ==
  /\ pos[c] = "hello"
  /\ Discard(c)
  /\ Finish(c)
  /\ UNCHANGED <<state, sessions, quarantined, draining, trustVars, threadVars,
                 outbox, moduleVars, logVars, bounds>>

\* "hello", "quarantined" or "adopting" cannot be written: the session ends as it
\* stands, entered nowhere.
HelloRaises(c) ==
  /\ pos[c] = "hello"
  /\ Read(c)
  /\ Fault
  /\ \/ state' = [state EXCEPT ![c] = "VERIFYING"] /\ UNCHANGED last
     \/ /\ state' = [state EXCEPT ![c] = IF Trusts(owner[c]) THEN "ADOPTING" ELSE "QUARANTINED"]
        /\ Identity(owner[c], "hello")
  /\ Finish(c)
  /\ sessions' = SessionsAtEnd(owner[c])
  /\ UNCHANGED <<quarantined, draining, trustVars, threadVars, outbox, moduleVars,
                 released, unrecorded, restarts>>

\* HELLO of a module that is not trusted: it is held, powered but mute.
Quarantine(c) ==
  /\ pos[c] = "hello"
  /\ ~ Trusts(owner[c])
  /\ Read(c)
  /\ state' = [state EXCEPT ![c] = "QUARANTINED"]
  /\ Identity(owner[c], "quarantined")
  /\ quarantined' = [quarantined EXCEPT ![owner[c]] = c]
  /\ SendThenAwait(c, "QUARANTINE", "hold")
  /\ UNCHANGED <<draining, trustVars, threadVars, moduleVars, released, unrecorded, bounds>>

\* HELLO of a trusted module: its role configuration goes out in HELLO_OK.
StartAdoption(c) ==
  /\ pos[c] = "hello"
  /\ Trusts(owner[c])
  /\ Read(c)
  /\ state' = [state EXCEPT ![c] = "ADOPTING"]
  /\ Identity(owner[c], "adopting")
  /\ SendThenAwait(c, "HELLO_OK", "role")
  /\ UNCHANGED <<quarantined, draining, trustVars, threadVars,
                 moduleVars, released, unrecorded, bounds>>

\* ROLE_OK: the session is OPERATIONAL and commands go to it.
Adopt(c) ==
  /\ pos[c] = "role"
  /\ inbox[c] # <<>>
  /\ Head(inbox[c]) = "ROLE_OK"
  /\ Read(c)
  /\ state' = [state EXCEPT ![c] = "OPERATIONAL"]
  /\ sessions' = [sessions EXCEPT ![owner[c]] = c]
  /\ Identity(owner[c], "adopted")
  /\ pos' = [pos EXCEPT ![c] = "serve"]
  /\ UNCHANGED <<quarantined, draining, trustVars, threadVars, link, outbox,
                 moduleVars, released, unrecorded, bounds>>

\* Mutant: the wait for ROLE_OK has no time limit.
NoTimeLimit(c) == FALSE

\* The wait for ROLE_OK is cut off at some moment, unless it ends before.
TimeLimit(c) == pos[c] = "role"

\* Another message than ROLE_OK, the end of the stream, or the time limit.
NoRoleOk(c) ==
  \/ inbox[c] # <<>> /\ Head(inbox[c]) # "ROLE_OK"
  \/ EndOfStream(c)
  \/ TimeLimit(c)

FailAdoption(c) ==
  /\ pos[c] = "role"
  /\ NoRoleOk(c)
  /\ Discard(c)
  /\ state' = [state EXCEPT ![c] = "REMOVED"]
  /\ Logged(owner[c], "adoption-failed")
  /\ Finish(c)
  /\ sessions' = SessionsAtEnd(owner[c])
  /\ UNCHANGED <<quarantined, draining, trustVars, threadVars, outbox,
                 moduleVars, released, unrecorded, restarts>>

------------------------------------------------------------------------------
(***************************************************************************)
(* OPERATIONAL and DEGRADED: the read loop and its end.                    *)
(***************************************************************************)
Serve(c) ==
  /\ pos[c] = "serve"
  /\ Read(c)
  /\ IF state[c] = "DEGRADED"
     THEN /\ state' = [state EXCEPT ![c] = "OPERATIONAL"]
          /\ Identity(owner[c], "recovered")
     ELSE UNCHANGED <<state, last>>
  /\ UNCHANGED <<pos, sessions, quarantined, draining, trustVars, threadVars,
                 link, outbox, moduleVars, released, unrecorded, bounds>>

\* The "finally" of a session that was adopted: REMOVED, role vacant.  When the hub
\* is on its way down, nothing is emitted.
Left(c) ==
  /\ sessions' = Pop(sessions, owner[c])
  /\ IF draining
     THEN /\ state' = [state EXCEPT ![c] = IF @ = "ADOPTING" THEN "OPERATIONAL" ELSE @]
          /\ UNCHANGED last
     ELSE /\ state' = [state EXCEPT ![c] = "REMOVED"]
          /\ Identity(owner[c], "removed")
  /\ Finish(c)

\* The same when an append raises in it: at "removed", before the entry is taken out
\* of the table, or after both.  The writer is not closed; some versions of asyncio
\* close it for a task that fails.
LeftInPart(c, table) ==
  /\ ~ draining
  /\ state' = [state EXCEPT ![c] = "REMOVED"]
  /\ \/ sessions' = table /\ UNCHANGED last
     \/ sessions' = Pop(table, owner[c]) /\ Identity(owner[c], "removed")
  /\ pos' = [pos EXCEPT ![c] = "done"]
  /\ link' \in {link, [link EXCEPT ![c] = "closed"]}

\* The module is gone.
EndServing(c) ==
  /\ pos[c] = "serve"
  /\ EndOfStream(c)
  /\ \/ Left(c) /\ UNCHANGED faults
     \/ LeftInPart(c, sessions) /\ Fault
  /\ UNCHANGED <<quarantined, draining, trustVars, threadVars, inbox, outbox,
                 moduleVars, released, unrecorded, restarts>>

\* What a module says cannot be written, nor perhaps what follows: the exception
\* leaves the read loop.
ServeRaises(c) ==
  /\ pos[c] = "serve"
  /\ inbox[c] # <<>>
  /\ Discard(c)
  /\ Fault
  /\ Left(c) \/ LeftInPart(c, sessions)
  /\ UNCHANGED <<quarantined, draining, trustVars, threadVars, outbox, moduleVars,
                 released, unrecorded, restarts>>

\* "adopted" cannot be written, after the session has entered the table.
AdoptRaises(c) ==
  /\ pos[c] = "role"
  /\ inbox[c] # <<>>
  /\ Head(inbox[c]) = "ROLE_OK"
  /\ Discard(c)
  /\ Fault
  /\ Left(c) \/ LeftInPart(c, [sessions EXCEPT ![owner[c]] = c])
  /\ UNCHANGED <<quarantined, draining, trustVars, threadVars, outbox, moduleVars,
                 released, unrecorded, restarts>>

------------------------------------------------------------------------------
(***************************************************************************)
(* QUARANTINED and RELEASED.                                               *)
(***************************************************************************)

\* Whatever a quarantined module says is ignored.
Ignore(c) ==
  /\ pos[c] = "hold"
  /\ state[c] # "RELEASED"
  /\ Read(c)
  /\ UNCHANGED <<hubVars, trustVars, threadVars, link, outbox, moduleVars,
                 logVars, bounds>>

\* The hold ends with the stream, or with the message after a release.
EndQuarantine(c) ==
  /\ pos[c] = "hold"
  /\ \/ EndOfStream(c) /\ UNCHANGED inbox
     \/ state[c] = "RELEASED" /\ Read(c)
  /\ quarantined' = Pop(quarantined, owner[c])
  /\ IF state[c] = "QUARANTINED"
     THEN /\ state' = [state EXCEPT ![c] = "REMOVED"]
          /\ Logged(owner[c], "removed")
     ELSE UNCHANGED <<state, last, faults>>
  /\ Finish(c)
  /\ sessions' = SessionsAtEnd(owner[c])
  /\ UNCHANGED <<draining, trustVars, threadVars, outbox, moduleVars, released, unrecorded,
                 restarts>>

\* POST /v1/modules/{id}/release, on the API thread: find the session ...
AskRelease(m) ==
  /\ asked = 0
  /\ quarantined[m] # 0
  /\ asked' = quarantined[m]
  /\ UNCHANGED <<hubVars, trustVars, releasing, watched, wireVars, moduleVars, logVars, bounds>>

\* The serial of a session, if it has one.
SerialOf(c) == {owner[c]} \ NoSerial

\* Mutant: the serial is trusted until the hub restarts.
FileUnwritten == trustFile

FileWritten == IF SerialOf(asked) = {} THEN trustFile ELSE trusted'

\* Mutant: the event is written first, and the trust file after it.
EventFirst ==
  /\ asked # 0 /\ ~ releasing
  /\ released' = released \cup {owner[asked]}
  /\ releasing' = TRUE
  /\ UNCHANGED <<hubVars, trustVars, asked, watched, wireVars, moduleVars, last, unrecorded, bounds>>

\* ... and, on the event loop, trust the serial, in memory and in the file ...
Trust ==
  /\ asked # 0 /\ ~ releasing
  /\ trusted' = trusted \cup SerialOf(asked)
  /\ trustFile' = FileWritten
  /\ releasing' = TRUE
  /\ UNCHANGED <<hubVars, asked, watched, wireVars, moduleVars, logVars, bounds>>

\* The trust file cannot be written: the call fails, after the serial has
\* entered the set in memory.
TrustFails ==
  /\ asked # 0 /\ ~ releasing
  /\ SerialOf(asked) # {}
  /\ Fault
  /\ trusted' = trusted \cup SerialOf(asked)
  /\ unrecorded' = unrecorded \cup SerialOf(asked)
  /\ asked' = 0
  /\ UNCHANGED <<hubVars, trustFile, releasing, watched, wireVars, moduleVars, last, released,
                 restarts>>

\* ... record it, tell the module, close.
Record ==
  /\ releasing
  /\ state' = [state EXCEPT ![asked] = "RELEASED"]
  /\ Identity(owner[asked], "released")
  /\ released' = released \cup {owner[asked]}
  /\ outbox' = Written(asked, "QUARANTINE_RELEASED")
  /\ link' = [link EXCEPT ![asked] = "closed"]
  /\ asked' = 0 /\ releasing' = FALSE
  /\ UNCHANGED <<pos, sessions, quarantined, draining, trustVars, watched, inbox,
                 moduleVars, unrecorded, bounds>>

\* "released" cannot be written: the call fails, the module is not told.
RecordFails ==
  /\ releasing
  /\ Fault
  /\ state' = [state EXCEPT ![asked] = "RELEASED"]
  /\ unrecorded' = unrecorded \cup SerialOf(asked)
  /\ asked' = 0 /\ releasing' = FALSE
  /\ UNCHANGED <<pos, sessions, quarantined, draining, trustVars, watched, wireVars,
                 moduleVars, last, released, restarts>>

------------------------------------------------------------------------------
(***************************************************************************)
(* The watchdog thread: find a silent session, then mark it.               *)
(***************************************************************************)
FindSilent(m) ==
  /\ watched = 0
  /\ sessions[m] # 0
  /\ state[sessions[m]] = "OPERATIONAL"
  /\ watched' = sessions[m]
  /\ UNCHANGED <<hubVars, trustVars, asked, releasing, wireVars, moduleVars, logVars, bounds>>

Degrade ==
  /\ watched # 0
  /\ state' = [state EXCEPT ![watched] = "DEGRADED"]
  /\ Logged(owner[watched], "degraded")
  /\ watched' = 0
  /\ UNCHANGED <<pos, sessions, quarantined, draining, trustVars, asked, releasing,
                 wireVars, moduleVars, released, unrecorded, restarts>>

------------------------------------------------------------------------------
(***************************************************************************)
(* The hub stops or dies, and is started again.                            *)
(***************************************************************************)
Live == {c \in Conn : pos[c] \in {"hello", "role", "serve", "hold"}}

\* What a new process finds: connections of the old one are closed, tables
\* are empty, trust comes from the file.  A release that was under way is not in the
\* evidence.
Restarted ==
  /\ state' = [c \in Conn |-> IF pos[c] = "none" THEN "NONE" ELSE "GONE"]
  /\ pos' = [c \in Conn |-> IF pos[c] = "none" THEN "none" ELSE "done"]
  /\ link' = [c \in Conn |-> IF c \in Live THEN "closed" ELSE link[c]]
  /\ inbox' = [c \in Conn |-> <<>>]
  /\ sessions' = [m \in Module |-> 0]
  /\ quarantined' = [m \in Module |-> 0]
  /\ trusted' = trustFile
  /\ draining' = FALSE
  /\ asked' = 0 /\ releasing' = FALSE
  /\ watched' = 0
  /\ unrecorded' = IF releasing THEN unrecorded \cup SerialOf(asked) ELSE unrecorded
  /\ UNCHANGED <<trustFile, outbox, moduleVars, released, faults>>

\* Hub.stop() announces the end ...
Drain ==
  /\ ~ draining
  /\ restarts < MaxRestarts
  /\ restarts' = restarts + 1
  /\ draining' = TRUE
  /\ UNCHANGED <<state, pos, sessions, quarantined, trustVars, threadVars,
                 wireVars, moduleVars, logVars, faults>>

\* Mutant: the "finally" of a session does not know of draining.
RemovedAtStop(m) == \E c \in Conn : pos[c] \in {"hold", "serve"} /\ owner[c] = m

\* A quarantined session reports its removal when it is cancelled; no other
\* session does.
QuarantineEnded(m) ==
  \E c \in Conn : pos[c] = "hold" /\ state[c] = "QUARANTINED" /\ owner[c] = m

\* ... and the event loop is stopped, which cancels every session.
Stop ==
  /\ draining /\ ~ releasing
  /\ last' = [m \in Module |-> IF QuarantineEnded(m) THEN "removed" ELSE last[m]]
  /\ Restarted
  /\ UNCHANGED restarts

Crash ==
  /\ restarts < MaxRestarts
  /\ restarts' = restarts + 1
  /\ Restarted
  /\ UNCHANGED last

------------------------------------------------------------------------------
(***************************************************************************)
(* A module: dial, say HELLO, take the answer, stay on the line.           *)
(***************************************************************************)
Dial(m) ==
  /\ on[m] = 0
  /\ dialled < MaxConns
  /\ dialled' = dialled + 1
  /\ owner' = [owner EXCEPT ![dialled'] = m]
  /\ link' = [link EXCEPT ![dialled'] = "up"]
  /\ inbox' = [inbox EXCEPT ![dialled'] = <<"HELLO">>]
  /\ state' = [state EXCEPT ![dialled'] = "CONNECTED"]
  /\ pos' = [pos EXCEPT ![dialled'] = "hello"]
  /\ on' = [on EXCEPT ![m] = dialled']
  /\ phase' = [phase EXCEPT ![m] = "hello"]
  /\ UNCHANGED <<sessions, quarantined, draining, trustVars, threadVars, outbox,
                 telems, drops, logVars, bounds>>

\* What a module writes arrives while the link is there.
Sent(c, msg) == IF link[c] = "up" THEN [inbox EXCEPT ![c] = Append(@, msg)] ELSE inbox

\* The answer to HELLO.
Answered(m) ==
  /\ phase[m] = "hello"
  /\ outbox[on[m]] # <<>>
  /\ outbox' = [outbox EXCEPT ![on[m]] = Tail(@)]
  /\ IF Head(outbox[on[m]]) = "HELLO_OK"
     THEN /\ phase' = [phase EXCEPT ![m] = "serving"]
          /\ inbox' = Sent(on[m], "ROLE_OK")
     ELSE /\ phase' = [phase EXCEPT ![m] = "quarantined"]
          /\ UNCHANGED inbox
  /\ UNCHANGED <<hubVars, trustVars, threadVars, link, owner, on, dialled,
                 telems, drops, logVars, bounds>>

\* The health loop writes to the connection as soon as there is one, whether
\* or not the module has been adopted.
Telemetry(m) ==
  /\ phase[m] # "off"
  /\ link[on[m]] = "up"
  /\ telems < MaxTelems
  /\ telems' = telems + 1
  /\ inbox' = Sent(on[m], "TELEM")
  /\ UNCHANGED <<hubVars, trustVars, threadVars, link, outbox, owner, on, phase,
                 dialled, drops, logVars, bounds>>

\* Mutant: the loop dials again with its old writer still in place.
WriterKept(m) ==
  /\ phase' = [phase EXCEPT ![m] = "off"]
  /\ outbox' = [outbox EXCEPT ![on[m]] = <<>>]
  /\ UNCHANGED on

\* The module is done with its connection and with what is still on the way.
HangUp(m) ==
  /\ on' = [on EXCEPT ![m] = 0]
  /\ outbox' = [outbox EXCEPT ![on[m]] = <<>>]
  /\ phase' = [phase EXCEPT ![m] = "off"]

\* The connection has ended, or a quarantined module is told to redial.
ConnectionEnds(m) ==
  /\ phase[m] # "off"
  /\ \/ outbox[on[m]] = <<>> /\ link[on[m]] = "closed" /\ UNCHANGED link
     \/ /\ phase[m] = "quarantined"
        /\ outbox[on[m]] # <<>>
        /\ link' = [link EXCEPT ![on[m]] = "closed"]
  /\ HangUp(m)
  /\ UNCHANGED <<hubVars, trustVars, threadVars, inbox, owner, dialled, telems,
                 drops, logVars, bounds>>

\* No answer within the time limit: the module dials again and leaves the old
\* connection open.
AnswerLate(m) ==
  /\ phase[m] = "hello"
  /\ HangUp(m)
  /\ link' = [link EXCEPT ![on[m]] = IF @ = "up" THEN "lost" ELSE @]
  /\ UNCHANGED <<hubVars, trustVars, threadVars, inbox, owner, dialled, telems,
                 drops, logVars, bounds>>

\* The module restarts or its link breaks; the hub learns of it at once, or
\* the connection stays half open.  What was on the way may be lost.
Drop(m) ==
  /\ phase[m] # "off"
  /\ link[on[m]] = "up"
  /\ drops < MaxDrops
  /\ drops' = drops + 1
  /\ \E fate \in {"lost", "closed"} : link' = [link EXCEPT ![on[m]] = fate]
  /\ \E n \in 0..Len(inbox[on[m]]) : inbox' = [inbox EXCEPT ![on[m]] = SubSeq(@, 1, n)]
  /\ HangUp(m)
  /\ UNCHANGED <<hubVars, trustVars, threadVars, owner, dialled, telems,
                 logVars, bounds>>

\* The hub's side of a half-open connection finds out.
Notice(c) ==
  /\ link[c] = "lost"
  /\ link' = [link EXCEPT ![c] = "closed"]
  /\ UNCHANGED <<hubVars, trustVars, threadVars, inbox, outbox, moduleVars,
                 logVars, bounds>>

------------------------------------------------------------------------------
\* A step of the coroutine of a session: the event loop does one thing at a time.
Session(c) ==
  /\ ~ releasing /\ c \in Live
  /\ \/ HelloMissing(c)
     \/ HelloRaises(c)
     \/ Quarantine(c)
     \/ StartAdoption(c)
     \/ Adopt(c)
     \/ AdoptRaises(c)
     \/ FailAdoption(c)
     \/ Serve(c)
     \/ ServeRaises(c)
     \/ EndServing(c)
     \/ Ignore(c)
     \/ EndQuarantine(c)

Release == Trust \/ TrustFails \/ Record \/ RecordFails

ModuleStep(m) ==
  \/ Dial(m)
  \/ Answered(m)
  \/ Telemetry(m)
  \/ ConnectionEnds(m)
  \/ AnswerLate(m)
  \/ Drop(m)

Next ==
  \/ \E c \in Conn : Session(c) \/ Notice(c)
  \/ \E m \in Module : AskRelease(m) \/ FindSilent(m) \/ ModuleStep(m)
  \/ Release
  \/ Degrade
  \/ Drain
  \/ Stop
  \/ Crash

Spec == Init /\ [][Next]_adoptionVars

\* The event loop takes what can run in turn, and ends what it has begun; its
\* waits for HELLO and for ROLE_OK have time limits.  Nothing obliges a module to do
\* anything.
FairSpec ==
  Spec /\ (\A c \in Conn : SF_adoptionVars(Session(c))) /\ WF_adoptionVars(Record \/ RecordFails)

------------------------------------------------------------------------------
(***************************************************************************)
(* Properties.                                                             *)
(***************************************************************************)
States == {"NONE", "CONNECTED", "VERIFYING", "ADOPTING", "OPERATIONAL", "DEGRADED",
           "QUARANTINED", "RELEASED", "REMOVED", "GONE"}

Awaits == {"none", "hello", "role", "serve", "hold", "done"}

Events == {"none", "hello", "adopting", "adopted", "adoption-failed", "quarantined",
           "released", "degraded", "recovered", "removed"}

\* The types of the state, and what the loop of a module and the counter of
\* connections know of each other.
AdoptionTypeOK ==
  /\ state \in [Conn -> States]
  /\ pos \in [Conn -> Awaits]
  /\ sessions \in [Module -> 0..MaxConns]
  /\ quarantined \in [Module -> 0..MaxConns]
  /\ trusted \subseteq Module
  /\ trustFile \subseteq Module
  /\ draining \in BOOLEAN
  /\ asked \in 0..MaxConns /\ releasing \in BOOLEAN
  /\ (releasing => asked # 0)
  /\ watched \in 0..MaxConns
  /\ owner \in [Conn -> Module]
  /\ link \in [Conn -> {"none", "up", "lost", "closed"}]
  /\ inbox \in [Conn -> Seq({"HELLO", "ROLE_OK", "TELEM"})]
  /\ outbox \in [Conn -> Seq({"HELLO_OK", "QUARANTINE", "QUARANTINE_RELEASED"})]
  /\ on \in [Module -> 0..MaxConns]
  /\ phase \in [Module -> {"off", "hello", "quarantined", "serving"}]
  /\ last \in [Module -> Events]
  /\ released \subseteq Module /\ unrecorded \subseteq Module
  /\ dialled \in 0..MaxConns /\ faults \in Nat
  /\ \A m \in Module : phase[m] = "off" <=> on[m] = 0
  /\ \A c \in Conn : pos[c] = "none" <=> c > dialled

\* A command is accepted only for a session that is OPERATIONAL (commands.py:121).
\* Such a session stands in its read loop, of the module the command is for: a
\* session that ends takes its entry out of the table, or, where its end could not
\* be written, leaves one that no command is accepted for, whatever the watchdog
\* writes into it later.
RoutesLive ==
  \A m \in Module : sessions[m] # 0 =>
    /\ owner[sessions[m]] = m
    /\ \/ pos[sessions[m]] = "serve" /\ state[sessions[m]] \in {"OPERATIONAL", "DEGRADED"}
       \/ pos[sessions[m]] = "done" /\ state[sessions[m]] \in {"REMOVED", "DEGRADED"} /\ faults > 0

\* The same of a release: the table of quarantined modules has no session of
\* another module, and none that was reported removed, however late an older
\* session ends.  (Where QUARANTINE cannot be sent the hold never begins: nobody
\* is reported removed, and the entry of the dead session stays.)
ReleasesLive ==
  \A m \in Module : quarantined[m] # 0 =>
    /\ owner[quarantined[m]] = m
    /\ pos[quarantined[m]] \in {"hold", "done"}
    /\ state[quarantined[m]] # "REMOVED"

\* What a session that is served or held can be, and what the threads that
\* picked it remember of it when they act: a release is never of a session that
\* commands go to.
StagesFit ==
  /\ \A c \in Conn : pos[c] = "serve" => state[c] \in {"OPERATIONAL", "DEGRADED"}
  /\ \A c \in Conn : pos[c] = "hold" => owner[c] \notin Allowed \ OldProto
  /\ asked # 0 => pos[asked] \in {"hold", "done"}
  /\ watched # 0 => pos[watched] \in {"serve", "done"}
  /\ \A m \in Module : sessions[m] # 0 =>
       sessions[m] # asked /\ \A n \in Module : sessions[m] # quarantined[n]

Admitted(m) == m \notin OldProto /\ m \in Allowed \cup released \cup unrecorded

\* Trust, in memory and in the file, comes from releases on record or from one that
\* was cut short or is under way, and so does every session on its way to be
\* adopted or past it.
TrustOnRecord ==
  /\ trusted \cup trustFile \subseteq
       released \cup unrecorded \cup (IF releasing THEN SerialOf(asked) ELSE {})
  /\ \A c \in Conn : pos[c] \in {"role", "serve"} \/ c = watched => Admitted(owner[c])
  /\ releasing => SerialOf(asked) \subseteq trusted \cap trustFile

\* The types of the state, both tables - what a command or a release finds in
\* them is a session it can be meant for - and where trust comes from.
AdoptionInv == AdoptionTypeOK /\ RoutesLive /\ ReleasesLive /\ StagesFit /\ TrustOnRecord

\* "Trust = type allowlist OR a serial previously released" (southbound.py:13),
\* over the whole evidence, across crashes and failing writes: a module that was
\* adopted was allowed, or a human released it and the release is on record, or
\* its call failed or died before its event was written.
AdoptedWasReleased ==
  \A m \in Module : last[m] \in {"adopting", "adopted", "degraded", "recovered"} => Admitted(m)

\* "the serial is trusted persistently" (southbound.py:18): once a release is
\* in the evidence, the serial, if there is one, is recognized by this process and
\* by every later one, wherever the process dies between the two writes.
ReleasedStaysTrusted == released \ NoSerial \subseteq trusted \cap trustFile

\* "a restart must not read as a module loss in the evidence"
\* (southbound.py:153): from the moment Hub.stop() has begun, no module that
\* the hub adopts on sight is reported removed.
RestartIsNotLoss ==
  [][draining => \A m \in Allowed \ OldProto :
       last'[m] = "removed" => last[m] = "removed"]_adoptionVars

\* A session that waits in its handshake, or whose connection has ended.
Waits(c) == pos[c] \in {"hello", "role"} \/ (link[c] = "closed" /\ pos[c] # "done")

\* No session is stuck: every one leaves its handshake, whatever the module and the
\* network do, since the waits have time limits; and the end of a connection is
\* noticed by its session, whatever the session is doing, and ends it.
SessionsEnd == \A c \in Conn : []<> ~ Waits(c)

\* "Every transition is an identity envelope - the swap history IS the log"
\* (southbound.py:20): a module whose last word in the log is "removed" is not
\* served.  This is not so: the late end of an old session says it of a module
\* that has been adopted again.
LogIsHistory ==
  \A m \in Module : last[m] = "removed" => \A c \in Conn : owner[c] = m => pos[c] # "serve"
==============================================================================
