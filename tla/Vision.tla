-------------------------------- MODULE Vision --------------------------------
(***************************************************************************)
(* The vision profile: a camera (uii_vision/campod.py), the store of its   *)
(* frames, and the two places of the hub that measure them                 *)
(* (uii_vision/interpreter.py): the interpreter of the results of          *)
(* commands, on the event loop, and FoamService, a thread that follows the *)
(* stream.  Both work on one ModuleVision: the baseline, and whether a new *)
(* one is required.                                                        *)
(*                                                                         *)
(* A frame is a number; the view it shows is how often the camera had been *)
(* moved.  Every frame is sharp enough: permitted_use() only takes away.   *)
(* What has no part in this is left out: which region it is,               *)
(* acknowledgements, health, the cadence and the exposure.                 *)
(***************************************************************************)
EXTENDS Naturals, Sequences, FiniteSets, SequencesExt

CONSTANTS
  Cmd,         \* commands the hub sends
  NoCmd,       \* none
  TypeOf,      \* what each asks for
  RingCap,     \* messages the camera keeps without a connection (500 in the code)
  QueueCap,    \* capacity of the subscription (1000 in the code)
  MaxSent,     \* bound: commands sent
  MaxFrames,   \* bound: frames taken
  MaxTroubles  \* bound: broken connections, restarts, frames that are gone

CmdType == {"capture", "re_baseline", "set_region", "ptz"}

ASSUME VisionAssumption ==
  /\ NoCmd \notin Cmd
  /\ TypeOf \in [Cmd -> CmdType]
  /\ RingCap \in Nat \ {0} /\ QueueCap \in Nat \ {0}
  /\ {MaxSent, MaxFrames, MaxTroubles} \subseteq Nat

VARIABLES
  \* the camera
  view,      \* how often it has been moved
  frames,    \* the frames, each with its view and the command it belongs to
  task,      \* where the task of each command is
  role,      \* the camera has been adopted before
  conn,      \* its connection
  ring,      \* what it keeps
  wire,      \* what it has sent
  \* the hub
  mv,        \* the ModuleVision
  queue,     \* the subscription of FoamService
  svc,       \* its thread
  \* the evidence
  coverage,  \* the foam_coverage observations of each frame: the use they permit
  heard,     \* commands with a result
  \* history
  unheard,   \* commands whose result was lost
  forgot,    \* the hub was not told of a move, or has forgotten it
  \* bounded counter
  troubles

cameraVars == <<view, frames, task, role>>
linkVars == <<conn, ring, wire>>
serviceVars == <<queue, svc>>
logVars == <<coverage, heard>>
historyVars == <<unheard, forgot>>
vars == <<cameraVars, linkVars, mv, serviceVars, logVars, historyVars, troubles>>

Frame == 1..MaxFrames

\* ModuleVision as get() makes it.
Fresh == [known |-> FALSE, base |-> 0, required |-> FALSE]

Idle == [at |-> "idle", frame |-> 0]

Init ==
  /\ view = 0 /\ frames = <<>>
  /\ task = [c \in Cmd |-> "new"]
  /\ role = FALSE
  /\ conn = "down" /\ ring = <<>> /\ wire = <<>>
  /\ mv = Fresh
  /\ queue = <<>> /\ svc = Idle
  /\ coverage = [f \in Frame |-> <<>>]
  /\ heard = {}
  /\ unheard = {} /\ forgot = FALSE
  /\ troubles = 0

------------------------------------------------------------------------------
(***************************************************************************)
(* What the camera says.                                                   *)
(***************************************************************************)
Told(f, c) == [type |-> "frame", cmd |-> c, frame |-> f]
Result(c, f) == [type |-> "result", cmd |-> c, frame |-> f]
Failure(c) == [type |-> "failed", cmd |-> c, frame |-> 0]

\* Messages that nobody will read.
Lost(msgs) ==
  LET gone == {m.cmd : m \in {x \in ToSet(msgs) : x.type # "frame"}} IN
  /\ unheard' = unheard \cup gone
  /\ forgot' = (forgot \/ \E c \in gone : TypeOf[c] = "ptz")

\* Mutant: the ring has no limit.
KeptAll(msgs) == ring \o msgs

\* The ring keeps the newest.
Kept(msgs) ==
  LET all == ring \o msgs IN
  SubSeq(all, IF Len(all) > RingCap THEN Len(all) - RingCap + 1 ELSE 1, Len(all))

PushedOut(msgs) ==
  LET all == ring \o msgs IN SubSeq(all, 1, Len(all) - Len(Kept(msgs)))

\* telem() and send(): written, or kept for later.  What is written before the
\* hub has taken the camera is read in the place of ROLE_OK: the adoption fails.
\* In quarantine the hub ignores what it reads.
Say(msgs) ==
  \/ /\ conn = "served"
     /\ wire' = wire \o msgs
     /\ UNCHANGED <<conn, ring, unheard, forgot>>
  \/ /\ conn = "down"
     /\ ring' = Kept(msgs)
     /\ Lost(PushedOut(msgs))
     /\ UNCHANGED <<conn, wire>>
  \/ /\ conn \in {"hello", "spoiled"}
     /\ conn' = "spoiled"
     /\ Lost(msgs)
     /\ UNCHANGED <<ring, wire>>
  \/ /\ conn = "held"
     /\ Lost(msgs)
     /\ UNCHANGED linkVars

\* A frame is grabbed and stored, and then becomes a fact.
Next_ == Len(frames) + 1

Grab(c) ==
  /\ Next_ \in Frame
  /\ frames' = Append(frames, [view |-> view, cmd |-> c])

------------------------------------------------------------------------------
(***************************************************************************)
(* The camera: one event loop, an action is what happens between awaits.   *)
(***************************************************************************)
\* cadence_loop(): from its first adoption on, connected or not.
Stream ==
  /\ role
  /\ Grab(NoCmd)
  /\ Say(<<Told(Next_, NoCmd)>>)
  /\ UNCHANGED <<view, task, role, mv, serviceVars, logVars, troubles>>

\* execute(): acknowledged.  Nothing sets busy: commands interleave.
Begin(c) ==
  /\ conn = "served" /\ task[c] = "new"
  /\ Cardinality({d \in Cmd : task[d] # "new"}) < MaxSent
  /\ task' = [task EXCEPT ![c] = "begun"]
  /\ UNCHANGED <<view, frames, role, linkVars, mv, serviceVars, logVars, historyVars, troubles>>

\* The frame of a capture, and its progress.
Shoot(c) ==
  /\ task[c] = "begun" /\ TypeOf[c] = "capture"
  /\ task' = [task EXCEPT ![c] = "shot"]
  /\ Grab(c)
  /\ Say(<<Told(Next_, c)>>)
  /\ UNCHANGED <<view, role, mv, serviceVars, logVars, troubles>>

FrameOf(c) == CHOOSE f \in DOMAIN frames : frames[f].cmd = c

Captured(c) ==
  /\ task[c] = "shot"
  /\ task' = [task EXCEPT ![c] = "over"]
  /\ Say(<<Result(c, FrameOf(c))>>)
  /\ UNCHANGED <<view, frames, role, mv, serviceVars, logVars, troubles>>

\* The reference frame and the result are one step.
Rebaseline(c) ==
  /\ task[c] = "begun" /\ TypeOf[c] = "re_baseline"
  /\ task' = [task EXCEPT ![c] = "over"]
  /\ Grab(c)
  /\ Say(<<Told(Next_, c), Result(c, Next_)>>)
  /\ UNCHANGED <<view, role, mv, serviceVars, logVars, troubles>>

\* Mutant: the error ends the task.
Silent(c) == <<>>

\* A grab that fails fails the command.
Failed(c) == <<Failure(c)>>

GrabFails(c) ==
  /\ task[c] = "begun" /\ TypeOf[c] \in {"capture", "re_baseline"}
  /\ task' = [task EXCEPT ![c] = "over"]
  /\ Say(Failed(c))
  /\ UNCHANGED <<view, frames, role, mv, serviceVars, logVars, troubles>>

\* The camera echoes a region; a move is a move.
Configure(c) ==
  /\ task[c] = "begun" /\ TypeOf[c] \in {"set_region", "ptz"}
  /\ task' = [task EXCEPT ![c] = "over"]
  /\ view' = IF TypeOf[c] = "ptz" THEN view + 1 ELSE view
  /\ Say(<<Result(c, 0)>>)
  /\ UNCHANGED <<frames, role, mv, serviceVars, logVars, troubles>>

\* HELLO.
Dial ==
  /\ conn = "down"
  /\ conn' = "hello"
  /\ UNCHANGED <<cameraVars, ring, wire, mv, serviceVars, logVars, historyVars, troubles>>

\* HELLO_OK: ROLE_OK, then what was kept.
Adopted ==
  /\ conn = "hello"
  /\ conn' = "served"
  /\ role' = TRUE
  /\ wire' = wire \o ring
  /\ ring' = <<>>
  /\ UNCHANGED <<view, frames, task, mv, serviceVars, logVars, historyVars, troubles>>

\* HELLO_OK for an adoption that fails: what was kept goes where nobody reads.
AdoptedInVain ==
  /\ conn = "spoiled"
  /\ conn' = "down"
  /\ role' = TRUE
  /\ ring' = <<>>
  /\ Lost(ring)
  /\ UNCHANGED <<view, frames, task, wire, mv, serviceVars, logVars, troubles>>

\* QUARANTINE, and its release.
Quarantined ==
  /\ \/ conn = "hello" /\ conn' = "held"
     \/ conn = "held" /\ conn' = "down"
  /\ UNCHANGED <<cameraVars, ring, wire, mv, serviceVars, logVars, historyVars, troubles>>

\* The connection breaks; the hub still reads some of what was sent.  An append
\* that fails ends the session as well, and the message is lost.
Break ==
  /\ conn \in {"hello", "held", "served"} /\ troubles < MaxTroubles
  /\ conn' = "down"
  /\ \E n \in 0..Len(wire) :
       /\ wire' = SubSeq(wire, 1, n)
       /\ Lost(SubSeq(wire, n + 1, Len(wire)))
  /\ troubles' = troubles + 1
  /\ UNCHANGED <<cameraVars, ring, mv, serviceVars, logVars>>


------------------------------------------------------------------------------
(***************************************************************************)
(* The hub: what the session reads, and the interpreter of results.        *)
(***************************************************************************)
Heard == Head(wire)

Hears(type) ==
  /\ wire # <<>> /\ Heard.type = type
  /\ wire' = Tail(wire)

\* A frame is a fact on record, and goes to the subscription.
HearFrame ==
  /\ Hears("frame")
  /\ queue' = IF Len(queue) < QueueCap THEN Append(queue, Heard.frame) ELSE queue
  /\ UNCHANGED <<cameraVars, conn, ring, mv, svc, logVars, historyVars, troubles>>

\* interpret_frame(): what is seen in a frame is fit for use unless a baseline is
\* required.
Measure(f) ==
  coverage' = [coverage EXCEPT ![f] = Append(@, IF mv.required THEN "none" ELSE "reporting")]

\* The frame is not in the blob store: frame-missing is on record.
Gone(f) ==
  /\ troubles < MaxTroubles
  /\ troubles' = troubles + 1
  /\ UNCHANGED coverage

\* Mutant: a move does not require a new baseline.
Moved == mv.required

RequiredAfterMove == TRUE

Interpret(c) ==
  \/ /\ TypeOf[c] = "capture"
     /\ mv' = [mv EXCEPT !.known = TRUE]
     /\ \/ Measure(Heard.frame) /\ UNCHANGED troubles
        \/ Gone(Heard.frame)
  \/ /\ TypeOf[c] = "re_baseline"
     /\ mv' = [known |-> TRUE, base |-> Heard.frame, required |-> FALSE]
     /\ UNCHANGED <<coverage, troubles>>
  \/ /\ TypeOf[c] = "set_region"
     /\ mv' = [mv EXCEPT !.known = TRUE, !.required = TRUE]
     /\ UNCHANGED <<coverage, troubles>>
  \/ /\ TypeOf[c] = "ptz"
     /\ mv' = [mv EXCEPT !.known = TRUE, !.required = RequiredAfterMove]
     /\ UNCHANGED <<coverage, troubles>>

HearResult ==
  /\ Hears("result")
  /\ heard' = heard \cup {Heard.cmd}
  /\ Interpret(Heard.cmd)
  /\ UNCHANGED <<cameraVars, conn, ring, serviceVars, unheard, forgot>>

\* A command that failed is not interpreted.
HearFailure ==
  /\ Hears("failed")
  /\ heard' = heard \cup {Heard.cmd}
  /\ UNCHANGED <<cameraVars, conn, ring, mv, serviceVars, coverage, historyVars, troubles>>

------------------------------------------------------------------------------
(***************************************************************************)
(* FoamService: one envelope at a time.                                    *)
(***************************************************************************)
\* Mutant: frames of commands are measured as well.
OwnsAll(f) == TRUE

\* A frame that belongs to a command is the interpreter's.
Owns(f) == frames[f].cmd = NoCmd

Take ==
  /\ svc.at = "idle" /\ queue # <<>>
  /\ queue' = Tail(queue)
  /\ svc' = IF Owns(Head(queue))
            THEN [at |-> IF mv.known THEN "measure" ELSE "create", frame |-> Head(queue)]
            ELSE Idle
  /\ UNCHANGED <<cameraVars, linkVars, mv, logVars, historyVars, troubles>>

\* get() found no ModuleVision.  One the event loop has made since is replaced,
\* and what it knew is forgotten.
Create ==
  /\ svc.at = "create"
  /\ svc' = [svc EXCEPT !.at = "measure"]
  /\ mv' = [Fresh EXCEPT !.known = TRUE]
  /\ forgot' = (forgot \/ mv.known)
  /\ UNCHANGED <<cameraVars, linkVars, queue, logVars, unheard, troubles>>

Note ==
  /\ svc.at = "measure"
  /\ svc' = Idle
  /\ \/ Measure(svc.frame) /\ UNCHANGED troubles
     \/ Gone(svc.frame)     \* or an error, which is counted
  /\ UNCHANGED <<cameraVars, linkVars, mv, queue, heard, historyVars>>

\* The hub is restarted: what it knew of the camera was in memory.
Restart ==
  /\ troubles < MaxTroubles
  /\ conn' = "down" /\ wire' = <<>>
  /\ LET gone == {m.cmd : m \in {x \in ToSet(wire) : x.type # "frame"}} IN
     unheard' = unheard \cup gone
  /\ mv' = Fresh
  /\ queue' = <<>> /\ svc' = Idle
  /\ forgot' = TRUE
  /\ troubles' = troubles + 1
  /\ UNCHANGED <<cameraVars, ring, logVars>>

------------------------------------------------------------------------------
Task(c) ==
  \/ Shoot(c) \/ Captured(c) \/ Rebaseline(c) \/ GrabFails(c) \/ Configure(c)

Link == Dial \/ Adopted \/ AdoptedInVain \/ Quarantined
Hear == HearFrame \/ HearResult \/ HearFailure
Service == Take \/ Create \/ Note

Next ==
  \/ Stream \/ \E c \in Cmd : Begin(c) \/ Task(c)
  \/ Link \/ Break
  \/ Hear \/ Service
  \/ Restart

Spec == Init /\ [][Next]_vars

\* Both event loops go on.
FairSpec ==
  Spec /\ (\A c \in Cmd : WF_vars(Task(c))) /\ WF_vars(Link) /\ SF_vars(Adopted) /\ WF_vars(Hear)

------------------------------------------------------------------------------
(***************************************************************************)
(* Properties.                                                             *)
(***************************************************************************)
Message == [type : {"frame", "result", "failed"}, cmd : Cmd \cup {NoCmd}, frame : 0..MaxFrames]

VisionTypeOK ==
  /\ view \in Nat /\ role \in BOOLEAN
  /\ frames \in Seq([view : 0..view, cmd : Cmd \cup {NoCmd}]) /\ Len(frames) <= MaxFrames
  /\ task \in [Cmd -> {"new", "begun", "shot", "over"}]
  /\ conn \in {"down", "hello", "spoiled", "held", "served"}
  /\ {ring, wire} \subseteq Seq(Message)
  /\ Len(ring) <= RingCap /\ (conn = "served" => ring = <<>>)
  /\ mv \in [known : BOOLEAN, base : 0..Len(frames), required : BOOLEAN]
  /\ ~mv.known => mv = Fresh
  /\ queue \in Seq(1..Len(frames)) /\ Len(queue) <= QueueCap
  /\ svc \in [at : {"idle", "create", "measure"}, frame : 0..Len(frames)]
  /\ (svc.at = "idle") = (svc.frame = 0)
  /\ coverage \in [Frame -> Seq({"none", "reporting"})]
  /\ {heard, unheard} \subseteq SUBSET Cmd
  /\ forgot \in BOOLEAN /\ troubles \in Nat

\* What the camera has said and the hub has not read, in the order it was said.
Way == wire \o ring

\* A message is true of the camera: a frame is of the command it is said to be
\* of, an answer is the last that is heard of its command.
Fits(m) ==
  /\ m.frame <= Len(frames)
  /\ m.type = "frame" => m.frame # 0 /\ frames[m.frame].cmd = m.cmd
  /\ m.type # "frame" => m.cmd \in Cmd /\ task[m.cmd] = "over"
  /\ m.type = "result" /\ TypeOf[m.cmd] \in {"capture", "re_baseline"} =>
       m.frame # 0 /\ frames[m.frame].cmd = m.cmd

MessagesFit == \A i \in 1..Len(Way) : Fits(Way[i])

\* A command takes one frame at most.
OwnFrame ==
  /\ \A c \in Cmd :
       /\ task[c] \in {"new", "begun"} => \A f \in 1..Len(frames) : frames[f].cmd # c
       /\ task[c] = "shot" => TypeOf[c] = "capture" /\ \E f \in 1..Len(frames) : frames[f].cmd = c
  /\ \A f, g \in 1..Len(frames) :
       frames[f].cmd = frames[g].cmd => f = g \/ frames[f].cmd = NoCmd

\* A command is answered once: its answer is on the way, heard or lost.
OneAnswer ==
  /\ \A i, j \in 1..Len(Way) :
       Way[i].type # "frame" /\ Way[j].type # "frame" /\ Way[i].cmd = Way[j].cmd => i = j
  /\ \A i \in 1..Len(Way) : Way[i].type # "frame" => Way[i].cmd \notin heard \cup unheard
  /\ \A c \in heard \cup unheard : task[c] = "over"
  /\ heard \cap unheard = {}

\* Frames stay in the order they were taken, on the way, in the subscription and
\* in the hands of the service, which works on frames of no command.
FramesInOrder ==
  /\ \A i, j \in 1..Len(Way) :
       i < j /\ Way[i].type = "frame" /\ Way[j].type = "frame" => Way[i].frame < Way[j].frame
  /\ \A k, n \in 1..Len(queue) : k < n => queue[k] < queue[n]
  /\ \A k \in 1..Len(queue) : svc.frame < queue[k]
  /\ \A i \in 1..Len(Way) : Way[i].type = "frame" =>
       svc.frame < Way[i].frame /\ \A k \in 1..Len(queue) : queue[k] < Way[i].frame
  /\ svc.frame # 0 => frames[svc.frame].cmd = NoCmd

\* The frames FoamService may still measure.
ToMeasure ==
  ({svc.frame} \cup {queue[k] : k \in 1..Len(queue)}
     \cup {Way[i].frame : i \in {n \in 1..Len(Way) : Way[n].type = "frame"}}) \ {0}

\* One frame, one interpretation: however a frame arrives, the interpreter of
\* results and FoamService do not both measure it.
OneInterpretation ==
  \A f \in Frame : Len(coverage[f]) <= 1

\* A frame that was measured is not measured again: the command it belongs to is
\* answered, or nobody has it any more.
Unmeasured ==
  \A f \in Frame : coverage[f] # <<>> =>
    /\ f <= Len(frames)
    /\ frames[f].cmd # NoCmd => frames[f].cmd \in heard
    /\ frames[f].cmd = NoCmd => f \notin ToMeasure

ViewOf(f) == IF f = 0 THEN 0 ELSE frames[f].view

\* The camera only moves on.
ViewsGrow == \A f, g \in 1..Len(frames) : f <= g => frames[f].view <= frames[g].view

IsMove(m) == m.type = "result" /\ TypeOf[m.cmd] = "ptz"
IsBase(m) == m.type = "result" /\ TypeOf[m.cmd] = "re_baseline"

\* The baselines: the one in force, at place 0, and those on the way.
BaseAt(i) == IF i = 0 THEN ~mv.required ELSE IsBase(Way[i])
BaseView(i) == IF i = 0 THEN ViewOf(mv.base) ELSE ViewOf(Way[i].frame)

\* The views: of what is on the way, and the one of now, at the place after it.
SeenView(i) == IF i > Len(Way) THEN view ELSE ViewOf(Way[i].frame)

\* Between a baseline and a frame of a later view there is the word of a move; what
\* was said before a baseline, or has been heard, is of no later view than it.
MovesAreTold ==
  ~forgot => \A i \in 0..Len(Way) : BaseAt(i) =>
    /\ \A j \in (i + 1)..(Len(Way) + 1) :
         SeenView(j) <= BaseView(i) \/ \E k \in (i + 1)..(j - 1) : IsMove(Way[k])
    /\ \A j \in 1..(i - 1) : SeenView(j) <= BaseView(i)
    /\ \A k \in 1..Len(queue) : ViewOf(queue[k]) <= BaseView(i)
    /\ ViewOf(svc.frame) <= BaseView(i)

\* The types of the state, what is on record of the frames, and what is on its
\* way to be.
VisionInv ==
  /\ VisionTypeOK
  /\ MessagesFit
  /\ OwnFrame
  /\ OneAnswer
  /\ FramesInOrder
  /\ OneInterpretation
  /\ Unmeasured
  /\ ViewsGrow
  /\ MovesAreTold

\* A frame is found fit for use.
FoundFit(f) == coverage'[f] # coverage[f] /\ Last(coverage'[f]) # "none"

\* A frame taken after the camera was moved is not fit for use before there is
\* a baseline of that view or a later one, whichever thread measures it and
\* however commands, stream and broken connections interleave: as long as the
\* hub was told of every move, and remembers it.
NeverBehind ==
  [][\A f \in Frame : FoundFit(f) => forgot \/ ViewOf(mv.base) >= frames[f].view]_vars

\* A command the camera has begun has its result on record in the end, unless
\* the connection broke over it or the ring was too small.
Answered == \A c \in Cmd : task[c] = "begun" ~> c \in heard \cup unheard
==============================================================================
