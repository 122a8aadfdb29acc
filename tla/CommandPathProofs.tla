--------------------------- MODULE CommandPathProofs ---------------------------
(***************************************************************************)
(* What holds of the way of a command for any number of commands, any ring *)
(* and any bounds: the types of its state, that a module runs one command  *)
(* at a time, that a hub that stays up drops none, and that the answer of  *)
(* the module becomes one result.                                          *)
(***************************************************************************)
EXTENDS CommandPath, SequenceTheorems, FiniteSetTheorems, TLAPS

(***************************************************************************)
(* Messages.                                                               *)
(***************************************************************************)
Answers == {"ACK", "NAK", "RESULT"} \X Cmd

LEMMA AnswerTypes == Answers \subseteq FromModule
  BY DEF Answers, FromModule

LEMMA RoleOkType == <<"ROLE_OK">> \in FromModule
  BY DEF FromModule

LEMMA HelloOkType == <<"HELLO_OK">> \in ToModule
  BY DEF ToModule

LEMMA CmdType == ASSUME NEW c \in Cmd PROVE <<"CMD", c>> \in ToModule
  BY DEF ToModule

\* An answer that ends a command names it.
LEMMA EndingAnswer ==
  ASSUME NEW msg \in FromModule, msg[1] \in {"NAK", "RESULT"}
  PROVE  msg[2] \in Cmd
  <1>1. CASE msg = <<"ROLE_OK">>
    <2>1. msg[1] = "ROLE_OK"
      BY <1>1
    <2> QED
      BY <2>1
  <1>2. CASE msg \in {"ACK", "NAK", "RESULT"} \X Cmd
    BY <1>2
  <1> QED
    BY <1>1, <1>2 DEF FromModule

LEMMA CommandMessage ==
  ASSUME NEW msg \in ToModule, msg[1] # "HELLO_OK"
  PROVE  msg[2] \in Cmd
  <1>1. CASE msg = <<"HELLO_OK">>
    <2>1. msg[1] = "HELLO_OK"
      BY <1>1
    <2> QED
      BY <2>1
  <1>2. CASE msg \in {"CMD"} \X Cmd
    BY <1>2
  <1> QED
    BY <1>1, <1>2 DEF ToModule

(***************************************************************************)
(* Types, one lemma for each part of the state.                            *)
(***************************************************************************)
EvidenceTypes ==
  /\ logged \subseteq Cmd
  /\ losses \in [Cmd -> Nat]
  /\ verdicts \in [Cmd -> Nat]

HubTypes ==
  /\ gw \in [Cmd -> {"new", "dispatching", "overdue", "draining", "late", "lost", "done"}]
  /\ session \in {"none", "role", "serve"}
  /\ inflight \subseteq logged
  /\ session # "serve" => inflight = {}

WireTypes ==
  /\ link \in {"up", "cut", "closed"}
  /\ toHub \in Seq(FromModule)
  /\ toModule \in Seq(ToModule)

ModuleTypes ==
  /\ writer \in {"none", "hello", "serving"}
  /\ ring \in Seq(Answers)
  /\ busy \in Cmd \cup {NoCmd}
  /\ run \in [Cmd -> {"none", "task", "accepted", "running", "answered", "over"}]

LEMMA TypesSplit == PathTypeOK <=> EvidenceTypes /\ HubTypes /\ WireTypes /\ ModuleTypes
  BY Zenon DEF PathTypeOK, EvidenceTypes, HubTypes, WireTypes, ModuleTypes, Answers

LEMMA InitInv == Init => PathInv
  <1> SUFFICES ASSUME Init PROVE PathInv
    OBVIOUS
  <1>1. EvidenceTypes /\ HubTypes
    BY DEF Init, EvidenceTypes, HubTypes
  <1>2. WireTypes /\ ModuleTypes
    BY EmptySeq DEF Init, WireTypes, ModuleTypes
  <1>3. GatewayInv /\ HelloFirst /\ BusyInv /\ NoOrphan
    BY DEF Init, GatewayInv, HelloFirst, BusyInv, NoOrphan
  <1>4. \A c \in Cmd : Places(c) = {<<"gateway", 1>>}
    <2> SUFFICES ASSUME NEW c \in Cmd PROVE Places(c) = {<<"gateway", 1>>}
      OBVIOUS
    <2>1. At(<<>>, {<<"CMD", c>>}) = {} /\ At(<<>>, Ending(c)) = {}
      BY DEF At
    <2>2. gw[c] = "new" /\ run[c] = "none" /\ verdicts[c] = 0
          /\ toModule = <<>> /\ ring = <<>> /\ toHub = <<>>
      BY DEF Init
    <2>3. 1..verdicts[c] = {}
      BY <2>2
    <2> QED
      BY <2>1, <2>2, <2>3 DEF Places
  <1>5. OnePlace
    BY <1>4 DEF OnePlace
  <1>6. CalmInv
    BY DEF Init, CalmInv
  <1> QED
    BY <1>1, <1>2, <1>3, <1>5, <1>6, TypesSplit DEF PathInv

\* The head of what is on its way is a message.
LEMMA HeadTypes ==
  ASSUME WireTypes
  PROVE  /\ toHub # <<>> => Head(toHub) \in FromModule /\ Tail(toHub) \in Seq(FromModule)
         /\ toModule # <<>> => Head(toModule) \in ToModule /\ Tail(toModule) \in Seq(ToModule)
  BY HeadTailProperties DEF WireTypes

\* What does not touch a part of the state leaves its types.
LEMMA TaskFrame ==
  ASSUME NEW c \in Cmd, Task(c)
  PROVE  UNCHANGED <<evidenceVars, hubVars, link, toModule, boundVars>>
  BY DEF Task, Refuse, Begin, Acknowledge, Finish, Free, wireVars

LEMMA EvidenceStep ==
  ASSUME PathTypeOK, [Next]_pathVars
  PROVE  EvidenceTypes'
  <1>t. EvidenceTypes /\ HubTypes /\ WireTypes
    BY TypesSplit
  <1>1. CASE UNCHANGED evidenceVars
    BY <1>1, <1>t DEF evidenceVars, EvidenceTypes
  <1>2. ASSUME NEW c \in Cmd,
               Submit(c) \/ Gateway(c) \/ DispatchTimeout(c) \/ LoopStall(c) \/ Task(c)
        PROVE  EvidenceTypes'
    <2>1. CASE Submit(c)
      BY <2>1, <1>t DEF Submit, EvidenceTypes
    <2>2. CASE ReportLost(c)
      BY <2>2, <1>t DEF ReportLost, EvidenceTypes
    <2> QED
      BY <1>1, <1>2, <2>1, <2>2, TaskFrame
      DEF Gateway, Sent, NotSent, SendStuck, StuckSendFails, DispatchTimeout, LoopStall
  <1>3. CASE Handle
    <2>1. CASE Head(toHub)[1] \in {"NAK", "RESULT"}
      <3>1. Head(toHub)[2] \in Cmd
        BY <1>3, <2>1, <1>t, HeadTypes, EndingAnswer DEF Handle
      <3> QED
        BY <1>3, <2>1, <3>1, <1>t DEF Handle, EvidenceTypes
    <2>2. CASE Head(toHub)[1] \notin {"NAK", "RESULT"}
      BY <1>3, <2>2, <1>t DEF Handle, EvidenceTypes
    <2> QED
      BY <2>1, <2>2
  <1>4. CASE EndSession
    BY <1>4, <1>t DEF EndSession, Reported, EvidenceTypes
  <1>5. CASE HubRestart
    BY <1>5, <1>t DEF HubRestart, LossesAtRestart, EvidenceTypes
  <1> QED
    BY <1>1, <1>2, <1>3, <1>4, <1>5
    DEF Next, Session, RoleOk, AdoptionFails, Connection, Dial, AnswerHelloOk, Receive,
        LoseWriter, Reboot, Blip, Notice, pathVars

LEMMA HubStep ==
  ASSUME PathTypeOK, GatewayInv, [Next]_pathVars
  PROVE  HubTypes'
  <1>t. EvidenceTypes /\ HubTypes
    BY TypesSplit
  <1>1. CASE UNCHANGED <<logged, hubVars>>
    BY <1>1, <1>t DEF hubVars, HubTypes
  <1>2. ASSUME NEW c \in Cmd,
               Submit(c) \/ Gateway(c) \/ DispatchTimeout(c) \/ LoopStall(c)
        PROVE  HubTypes'
    <2>1. \E to \in {"dispatching", "overdue", "draining", "late", "lost", "done"} :
            gw' = [gw EXCEPT ![c] = to]
      BY <1>2 DEF Submit, Gateway, Sent, NotSent, SendStuck, StuckSendFails, ReportLost,
         DispatchTimeout, LoopStall, GatewayAt
    <2>2. session' = session
      BY <1>2 DEF Submit, Gateway, Sent, NotSent, SendStuck, StuckSendFails, ReportLost,
         DispatchTimeout, LoopStall, hubVars
    <2>3. inflight' \subseteq logged'
      <3>1. CASE Sent(c) \/ SendStuck(c)
        <4>1. c \in logged
          BY <3>1, <1>t DEF Sent, SendStuck, GatewayAt, GatewayInv
        <4> QED
          BY <3>1, <4>1, <1>t DEF Sent, SendStuck, Tracked, HubTypes, evidenceVars
      <3> QED
        BY <1>2, <3>1, <1>t DEF Submit, Gateway, NotSent, StuckSendFails, ReportLost,
           DispatchTimeout, LoopStall, evidenceVars, HubTypes
    <2>4. session' # "serve" => inflight' = {}
      BY <1>2, <1>t DEF Submit, Gateway, Sent, NotSent, SendStuck, StuckSendFails, ReportLost,
         DispatchTimeout, LoopStall, HubTypes
    <2> QED
      BY <2>1, <2>2, <2>3, <2>4, <1>t DEF HubTypes
  <1>3. CASE Session
    BY <1>3, <1>t DEF Session, RoleOk, AdoptionFails, Handle, EndSession, Cleared, HubTypes,
       evidenceVars
  <1>4. CASE Connection
    BY <1>1, <1>4, <1>t DEF Connection, Dial, AnswerHelloOk, Receive, LoseWriter, HubTypes,
       evidenceVars, hubVars
  <1>5. CASE HubRestart
    BY <1>5, <1>t DEF HubRestart, HubTypes
  <1> QED
    BY <1>1, <1>2, <1>3, <1>4, <1>5, TaskFrame
    DEF Next, Reboot, Blip, Notice, pathVars, evidenceVars

\* What the module sends is an answer, and stays one in the ring.
LEMMA BufferedType ==
  ASSUME ring \in Seq(Answers), NEW msg \in Answers
  PROVE  Buffered(msg) \in Seq(Answers)
  <1>1. /\ Append(ring, msg) \in Seq(Answers)
        /\ Append(ring, msg) # <<>>
    BY AppendProperties, EmptySeq
  <1>2. Tail(Append(ring, msg)) \in Seq(Answers)
    BY <1>1, HeadTailProperties
  <1> QED
    BY <1>1, <1>2 DEF Buffered

LEMMA SendTypes ==
  ASSUME PathTypeOK, NEW msg \in Answers, Send(msg)
  PROVE  /\ toHub' \in Seq(FromModule)
         /\ ring' \in Seq(Answers)
         /\ writer' \in {"none", "hello", "serving"}
  <1>t. WireTypes /\ ModuleTypes
    BY TypesSplit
  <1>1. Append(toHub, msg) \in Seq(FromModule)
    BY <1>t, AnswerTypes, AppendProperties DEF WireTypes
  <1>2. Buffered(msg) \in Seq(Answers)
    BY <1>t, BufferedType DEF ModuleTypes
  <1> QED
    BY <1>1, <1>2, <1>t DEF Send, WireTypes, ModuleTypes

\* The four answers of a task.
LEMMA TaskSends ==
  ASSUME NEW c \in Cmd, Task(c)
  PROVE  \/ \E msg \in Answers : Send(msg)
         \/ UNCHANGED <<toHub, ring, writer>>
  <1>1. \A t \in {"ACK", "NAK", "RESULT"} : <<t, c>> \in Answers
    BY DEF Answers
  <1> QED
    BY <1>1 DEF Task, Refuse, Begin, Acknowledge, Finish, Free, wireVars

\* A prefix of a sequence of messages.
LEMMA PrefixType ==
  ASSUME NEW S, NEW s \in Seq(S), NEW n \in 0..Len(s)
  PROVE  /\ SubSeq(s, 1, n) \in Seq(S)
         /\ Len(SubSeq(s, 1, n)) = n
         /\ \A i \in 1..n : SubSeq(s, 1, n)[i] = s[i]
  <1>1. Len(s) \in Nat /\ n \in Nat /\ 1 \in 1..Len(s) + 1 /\ n \in 0..Len(s)
    BY LenProperties
  <1>2. SubSeq(s, 1, n) = [i \in 1..n |-> s[i]]
    BY <1>1
  <1>3. \A i \in 1..n : s[i] \in S
    BY <1>1, ElementOfSeq
  <1>4. SubSeq(s, 1, n) \in [1..n -> S]
    BY <1>2, <1>3
  <1> QED
    BY <1>1, <1>2, <1>4, SeqDef, LenProperties

LEMMA WireStep ==
  ASSUME PathTypeOK, [Next]_pathVars
  PROVE  WireTypes'
  <1>t. WireTypes /\ ModuleTypes
    BY TypesSplit
  <1>e. <<>> \in Seq(FromModule) /\ <<>> \in Seq(ToModule)
    BY EmptySeq
  <1>1. CASE UNCHANGED wireVars
    BY <1>1, <1>t DEF wireVars, WireTypes
  <1>2. ASSUME NEW c \in Cmd,
               Submit(c) \/ Gateway(c) \/ DispatchTimeout(c) \/ LoopStall(c)
        PROVE  WireTypes'
    <2>1. CASE Sent(c)
      <3>1. Append(toModule, <<"CMD", c>>) \in Seq(ToModule)
        BY <1>t, CmdType, AppendProperties DEF WireTypes
      <3> QED
        BY <2>1, <3>1, <1>t DEF Sent, WireTypes
    <2> QED
      BY <1>1, <1>2, <2>1
      DEF Submit, Gateway, NotSent, SendStuck, StuckSendFails, ReportLost, DispatchTimeout,
          LoopStall
  <1>3. ASSUME NEW c \in Cmd, Task(c) PROVE WireTypes'
    <2>1. toHub' \in Seq(FromModule)
      BY <1>3, <1>t, TaskSends, SendTypes DEF WireTypes
    <2> QED
      BY <1>3, <2>1, <1>t, TaskFrame DEF WireTypes
  <1>4. CASE Session
    BY <1>4, <1>t, <1>e, HeadTypes
    DEF Session, RoleOk, AdoptionFails, Handle, EndSession, wireVars, WireTypes
  <1>5. CASE Dial
    <2>1. <<<<"HELLO_OK">>>> \in Seq(ToModule)
      BY HelloOkType
    <2> QED
      BY <1>5, <1>e, <2>1 DEF Dial, WireTypes
  <1>6. CASE AnswerHelloOk
    <2>1. (toHub \o <<<<"ROLE_OK">>>>) \o ring \in Seq(FromModule)
      <3>1. <<<<"ROLE_OK">>>> \in Seq(FromModule)
        BY RoleOkType
      <3>2. ring \in Seq(FromModule)
        <4>1. Len(ring) \in Nat /\ ring \in [1..Len(ring) -> Answers]
          BY <1>t, LenProperties DEF ModuleTypes
        <4>2. ring \in [1..Len(ring) -> FromModule]
          BY <4>1, AnswerTypes
        <4> QED
          BY <4>1, <4>2, SeqDef
      <3>3. toHub \o <<<<"ROLE_OK">>>> \in Seq(FromModule)
        BY <3>1, <1>t, ConcatProperties DEF WireTypes
      <3> QED
        BY <3>2, <3>3, ConcatProperties
    <2>2. toHub' \in Seq(FromModule)
      BY <1>6, <2>1, <1>t DEF AnswerHelloOk, WireTypes
    <2>3. link' = link /\ toModule' \in Seq(ToModule)
      BY <1>6, <1>t, HeadTypes DEF AnswerHelloOk
    <2> QED
      BY <2>2, <2>3, <1>t DEF WireTypes
  <1>7. CASE Receive \/ LoseWriter
    BY <1>7, <1>t, <1>e, HeadTypes DEF Receive, LoseWriter, WireTypes
  <1>8. CASE HubRestart \/ Reboot \/ Notice
    BY <1>8, <1>t, <1>e DEF HubRestart, Reboot, Notice, WireTypes
  <1>9. CASE Blip
    BY <1>9, <1>t, PrefixType DEF Blip, WireTypes
  <1> QED
    BY <1>1, <1>2, <1>3, <1>4, <1>5, <1>6, <1>7, <1>8, <1>9 DEF Next, Connection, pathVars

LEMMA ModuleTypesStep ==
  ASSUME PathTypeOK, HelloFirst, [Next]_pathVars
  PROVE  ModuleTypes'
  <1>t. WireTypes /\ ModuleTypes
    BY TypesSplit
  <1>e. <<>> \in Seq(Answers)
    BY EmptySeq
  <1>1. CASE UNCHANGED moduleVars
    BY <1>1, <1>t DEF moduleVars, ModuleTypes
  <1>d. ASSUME Die PROVE ModuleTypes'
    BY <1>d, <1>e, <1>t DEF Die, ModuleTypes
  <1>2. ASSUME NEW c \in Cmd, Task(c) PROVE ModuleTypes'
    <2>1. ring' \in Seq(Answers) /\ writer' \in {"none", "hello", "serving"}
      BY <1>2, <1>t, TaskSends, SendTypes DEF ModuleTypes
    <2>2. busy' \in Cmd \cup {NoCmd}
      BY <1>2, <1>t DEF Task, Refuse, Begin, Acknowledge, Finish, Free, Marked, ModuleTypes
    <2>3. run' \in [Cmd -> {"none", "task", "accepted", "running", "answered", "over"}]
      BY <1>2, <1>t DEF Task, Refuse, Begin, Acknowledge, Finish, Free, ModuleTypes
    <2> QED
      BY <2>1, <2>2, <2>3 DEF ModuleTypes
  <1>3. CASE Receive
    <2>1. 1 \in 1..Len(toModule) /\ Head(toModule) = toModule[1]
      BY <1>3, <1>t, HeadTailProperties, LenProperties, EmptySeq DEF Receive, WireTypes
    <2>2. Head(toModule)[1] # "HELLO_OK"
      BY <1>3, <2>1 DEF Receive, HelloFirst
    <2>3. Head(toModule)[2] \in Cmd
      BY <1>3, <2>2, <1>t, HeadTypes, CommandMessage DEF Receive
    <2> QED
      BY <1>3, <2>3, <1>t DEF Receive, ModuleTypes
  <1>4. CASE AnswerHelloOk
    BY <1>4, <1>d, <1>t, <1>e DEF AnswerHelloOk, RingFlushed, ModuleTypes
  <1>5. CASE Dial \/ LoseWriter
    BY <1>5, <1>t DEF Dial, LoseWriter, ModuleTypes
  <1>6. CASE Reboot
    BY <1>6, <1>d DEF Reboot
  <1> QED
    BY <1>1, <1>2, <1>3, <1>4, <1>5, <1>6
    DEF Next, Submit, Gateway, Sent, NotSent, SendStuck, StuckSendFails, ReportLost,
        DispatchTimeout, LoopStall, Session, RoleOk, AdoptionFails, Handle, EndSession,
        Connection, HubRestart, Blip, Notice, pathVars

(***************************************************************************)
(* The agreements between the parts, one lemma each.                       *)
(***************************************************************************)
LEMMA GatewayStep ==
  ASSUME PathTypeOK, GatewayInv, [Next]_pathVars
  PROVE  GatewayInv'
  <1>t. EvidenceTypes /\ HubTypes
    BY TypesSplit
  <1>1. CASE UNCHANGED <<logged, gw, stalls, restarts>>
    BY <1>1 DEF GatewayInv
  <1>2. ASSUME NEW c \in Cmd,
               Submit(c) \/ Gateway(c) \/ DispatchTimeout(c)
        PROVE  GatewayInv'
    <2>1. \E to \in {"dispatching", "draining", "late", "lost", "done"} :
            gw' = [gw EXCEPT ![c] = to]
      BY <1>2 DEF Submit, Gateway, Sent, NotSent, SendStuck, StuckSendFails, ReportLost,
         DispatchTimeout, GatewayAt
    <2>2. logged \subseteq logged' /\ c \in logged'
      BY <1>2 DEF Submit, Gateway, Sent, NotSent, SendStuck, StuckSendFails, ReportLost,
         DispatchTimeout, GatewayAt, GatewayInv, evidenceVars
    <2>3. stalls' = stalls /\ restarts' = restarts
      BY <1>2 DEF Submit, Gateway, Sent, NotSent, SendStuck, StuckSendFails, ReportLost,
         DispatchTimeout, boundVars
    <2> QED
      BY <2>1, <2>2, <2>3, <1>t DEF GatewayInv, HubTypes
  <1>3. ASSUME NEW c \in Cmd, LoopStall(c) PROVE GatewayInv'
    BY <1>3, <1>t DEF LoopStall, GatewayAt, GatewayInv, HubTypes, evidenceVars
  <1>4. CASE HubRestart
    BY <1>4, <1>t DEF HubRestart, GatewayInv, HubTypes
  <1> QED
    BY <1>1, <1>2, <1>3, <1>4, TaskFrame
    DEF Next, Session, RoleOk, AdoptionFails, Handle, EndSession, Connection, Dial,
        AnswerHelloOk, Receive, LoseWriter, Reboot, Blip, Notice, evidenceVars, hubVars,
        boundVars, pathVars

\* A task may lose the connection of its module, and gains none.
LEMMA TaskWriter ==
  ASSUME NEW c \in Cmd, Task(c)
  PROVE  writer' \in {writer, "none"}
  BY DEF Task, Refuse, Begin, Acknowledge, Finish, Free, Send

LEMMA HelloStep ==
  ASSUME PathTypeOK, HelloFirst, [Next]_pathVars
  PROVE  HelloFirst'
  <1>t. WireTypes
    BY TypesSplit
  <1>1. CASE toModule' = toModule /\ writer' \in {writer, "none"}
    BY <1>1 DEF HelloFirst
  <1>2. CASE toModule' = <<>>
    BY <1>2 DEF HelloFirst
  <1>3. ASSUME NEW c \in Cmd, Sent(c) PROVE HelloFirst'
    <2>1. CASE toModule' = Append(toModule, <<"CMD", c>>)
      <3>1. /\ Len(toModule') = Len(toModule) + 1
            /\ \A i \in 1..Len(toModule) : toModule'[i] = toModule[i]
            /\ toModule'[Len(toModule) + 1] = <<"CMD", c>>
        BY <2>1, <1>t, CmdType, AppendProperties DEF WireTypes
      <3>2. toModule'[Len(toModule) + 1][1] = "CMD"
        BY <3>1
      <3>3. writer' = writer
        BY <1>3 DEF Sent, moduleVars
      <3>4. Len(toModule) \in Nat
        BY <1>t, LenProperties DEF WireTypes
      <3> SUFFICES ASSUME NEW i \in 1..Len(toModule'), toModule'[i][1] = "HELLO_OK"
                   PROVE  i = 1 /\ writer' # "serving"
        BY DEF HelloFirst
      <3>5. i \in 1..Len(toModule)
        BY <3>1, <3>2, <3>4
      <3> QED
        BY <3>1, <3>3, <3>5 DEF HelloFirst
    <2> QED
      BY <1>1, <1>3, <2>1 DEF Sent, moduleVars
  <1>4. CASE Dial
    <2>1. Len(toModule') = 1 /\ writer' # "serving"
      BY <1>4 DEF Dial
    <2> QED
      BY <2>1 DEF HelloFirst
  <1>5. CASE toModule # <<>> /\ toModule' = Tail(toModule)
    <2>1. /\ Len(toModule) \in Nat
          /\ Len(toModule') = Len(toModule) - 1
          /\ \A i \in 1..Len(toModule') : toModule'[i] = toModule[i + 1]
      BY <1>5, <1>t, HeadTailProperties, LenProperties DEF WireTypes
    <2> SUFFICES ASSUME NEW i \in 1..Len(toModule'), toModule'[i][1] = "HELLO_OK"
                 PROVE  FALSE
      BY DEF HelloFirst
    <2>2. i + 1 \in 1..Len(toModule) /\ i + 1 # 1
      BY <2>1
    <2> QED
      BY <2>1, <2>2 DEF HelloFirst
  <1>6. CASE Blip
    <2>1. writer' = writer
      BY <1>6 DEF Blip, moduleVars
    <2>2. PICK n \in 0..Len(toModule) : toModule' = SubSeq(toModule, 1, n)
      BY <1>6 DEF Blip
    <2>3. Len(toModule') = n /\ \A i \in 1..n : toModule'[i] = toModule[i]
      BY <2>2, <1>t, PrefixType DEF WireTypes
    <2>4. \A i \in 1..n : i \in 1..Len(toModule)
      BY <1>t, LenProperties DEF WireTypes
    <2> QED
      BY <2>1, <2>3, <2>4 DEF HelloFirst
  <1> QED
    BY <1>1, <1>2, <1>3, <1>4, <1>5, <1>6, TaskFrame, TaskWriter
    DEF Next, Submit, Gateway, NotSent, SendStuck, StuckSendFails, ReportLost,
        DispatchTimeout, LoopStall, Session, RoleOk, AdoptionFails, Handle, EndSession,
        Connection, AnswerHelloOk, Receive, LoseWriter, HubRestart, Reboot, Notice,
        wireVars, moduleVars, pathVars

LEMMA BusyStep ==
  ASSUME PathTypeOK, HelloFirst, BusyInv, [Next]_pathVars
  PROVE  BusyInv'
  <1>t. ModuleTypes
    BY TypesSplit
  <1>1. CASE UNCHANGED <<busy, run>>
    BY <1>1 DEF BusyInv
  <1>d. ASSUME Die PROVE BusyInv'
    BY <1>d, <1>t DEF Die, ModuleTypes, BusyInv
  <1>2. ASSUME NEW c \in Cmd, Task(c) PROVE BusyInv'
    <2>1. CASE Refuse(c) \/ Acknowledge(c) \/ Finish(c)
      BY <2>1, <1>t DEF Refuse, Acknowledge, Finish, ModuleTypes, BusyInv
    <2>2. CASE Begin(c)
      <3>1. \A d \in Cmd : run[d] \notin {"accepted", "running", "answered"}
        BY <2>2, CmdAssumption DEF Begin, BusyInv
      <3> QED
        BY <2>2, <3>1, <1>t DEF Begin, Marked, ModuleTypes, BusyInv
    <2>3. CASE Free(c)
      <3>1. \A d \in Cmd : d # c => run[d] \notin {"accepted", "running", "answered"}
        BY <2>3 DEF Free, BusyInv
      <3> QED
        BY <2>3, <3>1, <1>t DEF Free, ModuleTypes, BusyInv
    <2> QED
      BY <1>2, <2>1, <2>2, <2>3 DEF Task
  <1>3. CASE Receive
    BY <1>3, <1>t DEF Receive, ModuleTypes, BusyInv
  <1>4. CASE AnswerHelloOk
    BY <1>1, <1>4, <1>d DEF AnswerHelloOk
  <1>5. CASE Reboot
    BY <1>5, <1>d DEF Reboot
  <1> QED
    BY <1>1, <1>2, <1>3, <1>4, <1>5
    DEF Next, Submit, Gateway, Sent, NotSent, SendStuck, StuckSendFails, ReportLost,
        DispatchTimeout, LoopStall, Session, RoleOk, AdoptionFails, Handle, EndSession,
        Connection, Dial, LoseWriter, HubRestart, Blip, Notice, moduleVars, pathVars

\* The session or its own thread will give the command its result.
Held(c) == c \in inflight \/ gw[c] \in {"dispatching", "overdue", "lost"}

\* The counters of restarts and stalls never go back.
LEMMA CountersStep ==
  ASSUME [Next]_pathVars
  PROVE  /\ restarts' \in {restarts, restarts + 1}
         /\ stalls' \in {stalls, stalls + 1}
  <1>1. CASE UNCHANGED <<restarts, stalls>>
    BY <1>1
  <1>2. CASE \E c \in Cmd : Submit(c) \/ Gateway(c) \/ DispatchTimeout(c) \/ LoopStall(c)
    BY <1>2 DEF Submit, Gateway, Sent, NotSent, SendStuck, StuckSendFails, ReportLost,
       DispatchTimeout, LoopStall, boundVars
  <1>3. CASE HubRestart \/ Reboot \/ Blip \/ Notice
    BY <1>3 DEF HubRestart, Reboot, Blip, Notice, boundVars
  <1> QED
    BY <1>1, <1>2, <1>3, TaskFrame
    DEF Next, Session, RoleOk, AdoptionFails, Handle, EndSession, Connection, Dial,
        AnswerHelloOk, Receive, LoseWriter, boundVars, pathVars

LEMMA OrphanStep ==
  ASSUME PathTypeOK, GatewayInv, NoOrphan, [Next]_pathVars
  PROVE  NoOrphan'
  <1>t. EvidenceTypes /\ HubTypes /\ WireTypes
    BY TypesSplit
  <1> SUFFICES ASSUME restarts' = 0, stalls' = 0, NEW c \in logged', Results(c)' = 0
               PROVE  Held(c)'
    BY DEF NoOrphan, Held
  <1>1. restarts = 0 /\ stalls = 0
    <2>1. CASE UNCHANGED <<restarts, stalls>>
      BY <2>1
    <2>2. CASE restarts' = restarts + 1 \/ stalls' = stalls + 1
      BY <2>2, CountersStep DEF GatewayInv
    <2> QED
      BY <2>1, <2>2, CountersStep
  <1>2. CASE UNCHANGED <<evidenceVars, gw, inflight>>
    BY <1>1, <1>2 DEF NoOrphan, Held, Results, evidenceVars
  <1>3. ASSUME NEW d \in Cmd,
               Submit(d) \/ Gateway(d) \/ DispatchTimeout(d) \/ LoopStall(d)
        PROVE  Held(c)'
    <2>1. CASE Submit(d)
      BY <1>1, <2>1, <1>t
      DEF Submit, GatewayAt, NoOrphan, Held, Results, HubTypes, EvidenceTypes
    <2>2. CASE Sent(d) \/ SendStuck(d)
      <3>1. /\ inflight' = inflight \cup {d}
            /\ \E to \in {"done", "draining", "late"} : gw' = [gw EXCEPT ![d] = to]
            /\ c \in logged /\ losses' = losses /\ verdicts' = verdicts
        BY <2>2 DEF Sent, SendStuck, Tracked, GatewayAt, evidenceVars
      <3>2. c # d => gw'[c] = gw[c]
        BY <3>1, <1>t DEF HubTypes, EvidenceTypes
      <3> QED
        BY <1>1, <3>1, <3>2 DEF NoOrphan, Held, Results
    <2>3. CASE NotSent(d) \/ DispatchTimeout(d) \/ StuckSendFails(d)
      BY <1>1, <2>3, <1>t
      DEF NotSent, DispatchTimeout, StuckSendFails, GatewayAt, NoOrphan, Held, Results,
          evidenceVars, HubTypes, EvidenceTypes, GatewayInv
    <2>4. CASE ReportLost(d)
      <3>1. c \in Cmd /\ logged' = logged /\ inflight' = inflight /\ verdicts' = verdicts
        BY <2>4, <1>t DEF ReportLost, EvidenceTypes
      <3>2. losses[c] \in Nat /\ verdicts[c] \in Nat
        BY <3>1, <1>t DEF EvidenceTypes
      <3>3. CASE c = d
        <4>1. losses'[c] = losses[c] + 1
          BY <2>4, <3>1, <3>3, <1>t DEF ReportLost, EvidenceTypes
        <4> QED
          BY <3>1, <3>2, <4>1 DEF Results
      <3>4. CASE c # d
        <4>1. losses'[c] = losses[c] /\ gw'[c] = gw[c]
          BY <2>4, <3>1, <3>4, <1>t DEF ReportLost, GatewayAt, EvidenceTypes, HubTypes
        <4> QED
          BY <1>1, <3>1, <4>1 DEF NoOrphan, Held, Results
      <3> QED
        BY <3>3, <3>4
    <2>5. CASE LoopStall(d)
      BY <2>5 DEF LoopStall, GatewayInv
    <2> QED
      BY <1>3, <2>1, <2>2, <2>3, <2>4, <2>5 DEF Gateway
  <1>4. CASE Handle
    <2>1. CASE Head(toHub)[1] \in {"NAK", "RESULT"}
      <3>1. /\ c \in Cmd /\ c \in logged /\ losses' = losses /\ gw' = gw
            /\ inflight' = inflight \ {Head(toHub)[2]}
            /\ verdicts' = [verdicts EXCEPT ![Head(toHub)[2]] = @ + 1]
        BY <1>4, <2>1, <1>t DEF Handle, EvidenceTypes
      <3>2. losses[c] \in Nat /\ verdicts[c] \in Nat
        BY <3>1, <1>t DEF EvidenceTypes
      <3>3. CASE c = Head(toHub)[2]
        <4>1. verdicts'[c] = verdicts[c] + 1
          BY <3>1, <3>3, <1>t DEF EvidenceTypes
        <4> QED
          BY <3>1, <3>2, <4>1 DEF Results
      <3>4. CASE c # Head(toHub)[2]
        <4>1. verdicts'[c] = verdicts[c]
          BY <3>1, <3>4, <1>t DEF EvidenceTypes
        <4> QED
          BY <1>1, <3>1, <3>4, <4>1 DEF NoOrphan, Held, Results
      <3> QED
        BY <3>3, <3>4
    <2>2. CASE Head(toHub)[1] \notin {"NAK", "RESULT"}
      BY <1>2, <1>4, <2>2 DEF Handle, evidenceVars
    <2> QED
      BY <2>1, <2>2
  <1>5. CASE EndSession
    <2>1. /\ c \in Cmd /\ c \in logged /\ verdicts' = verdicts /\ gw' = gw
          /\ losses'[c] = losses[c] + (IF c \in inflight THEN 1 ELSE 0)
      BY <1>5, <1>t DEF EndSession, Reported, EvidenceTypes
    <2>2. losses[c] \in Nat /\ verdicts[c] \in Nat
      BY <2>1, <1>t DEF EvidenceTypes
    <2>3. c \notin inflight /\ Results(c) = 0
      BY <2>1, <2>2 DEF Results
    <2> QED
      BY <1>1, <2>1, <2>3 DEF NoOrphan, Held
  <1>6. CASE HubRestart
    BY <1>6 DEF HubRestart, GatewayInv
  <1> QED
    BY <1>2, <1>3, <1>4, <1>5, <1>6, TaskFrame
    DEF Next, Session, RoleOk, AdoptionFails, Connection, Dial, AnswerHelloOk, Receive,
        LoseWriter, Reboot, Blip, Notice, evidenceVars, hubVars, pathVars

(***************************************************************************)
(* One place for each command.                                             *)
(***************************************************************************)
Waits(c) == gw[c] \in {"new", "dispatching", "overdue"}

Works(c) == run[c] \in {"task", "accepted", "running"}

Asking(c) == {<<"CMD", c>>}

One(set) == \A i, j \in set : i = j

\* What OnePlace says of one command, place by place.
OnOneWay(c) ==
  /\ One(At(toModule, Asking(c))) /\ One(At(ring, Ending(c))) /\ One(At(toHub, Ending(c)))
  /\ verdicts[c] <= 1
  /\ Waits(c) => /\ At(toModule, Asking(c)) = {} /\ ~ Works(c) /\ At(ring, Ending(c)) = {}
                 /\ At(toHub, Ending(c)) = {} /\ verdicts[c] = 0
  /\ At(toModule, Asking(c)) # {} => /\ ~ Works(c) /\ At(ring, Ending(c)) = {}
                                     /\ At(toHub, Ending(c)) = {} /\ verdicts[c] = 0
  /\ Works(c) => /\ At(ring, Ending(c)) = {} /\ At(toHub, Ending(c)) = {} /\ verdicts[c] = 0
  /\ At(ring, Ending(c)) # {} => At(toHub, Ending(c)) = {} /\ verdicts[c] = 0
  /\ At(toHub, Ending(c)) # {} => verdicts[c] = 0

\* The command is nowhere.
Nowhere(c) ==
  /\ ~ Waits(c)
  /\ At(toModule, Asking(c)) = {}
  /\ ~ Works(c)
  /\ At(ring, Ending(c)) = {}
  /\ At(toHub, Ending(c)) = {}
  /\ verdicts[c] = 0

LEMMA PlaceOf ==
  ASSUME NEW c, NEW p
  PROVE  p \in Places(c) <=>
           \/ p = <<"gateway", 1>> /\ Waits(c)
           \/ \E i \in At(toModule, Asking(c)) : p = <<"toModule", i>>
           \/ p = <<"task", 1>> /\ Works(c)
           \/ \E i \in At(ring, Ending(c)) : p = <<"ring", i>>
           \/ \E i \in At(toHub, Ending(c)) : p = <<"toHub", i>>
           \/ \E i \in 1..verdicts[c] : p = <<"stored", i>>
  BY DEF Places, Waits, Works, Asking

LEMMA OnePlaceIs ==
  ASSUME NEW c \in Cmd, verdicts[c] \in Nat
  PROVE  (\A p, q \in Places(c) : p = q) <=> OnOneWay(c)
  <1>1. ASSUME \A p, q \in Places(c) : p = q PROVE OnOneWay(c)
    <2>1. Waits(c) => <<"gateway", 1>> \in Places(c)
      BY PlaceOf
    <2>2. \A i \in At(toModule, Asking(c)) : <<"toModule", i>> \in Places(c)
      BY PlaceOf
    <2>3. Works(c) => <<"task", 1>> \in Places(c)
      BY PlaceOf
    <2>4. \A i \in At(ring, Ending(c)) : <<"ring", i>> \in Places(c)
      BY PlaceOf
    <2>5. \A i \in At(toHub, Ending(c)) : <<"toHub", i>> \in Places(c)
      BY PlaceOf
    <2>6. \A i \in 1..verdicts[c] : <<"stored", i>> \in Places(c)
      BY PlaceOf
    <2>7. verdicts[c] # 0 => 1 \in 1..verdicts[c]
      OBVIOUS
    <2>8. verdicts[c] > 1 => 2 \in 1..verdicts[c]
      OBVIOUS
    <2>a. One(At(toModule, Asking(c)))
      BY <1>1, <2>2 DEF One
    <2>b. One(At(ring, Ending(c)))
      BY <1>1, <2>4 DEF One
    <2>c. One(At(toHub, Ending(c)))
      BY <1>1, <2>5 DEF One
    <2>d. verdicts[c] <= 1
      <3> SUFFICES ASSUME verdicts[c] > 1 PROVE FALSE
        OBVIOUS
      <3>1. <<"stored", 1>> \in Places(c) /\ <<"stored", 2>> \in Places(c)
        BY <2>6, <2>7, <2>8
      <3>2. <<"stored", 1>> = <<"stored", 2>>
        BY <1>1, <3>1
      <3> QED
        BY <3>2
    <2>e. verdicts[c] # 0 => <<"stored", 1>> \in Places(c)
      BY <2>6, <2>7
    <2>f. Waits(c) => /\ At(toModule, Asking(c)) = {} /\ ~ Works(c) /\ At(ring, Ending(c)) = {}
                      /\ At(toHub, Ending(c)) = {} /\ verdicts[c] = 0
      BY <1>1, <2>1, <2>2, <2>3, <2>4, <2>5, <2>e
    <2>g. At(toModule, Asking(c)) # {} => /\ ~ Works(c) /\ At(ring, Ending(c)) = {}
                                          /\ At(toHub, Ending(c)) = {} /\ verdicts[c] = 0
      BY <1>1, <2>2, <2>3, <2>4, <2>5, <2>e
    <2>h. Works(c) => /\ At(ring, Ending(c)) = {} /\ At(toHub, Ending(c)) = {}
                      /\ verdicts[c] = 0
      BY <1>1, <2>3, <2>4, <2>5, <2>e
    <2>i. /\ At(ring, Ending(c)) # {} => At(toHub, Ending(c)) = {} /\ verdicts[c] = 0
          /\ At(toHub, Ending(c)) # {} => verdicts[c] = 0
      BY <1>1, <2>4, <2>5, <2>e
    <2> QED
      BY <2>a, <2>b, <2>c, <2>d, <2>f, <2>g, <2>h, <2>i DEF OnOneWay
  <1>2. ASSUME OnOneWay(c), NEW p \in Places(c), NEW q \in Places(c) PROVE p = q
    <2>1. CASE Waits(c)
      BY <1>2, <2>1, PlaceOf DEF OnOneWay
    <2>2. CASE At(toModule, Asking(c)) # {}
      BY <1>2, <2>2, PlaceOf DEF OnOneWay, One
    <2>3. CASE Works(c)
      BY <1>2, <2>3, PlaceOf DEF OnOneWay
    <2>4. CASE At(ring, Ending(c)) # {}
      BY <1>2, <2>4, PlaceOf DEF OnOneWay, One
    <2>5. CASE At(toHub, Ending(c)) # {}
      BY <1>2, <2>5, PlaceOf DEF OnOneWay, One
    <2>6. CASE /\ ~ Waits(c) /\ At(toModule, Asking(c)) = {} /\ ~ Works(c)
               /\ At(ring, Ending(c)) = {} /\ At(toHub, Ending(c)) = {}
      BY <1>2, <2>6, PlaceOf DEF OnOneWay
    <2> QED
      BY <2>1, <2>2, <2>3, <2>4, <2>5, <2>6
  <1> QED
    BY <1>1, <1>2

LEMMA NowhereIs ==
  ASSUME NEW c \in Cmd, verdicts[c] \in Nat
  PROVE  Places(c) = {} <=> Nowhere(c)
  <1>1. verdicts[c] # 0 => 1 \in 1..verdicts[c]
    OBVIOUS
  <1>2. ASSUME Places(c) = {} PROVE Nowhere(c)
    <2>1. verdicts[c] # 0 => <<"stored", 1>> \in Places(c)
      BY <1>1, PlaceOf
    <2>2. \A i \in At(toModule, Asking(c)) : <<"toModule", i>> \in Places(c)
      BY PlaceOf
    <2>3. \A i \in At(ring, Ending(c)) : <<"ring", i>> \in Places(c)
      BY PlaceOf
    <2>4. \A i \in At(toHub, Ending(c)) : <<"toHub", i>> \in Places(c)
      BY PlaceOf
    <2>5. /\ Waits(c) => <<"gateway", 1>> \in Places(c)
          /\ Works(c) => <<"task", 1>> \in Places(c)
      BY PlaceOf
    <2> QED
      BY <1>2, <2>1, <2>2, <2>3, <2>4, <2>5 DEF Nowhere
  <1>3. ASSUME Nowhere(c) PROVE \A p : p \notin Places(c)
    <2>1. 1..verdicts[c] = {}
      BY <1>3 DEF Nowhere
    <2> QED
      BY <1>3, <2>1, PlaceOf DEF Nowhere
  <1> QED
    BY <1>2, <1>3

\* Both of all commands, now and after a step.
PlacesAre ==
  \A c \in Cmd : verdicts[c] \in Nat =>
    /\ (\A p, q \in Places(c) : p = q) <=> OnOneWay(c)
    /\ Places(c) = {} <=> Nowhere(c)

LEMMA PlacesAreNow == PlacesAre
  BY OnePlaceIs, NowhereIs DEF PlacesAre

LEMMA PlacesAreNext == PlacesAre'
  BY PlacesAreNow, PTL

\* Where messages are in a sequence that grows, shrinks or is cut.
LEMMA AtAppend ==
  ASSUME NEW S, NEW s \in Seq(S), NEW m \in S, NEW E
  PROVE  /\ m \notin E => At(Append(s, m), E) = At(s, E)
         /\ m \in E /\ At(s, E) = {} => One(At(Append(s, m), E))
  <1>1. /\ Len(Append(s, m)) = Len(s) + 1 /\ Len(s) \in Nat
        /\ \A i \in 1..Len(s) : Append(s, m)[i] = s[i]
        /\ Append(s, m)[Len(s) + 1] = m
    BY AppendProperties, LenProperties
  <1>2. ASSUME m \notin E PROVE At(Append(s, m), E) = At(s, E)
    BY <1>1, <1>2 DEF At
  <1>3. ASSUME At(s, E) = {} PROVE At(Append(s, m), E) \subseteq {Len(s) + 1}
    BY <1>1, <1>3 DEF At
  <1> QED
    BY <1>2, <1>3 DEF One

LEMMA AtTail ==
  ASSUME NEW S, NEW s \in Seq(S), s # <<>>, NEW E
  PROVE  /\ At(s, E) = {} => At(Tail(s), E) = {}
         /\ One(At(s, E)) => One(At(Tail(s), E))
         /\ One(At(s, E)) /\ Head(s) \in E => At(Tail(s), E) = {}
  <1>1. /\ Len(s) \in Nat \ {0} /\ Len(Tail(s)) = Len(s) - 1
        /\ Head(s) = s[1]
        /\ \A i \in 1..Len(Tail(s)) : Tail(s)[i] = s[i + 1]
    BY HeadTailProperties, LenProperties, EmptySeq
  <1>2. \A i \in At(Tail(s), E) : i \in Nat \ {0} /\ i + 1 \in At(s, E)
    BY <1>1 DEF At
  <1>3. Head(s) \in E => 1 \in At(s, E)
    BY <1>1 DEF At
  <1> QED
    BY <1>2, <1>3 DEF One

LEMMA AtPrefix ==
  ASSUME NEW S, NEW s \in Seq(S), NEW n \in 0..Len(s), NEW E
  PROVE  At(SubSeq(s, 1, n), E) \subseteq At(s, E)
  <1>1. Len(s) \in Nat
    BY LenProperties
  <1> QED
    BY <1>1, PrefixType DEF At

LEMMA AtConcat ==
  ASSUME NEW S, NEW s \in Seq(S), NEW t \in Seq(S), NEW E
  PROVE  /\ At(t, E) = {} => At(s \o t, E) = At(s, E)
         /\ At(s, E) = {} /\ One(At(t, E)) => One(At(s \o t, E))
         /\ At(s, E) = {} /\ At(t, E) = {} => At(s \o t, E) = {}
  <1>1. /\ Len(s) \in Nat /\ Len(t) \in Nat
        /\ Len(s \o t) = Len(s) + Len(t)
        /\ \A i \in 1..Len(s) : (s \o t)[i] = s[i]
        /\ \A i \in Len(s) + 1..Len(s) + Len(t) : (s \o t)[i] = t[i - Len(s)]
    BY ConcatProperties, LenProperties
  <1>2. \A i \in At(s \o t, E) : i \in At(s, E) \/ (i \in Int /\ i - Len(s) \in At(t, E))
    <2> SUFFICES ASSUME NEW i \in 1..Len(s) + Len(t), (s \o t)[i] \in E
                 PROVE  i \in At(s, E) \/ i - Len(s) \in At(t, E)
      BY <1>1 DEF At
    <2>1. CASE i \in 1..Len(s)
      BY <2>1, <1>1 DEF At
    <2>2. CASE i \notin 1..Len(s)
      <3>1. i \in Len(s) + 1..Len(s) + Len(t) /\ i - Len(s) \in 1..Len(t)
        BY <2>2, <1>1
      <3> QED
        BY <3>1, <1>1 DEF At
    <2> QED
      BY <2>1, <2>2
  <1>3. At(s, E) \subseteq At(s \o t, E)
    BY <1>1 DEF At
  <1>4. At(t, E) = {} => At(s \o t, E) = At(s, E)
    BY <1>2, <1>3
  <1>5. ASSUME At(s, E) = {}, One(At(t, E)) PROVE One(At(s \o t, E))
    <2> SUFFICES ASSUME NEW i \in At(s \o t, E), NEW j \in At(s \o t, E) PROVE i = j
      BY DEF One
    <2>1. i \in Int /\ j \in Int /\ i - Len(s) \in At(t, E) /\ j - Len(s) \in At(t, E)
      BY <1>2, <1>5
    <2>2. i - Len(s) = j - Len(s)
      BY <1>5, <2>1 DEF One
    <2> QED
      BY <1>1, <2>1, <2>2
  <1> QED
    BY <1>4, <1>5

\* A sequence has no message of a kind that it did not have.
Fewer(s, t, E) ==
  /\ At(s, E) = {} => At(t, E) = {}
  /\ One(At(s, E)) => One(At(t, E))

LEMMA FewerNone == ASSUME NEW s, NEW E PROVE Fewer(s, <<>>, E) /\ Fewer(s, s, E)
  BY DEF Fewer, At, One

LEMMA FewerTail ==
  ASSUME NEW S, NEW s \in Seq(S), s # <<>>, NEW E
  PROVE  Fewer(s, Tail(s), E)
  BY AtTail DEF Fewer

\* What the ring keeps of it and a message.
LEMMA AtBuffered ==
  ASSUME ring \in Seq(Answers), NEW msg \in Answers, NEW E
  PROVE  /\ msg \notin E => Fewer(ring, Buffered(msg), E)
         /\ msg \in E /\ At(ring, E) = {} => One(At(Buffered(msg), E))
  <1> DEFINE longer == Append(ring, msg)
  <1>1. longer \in Seq(Answers) /\ longer # <<>>
    BY AppendProperties, EmptySeq
  <1>2. /\ msg \notin E => At(longer, E) = At(ring, E)
        /\ msg \in E /\ At(ring, E) = {} => One(At(longer, E))
    BY AtAppend
  <1>3. /\ At(longer, E) = {} => At(Tail(longer), E) = {}
        /\ One(At(longer, E)) => One(At(Tail(longer), E))
    BY <1>1, AtTail
  <1>4. Buffered(msg) \in {longer, Tail(longer)}
    BY DEF Buffered
  <1> QED
    BY <1>2, <1>3, <1>4 DEF Fewer

\* Where an answer goes, and that nothing else moves.
LEMMA SendPlaces ==
  ASSUME PathTypeOK, NEW msg \in Answers, Send(msg), NEW E
  PROVE  /\ msg \notin E => Fewer(ring, ring', E) /\ Fewer(toHub, toHub', E)
         /\ msg \in E /\ At(ring, E) = {} /\ At(toHub, E) = {} =>
              /\ One(At(ring', E)) /\ One(At(toHub', E))
              /\ At(ring', E) = {} \/ At(toHub', E) = {}
  <1>t. ring \in Seq(Answers) /\ toHub \in Seq(FromModule) /\ msg \in FromModule
    BY TypesSplit, AnswerTypes DEF ModuleTypes, WireTypes
  <1>1. \/ toHub' = toHub /\ ring' = ring
        \/ toHub' = toHub /\ ring' = Buffered(msg)
        \/ toHub' = Append(toHub, msg) /\ ring' = ring
    BY DEF Send
  <1>2. /\ msg \notin E => At(Append(toHub, msg), E) = At(toHub, E)
        /\ msg \in E /\ At(toHub, E) = {} => One(At(Append(toHub, msg), E))
    BY <1>t, AtAppend
  <1>3. /\ msg \notin E => Fewer(ring, Buffered(msg), E)
        /\ msg \in E /\ At(ring, E) = {} => One(At(Buffered(msg), E))
    BY <1>t, AtBuffered
  <1>4. One({})
    BY DEF One
  <1> QED
    BY <1>1, <1>2, <1>3, <1>4 DEF Fewer

\* A command that no step moves on.
LEMMA Stays ==
  ASSUME NEW d \in Cmd, OnOneWay(d),
         Waits(d)' => Waits(d),
         Works(d)' => Works(d),
         Fewer(toModule, toModule', Asking(d)),
         Fewer(ring, ring', Ending(d)),
         Fewer(toHub, toHub', Ending(d)),
         verdicts'[d] = verdicts[d]
  PROVE  OnOneWay(d)' /\ (Nowhere(d) => Nowhere(d)')
  <1>1. OnOneWay(d)'
    BY DEF OnOneWay, Fewer
  <1>2. Nowhere(d) => Nowhere(d)'
    BY DEF Nowhere, Fewer
  <1> QED
    BY <1>1, <1>2

\* What the two threads of the hub do to the places of a command ...
LEMMA HubPlaces ==
  ASSUME PathTypeOK, NEW d \in Cmd, OnOneWay(d),
         \/ \E c \in Cmd : Submit(c) \/ Gateway(c) \/ DispatchTimeout(c) \/ LoopStall(c)
         \/ Session
  PROVE  OnOneWay(d)' /\ (Nowhere(d) => Nowhere(d)')
  <1>t. EvidenceTypes /\ HubTypes /\ WireTypes
    BY TypesSplit
  <1>1. ASSUME NEW c \in Cmd, Sent(c), d = c, link = "up"
        PROVE  OnOneWay(d)' /\ (Nowhere(d) => Nowhere(d)')
    <2>1. /\ Waits(d) /\ toModule' = Append(toModule, <<"CMD", d>>)
          /\ UNCHANGED <<run, ring, toHub, verdicts>>
      BY <1>1 DEF Sent, GatewayAt, Waits, evidenceVars, moduleVars
    <2>2. ~ Waits(d)'
      BY <1>1, <1>t DEF Sent, GatewayAt, Waits, HubTypes
    <2>3. /\ At(toModule, Asking(d)) = {} /\ ~ Works(d) /\ At(ring, Ending(d)) = {}
          /\ At(toHub, Ending(d)) = {} /\ verdicts[d] = 0
      BY <2>1 DEF OnOneWay
    <2>4. One(At(toModule', Asking(d)))
      BY <2>1, <2>3, <1>t, CmdType, AtAppend DEF Asking, WireTypes
    <2>5. ~ Works(d)' /\ At(ring', Ending(d)) = {} /\ At(toHub', Ending(d)) = {} /\ verdicts'[d] = 0
      BY <2>1, <2>3 DEF Works
    <2>6. OnOneWay(d)'
      BY <2>2, <2>4, <2>5 DEF OnOneWay, One
    <2> QED
      BY <2>1, <2>6 DEF Nowhere
  <1>2. ASSUME NEW c \in Cmd, Sent(c), ~ (d = c /\ link = "up")
        PROVE  OnOneWay(d)' /\ (Nowhere(d) => Nowhere(d)')
    <2>1. UNCHANGED <<run, ring, toHub, verdicts>>
      BY <1>2 DEF Sent, evidenceVars, moduleVars
    <2>2. Waits(d)' => Waits(d)
      BY <1>2, <1>t DEF Sent, GatewayAt, Waits, HubTypes
    <2>3. Fewer(toModule, toModule', Asking(d))
      <3>1. CASE link = "up"
        <4>1. toModule' = Append(toModule, <<"CMD", c>>) /\ <<"CMD", c>> \notin Asking(d)
          BY <1>2, <3>1 DEF Sent, Asking
        <4>2. At(toModule', Asking(d)) = At(toModule, Asking(d))
          BY <4>1, <1>t, CmdType, AtAppend DEF WireTypes
        <4> QED
          BY <4>2 DEF Fewer
      <3>2. CASE link # "up"
        BY <1>2, <3>2, FewerNone DEF Sent
      <3> QED
        BY <3>1, <3>2
    <2>4. (Works(d)' => Works(d)) /\ Fewer(ring, ring', Ending(d)) /\ Fewer(toHub, toHub', Ending(d))
      BY <2>1, FewerNone DEF Works
    <2> QED
      BY <2>1, <2>2, <2>3, <2>4, Stays
  <1>3. ASSUME NEW c \in Cmd,
               \/ Submit(c) \/ NotSent(c) \/ SendStuck(c) \/ StuckSendFails(c) \/ ReportLost(c)
               \/ DispatchTimeout(c) \/ LoopStall(c)
        PROVE  OnOneWay(d)' /\ (Nowhere(d) => Nowhere(d)')
    <2>1. UNCHANGED <<run, ring, toHub, toModule, verdicts>>
      BY <1>3 DEF Submit, NotSent, SendStuck, StuckSendFails, ReportLost, DispatchTimeout,
         LoopStall, evidenceVars, wireVars, moduleVars
    <2>2. Waits(d)' => Waits(d)
      BY <1>3, <1>t DEF Submit, NotSent, SendStuck, StuckSendFails, ReportLost,
         DispatchTimeout, LoopStall, GatewayAt, Waits, HubTypes
    <2>3. /\ Works(d)' => Works(d)
          /\ Fewer(ring, ring', Ending(d)) /\ Fewer(toHub, toHub', Ending(d))
          /\ Fewer(toModule, toModule', Asking(d))
      BY <2>1, FewerNone DEF Works
    <2> QED
      BY <2>1, <2>2, <2>3, Stays
  \* The session takes messages from the wire and leaves the module alone.
  <1>4. ASSUME UNCHANGED <<gw, run, ring, toModule>>, toHub' \in {toHub, Tail(toHub), <<>>},
               toHub' = Tail(toHub) => toHub # <<>>, verdicts'[d] = verdicts[d]
        PROVE  OnOneWay(d)' /\ (Nowhere(d) => Nowhere(d)')
    <2>1. Fewer(toHub, toHub', Ending(d))
      BY <1>4, <1>t, FewerNone, FewerTail DEF WireTypes
    <2>2. /\ Waits(d)' => Waits(d)
          /\ Works(d)' => Works(d)
          /\ Fewer(ring, ring', Ending(d)) /\ Fewer(toModule, toModule', Asking(d))
      BY <1>4, FewerNone DEF Waits, Works
    <2> QED
      BY <1>4, <2>1, <2>2, Stays
  <1>5. CASE RoleOk \/ AdoptionFails \/ EndSession
    <2>1. CASE RoleOk
      BY <1>4, <2>1 DEF RoleOk, evidenceVars, moduleVars
    <2>2. CASE AdoptionFails
      <3>1. toHub' = <<>> /\ UNCHANGED <<gw, run, ring, toModule, verdicts>>
        BY <2>2 DEF AdoptionFails, evidenceVars, moduleVars
      <3>2. /\ Waits(d)' => Waits(d)
            /\ Works(d)' => Works(d)
            /\ Fewer(ring, ring', Ending(d)) /\ Fewer(toModule, toModule', Asking(d))
            /\ Fewer(toHub, toHub', Ending(d))
        BY <3>1, FewerNone DEF Waits, Works
      <3> QED
        BY <3>1, <3>2, Stays
    <2>3. CASE EndSession
      <3>1. UNCHANGED <<gw, run, ring, toModule, toHub, verdicts>>
        BY <2>3 DEF EndSession, wireVars, moduleVars
      <3>2. /\ Waits(d)' => Waits(d)
            /\ Works(d)' => Works(d)
            /\ Fewer(ring, ring', Ending(d)) /\ Fewer(toModule, toModule', Asking(d))
            /\ Fewer(toHub, toHub', Ending(d))
        BY <3>1, FewerNone DEF Waits, Works
      <3> QED
        BY <3>1, <3>2, Stays
    <2> QED
      BY <1>5, <2>1, <2>2, <2>3
  <1>6. CASE Handle
    <2> DEFINE m == Head(toHub)
    <2>1. /\ toHub # <<>> /\ toHub' = Tail(toHub) /\ m \in FromModule
          /\ UNCHANGED <<gw, run, ring, toModule>>
      BY <1>6, <1>t, HeadTypes DEF Handle, moduleVars
    <2>2. CASE m[1] \in {"NAK", "RESULT"} /\ m[2] = d
      <3>1. m \in Ending(d)
        <4>1. m # <<"ROLE_OK">>
          <5>1. m = <<"ROLE_OK">> => m[1] = "ROLE_OK"
            OBVIOUS
          <5> QED
            BY <2>2, <5>1
        <4>2. m \in {"ACK", "NAK", "RESULT"} \X Cmd
          BY <2>1, <4>1 DEF FromModule
        <4> QED
          BY <2>2, <4>2 DEF Ending
      <3>2. 1 \in At(toHub, Ending(d))
        <4>1. 1 \in 1..Len(toHub) /\ m = toHub[1]
          BY <2>1, <1>t, HeadTailProperties, LenProperties, EmptySeq DEF WireTypes
        <4> QED
          BY <3>1, <4>1 DEF At
      <3>3. At(toHub', Ending(d)) = {}
        BY <2>1, <3>1, <1>t, AtTail DEF OnOneWay, WireTypes
      <3>4. verdicts'[d] = verdicts[d] + 1
        BY <1>6, <2>2, <1>t DEF Handle, EvidenceTypes
      <3>5. /\ verdicts[d] = 0 /\ ~ Waits(d) /\ At(toModule, Asking(d)) = {} /\ ~ Works(d)
            /\ At(ring, Ending(d)) = {}
        BY <3>2 DEF OnOneWay
      <3>6. /\ ~ Waits(d)' /\ At(toModule', Asking(d)) = {} /\ ~ Works(d)'
            /\ At(ring', Ending(d)) = {} /\ verdicts'[d] = 1
        BY <2>1, <3>4, <3>5 DEF Waits, Works
      <3>7. OnOneWay(d)'
        BY <3>3, <3>6 DEF OnOneWay, One
      <3> QED
        BY <3>2, <3>7 DEF Nowhere
    <2>3. CASE ~ (m[1] \in {"NAK", "RESULT"} /\ m[2] = d)
      <3>1. verdicts'[d] = verdicts[d]
        <4>1. CASE m[1] \in {"NAK", "RESULT"}
          <5>1. verdicts' = [verdicts EXCEPT ![m[2]] = @ + 1] /\ m[2] # d
            BY <1>6, <2>3, <4>1 DEF Handle
          <5> QED
            BY <5>1, <1>t DEF EvidenceTypes
        <4>2. CASE m[1] \notin {"NAK", "RESULT"}
          BY <1>6, <4>2 DEF Handle
        <4> QED
          BY <4>1, <4>2
      <3> QED
        BY <2>1, <3>1, <1>4
    <2> QED
      BY <2>2, <2>3
  <1> QED
    BY <1>1, <1>2, <1>3, <1>5, <1>6 DEF Gateway, Session

\* ... what its task does ...
LEMMA TaskPlaces ==
  ASSUME PathTypeOK, NEW d \in Cmd, OnOneWay(d), NEW c \in Cmd, Task(c)
  PROVE  OnOneWay(d)' /\ (Nowhere(d) => Nowhere(d)')
  <1>t. ModuleTypes
    BY TypesSplit
  <1>f. UNCHANGED <<gw, verdicts, toModule>>
    BY TaskFrame DEF evidenceVars, hubVars
  <1>w. /\ Waits(d)' <=> Waits(d)
        /\ Fewer(toModule, toModule', Asking(d))
        /\ verdicts'[d] = verdicts[d]
    BY <1>f, FewerNone DEF Waits
  \* The answer that ends the command leaves its task.
  <1>1. ASSUME NEW t \in {"NAK", "RESULT"}, Send(<<t, c>>), Works(c), ~ Works(c)', d = c
        PROVE  OnOneWay(d)' /\ (Nowhere(d) => Nowhere(d)')
    <2>1. <<t, d>> \in Answers /\ <<t, d>> \in Ending(d)
      BY <1>1 DEF Answers, Ending
    <2>2. /\ ~ Waits(d) /\ At(toModule, Asking(d)) = {} /\ At(ring, Ending(d)) = {}
          /\ At(toHub, Ending(d)) = {} /\ verdicts[d] = 0
      BY <1>1 DEF OnOneWay
    <2>3. /\ One(At(ring', Ending(d))) /\ One(At(toHub', Ending(d)))
          /\ At(ring', Ending(d)) = {} \/ At(toHub', Ending(d)) = {}
      BY <1>1, <2>1, <2>2, SendPlaces
    <2>4. ~ Waits(d)' /\ At(toModule', Asking(d)) = {} /\ verdicts'[d] = 0 /\ ~ Works(d)'
      BY <1>1, <1>f, <1>w, <2>2
    <2>5. OnOneWay(d)'
      BY <2>3, <2>4 DEF OnOneWay, One
    <2> QED
      BY <1>1, <2>5 DEF Nowhere
  \* Another message leaves every command where it is.
  <1>2. ASSUME NEW t \in {"ACK", "NAK", "RESULT"}, Send(<<t, c>>), t = "ACK" \/ d # c,
               Works(d)' => Works(d)
        PROVE  OnOneWay(d)' /\ (Nowhere(d) => Nowhere(d)')
    <2>1. <<t, c>> \in Answers /\ <<t, c>> \notin Ending(d)
      BY <1>2 DEF Answers, Ending
    <2>2. Fewer(ring, ring', Ending(d)) /\ Fewer(toHub, toHub', Ending(d))
      BY <1>2, <2>1, SendPlaces
    <2> QED
      BY <1>2, <1>w, <2>2, Stays
  <1>3. CASE Refuse(c)
    <2>1. Send(<<"NAK", c>>) /\ Works(c) /\ run' = [run EXCEPT ![c] = "over"]
      BY <1>3 DEF Refuse, Works
    <2>2. ~ Works(c)' /\ (Works(d)' => Works(d))
      BY <2>1, <1>t DEF Works, ModuleTypes
    <2> QED
      BY <2>1, <2>2, <1>1, <1>2
  <1>4. CASE Acknowledge(c)
    <2>1. Send(<<"ACK", c>>) /\ run[c] = "accepted" /\ run' = [run EXCEPT ![c] = "running"]
      BY <1>4 DEF Acknowledge
    <2>2. Works(d)' => Works(d)
      BY <2>1, <1>t DEF Works, ModuleTypes
    <2> QED
      BY <2>1, <2>2, <1>2
  <1>5. CASE Finish(c)
    <2>1. Send(<<"RESULT", c>>) /\ Works(c) /\ run' = [run EXCEPT ![c] = "answered"]
      BY <1>5 DEF Finish, Works
    <2>2. ~ Works(c)' /\ (Works(d)' => Works(d))
      BY <2>1, <1>t DEF Works, ModuleTypes
    <2> QED
      BY <2>1, <2>2, <1>1, <1>2
  <1>6. CASE Begin(c) \/ Free(c)
    <2>1. Works(d)' => Works(d)
      BY <1>6, <1>t DEF Begin, Free, Works, ModuleTypes
    <2>2. Fewer(ring, ring', Ending(d)) /\ Fewer(toHub, toHub', Ending(d))
      BY <1>6, FewerNone DEF Begin, Free, wireVars
    <2> QED
      BY <1>w, <2>1, <2>2, Stays
  <1> QED
    BY <1>3, <1>4, <1>5, <1>6 DEF Task

\* ... its connection ...
LEMMA ConnectionPlaces ==
  ASSUME PathTypeOK, HelloFirst, NEW d \in Cmd, OnOneWay(d), Connection
  PROVE  OnOneWay(d)' /\ (Nowhere(d) => Nowhere(d)')
  <1>t. WireTypes /\ ModuleTypes
    BY TypesSplit
  <1>f. UNCHANGED <<gw, verdicts>>
    BY DEF Connection, Dial, AnswerHelloOk, Receive, LoseWriter, evidenceVars, hubVars
  <1>w. (Waits(d)' <=> Waits(d)) /\ verdicts'[d] = verdicts[d]
    BY <1>f DEF Waits
  <1>1. CASE Dial
    <2>1. toHub' = <<>> /\ toModule' = <<<<"HELLO_OK">>>> /\ UNCHANGED <<ring, run>>
      BY <1>1 DEF Dial
    <2>2. At(<<<<"HELLO_OK">>>>, Asking(d)) = {}
      <3>1. <<"HELLO_OK">> # <<"CMD", d>>
        <4>1. <<"HELLO_OK">>[1] # <<"CMD", d>>[1]
          OBVIOUS
        <4> QED
          BY <4>1
      <3> QED
        BY <3>1 DEF At, Asking
    <2>3. /\ Works(d)' => Works(d)
          /\ Fewer(ring, ring', Ending(d)) /\ Fewer(toHub, toHub', Ending(d))
          /\ Fewer(toModule, toModule', Asking(d))
      BY <2>1, <2>2, FewerNone DEF Works, Fewer, One
    <2> QED
      BY <1>w, <2>3, Stays
  <1>2. CASE LoseWriter
    <2>1. toModule' = <<>> /\ UNCHANGED <<toHub, ring, run>>
      BY <1>2 DEF LoseWriter
    <2>2. /\ Works(d)' => Works(d)
          /\ Fewer(ring, ring', Ending(d)) /\ Fewer(toHub, toHub', Ending(d))
          /\ Fewer(toModule, toModule', Asking(d))
      BY <2>1, FewerNone DEF Works
    <2> QED
      BY <1>w, <2>2, Stays
  <1>3. CASE Receive
    <2> DEFINE m == Head(toModule)
    <2>1. /\ toModule # <<>> /\ toModule' = Tail(toModule)
          /\ run' = [run EXCEPT ![m[2]] = "task"]
          /\ UNCHANGED <<toHub, ring>>
      BY <1>3 DEF Receive
    <2>2. 1 \in 1..Len(toModule) /\ m = toModule[1] /\ m \in ToModule
      BY <2>1, <1>t, HeadTailProperties, LenProperties, EmptySeq DEF WireTypes
    <2>3. m[1] # "HELLO_OK"
      BY <1>3, <2>2 DEF Receive, HelloFirst
    <2>4. m = <<"CMD", m[2]>>
      <3>1. m # <<"HELLO_OK">>
        <4>1. m = <<"HELLO_OK">> => m[1] = "HELLO_OK"
          OBVIOUS
        <4> QED
          BY <2>3, <4>1
      <3>2. m \in {"CMD"} \X Cmd
        BY <2>2, <3>1 DEF ToModule
      <3> QED
        BY <3>2
    <2>5. Fewer(ring, ring', Ending(d)) /\ Fewer(toHub, toHub', Ending(d))
      BY <2>1, FewerNone
    <2>6. CASE m[2] = d
      <3>1. m \in Asking(d) /\ 1 \in At(toModule, Asking(d))
        BY <2>2, <2>4, <2>6 DEF Asking, At
      <3>2. /\ ~ Waits(d) /\ At(ring, Ending(d)) = {} /\ At(toHub, Ending(d)) = {}
            /\ verdicts[d] = 0
        BY <3>1 DEF OnOneWay
      <3>3. At(toModule', Asking(d)) = {}
        BY <2>1, <3>1, <1>t, AtTail DEF OnOneWay, WireTypes
      <3>4. ~ Waits(d)' /\ At(ring', Ending(d)) = {} /\ At(toHub', Ending(d)) = {} /\ verdicts'[d] = 0
        BY <1>w, <2>1, <3>2
      <3>5. OnOneWay(d)'
        BY <3>3, <3>4 DEF OnOneWay, One
      <3> QED
        BY <3>1, <3>5 DEF Nowhere
    <2>7. CASE m[2] # d
      <3>1. Works(d)' => Works(d)
        BY <2>1, <2>7, <1>t DEF Works, ModuleTypes
      <3>2. Fewer(toModule, toModule', Asking(d))
        BY <2>1, <1>t, FewerTail DEF WireTypes
      <3> QED
        BY <1>w, <2>5, <3>1, <3>2, Stays
    <2> QED
      BY <2>6, <2>7
  <1>4. CASE AnswerHelloOk
    <2>1. toModule # <<>> /\ toModule' = Tail(toModule) /\ ring' = <<>>
      BY <1>4 DEF AnswerHelloOk, RingFlushed, Die
    <2>2. Works(d)' => Works(d)
      BY <1>4, <1>t DEF AnswerHelloOk, Die, Works, ModuleTypes
    <2>3. /\ Fewer(toModule, toModule', Asking(d))
          /\ Fewer(ring, ring', Ending(d)) /\ At(ring', Ending(d)) = {}
      BY <2>1, <1>t, FewerTail, FewerNone DEF WireTypes, At
    <2>4. CASE toHub' = toHub
      <3>1. Fewer(toHub, toHub', Ending(d))
        BY <2>4, FewerNone
      <3> QED
        BY <1>w, <2>2, <2>3, <3>1, Stays
    <2>5. CASE toHub' = (toHub \o <<<<"ROLE_OK">>>>) \o ring
      <3> DEFINE greeted == toHub \o <<<<"ROLE_OK">>>>
      <3>1. /\ <<<<"ROLE_OK">>>> \in Seq(FromModule) /\ toHub \in Seq(FromModule)
            /\ ring \in Seq(FromModule)
        <4>1. Len(ring) \in Nat /\ ring \in [1..Len(ring) -> Answers]
          BY <1>t, LenProperties DEF ModuleTypes
        <4>2. ring \in [1..Len(ring) -> FromModule]
          BY <4>1, AnswerTypes
        <4> QED
          BY <4>1, <4>2, <1>t, SeqDef, RoleOkType DEF WireTypes
      <3>2. greeted \in Seq(FromModule)
        BY <3>1, ConcatProperties
      <3>3. At(<<<<"ROLE_OK">>>>, Ending(d)) = {}
        <4>1. \A t \in {"NAK", "RESULT"} : <<"ROLE_OK">> # <<t, d>>
          <5>1. \A t \in {"NAK", "RESULT"} : <<"ROLE_OK">>[1] # <<t, d>>[1]
            OBVIOUS
          <5> QED
            BY <5>1
        <4> QED
          BY <4>1 DEF At, Ending
      <3>4. At(greeted, Ending(d)) = At(toHub, Ending(d))
        BY <3>1, <3>3, AtConcat
      <3>5. /\ At(ring, Ending(d)) = {} => At(toHub', Ending(d)) = At(greeted, Ending(d))
            /\ At(greeted, Ending(d)) = {} /\ One(At(ring, Ending(d))) =>
                 One(At(toHub', Ending(d)))
        <4>1. PICK g \in Seq(FromModule) : g = greeted /\ toHub' = g \o ring
          BY <2>5, <3>2
        <4>2. /\ At(ring, Ending(d)) = {} => At(g \o ring, Ending(d)) = At(g, Ending(d))
              /\ At(g, Ending(d)) = {} /\ One(At(ring, Ending(d))) =>
                   One(At(g \o ring, Ending(d)))
          BY <3>1, AtConcat
        <4> QED
          BY <4>1, <4>2
      <3>6. CASE At(ring, Ending(d)) = {}
        <4>1. Fewer(toHub, toHub', Ending(d))
          BY <3>4, <3>5, <3>6 DEF Fewer
        <4> QED
          BY <1>w, <2>2, <2>3, <4>1, Stays
      <3>7. CASE At(ring, Ending(d)) # {}
        <4>1. /\ ~ Waits(d) /\ At(toModule, Asking(d)) = {} /\ ~ Works(d)
              /\ At(toHub, Ending(d)) = {} /\ verdicts[d] = 0
              /\ One(At(ring, Ending(d)))
          BY <3>7 DEF OnOneWay
        <4>2. One(At(toHub', Ending(d)))
          BY <3>4, <3>5, <4>1
        <4>3. /\ ~ Waits(d)' /\ At(toModule', Asking(d)) = {} /\ ~ Works(d)' /\ verdicts'[d] = 0
          BY <1>w, <2>2, <2>3, <4>1 DEF Fewer
        <4>4. OnOneWay(d)'
          BY <2>3, <4>2, <4>3 DEF OnOneWay, One
        <4> QED
          BY <3>7, <4>4 DEF Nowhere
      <3> QED
        BY <3>6, <3>7
    <2> QED
      BY <1>4, <2>4, <2>5 DEF AnswerHelloOk
  <1> QED
    BY <1>1, <1>2, <1>3, <1>4 DEF Connection

\* ... and what breaks, or restarts.
LEMMA BreakPlaces ==
  ASSUME PathTypeOK, NEW d \in Cmd, OnOneWay(d),
         HubRestart \/ Reboot \/ Blip \/ Notice \/ UNCHANGED pathVars
  PROVE  OnOneWay(d)' /\ (Nowhere(d) => Nowhere(d)')
  <1>t. HubTypes /\ WireTypes /\ ModuleTypes
    BY TypesSplit
  <1>1. Waits(d)' => Waits(d)
    BY <1>t DEF HubRestart, Reboot, Blip, Notice, pathVars, hubVars, Waits, HubTypes
  <1>2. Works(d)' => Works(d)
    BY <1>t DEF HubRestart, Reboot, Die, Blip, Notice, pathVars, moduleVars, Works, ModuleTypes
  <1>3. verdicts'[d] = verdicts[d]
    BY DEF HubRestart, Reboot, Blip, Notice, pathVars, evidenceVars
  <1>4. ring' = ring \/ ring' = <<>>
    BY DEF HubRestart, Reboot, Die, Blip, Notice, pathVars, moduleVars
  <1>5. /\ \/ toHub' = toHub \/ toHub' = <<>>
           \/ \E n \in 0..Len(toHub) : toHub' = SubSeq(toHub, 1, n)
        /\ \/ toModule' = toModule \/ toModule' = <<>>
           \/ \E n \in 0..Len(toModule) : toModule' = SubSeq(toModule, 1, n)
    BY DEF HubRestart, Reboot, Blip, Notice, pathVars, wireVars
  <1>6. Fewer(ring, ring', Ending(d))
    BY <1>4, FewerNone
  <1>7. /\ \A n \in 0..Len(toHub) : Fewer(toHub, SubSeq(toHub, 1, n), Ending(d))
        /\ \A n \in 0..Len(toModule) : Fewer(toModule, SubSeq(toModule, 1, n), Asking(d))
    BY <1>t, AtPrefix DEF WireTypes, Fewer, One
  <1>8. Fewer(toHub, toHub', Ending(d)) /\ Fewer(toModule, toModule', Asking(d))
    BY <1>5, <1>7, FewerNone
  <1> QED
    BY <1>1, <1>2, <1>3, <1>6, <1>8, Stays

LEMMA PlacesStep ==
  ASSUME PathTypeOK, HelloFirst, OnePlace, [Next]_pathVars, NEW d \in Cmd
  PROVE  OnOneWay(d)' /\ (Nowhere(d) => Nowhere(d)')
  <1>1. OnOneWay(d)
    BY TypesSplit, OnePlaceIs DEF OnePlace, EvidenceTypes
  <1> QED
    BY <1>1, HubPlaces, TaskPlaces, ConnectionPlaces, BreakPlaces DEF Next

LEMMA OnePlaceStep ==
  ASSUME PathTypeOK, PathTypeOK', HelloFirst, OnePlace, [Next]_pathVars
  PROVE  OnePlace'
  <1> SUFFICES ASSUME NEW d \in Cmd PROVE (\A p, q \in Places(d) : p = q)'
    BY DEF OnePlace
  <1>1. OnOneWay(d)'
    BY PlacesStep
  <1>2. verdicts'[d] \in Nat
    BY DEF PathTypeOK
  <1>3. (\A p, q \in Places(d) : p = q)' <=> OnOneWay(d)'
    BY <1>2, PlacesAreNext DEF PlacesAre
  <1> QED
    BY <1>1, <1>3

(***************************************************************************)
(* While only the hub breaks.                                              *)
(***************************************************************************)
Calm == blips = 0 /\ reboots = 0

LEMMA CalmStep ==
  ASSUME PathTypeOK, PathTypeOK', HelloFirst, OnePlace, CalmInv, [Next]_pathVars
  PROVE  CalmInv'
  <1>t. EvidenceTypes /\ HubTypes /\ WireTypes
    BY TypesSplit
  <1>b. /\ blips \in Nat /\ reboots \in Nat
        /\ blips' \in {blips, blips + 1} /\ reboots' \in {reboots, reboots + 1}
    <2>1. CASE UNCHANGED <<blips, reboots>>
      BY <2>1 DEF CalmInv
    <2>2. CASE \E c \in Cmd : Submit(c) \/ Gateway(c) \/ DispatchTimeout(c) \/ LoopStall(c)
      BY <2>1, <2>2 DEF Submit, Gateway, Sent, NotSent, SendStuck, StuckSendFails, ReportLost,
         DispatchTimeout, LoopStall, boundVars
    <2>3. CASE HubRestart \/ Reboot \/ Blip \/ Notice
      BY <2>3 DEF HubRestart, Reboot, Blip, Notice, boundVars, CalmInv
    <2> QED
      BY <2>1, <2>2, <2>3, TaskFrame
      DEF Next, Session, RoleOk, AdoptionFails, Handle, EndSession, Connection, Dial,
          AnswerHelloOk, Receive, LoseWriter, boundVars, pathVars
  <1>1. SUFFICES ASSUME Calm'
                 PROVE  /\ link' # "cut"
                        /\ session' # "none" => link' = "up"
                        /\ \A d \in Cmd :
                             /\ gw'[d] \notin {"draining", "late"}
                             /\ losses'[d] <= 1
                             /\ gw'[d] = "lost" => losses'[d] = 0
                             /\ gw'[d] = "lost" \/ losses'[d] > 0 => Nowhere(d)'
    <2>1. \A d \in Cmd : Places(d)' = {} <=> Nowhere(d)'
      <3> SUFFICES ASSUME NEW d \in Cmd PROVE Places(d)' = {} <=> Nowhere(d)'
        OBVIOUS
      <3>1. verdicts'[d] \in Nat
        BY DEF PathTypeOK
      <3> QED
        BY <3>1, PlacesAreNext DEF PlacesAre
    <2> QED
      BY <1>b, <2>1 DEF CalmInv, Calm
  <1>2. Calm
    BY <1>1, <1>b DEF Calm
  <1>3. ~ Reboot /\ ~ Blip
    BY <1>1, <1>2 DEF Calm, Reboot, Blip
  <1>4. /\ link # "cut"
        /\ session # "none" => link = "up"
        /\ \A d \in Cmd :
             /\ gw[d] \notin {"draining", "late"}
             /\ losses[d] \in {0, 1}
             /\ gw[d] = "lost" => losses[d] = 0
             /\ gw[d] = "lost" \/ losses[d] > 0 => Nowhere(d)
    BY <1>2, <1>t, NowhereIs DEF CalmInv, Calm, EvidenceTypes
  <1>5. link' # "cut" /\ (session' # "none" => link' = "up")
    <2>1. CASE UNCHANGED <<link, session>>
      BY <1>4, <2>1
    <2> QED
      BY <1>3, <1>4, <2>1, TaskFrame
      DEF Next, Submit, Gateway, Sent, NotSent, SendStuck, StuckSendFails, ReportLost,
          DispatchTimeout, LoopStall, Session, RoleOk, AdoptionFails, Handle, EndSession,
          Connection, Dial, AnswerHelloOk, Receive, LoseWriter, HubRestart, Notice,
          hubVars, wireVars, pathVars
  <1> SUFFICES ASSUME NEW d \in Cmd
               PROVE  /\ gw'[d] \notin {"draining", "late"}
                      /\ losses'[d] <= 1
                      /\ gw'[d] = "lost" => losses'[d] = 0
                      /\ gw'[d] = "lost" \/ losses'[d] > 0 => Nowhere(d)'
    BY <1>5
  <1>n. Nowhere(d) => Nowhere(d)'
    BY PlacesStep
  \* Nobody gives the command up.
  <1>6. ASSUME losses'[d] = losses[d], gw'[d] = gw[d] \/ gw'[d] \in {"new", "done"}
        PROVE  /\ gw'[d] \notin {"draining", "late"}
               /\ losses'[d] <= 1
               /\ gw'[d] = "lost" => losses'[d] = 0
               /\ gw'[d] = "lost" \/ losses'[d] > 0 => Nowhere(d)'
    BY <1>4, <1>6, <1>n
  <1>7. CASE UNCHANGED <<gw, losses>>
    BY <1>6, <1>7
  <1>8. ASSUME NEW c \in Cmd,
               Submit(c) \/ Gateway(c) \/ DispatchTimeout(c) \/ LoopStall(c)
        PROVE  /\ gw'[d] \notin {"draining", "late"}
               /\ losses'[d] <= 1
               /\ gw'[d] = "lost" => losses'[d] = 0
               /\ gw'[d] = "lost" \/ losses'[d] > 0 => Nowhere(d)'
    <2>1. CASE Submit(c) \/ Sent(c) \/ LoopStall(c)
      <3>1. losses' = losses
        BY <2>1 DEF Submit, Sent, LoopStall, evidenceVars
      <3>2. gw'[d] = gw[d] \/ gw'[d] \in {"dispatching", "overdue", "done"}
        BY <2>1, <1>t DEF Submit, Sent, LoopStall, GatewayAt, HubTypes
      <3> QED
        BY <1>4, <1>n, <3>1, <3>2
    <2>2. CASE NotSent(c)
      <3>1. /\ losses' = losses
            /\ UNCHANGED <<toModule, ring, toHub, run, verdicts>>
        BY <2>2 DEF NotSent, evidenceVars, wireVars, moduleVars
      <3>2. CASE d = c /\ gw'[d] = "lost"
        <4>1. Waits(d) /\ ~ Waits(d)'
          BY <2>2, <3>2, <1>t DEF NotSent, GatewayAt, Waits, HubTypes
        <4>2. OnOneWay(d)
          BY <1>t, OnePlaceIs DEF OnePlace, EvidenceTypes
        <4>3. Nowhere(d)'
          BY <3>1, <4>1, <4>2 DEF OnOneWay, Nowhere, Works
        <4>4. losses[d] = 0
          BY <1>4, <4>1 DEF Nowhere
        <4> QED
          BY <3>1, <3>2, <4>3, <4>4
      <3>3. CASE ~ (d = c /\ gw'[d] = "lost")
        <4>1. gw'[d] = gw[d] \/ gw'[d] = "done"
          BY <2>2, <3>3, <1>t DEF NotSent, GatewayAt, HubTypes
        <4> QED
          BY <3>1, <4>1, <1>6
      <3> QED
        BY <3>2, <3>3
    <2>3. ~ SendStuck(c) /\ ~ DispatchTimeout(c)
      BY <1>4 DEF SendStuck, DispatchTimeout, GatewayAt
    <2>4. ~ StuckSendFails(c)
      BY <1>4 DEF StuckSendFails, GatewayAt
    <2>5. CASE ReportLost(c)
      <3>1. CASE d = c
        <4>1. gw[d] = "lost" /\ gw'[d] = "done" /\ losses'[d] = losses[d] + 1
          BY <2>5, <3>1, <1>t DEF ReportLost, GatewayAt, HubTypes, EvidenceTypes
        <4> QED
          BY <4>1, <1>4, <1>n
      <3>2. CASE d # c
        <4>1. gw'[d] = gw[d] /\ losses'[d] = losses[d]
          BY <2>5, <3>2, <1>t DEF ReportLost, GatewayAt, HubTypes, EvidenceTypes
        <4> QED
          BY <4>1, <1>6
      <3> QED
        BY <3>1, <3>2
    <2> QED
      BY <1>8, <2>1, <2>2, <2>3, <2>4, <2>5 DEF Gateway
  <1>9. ~ EndSession
    BY <1>4 DEF EndSession
  <1>10. CASE HubRestart
    <2>1. losses'[d] = losses[d] /\ gw'[d] \in {"new", "done"}
      BY <1>10 DEF HubRestart, LossesAtRestart
    <2> QED
      BY <2>1, <1>6
  <1> QED
    BY <1>3, <1>7, <1>8, <1>9, <1>10, TaskFrame
    DEF Next, Session, RoleOk, AdoptionFails, Handle, Connection, Dial, AnswerHelloOk, Receive,
        LoseWriter, Notice, evidenceVars, hubVars, pathVars

(***************************************************************************)
(* The theorems.                                                           *)
(***************************************************************************)
LEMMA PathInvStep == PathInv /\ [Next]_pathVars => PathInv'
  <1> SUFFICES ASSUME PathInv, [Next]_pathVars PROVE PathInv'
    OBVIOUS
  <1>1. /\ PathTypeOK /\ GatewayInv /\ HelloFirst /\ BusyInv /\ NoOrphan
        /\ OnePlace /\ CalmInv
    BY DEF PathInv
  <1>2. PathTypeOK'
    <2>1. EvidenceTypes' /\ HubTypes' /\ WireTypes' /\ ModuleTypes'
      BY <1>1, EvidenceStep, HubStep, WireStep, ModuleTypesStep
    <2> QED
      BY <2>1, Zenon DEF PathTypeOK, EvidenceTypes, HubTypes, WireTypes, ModuleTypes, Answers
  <1>3. GatewayInv' /\ HelloFirst' /\ BusyInv' /\ NoOrphan'
    BY <1>1, GatewayStep, HelloStep, BusyStep, OrphanStep
  <1>4. OnePlace' /\ CalmInv'
    BY <1>1, <1>2, OnePlaceStep, CalmStep
  <1> QED
    BY <1>2, <1>3, <1>4 DEF PathInv

\* The command path keeps its types and the agreements between gateway, wire
\* and module, whatever breaks and restarts (southbound.py, refmod.py).
THEOREM PathInvariant == Spec => []PathInv
  <1>1. Init => PathInv
    BY InitInv
  <1>2. PathInv /\ [Next]_pathVars => PathInv'
    BY PathInvStep
  <1> QED
    BY <1>1, <1>2, PTL DEF Spec

LEMMA BusyIsOne == PathInv => OneRun
  <1> SUFFICES ASSUME PathInv PROVE OneRun
    OBVIOUS
  <1> DEFINE active == {c \in Cmd : run[c] \in {"accepted", "running", "answered"}}
  <1>1. active \subseteq {busy}
    BY DEF PathInv, BusyInv
  <1>2. IsFiniteSet({busy}) /\ Cardinality({busy}) = 1
    BY FS_Singleton
  <1>3. Cardinality(active) <= 1
    BY <1>1, <1>2, FS_Subset
  <1> QED
    BY <1>3 DEF OneRun

\* A module runs the pumps for one command at a time (refmod.py:134-143).
THEOREM ModuleRunsOne == Spec => []OneRun
  BY PathInvariant, BusyIsOne, PTL

\* A hub that stays up, and whose event loop keeps pace, drops no command: each
\* one has its result or is held by the session or by its own thread
\* (southbound.py:94-180, 335-351, commands.py:165-190).
THEOREM HubDropsNothing == Spec => []NoOrphan
  <1>1. PathInv => NoOrphan
    BY DEF PathInv
  <1> QED
    BY <1>1, PathInvariant, PTL

LEMMA OnePlaceOneResult == PathInv => ResultOnce
  <1> SUFFICES ASSUME PathInv PROVE ResultOnce
    OBVIOUS
  <1>1. EvidenceTypes /\ OnePlace /\ CalmInv
    BY TypesSplit DEF PathInv
  <1>2. \A c \in Cmd : OnOneWay(c)
    BY <1>1, OnePlaceIs DEF OnePlace, EvidenceTypes
  <1>3. VerdictOnce
    BY <1>2 DEF VerdictOnce, OnOneWay
  <1>4. ASSUME blips = 0, reboots = 0, NEW c \in Cmd PROVE Results(c) <= 1
    <2>1. losses[c] \in Nat /\ verdicts[c] \in Nat /\ losses[c] <= 1 /\ verdicts[c] <= 1
      BY <1>1, <1>3, <1>4 DEF CalmInv, EvidenceTypes, VerdictOnce
    <2>2. losses[c] > 0 => verdicts[c] = 0
      BY <1>1, <1>4, NowhereIs DEF CalmInv, EvidenceTypes, Nowhere
    <2> QED
      BY <2>1, <2>2 DEF Results
  <1> QED
    BY <1>3, <1>4 DEF ResultOnce, RestartKeepsOne

\* The module's answer to a command becomes one result, through every break of
\* the connection and every restart of either side; and while only the hub
\* stops and starts a command has one result at all, because a loss is reported
\* of commands that were never sent (southbound.py:158-178, 287-308, 335-351,
\* refmod.py:94-118, 203-258).
THEOREM AnsweredOnce == Spec => []ResultOnce
  BY PathInvariant, OnePlaceOneResult, PTL
==============================================================================
