---------------------------- MODULE AdoptionProofs ----------------------------
(***************************************************************************)
(* What holds of adoption for any modules, connections and bounds: what    *)
(* the two tables of sessions name, where trust comes from, and that a     *)
(* hub on its way down reports no loss.                                    *)
(***************************************************************************)
EXTENDS Adoption, SequenceTheorems, TLAPS

In == {"HELLO", "ROLE_OK", "TELEM"}
Out == {"HELLO_OK", "QUARANTINE", "QUARANTINE_RELEASED"}

\* The wire: messages, links, and how far the dialling has come.
WireOK ==
  /\ link \in [Conn -> {"none", "up", "lost", "closed"}]
  /\ inbox \in [Conn -> Seq(In)]
  /\ outbox \in [Conn -> Seq(Out)]

\* The modules and their connections.
ModulesOK ==
  /\ pos \in [Conn -> Awaits]
  /\ owner \in [Conn -> Module]
  /\ on \in [Module -> 0..MaxConns]
  /\ phase \in [Module -> {"off", "hello", "quarantined", "serving"}]
  /\ dialled \in 0..MaxConns
  /\ \A m \in Module : phase[m] = "off" <=> on[m] = 0
  /\ \A c \in Conn : pos[c] = "none" <=> c > dialled

\* The hub, its threads and the evidence.
HubOK ==
  /\ state \in [Conn -> States]
  /\ sessions \in [Module -> 0..MaxConns]
  /\ quarantined \in [Module -> 0..MaxConns]
  /\ trusted \subseteq Module
  /\ trustFile \subseteq Module
  /\ draining \in BOOLEAN
  /\ asked \in 0..MaxConns
  /\ releasing \in BOOLEAN
  /\ (releasing => asked # 0)
  /\ watched \in 0..MaxConns
  /\ last \in [Module -> Events]
  /\ released \subseteq Module /\ unrecorded \subseteq Module
  /\ faults \in Nat

LEMMA TypeParts == AdoptionTypeOK <=> WireOK /\ ModulesOK /\ HubOK
  BY DEF AdoptionTypeOK, WireOK, ModulesOK, HubOK, In, Out

(***************************************************************************)
(* The wire.                                                               *)
(***************************************************************************)
LEMMA TailType ==
  ASSUME NEW S, NEW f \in [Conn -> Seq(S)], NEW c \in Conn, f[c] # <<>>
  PROVE  [f EXCEPT ![c] = Tail(@)] \in [Conn -> Seq(S)]
  <1>1. f[c] \in Seq(S)
    OBVIOUS
  <1>2. Tail(f[c]) \in Seq(S)
    BY <1>1, HeadTailProperties
  <1> QED
    BY <1>2

LEMMA AppendType ==
  ASSUME NEW S, NEW f \in [Conn -> Seq(S)], NEW c \in Conn, NEW e \in S
  PROVE  [f EXCEPT ![c] = Append(@, e)] \in [Conn -> Seq(S)]
  <1>1. Append(f[c], e) \in Seq(S)
    BY AppendProperties
  <1> QED
    BY <1>1

LEMMA EmptyType ==
  ASSUME NEW S, NEW f \in [Conn -> Seq(S)], NEW c \in Conn
  PROVE  [f EXCEPT ![c] = <<>>] \in [Conn -> Seq(S)]
  BY EmptySeq

LEMMA PrefixType ==
  ASSUME NEW S, NEW f \in [Conn -> Seq(S)], NEW c \in Conn, NEW n \in 0..Len(f[c])
  PROVE  [f EXCEPT ![c] = SubSeq(@, 1, n)] \in [Conn -> Seq(S)]
  <1>1. f[c] \in Seq(S) /\ Len(f[c]) \in Nat
    BY LenProperties
  <1>2. \A i \in 1..n : f[c][i] \in S
    BY <1>1, ElementOfSeq
  <1>3. SubSeq(f[c], 1, n) \in Seq(S)
    BY <1>1, <1>2, SubSeqProperties
  <1> QED
    BY <1>3

\* What a session does to the wire.
LEMMA SessionWire ==
  ASSUME WireOK, NEW c \in Conn, Session(c)
  PROVE  WireOK'
  <1>1. /\ \/ inbox' = inbox
           \/ inbox[c] # <<>> /\ inbox' = [inbox EXCEPT ![c] = Tail(@)]
           \/ inbox' = [inbox EXCEPT ![c] = <<>>]
        /\ \E msg \in Out : outbox' \in {outbox, [outbox EXCEPT ![c] = Append(@, msg)]}
        /\ link' \in {link, [link EXCEPT ![c] = "closed"]}
    BY DEF Session, HelloMissing, Quarantine, StartAdoption, Adopt, FailAdoption, Serve, EndServing,
       HelloRaises, AdoptRaises, ServeRaises, Left, LeftInPart, Logged, Fault, Ignore, EndQuarantine,
       Read, Discard, Finish, SendThenAwait, Written, Out, wireVars
  <1>2. inbox' \in [Conn -> Seq(In)]
    <2>1. inbox \in [Conn -> Seq(In)]
      BY DEF WireOK
    <2>2. inbox[c] # <<>> => [inbox EXCEPT ![c] = Tail(@)] \in [Conn -> Seq(In)]
      BY <2>1, TailType
    <2>3. [inbox EXCEPT ![c] = <<>>] \in [Conn -> Seq(In)]
      BY <2>1, EmptyType
    <2> QED
      BY <1>1, <2>1, <2>2, <2>3
  <1>3. outbox' \in [Conn -> Seq(Out)]
    <2>1. PICK msg \in Out : outbox' \in {outbox, [outbox EXCEPT ![c] = Append(@, msg)]}
      BY <1>1
    <2>2. outbox \in [Conn -> Seq(Out)]
      BY DEF WireOK
    <2>3. [outbox EXCEPT ![c] = Append(@, msg)] \in [Conn -> Seq(Out)]
      BY <2>2, AppendType
    <2> QED
      BY <2>1, <2>2, <2>3
  <1>4. link' \in [Conn -> {"none", "up", "lost", "closed"}]
    BY <1>1 DEF WireOK
  <1> QED
    BY <1>2, <1>3, <1>4 DEF WireOK

\* What a module does to it.
LEMMA ModuleWire ==
  ASSUME WireOK, ModulesOK, NEW m \in Module, ModuleStep(m)
  PROVE  WireOK' /\ ModulesOK'
  <1> USE AdoptionBounds DEF Conn
  <1>1. phase[m] # "off" => on[m] \in Conn
    BY DEF ModulesOK
  <1>2. CASE Dial(m)
    <2>1. dialled' = dialled + 1 /\ dialled' \in Conn
      BY <1>2 DEF Dial, ModulesOK
    <2>2. <<"HELLO">> \in Seq(In)
      BY DEF In
    <2>3. WireOK'
      BY <1>2, <2>1, <2>2 DEF Dial, WireOK
    <2>4. owner' \in [Conn -> Module] /\ on' \in [Module -> 0..MaxConns]
          /\ phase' \in [Module -> {"off", "hello", "quarantined", "serving"}]
      BY <1>2, <2>1 DEF Dial, ModulesOK
    <2>5. \A x \in Module : phase'[x] = "off" <=> on'[x] = 0
      BY <1>2, <2>1 DEF Dial, ModulesOK
    <2>6. /\ \A c \in Conn : pos'[c] = "none" <=> c > dialled'
          /\ pos' \in [Conn -> Awaits]
      BY <1>2, <2>1 DEF Dial, ModulesOK, Awaits
    <2> QED
      BY <2>1, <2>3, <2>4, <2>5, <2>6 DEF ModulesOK
  <1>3. CASE Answered(m)
    <2>1. on[m] \in Conn
      BY <1>1, <1>3 DEF Answered
    <2>2. outbox' \in [Conn -> Seq(Out)] /\ link' = link
      BY <1>3, <2>1, TailType DEF Answered, WireOK
    <2>3. inbox' \in {inbox, [inbox EXCEPT ![on[m]] = Append(@, "ROLE_OK")]}
      BY <1>3 DEF Answered, Sent
    <2>4. inbox' \in [Conn -> Seq(In)]
      <3>1. inbox \in [Conn -> Seq(In)] /\ "ROLE_OK" \in In
        BY DEF WireOK, In
      <3>2. [inbox EXCEPT ![on[m]] = Append(@, "ROLE_OK")] \in [Conn -> Seq(In)]
        BY <2>1, <3>1, AppendType
      <3> QED
        BY <2>3, <3>1, <3>2
    <2>5. \/ phase' = [phase EXCEPT ![m] = "serving"]
          \/ phase' = [phase EXCEPT ![m] = "quarantined"]
      BY <1>3 DEF Answered
    <2>6. UNCHANGED <<owner, on, dialled, pos>> /\ phase[m] # "off"
      BY <1>3 DEF Answered, hubVars
    <2>7. ModulesOK'
      BY <2>5, <2>6 DEF ModulesOK
    <2> QED
      BY <2>2, <2>4, <2>7 DEF WireOK
  <1>4. CASE Telemetry(m)
    <2>1. on[m] \in Conn
      BY <1>1, <1>4 DEF Telemetry
    <2>2. inbox' \in {inbox, [inbox EXCEPT ![on[m]] = Append(@, "TELEM")]}
      BY <1>4 DEF Telemetry, Sent
    <2>3. inbox' \in [Conn -> Seq(In)]
      <3>1. inbox \in [Conn -> Seq(In)] /\ "TELEM" \in In
        BY DEF WireOK, In
      <3>2. [inbox EXCEPT ![on[m]] = Append(@, "TELEM")] \in [Conn -> Seq(In)]
        BY <2>1, <3>1, AppendType
      <3> QED
        BY <2>2, <3>1, <3>2
    <2>4. UNCHANGED <<link, outbox, owner, on, phase, dialled, pos>>
      BY <1>4 DEF Telemetry, hubVars
    <2> QED
      BY <2>3, <2>4 DEF WireOK, ModulesOK
  <1>5. ASSUME phase[m] # "off", HangUp(m), UNCHANGED <<owner, dialled, pos>>,
               inbox' \in [Conn -> Seq(In)],
               \E fate \in {"up", "lost", "closed", link[on[m]]} : link' = [link EXCEPT ![on[m]] = fate]
        PROVE  WireOK' /\ ModulesOK'
    <2>1. on[m] \in Conn
      BY <1>1, <1>5
    <2>2. outbox' \in [Conn -> Seq(Out)]
      BY <1>5, <2>1, EmptyType DEF HangUp, WireOK
    <2>3. link' \in [Conn -> {"none", "up", "lost", "closed"}]
      BY <1>5, <2>1 DEF WireOK
    <2>4. on' = [on EXCEPT ![m] = 0] /\ phase' = [phase EXCEPT ![m] = "off"]
      BY <1>5 DEF HangUp
    <2>5. ModulesOK'
      BY <1>5, <2>4 DEF ModulesOK
    <2> QED
      BY <1>5, <2>2, <2>3, <2>5 DEF WireOK
  <1>6. CASE ConnectionEnds(m) \/ AnswerLate(m)
    <2>1. \E fate \in {"up", "lost", "closed", link[on[m]]} : link' = [link EXCEPT ![on[m]] = fate]
      BY <1>1, <1>6 DEF ConnectionEnds, AnswerLate, WireOK
    <2>2. phase[m] # "off" /\ HangUp(m) /\ UNCHANGED <<owner, dialled, pos, inbox>>
      BY <1>6 DEF ConnectionEnds, AnswerLate, hubVars
    <2> QED
      BY <1>5, <2>1, <2>2 DEF WireOK
  <1>7. CASE Drop(m)
    <2>1. phase[m] # "off" /\ HangUp(m) /\ UNCHANGED <<owner, dialled, pos>>
      BY <1>7 DEF Drop, hubVars
    <2>2. inbox' \in [Conn -> Seq(In)]
      BY <1>1, <1>7, PrefixType DEF Drop, WireOK
    <2>3. \E fate \in {"lost", "closed"} : link' = [link EXCEPT ![on[m]] = fate]
      BY <1>7 DEF Drop
    <2> QED
      BY <1>5, <2>1, <2>2, <2>3
  <1> QED
    BY <1>2, <1>3, <1>4, <1>6, <1>7 DEF ModuleStep

\* What the hub's own threads and its end do to the wire.
LEMMA HubWire ==
  ASSUME WireOK, ModulesOK, asked \in 0..MaxConns, releasing => asked # 0,
         \/ \E c \in Conn : Notice(c)
         \/ \E m \in Module : AskRelease(m) \/ FindSilent(m)
         \/ Release \/ Degrade \/ Drain \/ Stop \/ Crash
  PROVE  WireOK'
  <1> USE AdoptionBounds DEF Conn
  <1>1. CASE \E c \in Conn : Notice(c)
    BY <1>1 DEF Notice, WireOK
  <1>2. CASE Record
    <2>1. asked \in Conn /\ inbox' = inbox
      BY <1>2 DEF Record
    <2>2. outbox \in [Conn -> Seq(Out)] /\ "QUARANTINE_RELEASED" \in Out
      BY DEF WireOK, Out
    <2>3. [outbox EXCEPT ![asked] = Append(@, "QUARANTINE_RELEASED")] \in [Conn -> Seq(Out)]
      BY <2>1, <2>2, AppendType
    <2>4. outbox' \in [Conn -> Seq(Out)]
      BY <1>2, <2>2, <2>3 DEF Record, Written
    <2>5. link' = [link EXCEPT ![asked] = "closed"]
      BY <1>2 DEF Record
    <2> QED
      BY <2>1, <2>4, <2>5 DEF WireOK
  <1>3. CASE Stop \/ Crash
    <2>1. Restarted
      BY <1>3 DEF Stop, Crash
    <2>2. inbox' \in [Conn -> Seq(In)]
      BY <2>1, EmptySeq DEF Restarted
    <2>3. link' \in [Conn -> {"none", "up", "lost", "closed"}] /\ outbox' = outbox
      BY <2>1 DEF Restarted, WireOK
    <2> QED
      BY <2>2, <2>3 DEF WireOK
  <1>4. CASE \/ \E m \in Module : AskRelease(m) \/ FindSilent(m)
             \/ Trust \/ TrustFails \/ RecordFails \/ Degrade \/ Drain
    BY <1>4 DEF AskRelease, FindSilent, Trust, TrustFails, RecordFails, Degrade, Drain, wireVars, WireOK
  <1> QED
    BY <1>1, <1>2, <1>3, <1>4 DEF Release

(***************************************************************************)
(* The hub, the threads and the evidence.                                  *)
(***************************************************************************)
LEMMA SessionTypes ==
  ASSUME AdoptionTypeOK, NEW c \in Conn, Session(c)
  PROVE  ModulesOK' /\ HubOK'
  <1> USE TypeParts
  <1>1. UNCHANGED <<owner, on, phase, dialled, trusted, trustFile, asked, releasing, watched, draining, released,
                  unrecorded>> /\ faults' \in {faults, faults + 1}
    BY DEF Session, HelloMissing, Quarantine, StartAdoption, Adopt, FailAdoption, Serve, EndServing,
       HelloRaises, AdoptRaises, ServeRaises, Left, LeftInPart, Logged, Fault, Ignore, EndQuarantine,
       hubVars, trustVars, threadVars, moduleVars, logVars, bounds
  <1>2. pos[c] \in {"hello", "role", "serve", "hold"}
    BY DEF Session, HelloMissing, Quarantine, StartAdoption, Adopt, FailAdoption, Serve, EndServing,
       HelloRaises, AdoptRaises, ServeRaises, Left, LeftInPart, Logged, Fault, Ignore, EndQuarantine
  <1>3. \E to \in Awaits \ {"none"} : pos' = [pos EXCEPT ![c] = to]
    <2>1. \/ pos' = pos
          \/ \E to \in Awaits \ {"none"} : pos' = [pos EXCEPT ![c] = to]
      BY DEF Session, HelloMissing, Quarantine, StartAdoption, Adopt, FailAdoption, Serve, EndServing,
         HelloRaises, AdoptRaises, ServeRaises, Left, LeftInPart, Logged, Fault, Ignore, EndQuarantine,
         SendThenAwait, Finish, hubVars, Awaits
    <2>2. pos = [pos EXCEPT ![c] = pos[c]] /\ pos[c] \in Awaits \ {"none"}
      BY <1>2 DEF ModulesOK, Awaits
    <2> QED
      BY <2>1, <2>2
  <1>4. state' = state \/ \E s \in States : state' = [state EXCEPT ![c] = s]
    <2>1. \/ state' = state
          \/ state' = [state EXCEPT ![c] = IF @ = "ADOPTING" THEN "OPERATIONAL" ELSE @]
          \/ \E s \in States : state' = [state EXCEPT ![c] = s]
      BY DEF Session, HelloMissing, Quarantine, StartAdoption, Adopt, FailAdoption, Serve, EndServing,
         HelloRaises, AdoptRaises, ServeRaises, Left, LeftInPart, Logged, Fault, Ignore, EndQuarantine,
         hubVars, States
    <2>2. (IF state[c] = "ADOPTING" THEN "OPERATIONAL" ELSE state[c]) \in States
      BY DEF HubOK, States
    <2> QED
      BY <2>1, <2>2
  <1>5. last' = last \/ \E e \in Events : last' = [last EXCEPT ![owner[c]] = e]
    BY DEF Session, HelloMissing, Quarantine, StartAdoption, Adopt, FailAdoption, Serve, EndServing,
       HelloRaises, AdoptRaises, ServeRaises, Left, LeftInPart, Logged, Fault, Ignore, EndQuarantine,
       Identity, logVars, Events
  <1>6. /\ sessions' \in {sessions, [sessions EXCEPT ![owner[c]] = 0], [sessions EXCEPT ![owner[c]] = c]}
        /\ quarantined' \in {quarantined, [quarantined EXCEPT ![owner[c]] = 0],
                             [quarantined EXCEPT ![owner[c]] = c]}
    BY DEF Session, HelloMissing, Quarantine, StartAdoption, Adopt, FailAdoption, Serve, EndServing,
       HelloRaises, AdoptRaises, ServeRaises, Left, LeftInPart, Logged, Fault, Ignore, EndQuarantine,
       SendThenAwait, SessionsAtEnd, Pop, Finish, hubVars
  <1>7. owner[c] \in Module /\ 0 \in 0..MaxConns /\ c \in 0..MaxConns
    BY AdoptionBounds DEF ModulesOK, Conn
  <1>8. ModulesOK'
    BY <1>1, <1>2, <1>3 DEF ModulesOK
  <1>9. state' \in [Conn -> States] /\ last' \in [Module -> Events]
    BY <1>4, <1>5 DEF HubOK
  <1>10. sessions' \in [Module -> 0..MaxConns] /\ quarantined' \in [Module -> 0..MaxConns]
    BY <1>6, <1>7 DEF HubOK
  <1> QED
    BY <1>1, <1>8, <1>9, <1>10 DEF HubOK

LEMMA ModuleTypes ==
  ASSUME AdoptionTypeOK, NEW m \in Module, ModuleStep(m)
  PROVE  HubOK'
  <1> USE TypeParts, AdoptionBounds
  <1>1. UNCHANGED <<sessions, quarantined, draining, trusted, trustFile, asked, releasing, watched, last, released,
                  unrecorded, faults>>
    BY DEF ModuleStep, Dial, Answered, Telemetry, ConnectionEnds, AnswerLate, Drop,
       hubVars, trustVars, threadVars, logVars, bounds
  <1>2. state' = state \/ state' = [state EXCEPT ![dialled + 1] = "CONNECTED"]
    BY DEF ModuleStep, Dial, Answered, Telemetry, ConnectionEnds, AnswerLate, Drop, hubVars
  <1>3. state' \in [Conn -> States]
    BY <1>2 DEF HubOK, States
  <1> QED
    BY <1>1, <1>3 DEF HubOK

LEMMA ThreadTypes ==
  ASSUME AdoptionTypeOK,
         \/ \E c \in Conn : Notice(c)
         \/ \E m \in Module : AskRelease(m) \/ FindSilent(m)
         \/ Release \/ Degrade \/ Drain \/ Stop \/ Crash
  PROVE  ModulesOK' /\ HubOK'
  <1> USE TypeParts, AdoptionBounds
  <1>1. ModulesOK /\ HubOK
    OBVIOUS
  <1>2. CASE \/ \E c \in Conn : Notice(c)
             \/ \E m \in Module : AskRelease(m) \/ FindSilent(m)
             \/ Drain
    <2>1. UNCHANGED <<owner, on, phase, dialled, pos, state, sessions, quarantined, trusted, trustFile,
                      releasing, last, released, unrecorded, faults>>
      BY <1>2 DEF Notice, AskRelease, FindSilent, Drain, hubVars, trustVars, threadVars, moduleVars, logVars, bounds
    <2>2. draining' \in BOOLEAN
      BY <1>1, <1>2 DEF Notice, AskRelease, FindSilent, Drain, hubVars, HubOK
    <2>3. asked' \in 0..MaxConns /\ watched' \in 0..MaxConns /\ (asked # 0 => asked' # 0)
      BY <1>1, <1>2 DEF Notice, AskRelease, FindSilent, Drain, threadVars, HubOK
    <2> QED
      BY <1>1, <2>1, <2>2, <2>3 DEF ModulesOK, HubOK
  <1>3. CASE Release
    <2>1. asked \in Conn /\ owner[asked] \in Module
      BY <1>1, <1>3 DEF Release, Trust, TrustFails, Record, RecordFails, HubOK, ModulesOK, Conn
    <2>2. UNCHANGED <<owner, on, phase, dialled, pos, sessions, quarantined, draining, watched>>
      BY <1>3 DEF Release, Trust, TrustFails, Record, RecordFails, hubVars, moduleVars
    <2>3. /\ trusted' \in {trusted, trusted \cup SerialOf(asked)}
          /\ trustFile' \in {trustFile, trusted'}
          /\ released' \in {released, released \cup {owner[asked]}}
          /\ unrecorded' \in {unrecorded, unrecorded \cup SerialOf(asked)}
          /\ faults' \in {faults, faults + 1}
      BY <1>3 DEF Release, Trust, TrustFails, Record, RecordFails, FileWritten, Fault, trustVars, logVars, bounds
    <2>4. /\ state' \in {state, [state EXCEPT ![asked] = "RELEASED"]}
          /\ last' \in {last, [last EXCEPT ![owner[asked]] = "released"]}
          /\ \/ asked' = asked /\ releasing' = TRUE
             \/ asked' = 0 /\ releasing' = FALSE
      BY <1>3 DEF Release, Trust, TrustFails, Record, RecordFails, Identity, hubVars, logVars
    <2>5. state' \in [Conn -> States] /\ last' \in [Module -> Events]
      BY <1>1, <2>4 DEF HubOK, States, Events
    <2>6. trusted' \subseteq Module /\ trustFile' \subseteq Module
      BY <1>1, <2>1, <2>3 DEF HubOK, SerialOf
    <2>7. released' \subseteq Module /\ unrecorded' \subseteq Module
      BY <1>1, <2>1, <2>3 DEF HubOK, SerialOf
    <2>8. asked' \in 0..MaxConns /\ faults' \in Nat
      BY <1>1, <2>1, <2>3, <2>4 DEF HubOK, Conn
    <2>9. releasing' \in BOOLEAN /\ (releasing' => asked' # 0)
      <3>1. asked # 0
        BY <2>1 DEF Conn
      <3> QED
        BY <2>4, <3>1
    <2> QED
      BY <1>1, <2>2, <2>5, <2>6, <2>7, <2>8, <2>9 DEF ModulesOK, HubOK
  <1>4. CASE Degrade
    <2>1. UNCHANGED <<owner, on, phase, dialled, pos, sessions, quarantined, draining, trusted, trustFile,
                      asked, releasing, released, unrecorded>> /\ faults' \in {faults, faults + 1}
      BY <1>4 DEF Degrade, Logged, Fault, trustVars, moduleVars, bounds
    <2>2. /\ state' = [state EXCEPT ![watched] = "DEGRADED"]
          /\ last' \in {last, [last EXCEPT ![owner[watched]] = "degraded"]}
          /\ watched' = 0
      BY <1>4 DEF Degrade, Logged, Identity
    <2>3. state' \in [Conn -> States] /\ last' \in [Module -> Events]
      BY <1>1, <2>2 DEF HubOK, States, Events
    <2>4. faults' \in Nat
      BY <1>1, <2>1 DEF HubOK
    <2> QED
      BY <1>1, <2>1, <2>2, <2>3, <2>4 DEF ModulesOK, HubOK
  <1>5. CASE Stop \/ Crash
    <2>1. Restarted
      BY <1>5 DEF Stop, Crash
    <2>2. UNCHANGED <<trustFile, owner, on, phase, dialled, released, faults>>
      BY <2>1 DEF Restarted, moduleVars
    <2>3. /\ \A c \in Conn : (pos'[c] = "none") = (pos[c] = "none")
          /\ pos' \in [Conn -> Awaits] /\ state' \in [Conn -> States]
      BY <2>1 DEF Restarted, Awaits, States
    <2>4. last' \in [Module -> Events]
      BY <1>1, <1>5 DEF Stop, Crash, HubOK, Events
    <2>5. /\ sessions' = [m \in Module |-> 0] /\ quarantined' = [m \in Module |-> 0]
          /\ trusted' = trustFile /\ draining' = FALSE /\ asked' = 0 /\ releasing' = FALSE
          /\ watched' = 0 /\ unrecorded' \in {unrecorded, unrecorded \cup SerialOf(asked)}
      BY <2>1 DEF Restarted
    <2>6. ModulesOK'
      BY <1>1, <2>2, <2>3 DEF ModulesOK
    <2>7. sessions' \in [Module -> 0..MaxConns] /\ quarantined' \in [Module -> 0..MaxConns]
      BY <2>5
    <2>8. trusted' \subseteq Module /\ trustFile' \subseteq Module /\ released' \subseteq Module
      BY <1>1, <2>2, <2>5 DEF HubOK
    <2>9. asked' \in 0..MaxConns /\ watched' \in 0..MaxConns /\ faults' \in Nat
      BY <1>1, <2>2, <2>5 DEF HubOK
    <2>10. unrecorded' \subseteq Module
      <3>1. CASE releasing
        <4>1. owner[asked] \in Module
          BY <1>1, <3>1 DEF HubOK, ModulesOK, Conn
        <4> QED
          BY <1>1, <2>5, <4>1 DEF HubOK, SerialOf
      <3>2. CASE ~ releasing
        BY <1>1, <2>1, <3>2 DEF Restarted, HubOK
      <3> QED
        BY <3>1, <3>2
    <2> QED
      BY <2>3, <2>4, <2>5, <2>6, <2>7, <2>8, <2>9, <2>10 DEF HubOK
  <1> QED
    BY <1>2, <1>3, <1>4, <1>5

LEMMA TypeStep == AdoptionTypeOK /\ [Next]_adoptionVars => AdoptionTypeOK'
  <1> SUFFICES ASSUME AdoptionTypeOK, [Next]_adoptionVars PROVE AdoptionTypeOK'
    OBVIOUS
  <1>1. WireOK /\ ModulesOK /\ HubOK
    BY TypeParts
  <1>2. WireOK' /\ ModulesOK' /\ HubOK' => AdoptionTypeOK'
    BY TypeParts, PTL
  <1>3. ASSUME NEW c \in Conn, Session(c) PROVE AdoptionTypeOK'
    BY <1>1, <1>2, <1>3, SessionWire, SessionTypes
  <1>4. ASSUME NEW m \in Module, ModuleStep(m) PROVE AdoptionTypeOK'
    BY <1>1, <1>2, <1>4, ModuleWire, ModuleTypes
  <1>5. CASE \/ \E c \in Conn : Notice(c)
             \/ \E m \in Module : AskRelease(m) \/ FindSilent(m)
             \/ Release \/ Degrade \/ Drain \/ Stop \/ Crash
    <2>1. asked \in 0..MaxConns /\ (releasing => asked # 0)
      BY <1>1 DEF HubOK
    <2> QED
      BY <1>1, <1>2, <1>5, <2>1, HubWire, ThreadTypes
  <1>6. CASE UNCHANGED adoptionVars
    <2>1. WireOK' /\ ModulesOK' /\ HubOK'
      BY <1>1, <1>6 DEF WireOK, ModulesOK, HubOK, adoptionVars, hubVars, trustVars, threadVars, wireVars,
         moduleVars, logVars, bounds
    <2> QED
      BY <1>2, <2>1
  <1> QED
    BY <1>3, <1>4, <1>5, <1>6 DEF Next

(***************************************************************************)
(* The tables: what they name is a session they can name.                  *)
(***************************************************************************)

\* The stages of the sessions and what the tables and threads say of them.
TablesOK == RoutesLive /\ ReleasesLive /\ StagesFit

LEMMA InitTables == Init => AdoptionTypeOK /\ TablesOK
  <1> SUFFICES ASSUME Init PROVE AdoptionTypeOK /\ TablesOK
    OBVIOUS
  <1> USE AdoptionBounds
  <1>1. (CHOOSE m \in Module : TRUE) \in Module
    BY ModuleAssumption
  <1>2. WireOK
    BY EmptySeq DEF Init, WireOK
  <1>3. ModulesOK
    <2>1. owner \in [Conn -> Module]
      BY <1>1 DEF Init
    <2>2. pos = [c \in Conn |-> "none"] /\ on = [m \in Module |-> 0] /\ phase = [m \in Module |-> "off"]
          /\ dialled = 0
      BY DEF Init
    <2> QED
      BY <2>1, <2>2 DEF ModulesOK, Conn, Awaits
  <1>4. HubOK
    <2>1. /\ state = [c \in Conn |-> "NONE"] /\ last = [m \in Module |-> "none"]
          /\ sessions = [m \in Module |-> 0] /\ quarantined = [m \in Module |-> 0]
          /\ trusted = {} /\ trustFile = {} /\ released = {} /\ unrecorded = {}
          /\ asked = 0 /\ releasing = FALSE /\ watched = 0 /\ faults = 0
      BY DEF Init
    <2>2. state \in [Conn -> States] /\ last \in [Module -> Events]
      BY <2>1 DEF States, Events
    <2>3. sessions \in [Module -> 0..MaxConns] /\ quarantined \in [Module -> 0..MaxConns]
      BY <2>1
    <2>4. draining \in BOOLEAN /\ releasing \in BOOLEAN
      BY DEF Init
    <2>5. asked \in 0..MaxConns /\ watched \in 0..MaxConns
      BY <2>1
    <2> QED
      BY <2>1, <2>2, <2>3, <2>4, <2>5 DEF HubOK
  <1> QED
    BY <1>2, <1>3, <1>4, TypeParts DEF Init, TablesOK, RoutesLive, ReleasesLive, StagesFit

LEMMA SessionTables ==
  ASSUME AdoptionTypeOK, TablesOK, NEW c \in Conn, Session(c)
  PROVE  TablesOK'
  <1> USE DEF TablesOK
  <1> DEFINE m == owner[c]
  <1>1. /\ m \in Module /\ c # 0
        /\ state \in [Conn -> States] /\ pos \in [Conn -> Awaits]
        /\ sessions \in [Module -> 0..MaxConns] /\ quarantined \in [Module -> 0..MaxConns]
    <2>1. ModulesOK /\ HubOK
      BY TypeParts
    <2>2. m \in Module /\ pos \in [Conn -> Awaits]
      BY <2>1 DEF ModulesOK
    <2>3. /\ state \in [Conn -> States]
          /\ sessions \in [Module -> 0..MaxConns] /\ quarantined \in [Module -> 0..MaxConns]
      BY <2>1 DEF HubOK
    <2> QED
      BY <2>2, <2>3, AdoptionBounds DEF Conn
  <1>2. UNCHANGED <<owner, asked, watched>>
    BY DEF Session, HelloMissing, Quarantine, StartAdoption, Adopt, FailAdoption, Serve, EndServing,
       HelloRaises, AdoptRaises, ServeRaises, Left, LeftInPart, Logged, Fault, Ignore, EndQuarantine,
       threadVars, moduleVars
  <1>3. \A x \in Module : /\ sessions[x] # 0 => sessions[x] \in Conn
                          /\ quarantined[x] # 0 => quarantined[x] \in Conn
    BY <1>1, AdoptionBounds DEF Conn
  <1>4. /\ asked # 0 => asked \in Conn
        /\ watched # 0 => watched \in Conn
    BY AdoptionBounds DEF AdoptionTypeOK, Conn
  <1>5. faults \in Nat /\ faults' \in {faults, faults + 1}
    BY DEF AdoptionTypeOK, Session, HelloMissing, Quarantine, StartAdoption, Adopt, FailAdoption, Serve, EndServing,
       HelloRaises, AdoptRaises, ServeRaises, Left, LeftInPart, Logged, Fault, Ignore, EndQuarantine, bounds
  <1>6. faults > 0 => faults' > 0
    BY <1>5
  <1>7. ASSUME pos[c] \in {"hello", "role", "serve"}, pos' = [pos EXCEPT ![c] = "done"],
               sessions' \in {sessions, [sessions EXCEPT ![m] = 0], [sessions EXCEPT ![m] = c]},
               sessions'[m] = c => state'[c] = "REMOVED" /\ faults' > 0,
               quarantined' = quarantined, NEW s, state' = [state EXCEPT ![c] = s]
        PROVE  TablesOK'
    <2>1. \A x \in Module : sessions'[x] # 0 =>
            \/ sessions'[x] = sessions[x] /\ sessions[x] # c
            \/ x = m /\ sessions'[x] = c
      BY <1>1, <1>7 DEF RoutesLive
    <2>2. RoutesLive'
      BY <1>1, <1>2, <1>3, <1>6, <1>7, <2>1 DEF RoutesLive
    <2>3. ReleasesLive'
      BY <1>1, <1>2, <1>3, <1>7 DEF ReleasesLive
    <2>4. \A x \in Module : quarantined[x] # c
      BY <1>1, <1>7 DEF ReleasesLive
    <2>5. asked # c
      BY <1>1, <1>7 DEF StagesFit
    <2> QED
      BY <1>1, <1>2, <1>4, <1>7, <2>1, <2>2, <2>3, <2>4, <2>5 DEF StagesFit
  <1>8. CASE HelloMissing(c)
    <2>1. UNCHANGED <<state, sessions, quarantined>> /\ pos' = [pos EXCEPT ![c] = "done"] /\ pos[c] = "hello"
      BY <1>8 DEF HelloMissing, Finish
    <2>2. sessions[m] # c /\ state' = [state EXCEPT ![c] = state[c]]
      BY <1>1, <2>1 DEF RoutesLive
    <2> QED
      BY <1>7, <2>1, <2>2
  <1>9. CASE HelloRaises(c) \/ FailAdoption(c)
    <2>1. /\ \E s \in States : state' = [state EXCEPT ![c] = s]
          /\ pos[c] \in {"hello", "role"} /\ pos' = [pos EXCEPT ![c] = "done"]
          /\ quarantined' = quarantined
          /\ sessions' \in {sessions, [sessions EXCEPT ![m] = 0]}
      BY <1>9 DEF HelloRaises, FailAdoption, Finish, SessionsAtEnd, Pop, States
    <2>2. sessions'[m] # c
      BY <1>1, <2>1 DEF RoutesLive
    <2> QED
      BY <1>7, <2>1, <2>2
  <1>10. CASE EndServing(c) \/ ServeRaises(c) \/ AdoptRaises(c)
    <2>1. /\ pos[c] \in {"role", "serve"} /\ pos' = [pos EXCEPT ![c] = "done"]
          /\ quarantined' = quarantined
      BY <1>10 DEF EndServing, ServeRaises, AdoptRaises, Left, LeftInPart, Finish
    <2>2. \/ /\ sessions' = [sessions EXCEPT ![m] = 0] \/ sessions' = [[sessions EXCEPT ![m] = c] EXCEPT ![m] = 0]
             /\ \/ state' = [state EXCEPT ![c] = "REMOVED"]
                \/ state' = [state EXCEPT ![c] = IF @ = "ADOPTING" THEN "OPERATIONAL" ELSE @]
          \/ /\ sessions' = sessions \/ sessions' = [sessions EXCEPT ![m] = c]
             /\ state' = [state EXCEPT ![c] = "REMOVED"]
             /\ faults' = faults + 1
      BY <1>10 DEF EndServing, ServeRaises, AdoptRaises, Left, LeftInPart, Fault, Pop
    <2>3. [[sessions EXCEPT ![m] = c] EXCEPT ![m] = 0] = [sessions EXCEPT ![m] = 0]
      OBVIOUS
    <2>4. /\ sessions' \in {sessions, [sessions EXCEPT ![m] = 0], [sessions EXCEPT ![m] = c]}
          /\ sessions'[m] = c => state'[c] = "REMOVED" /\ faults' > 0
      BY <1>1, <1>5, <2>2, <2>3
    <2>5. \E s : state' = [state EXCEPT ![c] = s]
      <3>1. CASE state' = [state EXCEPT ![c] = IF @ = "ADOPTING" THEN "OPERATIONAL" ELSE @]
        <4>1. state' = [state EXCEPT ![c] = IF state[c] = "ADOPTING" THEN "OPERATIONAL" ELSE state[c]]
          BY <3>1
        <4> QED
          BY <4>1
      <3> QED
        BY <2>2, <3>1
    <2> QED
      BY <1>7, <2>1, <2>4, <2>5
  <1>11. CASE Quarantine(c)
    <2>1. /\ state' = [state EXCEPT ![c] = "QUARANTINED"] /\ pos[c] = "hello"
          /\ quarantined' = [quarantined EXCEPT ![m] = c]
          /\ sessions' \in {sessions, [sessions EXCEPT ![m] = 0]}
          /\ \E p \in {"hold", "done"} : pos' = [pos EXCEPT ![c] = p]
          /\ m \notin Allowed \ OldProto
      BY <1>11 DEF Quarantine, SendThenAwait, Finish, SessionsAtEnd, Pop, Trusts
    <2>2. \A x \in Module : sessions'[x] # 0 => sessions'[x] = sessions[x] /\ sessions[x] # c
      BY <1>1, <2>1 DEF RoutesLive
    <2>3. RoutesLive'
      BY <1>1, <1>2, <1>3, <1>6, <2>1, <2>2 DEF RoutesLive
    <2>4. ReleasesLive'
      BY <1>1, <1>2, <1>3, <2>1 DEF ReleasesLive
    <2> QED
      BY <1>1, <1>2, <1>4, <2>1, <2>2, <2>3, <2>4 DEF StagesFit
  <1>12. CASE StartAdoption(c)
    <2>1. /\ state' = [state EXCEPT ![c] = "ADOPTING"] /\ pos[c] = "hello"
          /\ quarantined' = quarantined
          /\ sessions' \in {sessions, [sessions EXCEPT ![m] = 0]}
          /\ \E p \in {"role", "done"} : pos' = [pos EXCEPT ![c] = p]
      BY <1>12 DEF StartAdoption, SendThenAwait, Finish, SessionsAtEnd, Pop
    <2>2. \A x \in Module : sessions'[x] # 0 => sessions'[x] = sessions[x] /\ sessions[x] # c
      BY <1>1, <2>1 DEF RoutesLive
    <2>3. RoutesLive'
      BY <1>1, <1>2, <1>3, <1>6, <2>1, <2>2 DEF RoutesLive
    <2>4. ReleasesLive'
      BY <1>1, <1>2, <1>3, <2>1 DEF ReleasesLive
    <2> QED
      BY <1>1, <1>2, <1>4, <2>1, <2>2, <2>3, <2>4 DEF StagesFit
  <1>13. CASE Adopt(c)
    <2>1. /\ state' = [state EXCEPT ![c] = "OPERATIONAL"] /\ pos[c] = "role"
          /\ quarantined' = quarantined
          /\ sessions' = [sessions EXCEPT ![m] = c]
          /\ pos' = [pos EXCEPT ![c] = "serve"]
      BY <1>13 DEF Adopt
    <2>2. asked # c /\ \A x \in Module : quarantined[x] # c
      BY <1>1, <2>1 DEF ReleasesLive, StagesFit
    <2>3. RoutesLive'
      BY <1>1, <1>2, <1>3, <1>6, <2>1 DEF RoutesLive
    <2>4. ReleasesLive'
      BY <1>1, <1>2, <1>3, <2>1 DEF ReleasesLive
    <2> QED
      BY <1>1, <1>2, <1>4, <2>1, <2>2, <2>3, <2>4 DEF StagesFit
  <1>14. CASE Serve(c) \/ Ignore(c)
    <2>1. /\ state' \in {state, [state EXCEPT ![c] = "OPERATIONAL"]}
          /\ state' # state => pos[c] = "serve"
          /\ UNCHANGED <<pos, sessions, quarantined>>
      BY <1>14 DEF Serve, Ignore, hubVars
    <2>2. RoutesLive'
      BY <1>1, <1>2, <1>3, <1>6, <2>1 DEF RoutesLive
    <2>3. ReleasesLive'
      BY <1>1, <1>2, <1>3, <2>1 DEF ReleasesLive
    <2> QED
      BY <1>1, <1>2, <1>4, <2>1, <2>2, <2>3 DEF StagesFit
  <1>15. CASE EndQuarantine(c)
    <2>1. /\ state' \in {state, [state EXCEPT ![c] = "REMOVED"]} /\ pos[c] = "hold"
          /\ quarantined' = [quarantined EXCEPT ![m] = 0]
          /\ sessions' \in {sessions, [sessions EXCEPT ![m] = 0]}
          /\ pos' = [pos EXCEPT ![c] = "done"]
      BY <1>15 DEF EndQuarantine, Finish, SessionsAtEnd, Pop
    <2>2. \A x \in Module : sessions'[x] # 0 => sessions'[x] = sessions[x] /\ sessions[x] # c
      BY <1>1, <2>1 DEF RoutesLive
    <2>3. RoutesLive'
      BY <1>1, <1>2, <1>3, <1>6, <2>1, <2>2 DEF RoutesLive
    <2>4. ReleasesLive'
      BY <1>1, <1>2, <1>3, <2>1 DEF ReleasesLive
    <2> QED
      BY <1>1, <1>2, <1>4, <2>1, <2>2, <2>3, <2>4 DEF StagesFit
  <1> QED
    BY <1>8, <1>9, <1>10, <1>11, <1>12, <1>13, <1>14, <1>15 DEF Session

\* A module that dials takes a connection nobody knows; whatever else it does
\* the hub does not see.
LEMMA ModuleTables ==
  ASSUME AdoptionTypeOK, TablesOK, NEW m \in Module, ModuleStep(m)
  PROVE  TablesOK'
  <1> USE AdoptionBounds DEF TablesOK
  <1>1. UNCHANGED <<sessions, quarantined, asked, watched, faults>>
    BY DEF ModuleStep, Dial, Answered, Telemetry, ConnectionEnds, AnswerLate, Drop, hubVars, threadVars, bounds
  <1>2. CASE Dial(m)
    <2>1. dialled + 1 \in Conn /\ pos[dialled + 1] = "none"
      BY <1>2 DEF Dial, AdoptionTypeOK, Conn
    <2>2. /\ owner' = [owner EXCEPT ![dialled + 1] = m]
          /\ pos' = [pos EXCEPT ![dialled + 1] = "hello"]
          /\ state' = [state EXCEPT ![dialled + 1] = "CONNECTED"]
      BY <1>2 DEF Dial
    <2>3. \A c \in Conn : pos[c] # "none" => UNCHANGED <<owner[c], pos[c], state[c]>>
      BY <2>1, <2>2 DEF AdoptionTypeOK
    <2>4. \A x \in Module : /\ sessions[x] # 0 => sessions[x] \in Conn
                            /\ quarantined[x] # 0 => quarantined[x] \in Conn
      BY DEF AdoptionTypeOK, Conn
    <2>5. /\ asked # 0 => asked \in Conn
          /\ watched # 0 => watched \in Conn
      BY DEF AdoptionTypeOK, Conn
    <2>6. RoutesLive' /\ ReleasesLive'
      BY <1>1, <2>3, <2>4 DEF RoutesLive, ReleasesLive
    <2>7. \A c \in Conn : pos'[c] \in {"serve", "hold"} => UNCHANGED <<owner[c], pos[c], state[c]>>
      BY <2>1, <2>2 DEF AdoptionTypeOK
    <2> QED
      BY <1>1, <2>3, <2>5, <2>6, <2>7 DEF StagesFit
  <1>3. CASE ~Dial(m)
    <2>1. UNCHANGED <<owner, pos, state>>
      BY <1>3 DEF ModuleStep, Answered, Telemetry, ConnectionEnds, AnswerLate, Drop, hubVars
    <2> QED
      BY <1>1, <2>1 DEF RoutesLive, ReleasesLive, StagesFit
  <1> QED
    BY <1>2, <1>3

LEMMA ThreadTables ==
  ASSUME AdoptionTypeOK, TablesOK,
         \/ \E c \in Conn : Notice(c)
         \/ \E m \in Module : AskRelease(m) \/ FindSilent(m)
         \/ Release \/ Degrade \/ Drain \/ Stop \/ Crash \/ UNCHANGED adoptionVars
  PROVE  TablesOK'
  <1> USE AdoptionBounds DEF TablesOK
  <1>1. CASE \/ \E c \in Conn : Notice(c)
             \/ Trust \/ TrustFails \/ Drain \/ UNCHANGED adoptionVars
    <2>1. UNCHANGED <<owner, pos, state, sessions, quarantined, watched>> /\ asked' \in {0, asked}
          /\ faults' \in {faults, faults + 1}
      BY <1>1 DEF Notice, Trust, TrustFails, Fault, Drain, hubVars, threadVars, moduleVars, bounds, adoptionVars
    <2>2. faults > 0 => faults' > 0
      BY <2>1 DEF AdoptionTypeOK
    <2> QED
      BY <2>1, <2>2 DEF RoutesLive, ReleasesLive, StagesFit
  <1>2. ASSUME NEW m \in Module, AskRelease(m) \/ FindSilent(m) PROVE TablesOK'
    <2>1. UNCHANGED <<owner, pos, state, sessions, quarantined, faults>>
      BY <1>2 DEF AskRelease, FindSilent, hubVars, moduleVars, bounds
    <2>2. /\ asked' # asked => asked' = quarantined[m] /\ quarantined[m] # 0
          /\ watched' # watched => watched' = sessions[m] /\ sessions[m] # 0
      BY <1>2 DEF AskRelease, FindSilent
    <2> QED
      BY <2>1, <2>2 DEF RoutesLive, ReleasesLive, StagesFit
  <1>3. CASE Record \/ RecordFails
    <2>1. /\ UNCHANGED <<owner, pos, sessions, quarantined, watched>> /\ asked' = 0 /\ releasing
          /\ state' = [state EXCEPT ![asked] = "RELEASED"]
          /\ faults' \in {faults, faults + 1}
      BY <1>3 DEF Record, RecordFails, Fault, moduleVars, bounds
    <2>2. asked # 0 /\ (faults > 0 => faults' > 0)
      BY <2>1 DEF AdoptionTypeOK
    <2>3. \A x \in Module : /\ sessions[x] # 0 => sessions[x] \in Conn
                            /\ quarantined[x] # 0 => quarantined[x] \in Conn
      BY TypeParts DEF HubOK, Conn
    <2>4. \A c \in Conn : c # asked => state'[c] = state[c]
      BY <2>1 DEF AdoptionTypeOK
    <2>5. \A x \in Module : sessions[x] # asked
      BY <2>2 DEF StagesFit
    <2>6. RoutesLive'
      BY <2>1, <2>2, <2>3, <2>4, <2>5 DEF RoutesLive
    <2>7. StagesFit'
      BY <2>1, <2>2, <2>4 DEF StagesFit
    <2>8. ReleasesLive'
      BY <2>1, <2>3 DEF ReleasesLive, AdoptionTypeOK
    <2> QED
      BY <2>6, <2>7, <2>8
  <1>4. CASE Degrade
    <2>1. /\ UNCHANGED <<owner, pos, sessions, quarantined, asked>> /\ watched' = 0
          /\ state' = [state EXCEPT ![watched] = "DEGRADED"]
          /\ faults' \in {faults, faults + 1}
      BY <1>4 DEF Degrade, Logged, Fault, moduleVars
    <2>2. \A x \in Module : /\ sessions[x] # 0 => sessions[x] \in Conn
                            /\ quarantined[x] # 0 => quarantined[x] \in Conn
      BY TypeParts DEF HubOK, Conn
    <2>3. faults > 0 => faults' > 0
      BY <2>1 DEF AdoptionTypeOK
    <2>4. RoutesLive' /\ ReleasesLive'
      BY <2>1, <2>2, <2>3 DEF RoutesLive, ReleasesLive, AdoptionTypeOK
    <2> QED
      BY <2>1, <2>4 DEF StagesFit, AdoptionTypeOK
  <1>5. CASE Stop \/ Crash
    <2>1. Restarted
      BY <1>5 DEF Stop, Crash
    <2>2. /\ \A c \in Conn : pos'[c] \in {"none", "done"}
          /\ \A x \in Module : sessions'[x] = 0 /\ quarantined'[x] = 0
          /\ asked' = 0 /\ watched' = 0
      BY <2>1 DEF Restarted
    <2> QED
      BY <2>2 DEF RoutesLive, ReleasesLive, StagesFit
  <1> QED
    BY <1>1, <1>2, <1>3, <1>4, <1>5 DEF Release

(***************************************************************************)
(* Where trust comes from.                                                 *)
(***************************************************************************)
TrustOK == TrustOnRecord /\ AdoptedWasReleased /\ ReleasedStaysTrusted

\* A session on its way: its HELLO was trusted, or it was on its way before.
LEMMA SessionTrust ==
  ASSUME AdoptionTypeOK, TrustOK, NEW c \in Conn, Session(c)
  PROVE  TrustOK'
  <1> DEFINE m == owner[c]
  <1>1. /\ m \in Module /\ pos \in [Conn -> Awaits] /\ last \in [Module -> Events]
    BY TypeParts DEF ModulesOK, HubOK
  <1>2. UNCHANGED <<owner, trusted, trustFile, asked, watched, released, unrecorded>> /\ ~ releasing /\ ~ releasing'
    BY DEF Session, HelloMissing, Quarantine, StartAdoption, Adopt, FailAdoption, Serve, EndServing,
       HelloRaises, AdoptRaises, ServeRaises, Left, LeftInPart, Logged, Fault, Ignore, EndQuarantine,
       threadVars, trustVars, moduleVars, logVars
  <1>3. ReleasedStaysTrusted'
    BY <1>2 DEF TrustOK, ReleasedStaysTrusted
  <1>4. \/ pos' = pos
        \/ \E p \in {"done", "hold"} : pos' = [pos EXCEPT ![c] = p]
        \/ \E p \in {"role", "serve"} : /\ pos' = [pos EXCEPT ![c] = p]
                                        /\ pos[c] = "role" \/ Trusts(m)
    BY DEF Session, HelloMissing, Quarantine, StartAdoption, Adopt, FailAdoption, Serve, EndServing,
       HelloRaises, AdoptRaises, ServeRaises, Left, LeftInPart, Logged, Fault, Ignore, EndQuarantine,
       hubVars, SendThenAwait, Finish
  <1>5. pos[c] \in {"role", "serve"} \/ Trusts(m) => Admitted(m)
    BY <1>2 DEF TrustOK, TrustOnRecord, Trusts, Admitted
  <1>6. \A x \in Module : Admitted(x)' = Admitted(x)
    BY <1>2 DEF Admitted
  <1>7. TrustOnRecord'
    <2>1. ASSUME NEW d \in Conn, pos'[d] \in {"role", "serve"} \/ d = watched
          PROVE  Admitted(owner[d])
      <3>1. CASE d = c /\ pos'[d] \in {"role", "serve"}
        BY <1>1, <1>4, <1>5, <3>1
      <3>2. CASE d = watched
        BY <3>2 DEF TrustOK, TrustOnRecord
      <3>3. CASE d # c /\ pos'[d] \in {"role", "serve"}
        <4>1. pos'[d] = pos[d]
          BY <1>1, <1>4, <3>3
        <4> QED
          BY <3>3, <4>1 DEF TrustOK, TrustOnRecord
      <3> QED
        BY <2>1, <3>1, <3>2, <3>3
    <2>2. trusted \cup trustFile \subseteq released \cup unrecorded
      BY <1>2 DEF TrustOK, TrustOnRecord
    <2> QED
      BY <1>2, <2>1, <2>2 DEF TrustOnRecord, Admitted
  <1>8. AdoptedWasReleased'
    <2>1. \/ last' = last
          \/ \E e \in {"hello", "quarantined", "adoption-failed", "removed"} : last' = [last EXCEPT ![m] = e]
          \/ \E e \in {"adopting", "adopted", "recovered"} :
                /\ last' = [last EXCEPT ![m] = e]
                /\ pos[c] \in {"role", "serve"} \/ Trusts(m)
      BY DEF Session, HelloMissing, Quarantine, StartAdoption, Adopt, FailAdoption, Serve, EndServing,
         HelloRaises, AdoptRaises, ServeRaises, Left, LeftInPart, Logged, Fault, Ignore, EndQuarantine,
         Identity, logVars
    <2>2. ASSUME NEW x \in Module, last'[x] \in {"adopting", "adopted", "degraded", "recovered"}
          PROVE  Admitted(x)
      <3>1. CASE last'[x] = last[x]
        BY <2>2, <3>1 DEF TrustOK, AdoptedWasReleased
      <3>2. CASE last'[x] # last[x]
        BY <1>1, <1>5, <2>1, <2>2, <3>2
      <3> QED
        BY <3>1, <3>2
    <2> QED
      BY <1>6, <2>2 DEF AdoptedWasReleased
  <1> QED
    BY <1>3, <1>7, <1>8 DEF TrustOK

LEMMA ModuleTrust ==
  ASSUME AdoptionTypeOK, TablesOK, TrustOK, NEW m \in Module, ModuleStep(m)
  PROVE  TrustOK'
  <1> USE AdoptionBounds
  <1>1. UNCHANGED <<trusted, trustFile, asked, releasing, watched, released, unrecorded, last>>
    BY DEF ModuleStep, Dial, Answered, Telemetry, ConnectionEnds, AnswerLate, Drop, trustVars, threadVars,
       bounds, logVars
  <1>2. AdoptedWasReleased' /\ ReleasedStaysTrusted'
    BY <1>1 DEF TrustOK, AdoptedWasReleased, ReleasedStaysTrusted, Admitted
  <1>3. \A c \in Conn : pos'[c] \in {"role", "serve"} \/ c = watched =>
          owner'[c] = owner[c] /\ (pos[c] \in {"role", "serve"} \/ c = watched)
    <2>1. CASE Dial(m)
      <3>1. dialled + 1 \in Conn /\ pos[dialled + 1] = "none" /\ pos \in [Conn -> Awaits]
            /\ owner \in [Conn -> Module]
        BY <2>1, TypeParts DEF Dial, ModulesOK, Conn
      <3>2. /\ owner' = [owner EXCEPT ![dialled + 1] = m]
            /\ pos' = [pos EXCEPT ![dialled + 1] = "hello"]
        BY <2>1 DEF Dial
      <3>3. dialled + 1 # watched
        BY <3>1 DEF TablesOK, StagesFit, Conn
      <3> QED
        BY <3>1, <3>2, <3>3
    <2>2. CASE ~Dial(m)
      BY <2>2 DEF ModuleStep, Answered, Telemetry, ConnectionEnds, AnswerLate, Drop, hubVars
    <2> QED
      BY <2>1, <2>2
  <1>4. releasing => SerialOf(asked)' = SerialOf(asked) /\ owner'[asked] = owner[asked]
    <2>1. asked # 0 => owner'[asked] = owner[asked]
      <3>1. CASE Dial(m)
        <4>1. pos[dialled + 1] = "none" /\ dialled + 1 \in Conn
          BY <3>1, TypeParts DEF Dial, ModulesOK, Conn
        <4>2. asked # dialled + 1 \/ asked = 0
          BY <4>1 DEF TablesOK, StagesFit
        <4>3. owner' = [owner EXCEPT ![dialled + 1] = m] /\ owner \in [Conn -> Module]
          BY <3>1, TypeParts DEF Dial, ModulesOK
        <4>4. asked # 0 => asked \in Conn
          BY TypeParts DEF HubOK, Conn
        <4> QED
          BY <4>2, <4>3, <4>4
      <3>2. CASE ~ Dial(m)
        BY <3>2 DEF ModuleStep, Answered, Telemetry, ConnectionEnds, AnswerLate, Drop
      <3> QED
        BY <3>1, <3>2
    <2> QED
      BY <1>1, <2>1, TypeParts DEF HubOK, SerialOf
  <1>5. TrustOnRecord'
    BY <1>1, <1>3, <1>4 DEF TrustOK, TrustOnRecord, Admitted
  <1> QED
    BY <1>2, <1>5 DEF TrustOK

LEMMA ThreadTrust ==
  ASSUME AdoptionTypeOK, TablesOK, TrustOK,
         \/ \E c \in Conn : Notice(c)
         \/ \E m \in Module : AskRelease(m) \/ FindSilent(m)
         \/ Release \/ Degrade \/ Drain \/ Stop \/ Crash \/ UNCHANGED adoptionVars
  PROVE  TrustOK'
  <1> USE DEF TrustOK
  <1>1. owner' = owner
    BY DEF Notice, AskRelease, FindSilent, Release, Trust, TrustFails, Record, RecordFails, Degrade, Drain, Stop,
       Crash, Restarted, adoptionVars, moduleVars
  <1>2. releasing => asked # 0 /\ asked \in Conn
    BY TypeParts DEF HubOK, Conn
  <1>3. CASE \/ \E c \in Conn : Notice(c)
             \/ Drain \/ UNCHANGED adoptionVars
    <2>1. UNCHANGED <<pos, trusted, trustFile, asked, releasing, watched, released, unrecorded, last>>
      BY <1>3 DEF Notice, Drain, hubVars, trustVars, threadVars, logVars, adoptionVars
    <2> QED
      BY <1>1, <2>1 DEF TrustOnRecord, AdoptedWasReleased, ReleasedStaysTrusted, Admitted, SerialOf
  <1>4. ASSUME NEW m \in Module, AskRelease(m) PROVE TrustOK'
    <2>1. UNCHANGED <<pos, trusted, trustFile, releasing, watched, released, unrecorded, last>> /\ asked = 0
      BY <1>4 DEF AskRelease, hubVars, trustVars, logVars
    <2>2. ~ releasing
      BY <1>2, <2>1
    <2> QED
      BY <1>1, <2>1, <2>2 DEF TrustOnRecord, AdoptedWasReleased, ReleasedStaysTrusted, Admitted
  <1>5. ASSUME NEW m \in Module, FindSilent(m) PROVE TrustOK'
    <2>1. UNCHANGED <<pos, trusted, trustFile, asked, releasing, released, unrecorded, last>>
          /\ watched' = sessions[m]
      BY <1>5 DEF FindSilent, hubVars, trustVars, logVars
    <2>2. pos[sessions[m]] = "serve"
      BY <1>5 DEF FindSilent, TablesOK, RoutesLive
    <2> QED
      BY <1>1, <2>1, <2>2 DEF TrustOnRecord, AdoptedWasReleased, ReleasedStaysTrusted, Admitted, SerialOf
  <1>6. CASE Trust
    <2>1. /\ UNCHANGED <<pos, asked, watched, released, unrecorded, last>> /\ releasing' /\ ~ releasing
          /\ trusted' = trusted \cup SerialOf(asked)
          /\ trustFile' = IF SerialOf(asked) = {} THEN trustFile ELSE trusted'
      BY <1>6 DEF Trust, FileWritten, hubVars, logVars
    <2>2. SerialOf(asked)' = SerialOf(asked)
      BY <1>1, <2>1 DEF SerialOf
    <2>3. trusted' \cup trustFile' \subseteq released \cup unrecorded \cup SerialOf(asked)
      BY <2>1 DEF TrustOnRecord
    <2>4. SerialOf(asked) \subseteq trusted' \cap trustFile'
      BY <2>1
    <2>5. TrustOnRecord'
      BY <1>1, <2>1, <2>2, <2>3, <2>4 DEF TrustOnRecord, Admitted
    <2>6. ReleasedStaysTrusted'
      BY <2>1 DEF ReleasedStaysTrusted
    <2> QED
      BY <2>1, <2>5, <2>6 DEF AdoptedWasReleased, Admitted
  <1>7. CASE TrustFails
    <2>1. /\ UNCHANGED <<pos, trustFile, releasing, watched, released, last>> /\ ~ releasing
          /\ trusted' = trusted \cup SerialOf(asked)
          /\ unrecorded' = unrecorded \cup SerialOf(asked)
      BY <1>7 DEF TrustFails, hubVars
    <2>2. \A x \in Module : Admitted(x) => Admitted(x)'
      BY <2>1 DEF Admitted
    <2>3. \A c \in Conn : owner[c] \in Module
      BY TypeParts DEF ModulesOK
    <2>4. TrustOnRecord'
      BY <1>1, <2>1, <2>2, <2>3 DEF TrustOnRecord
    <2> QED
      BY <2>1, <2>2, <2>4 DEF AdoptedWasReleased, ReleasedStaysTrusted
  <1>8. CASE Record \/ RecordFails
    <2>1. /\ UNCHANGED <<pos, trusted, trustFile, watched>> /\ releasing /\ ~ releasing'
          /\ \/ released' = released \cup {owner[asked]} /\ unrecorded' = unrecorded
             \/ released' = released /\ unrecorded' = unrecorded \cup SerialOf(asked)
          /\ last' \in {last, [last EXCEPT ![owner[asked]] = "released"]}
      BY <1>8 DEF Record, RecordFails, Identity, trustVars
    <2>2. \A x \in Module : Admitted(x) => Admitted(x)'
      BY <2>1 DEF Admitted
    <2>3. \A c \in Conn : owner[c] \in Module
      BY TypeParts DEF ModulesOK
    <2>4. SerialOf(asked) = {owner[asked]} \ NoSerial /\ SerialOf(asked) \subseteq trusted \cap trustFile
      BY <2>1 DEF SerialOf, TrustOnRecord
    <2>5. trusted \cup trustFile \subseteq released' \cup unrecorded'
      BY <2>1, <2>4 DEF TrustOnRecord
    <2>6. TrustOnRecord'
      BY <1>1, <2>1, <2>2, <2>3, <2>5 DEF TrustOnRecord
    <2>7. ReleasedStaysTrusted'
      BY <2>1, <2>4 DEF ReleasedStaysTrusted
    <2>8. \A x \in Module : last'[x] \in {last[x], "released"}
      BY <2>1, TypeParts DEF HubOK
    <2>9. AdoptedWasReleased'
      BY <2>2, <2>8 DEF AdoptedWasReleased
    <2> QED
      BY <2>6, <2>7, <2>9
  <1>9. CASE Degrade
    <2>1. /\ UNCHANGED <<pos, trusted, trustFile, asked, releasing, released, unrecorded>>
          /\ watched' = 0 /\ watched # 0
          /\ last' \in {last, [last EXCEPT ![owner[watched]] = "degraded"]}
      BY <1>9 DEF Degrade, Logged, Identity, trustVars
    <2>2. watched \in Conn
      BY <2>1, TypeParts, AdoptionBounds DEF HubOK, Conn
    <2>3. Admitted(owner[watched])
      BY <2>2 DEF TrustOnRecord
    <2>4. TrustOnRecord' /\ ReleasedStaysTrusted'
      BY <1>1, <2>1 DEF TrustOnRecord, ReleasedStaysTrusted, Admitted, SerialOf, Conn
    <2>5. \A x \in Module : x # owner[watched] => last'[x] = last[x]
      BY <2>1, TypeParts DEF HubOK
    <2>6. AdoptedWasReleased'
      BY <2>1, <2>3, <2>5 DEF AdoptedWasReleased, Admitted
    <2> QED
      BY <2>4, <2>6
  <1>10. CASE Stop \/ Crash
    <2>1. Restarted
      BY <1>10 DEF Stop, Crash
    <2>2. /\ UNCHANGED <<trustFile, released>> /\ trusted' = trustFile /\ watched' = 0 /\ ~ releasing'
          /\ \A c \in Conn : pos'[c] \in {"none", "done"}
          /\ unrecorded' = IF releasing THEN unrecorded \cup SerialOf(asked) ELSE unrecorded
      BY <2>1 DEF Restarted
    <2>3. \A x \in Module : last'[x] \in {last[x], "removed"}
      BY <1>10 DEF Stop, Crash
    <2>4. trustFile \subseteq released \cup unrecorded'
      BY <2>2 DEF TrustOnRecord
    <2>5. TrustOnRecord'
      BY <2>2, <2>4 DEF TrustOnRecord, Conn
    <2>6. ReleasedStaysTrusted'
      BY <2>2 DEF ReleasedStaysTrusted
    <2>7. \A x \in Module : Admitted(x) => Admitted(x)'
      BY <2>2 DEF Admitted
    <2>8. AdoptedWasReleased'
      BY <2>3, <2>7 DEF AdoptedWasReleased
    <2> QED
      BY <2>5, <2>6, <2>8
  <1> QED
    BY <1>3, <1>4, <1>5, <1>6, <1>7, <1>8, <1>9, <1>10 DEF Release

(***************************************************************************)
(* The inductive invariant.                                                *)
(***************************************************************************)
IInv == AdoptionTypeOK /\ TablesOK /\ TrustOK

LEMMA InvStep == IInv /\ [Next]_adoptionVars => IInv'
  <1> SUFFICES ASSUME IInv, [Next]_adoptionVars PROVE IInv'
    OBVIOUS
  <1>1. AdoptionTypeOK /\ TablesOK /\ TrustOK
    BY DEF IInv
  <1>2. AdoptionTypeOK'
    BY <1>1, TypeStep
  <1>3. ASSUME NEW c \in Conn, Session(c) PROVE (TablesOK /\ TrustOK)'
    BY <1>1, <1>3, SessionTables, SessionTrust
  <1>4. ASSUME NEW m \in Module, ModuleStep(m) PROVE (TablesOK /\ TrustOK)'
    BY <1>1, <1>4, ModuleTables, ModuleTrust
  <1>5. CASE \/ \E c \in Conn : Notice(c)
             \/ \E m \in Module : AskRelease(m) \/ FindSilent(m)
             \/ Release \/ Degrade \/ Drain \/ Stop \/ Crash \/ UNCHANGED adoptionVars
    <2>1. TablesOK'
      BY <1>1, <1>5, ThreadTables
    <2>2. TrustOK'
      BY <1>1, <1>5, ThreadTrust
    <2> QED
      BY <1>2, <2>1, <2>2 DEF IInv
  <1> QED
    BY <1>2, <1>3, <1>4, <1>5 DEF IInv, Next

LEMMA Invariant == Spec => []IInv
  <1>1. Init => TrustOK
    <2> SUFFICES ASSUME Init PROVE TrustOK
      OBVIOUS
    <2>1. /\ trusted = {} /\ trustFile = {} /\ released = {} /\ watched = 0 /\ ~ releasing
          /\ \A c \in Conn : pos[c] = "none" /\ c # 0
          /\ \A m \in Module : last[m] = "none"
      BY DEF Init, Conn
    <2>2. TrustOnRecord
      BY <2>1 DEF TrustOnRecord
    <2> QED
      BY <2>1, <2>2 DEF TrustOK, AdoptedWasReleased, ReleasedStaysTrusted
  <1> QED
    BY <1>1, InitTables, InvStep, PTL DEF Spec, IInv

(***************************************************************************)
(* Theorems.                                                               *)
(***************************************************************************)

\* Whatever sessions of one module overlap, end, fail to record their end or are
\* picked by a thread, a command that is accepted goes to a session that is served
\* and of the right module, a release to one that was quarantined, and trust comes
\* from a release (southbound.py:132-159, 182-205).
THEOREM TablesSafe == Spec => []AdoptionInv
  <1>1. IInv => AdoptionInv
    BY DEF IInv, TablesOK, TrustOK, AdoptionInv
  <1> QED
    BY <1>1, Invariant, PTL

\* No module is adopted that was neither allowed nor released on record, over any
\* number of restarts and failing writes, except one whose release was cut short
\* between the trust file and its event (southbound.py:108-118, 199-205,
\* config.py:99-109).
THEOREM TrustSafe == Spec => []AdoptedWasReleased
  <1>1. IInv => AdoptedWasReleased
    BY DEF IInv, TrustOK
  <1> QED
    BY <1>1, Invariant, PTL

\* The serial of a release on record is known to every later process, whichever of
\* the two writes fails and wherever between them the process dies: the trust file
\* is replaced before the event is appended (southbound.py:201-205, config.py:92-105).
THEOREM ReleaseLasts == Spec => []ReleasedStaysTrusted
  <1>1. IInv => ReleasedStaysTrusted
    BY DEF IInv, TrustOK
  <1> QED
    BY <1>1, Invariant, PTL

\* From the moment the hub begins to stop it reports no module removed that it
\* adopts on sight: only a session that is held reports its end, and no such
\* module is ever held (southbound.py:149-164, 190-195).
THEOREM StopIsNoLoss == Spec => RestartIsNotLoss
  <1>1. IInv /\ [Next]_adoptionVars =>
          (draining => \A m \in Allowed \ OldProto : last'[m] = "removed" => last[m] = "removed")
    <2> SUFFICES ASSUME IInv, [Next]_adoptionVars, draining, NEW m \in Allowed \ OldProto,
                        last'[m] = "removed", last[m] # "removed"
                 PROVE  FALSE
      OBVIOUS
    <2>1. m \in Module /\ last \in [Module -> Events] /\ owner \in [Conn -> Module]
      BY TypeParts, ModuleAssumption DEF IInv, HubOK, ModulesOK
    <2>2. \A c \in Conn : pos[c] = "hold" => owner[c] # m
      BY DEF IInv, TablesOK, StagesFit
    <2>3. ASSUME NEW c \in Conn, Session(c) PROVE FALSE
      <3>1. \/ last' = last
            \/ \E e \in Events \ {"removed"} : last' = [last EXCEPT ![owner[c]] = e]
            \/ last' = [last EXCEPT ![owner[c]] = "removed"] /\ pos[c] = "hold"
        BY <2>3 DEF Session, HelloMissing, Quarantine, StartAdoption, Adopt, FailAdoption, Serve, EndServing,
           HelloRaises, AdoptRaises, ServeRaises, Left, LeftInPart, Logged, Fault, Ignore, EndQuarantine,
           Identity, logVars, Events
      <3> QED
        BY <2>1, <2>2, <3>1
    <2>4. ASSUME NEW x \in Module, ModuleStep(x) PROVE FALSE
      BY <2>4 DEF ModuleStep, Dial, Answered, Telemetry, ConnectionEnds, AnswerLate, Drop, logVars
    <2>5. CASE Stop
      BY <2>1, <2>2, <2>5 DEF Stop, QuarantineEnded
    <2>6. CASE Release \/ Degrade
      <3>1. \/ last' = last
            \/ \E x : last' \in {[last EXCEPT ![x] = "released"], [last EXCEPT ![x] = "degraded"]}
        BY <2>6 DEF Release, Trust, TrustFails, Record, RecordFails, Degrade, Logged, Identity, logVars
      <3> QED
        BY <2>1, <3>1
    <2>7. CASE \/ \E c \in Conn : Notice(c)
               \/ \E x \in Module : AskRelease(x) \/ FindSilent(x)
               \/ Drain \/ Crash \/ UNCHANGED adoptionVars
      BY <2>7 DEF Notice, AskRelease, FindSilent, Drain, Crash, adoptionVars, logVars
    <2> QED
      BY <2>3, <2>4, <2>5, <2>6, <2>7 DEF Next
  <1> QED
    BY <1>1, Invariant, PTL DEF Spec, RestartIsNotLoss
==============================================================================
