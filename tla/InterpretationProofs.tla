------------------------- MODULE InterpretationProofs -------------------------
(***************************************************************************)
(* Theorems about the two interpreters of raw data: the one that looks at  *)
(* frames (Vision) and the one that reads captures (Interpreter).  They    *)
(* share no state and each theorem is of one of them.                      *)
(*                                                                         *)
(* Vision: what the camera says goes on its way to the hub, and a piece of *)
(* it may be lost.  What that does to the invariant is said once           *)
(* (Conveyed); then the proof goes action by action.  Interpreter: a       *)
(* calibration in force was fitted without an error, so that every curve   *)
(* that is asked for has a slope.                                          *)
(***************************************************************************)
EXTENDS Vision, Interpreter, SequenceTheorems, TLAPS

(***************************************************************************)
(* What the camera says, and what of it is lost.                           *)
(***************************************************************************)

\* The i-th of what is on the way and of what is said next.
Said(msgs, i) == IF i <= Len(Way) THEN Way[i] ELSE msgs[i - Len(Way)]

\* What is said goes on its way behind the rest, but for a piece of both, from
\* place a + 1 to a + d, that is lost.
Conveyed(msgs, a, d) ==
  /\ a + d <= Len(Way) + Len(msgs)
  /\ Len(Way') = Len(Way) + Len(msgs) - d
  /\ \A i \in 1..Len(Way') : Way'[i] = Said(msgs, IF i <= a THEN i ELSE i + d)
  /\ \A i \in (a + 1)..(a + d) :
       Said(msgs, i).type # "frame" =>
         Said(msgs, i).cmd \in unheard' /\ (TypeOf[Said(msgs, i).cmd] = "ptz" => forgot')
  /\ unheard \subseteq unheard' /\ (forgot => forgot')
  /\ \A c \in unheard' \ unheard :
       \E i \in (a + 1)..(a + d) : Said(msgs, i).type # "frame" /\ Said(msgs, i).cmd = c

\* The messages on the way.
LEMMA WayFacts ==
  ASSUME VisionTypeOK
  PROVE  /\ Way \in Seq(Message)
         /\ Len(wire) \in Nat /\ Len(ring) \in Nat
         /\ Len(Way) = Len(wire) + Len(ring)
         /\ \A i \in 1..Len(Way) : /\ Way[i] = IF i <= Len(wire) THEN wire[i] ELSE ring[i - Len(wire)]
                                   /\ Way[i] \in Message
  <1>1. wire \in Seq(Message) /\ ring \in Seq(Message)
    BY DEF VisionTypeOK
  <1>2. Way \in Seq(Message)
    BY <1>1, ConcatProperties DEF Way
  <1> QED
    BY <1>1, <1>2, ConcatProperties, LenProperties, ElementOfSeq DEF Way

\* The same after a step.
LEMMA WayFactsAfter ==
  ASSUME {ring', wire'} \subseteq Seq(Message)
  PROVE  /\ Way' \in Seq(Message)
         /\ Len(wire') \in Nat /\ Len(ring') \in Nat
         /\ Len(Way') = Len(wire') + Len(ring')
         /\ \A i \in 1..Len(Way') : /\ Way'[i] = IF i <= Len(wire') THEN wire'[i] ELSE ring'[i - Len(wire')]
                                    /\ Way'[i] \in Message
  <1>1. wire' \in Seq(Message) /\ ring' \in Seq(Message)
    OBVIOUS
  <1>2. Way' \in Seq(Message)
    BY <1>1, ConcatProperties DEF Way
  <1> QED
    BY <1>1, <1>2, ConcatProperties, LenProperties, ElementOfSeq DEF Way

\* The ring keeps the newest, the rest is pushed out.
LEMMA RingFacts ==
  ASSUME VisionTypeOK, NEW msgs \in Seq(Message)
  PROVE  \E d \in Nat :
           /\ d <= Len(ring) + Len(msgs)
           /\ Kept(msgs) \in Seq(Message) /\ Len(Kept(msgs)) = Len(ring) + Len(msgs) - d
           /\ Len(Kept(msgs)) <= RingCap
           /\ \A i \in 1..Len(Kept(msgs)) : Kept(msgs)[i] = (ring \o msgs)[i + d]
           /\ PushedOut(msgs) \in Seq(Message) /\ Len(PushedOut(msgs)) = d
           /\ \A i \in 1..d : PushedOut(msgs)[i] = (ring \o msgs)[i]
  <1> DEFINE all == ring \o msgs
             d == IF Len(all) > RingCap THEN Len(all) - RingCap ELSE 0
  <1>1. /\ ring \in Seq(Message) /\ Len(ring) \in Nat /\ Len(msgs) \in Nat /\ RingCap \in Nat \ {0}
        /\ all \in Seq(Message) /\ Len(all) = Len(ring) + Len(msgs)
        /\ \A i \in 1..Len(all) : all[i] \in Message
    <2>1. ring \in Seq(Message) /\ RingCap \in Nat \ {0}
      BY VisionAssumption DEF VisionTypeOK
    <2>2. Len(ring) \in Nat /\ Len(msgs) \in Nat
      BY <2>1, LenProperties
    <2>3. all \in Seq(Message) /\ Len(all) = Len(ring) + Len(msgs)
      BY <2>1, ConcatProperties
    <2> HIDE DEF all
    <2>4. \A i \in 1..Len(all) : all[i] \in Message
      BY <2>3, ElementOfSeq
    <2> QED
      BY <2>1, <2>2, <2>3, <2>4
  <1>2. d \in Nat /\ d <= Len(all) /\ Len(all) - d <= RingCap
        /\ (IF Len(all) > RingCap THEN Len(all) - RingCap + 1 ELSE 1) = d + 1
    BY <1>1
  <1>3. Kept(msgs) = SubSeq(all, d + 1, Len(all))
    BY <1>2, Zenon DEF Kept
  <1> HIDE DEF all, d
  <1>4. /\ Kept(msgs) \in Seq(Message) /\ Len(Kept(msgs)) = Len(all) - d
        /\ \A i \in 1..Len(all) - d : Kept(msgs)[i] = all[i + d]
    <2>1. \A i \in (d + 1)..Len(all) : all[i] \in Message
      BY <1>1, <1>2
    <2>2. /\ SubSeq(all, d + 1, Len(all)) \in Seq(Message)
          /\ Len(SubSeq(all, d + 1, Len(all))) = IF d + 1 <= Len(all) THEN Len(all) - (d + 1) + 1 ELSE 0
          /\ \A i \in 1..Len(all) - (d + 1) + 1 : SubSeq(all, d + 1, Len(all))[i] = all[d + 1 + i - 1]
      BY <1>1, <1>2, <2>1, SubSeqProperties
    <2> QED
      BY <1>1, <1>2, <1>3, <2>2
  <1>5. PushedOut(msgs) = SubSeq(all, 1, d)
    <2>1. PushedOut(msgs) = SubSeq(all, 1, Len(all) - Len(Kept(msgs)))
      BY DEF PushedOut, all
    <2>2. Len(all) - Len(Kept(msgs)) = d
      BY <1>1, <1>2, <1>4
    <2> QED
      BY <2>1, <2>2
  <1>6. /\ PushedOut(msgs) \in Seq(Message) /\ Len(PushedOut(msgs)) = d
        /\ \A i \in 1..d : PushedOut(msgs)[i] = all[i]
    <2>1. \A i \in 1..d : all[i] \in Message
      BY <1>1, <1>2
    <2> QED
      BY <1>2, <1>5, <2>1, SubSeqProperties
  <1>7. d \in Nat /\ d <= Len(ring) + Len(msgs)
    BY <1>1, <1>2
  <1>8. Len(Kept(msgs)) = Len(ring) + Len(msgs) - d /\ Len(Kept(msgs)) <= RingCap
    BY <1>1, <1>2, <1>4
  <1>9. \A i \in 1..Len(Kept(msgs)) : Kept(msgs)[i] = all[i + d]
    BY <1>4
  <1> WITNESS d \in Nat
  <1> QED
    BY <1>4, <1>6, <1>7, <1>8, <1>9, Zenon DEF all

\* The commands whose answers are among these messages.
AnsweredBy(msgs) == {m.cmd : m \in {x \in ToSet(msgs) : x.type # "frame"}}

\* Their answers are lost, with the word of a move if one is among them.
Missed(msgs) ==
  /\ unheard' = unheard \cup AnsweredBy(msgs)
  /\ forgot' \in BOOLEAN /\ (forgot => forgot')
  /\ \A c \in AnsweredBy(msgs) : TypeOf[c] = "ptz" => forgot'

\* The commands that messages answer.
LEMMA AnsweredByFacts ==
  ASSUME NEW msgs \in Seq(Message)
  PROVE  \A c : c \in AnsweredBy(msgs) <=> \E i \in 1..Len(msgs) : msgs[i].type # "frame" /\ msgs[i].cmd = c
  <1>1. ToSet(msgs) = {msgs[i] : i \in 1..Len(msgs)}
    BY LenProperties DEF ToSet
  <1> QED
    BY <1>1 DEF AnsweredBy

\* Messages that are lost are missed.
LEMMA LostIsMissed ==
  ASSUME VisionTypeOK, NEW msgs, Lost(msgs)
  PROVE  Missed(msgs)
  <1>1. unheard' = unheard \cup AnsweredBy(msgs) /\ forgot' = (forgot \/ \E c \in AnsweredBy(msgs) : TypeOf[c] = "ptz")
    BY Zenon DEF Lost, AnsweredBy
  <1> QED
    BY <1>1, Zenon DEF Missed

\* What missing messages does to the record of what was not heard.
LEMMA MissedFacts ==
  ASSUME VisionTypeOK, NEW msgs \in Seq(Message), Missed(msgs),
         \A i \in 1..Len(msgs) : msgs[i].type # "frame" => msgs[i].cmd \in Cmd
  PROVE  /\ unheard \subseteq unheard' /\ (forgot => forgot')
         /\ unheard' \subseteq Cmd /\ forgot' \in BOOLEAN
         /\ \A i \in 1..Len(msgs) : msgs[i].type # "frame" =>
              msgs[i].cmd \in unheard' /\ (TypeOf[msgs[i].cmd] = "ptz" => forgot')
         /\ \A c \in unheard' \ unheard : \E i \in 1..Len(msgs) : msgs[i].type # "frame" /\ msgs[i].cmd = c
  <1>1. \A c : c \in AnsweredBy(msgs) <=> \E i \in 1..Len(msgs) : msgs[i].type # "frame" /\ msgs[i].cmd = c
    BY AnsweredByFacts
  <1>2. unheard' = unheard \cup AnsweredBy(msgs)
    BY Zenon DEF Missed
  <1>3. \A c \in AnsweredBy(msgs) : c \in Cmd
    BY <1>1, Zenon
  <1>4. unheard \subseteq unheard' /\ unheard' \subseteq Cmd
    BY <1>2, <1>3 DEF VisionTypeOK
  <1>5. (forgot => forgot') /\ forgot' \in BOOLEAN
    BY Zenon DEF Missed
  <1>6. \A i \in 1..Len(msgs) : msgs[i].type # "frame" => msgs[i].cmd \in AnsweredBy(msgs)
    BY <1>1, Zenon
  <1>7. \A c \in AnsweredBy(msgs) : c \in unheard' /\ (TypeOf[c] = "ptz" => forgot')
    BY <1>2, Zenon DEF Missed
  <1>8. \A c \in unheard' \ unheard : c \in AnsweredBy(msgs)
    BY <1>2, Zenon
  <1> QED
    BY <1>1, <1>4, <1>5, <1>6, <1>7, <1>8, Zenon

\* What is said, piece by piece.
LEMMA SaidFacts ==
  ASSUME VisionTypeOK, NEW msgs \in Seq(Message)
  PROVE  \A i \in 1..(Len(Way) + Len(msgs)) :
           /\ Said(msgs, i) \in Message
           /\ i <= Len(wire) => Said(msgs, i) = wire[i]
           /\ i > Len(wire) => Said(msgs, i) = (ring \o msgs)[i - Len(wire)]
           /\ i > Len(Way) => Said(msgs, i) = msgs[i - Len(Way)]
  <1>1. /\ Len(wire) \in Nat /\ Len(ring) \in Nat /\ Len(msgs) \in Nat
        /\ Len(Way) = Len(wire) + Len(ring)
        /\ \A i \in 1..Len(Way) : /\ Way[i] = IF i <= Len(wire) THEN wire[i] ELSE ring[i - Len(wire)]
                                  /\ Way[i] \in Message
    BY WayFacts, LenProperties
  <1>2. \A i \in 1..Len(msgs) : msgs[i] \in Message
    BY ElementOfSeq
  <1>3. \A i \in 1..(Len(ring) + Len(msgs)) :
          (ring \o msgs)[i] = IF i <= Len(ring) THEN ring[i] ELSE msgs[i - Len(ring)]
    BY ConcatProperties DEF VisionTypeOK
  <1> QED
    BY <1>1, <1>2, <1>3 DEF Said

LinkTypeOK ==
  /\ conn \in {"down", "hello", "spoiled", "held", "served"}
  /\ {ring, wire} \subseteq Seq(Message)
  /\ Len(ring) <= RingCap /\ (conn = "served" => ring = <<>>)
  /\ unheard \subseteq Cmd /\ forgot \in BOOLEAN

\* What the camera says goes on its way, or a piece is lost.
LEMMA SayConveys ==
  ASSUME VisionTypeOK, MessagesFit, NEW msgs \in Seq(Message), Say(msgs),
         \A i \in 1..Len(msgs) : msgs[i].type # "frame" => msgs[i].cmd \in Cmd
  PROVE  LinkTypeOK' /\ \E a, d \in Nat : Conveyed(msgs, a, d)
  <1>1. /\ Len(wire) \in Nat /\ Len(ring) \in Nat /\ Len(msgs) \in Nat
        /\ Len(Way) = Len(wire) + Len(ring)
        /\ ring \in Seq(Message) /\ wire \in Seq(Message)
    BY WayFacts, LenProperties DEF VisionTypeOK
  <1>2. \A i \in 1..(Len(Way) + Len(msgs)) :
           /\ Said(msgs, i) \in Message
           /\ i <= Len(wire) => Said(msgs, i) = wire[i]
           /\ i > Len(wire) => Said(msgs, i) = (ring \o msgs)[i - Len(wire)]
           /\ i > Len(Way) => Said(msgs, i) = msgs[i - Len(Way)]
    BY SaidFacts
  <1>3. \A i \in 1..Len(Way) : Said(msgs, i) = Way[i]
    BY DEF Said
  <1>4. \A i \in 1..Len(Way) : Said(msgs, i).type # "frame" => Said(msgs, i).cmd \in Cmd
    BY <1>3 DEF MessagesFit, Fits
  <1>5. CASE conn = "served"
    <2>1. ring = <<>> /\ ring' = <<>> /\ wire' = wire \o msgs /\ conn' = conn
      BY <1>5 DEF VisionTypeOK, Say
    <2>2. unheard' = unheard /\ forgot' = forgot
      BY <1>5 DEF Say
    <2>3. wire' \in Seq(Message) /\ ring' \in Seq(Message) /\ Len(ring') = 0
      BY <1>1, <2>1, ConcatProperties
    <2>4. Way' \in Seq(Message) /\ Len(Way') = Len(wire') /\ \A i \in 1..Len(Way') : Way'[i] = wire'[i]
      BY <2>3, WayFactsAfter
    <2>5. Len(wire') = Len(wire) + Len(msgs) /\ Len(ring) = 0
          /\ \A i \in 1..Len(wire') : wire'[i] = IF i <= Len(wire) THEN wire[i] ELSE msgs[i - Len(wire)]
      BY <1>1, <2>1, ConcatProperties
    <2>6. Len(Way') = Len(Way) + Len(msgs) /\ \A i \in 1..Len(Way') : Way'[i] = Said(msgs, i)
      BY <1>1, <1>2, <2>4, <2>5
    <2>7. Conveyed(msgs, 0, 0)
      <3>1. Len(Way') = Len(Way) + Len(msgs) - 0 /\ 0 + 0 <= Len(Way) + Len(msgs)
        BY <1>1, <2>6
      <3>2. \A i \in 1..Len(Way') : Way'[i] = Said(msgs, IF i <= 0 THEN i ELSE i + 0)
        BY <1>1, <2>6
      <3>3. (0 + 1)..(0 + 0) = {}
        OBVIOUS
      <3> QED
        BY <2>2, <3>1, <3>2, <3>3, Zenon DEF Conveyed
    <2>8. LinkTypeOK'
      <3>1. unheard' \subseteq Cmd /\ forgot' \in BOOLEAN
        BY <2>2 DEF VisionTypeOK
      <3> QED
        BY <1>5, <2>1, <2>3, <3>1, VisionAssumption DEF LinkTypeOK
    <2> QED
      BY <2>7, <2>8
  <1>6. CASE conn = "down"
    <2>1. ring' = Kept(msgs) /\ wire' = wire /\ conn' = conn /\ Lost(PushedOut(msgs))
      BY <1>6 DEF Say
    <2>2. PICK d \in Nat :
           /\ d <= Len(ring) + Len(msgs)
           /\ Kept(msgs) \in Seq(Message) /\ Len(Kept(msgs)) = Len(ring) + Len(msgs) - d
           /\ Len(Kept(msgs)) <= RingCap
           /\ \A i \in 1..Len(Kept(msgs)) : Kept(msgs)[i] = (ring \o msgs)[i + d]
           /\ PushedOut(msgs) \in Seq(Message) /\ Len(PushedOut(msgs)) = d
           /\ \A i \in 1..d : PushedOut(msgs)[i] = (ring \o msgs)[i]
      BY RingFacts
    <2>3. \A i \in 1..d : PushedOut(msgs)[i] = Said(msgs, Len(wire) + i)
      <3> TAKE i \in 1..d
      <3>1. /\ Len(wire) + i \in 1..(Len(Way) + Len(msgs)) /\ Len(wire) + i > Len(wire)
            /\ (Len(wire) + i) - Len(wire) = i
        BY <1>1, <2>2
      <3>2. Said(msgs, Len(wire) + i) = (ring \o msgs)[i]
        BY <1>2, <3>1
      <3> QED
        BY <2>2, <3>2
    <2>4. \A i \in 1..Len(PushedOut(msgs)) :
            PushedOut(msgs)[i].type # "frame" => PushedOut(msgs)[i].cmd \in Cmd
      <3> SUFFICES ASSUME NEW i \in 1..d
                   PROVE  PushedOut(msgs)[i].type # "frame" => PushedOut(msgs)[i].cmd \in Cmd
        BY <2>2
      <3>1. CASE i <= Len(ring)
        BY <1>1, <1>4, <2>3, <3>1
      <3>2. CASE i > Len(ring)
        <4>1. PushedOut(msgs)[i] = msgs[i - Len(ring)] /\ i - Len(ring) \in 1..Len(msgs)
          BY <1>1, <1>2, <2>2, <2>3, <3>2
        <4> QED
          BY <4>1
      <3> QED
        BY <1>1, <3>1, <3>2
    <2>5. Missed(PushedOut(msgs))
      BY <2>1, LostIsMissed
    <2>6. /\ unheard \subseteq unheard' /\ (forgot => forgot')
          /\ unheard' \subseteq Cmd /\ forgot' \in BOOLEAN
          /\ \A i \in 1..d : PushedOut(msgs)[i].type # "frame" =>
               PushedOut(msgs)[i].cmd \in unheard' /\ (TypeOf[PushedOut(msgs)[i].cmd] = "ptz" => forgot')
          /\ \A c \in unheard' \ unheard :
               \E i \in 1..d : PushedOut(msgs)[i].type # "frame" /\ PushedOut(msgs)[i].cmd = c
      BY <2>2, <2>4, <2>5, MissedFacts, Zenon
    <2>7. wire' \in Seq(Message) /\ ring' \in Seq(Message) /\ Len(ring') = Len(ring) + Len(msgs) - d
      BY <1>1, <2>1, <2>2
    <2>8. /\ Len(Way') = Len(wire) + Len(ring')
          /\ \A i \in 1..Len(Way') : Way'[i] = IF i <= Len(wire) THEN wire[i] ELSE ring'[i - Len(wire)]
      BY <2>1, <2>7, WayFactsAfter
    <2>9. \A i \in 1..Len(Way') : Way'[i] = Said(msgs, IF i <= Len(wire) THEN i ELSE i + d)
      <3> TAKE i \in 1..Len(Way')
      <3>1. CASE i <= Len(wire)
        BY <1>1, <1>2, <2>8, <3>1
      <3>2. CASE i > Len(wire)
        <4>1. i - Len(wire) \in 1..Len(ring') /\ i \in Nat
          BY <1>1, <2>2, <2>7, <2>8, <3>2
        <4>2. Way'[i] = (ring \o msgs)[i - Len(wire) + d]
          <5>1. Way'[i] = Kept(msgs)[i - Len(wire)]
            <6>1. ~(i <= Len(wire))
              BY <1>1, <3>2, <4>1
            <6>2. Way'[i] = ring'[i - Len(wire)]
              BY <2>8, <6>1
            <6> QED
              BY <2>1, <6>2
          <5>2. i - Len(wire) \in 1..Len(Kept(msgs))
            BY <2>1, <4>1
          <5> QED
            BY <2>2, <5>1, <5>2
        <4>3. i + d \in 1..(Len(Way) + Len(msgs)) /\ i + d > Len(wire) /\ (i + d) - Len(wire) = i - Len(wire) + d
          BY <1>1, <2>2, <2>7, <2>8, <3>2
        <4>4. Said(msgs, i + d) = (ring \o msgs)[(i + d) - Len(wire)]
          BY <1>2, <4>3
        <4> QED
          BY <1>1, <3>2, <4>1, <4>2, <4>3, <4>4
      <3> QED
        BY <1>1, <2>7, <2>8, <3>1, <3>2
    <2>10. Conveyed(msgs, Len(wire), d)
      <3>1. Len(wire) + d <= Len(Way) + Len(msgs) /\ Len(Way') = Len(Way) + Len(msgs) - d
        BY <1>1, <2>2, <2>7, <2>8
      <3>2. \A i \in (Len(wire) + 1)..(Len(wire) + d) :
              \E n \in 1..d : Said(msgs, i) = PushedOut(msgs)[n]
        <4> TAKE i \in (Len(wire) + 1)..(Len(wire) + d)
        <4>1. i - Len(wire) \in 1..d /\ Len(wire) + (i - Len(wire)) = i
          BY <1>1
        <4> QED
          BY <2>3, <4>1
      <3>3. \A n \in 1..d :
              \E i \in (Len(wire) + 1)..(Len(wire) + d) : Said(msgs, i) = PushedOut(msgs)[n]
        <4> TAKE n \in 1..d
        <4>1. Len(wire) + n \in (Len(wire) + 1)..(Len(wire) + d)
          BY <1>1
        <4> QED
          BY <2>3, <4>1
      <3>4. \A i \in (Len(wire) + 1)..(Len(wire) + d) : Said(msgs, i).type # "frame" =>
              Said(msgs, i).cmd \in unheard' /\ (TypeOf[Said(msgs, i).cmd] = "ptz" => forgot')
        <4> TAKE i \in (Len(wire) + 1)..(Len(wire) + d)
        <4>1. PICK n \in 1..d : Said(msgs, i) = PushedOut(msgs)[n]
          BY <3>2
        <4>2. PushedOut(msgs)[n].type # "frame" =>
                PushedOut(msgs)[n].cmd \in unheard' /\ (TypeOf[PushedOut(msgs)[n].cmd] = "ptz" => forgot')
          BY <2>6, Zenon
        <4> QED
          BY <4>1, <4>2, Zenon
      <3>5. \A c \in unheard' \ unheard : \E i \in (Len(wire) + 1)..(Len(wire) + d) :
              Said(msgs, i).type # "frame" /\ Said(msgs, i).cmd = c
        <4> TAKE c \in unheard' \ unheard
        <4>1. PICK n \in 1..d : PushedOut(msgs)[n].type # "frame" /\ PushedOut(msgs)[n].cmd = c
          BY <2>6, Zenon
        <4>2. PICK i \in (Len(wire) + 1)..(Len(wire) + d) : Said(msgs, i) = PushedOut(msgs)[n]
          BY <3>3
        <4> QED
          BY <4>1, <4>2
      <3> QED
        BY <2>6, <2>9, <3>1, <3>4, <3>5, Zenon DEF Conveyed
    <2>11. LinkTypeOK'
      BY <1>6, <2>1, <2>2, <2>6, <2>7 DEF LinkTypeOK
    <2> QED
      BY <1>1, <2>10, <2>11
  <1>7. CASE conn \in {"hello", "spoiled", "held"}
    <2>1. ring' = ring /\ wire' = wire /\ conn' \in {"spoiled", "held"} /\ Lost(msgs)
      BY <1>7 DEF Say, linkVars
    <2>2. Missed(msgs)
      BY <2>1, LostIsMissed
    <2>3. /\ unheard \subseteq unheard' /\ (forgot => forgot')
          /\ unheard' \subseteq Cmd /\ forgot' \in BOOLEAN
          /\ \A i \in 1..Len(msgs) : msgs[i].type # "frame" =>
               msgs[i].cmd \in unheard' /\ (TypeOf[msgs[i].cmd] = "ptz" => forgot')
          /\ \A c \in unheard' \ unheard : \E i \in 1..Len(msgs) : msgs[i].type # "frame" /\ msgs[i].cmd = c
      BY <2>2, MissedFacts, Zenon
    <2>4. Way' = Way
      BY <2>1 DEF Way
    <2>5. Conveyed(msgs, Len(Way), Len(msgs))
      <3>1. /\ Len(Way) + Len(msgs) <= Len(Way) + Len(msgs)
            /\ Len(Way') = Len(Way) + Len(msgs) - Len(msgs)
        BY <1>1, <2>4
      <3>2. \A i \in 1..Len(Way') : Way'[i] = Said(msgs, IF i <= Len(Way) THEN i ELSE i + Len(msgs))
        BY <1>1, <1>3, <2>4
      <3>3. \A i \in (Len(Way) + 1)..(Len(Way) + Len(msgs)) :
              \E n \in 1..Len(msgs) : Said(msgs, i) = msgs[n]
        <4> TAKE i \in (Len(Way) + 1)..(Len(Way) + Len(msgs))
        <4>1. i - Len(Way) \in 1..Len(msgs) /\ Said(msgs, i) = msgs[i - Len(Way)]
          BY <1>1, <1>2
        <4> QED
          BY <4>1
      <3>4. \A n \in 1..Len(msgs) :
              \E i \in (Len(Way) + 1)..(Len(Way) + Len(msgs)) : Said(msgs, i) = msgs[n]
        <4> TAKE n \in 1..Len(msgs)
        <4>1. Len(Way) + n \in (Len(Way) + 1)..(Len(Way) + Len(msgs)) /\ Len(Way) + n - Len(Way) = n
          BY <1>1
        <4>2. Said(msgs, Len(Way) + n) = msgs[n]
          BY <1>1, <1>2, <4>1
        <4> QED
          BY <4>1, <4>2
      <3>5. \A i \in (Len(Way) + 1)..(Len(Way) + Len(msgs)) : Said(msgs, i).type # "frame" =>
              Said(msgs, i).cmd \in unheard' /\ (TypeOf[Said(msgs, i).cmd] = "ptz" => forgot')
        <4> TAKE i \in (Len(Way) + 1)..(Len(Way) + Len(msgs))
        <4>1. PICK n \in 1..Len(msgs) : Said(msgs, i) = msgs[n]
          BY <3>3
        <4>2. msgs[n].type # "frame" =>
                msgs[n].cmd \in unheard' /\ (TypeOf[msgs[n].cmd] = "ptz" => forgot')
          BY <2>3, Zenon
        <4> QED
          BY <4>1, <4>2, Zenon
      <3>6. \A c \in unheard' \ unheard : \E i \in (Len(Way) + 1)..(Len(Way) + Len(msgs)) :
              Said(msgs, i).type # "frame" /\ Said(msgs, i).cmd = c
        <4> TAKE c \in unheard' \ unheard
        <4>1. PICK n \in 1..Len(msgs) : msgs[n].type # "frame" /\ msgs[n].cmd = c
          BY <2>3, Zenon
        <4>2. PICK i \in (Len(Way) + 1)..(Len(Way) + Len(msgs)) : Said(msgs, i) = msgs[n]
          BY <3>4
        <4> QED
          BY <4>1, <4>2
      <3> QED
        BY <2>3, <3>1, <3>2, <3>5, <3>6, Zenon DEF Conveyed
    <2>6. LinkTypeOK'
      <3>1. Len(ring) <= RingCap /\ {ring, wire} \subseteq Seq(Message)
        BY DEF VisionTypeOK
      <3> QED
        BY <2>1, <2>3, <3>1 DEF LinkTypeOK
    <2> QED
      BY <1>1, <2>5, <2>6
  <1> QED
    BY <1>5, <1>6, <1>7 DEF Say

\* A piece of what is on its way is lost.
LEMMA CutConveys ==
  ASSUME VisionTypeOK, MessagesFit, NEW a \in Nat, NEW d \in Nat, a + d <= Len(Way),
         Len(Way') = Len(Way) - d,
         \A i \in 1..Len(Way') : Way'[i] = Way[IF i <= a THEN i ELSE i + d],
         NEW gone \in Seq(Message), Len(gone) = d, \A i \in 1..d : gone[i] = Way[a + i],
         Missed(gone)
  PROVE  Conveyed(<<>>, a, d) /\ unheard' \subseteq Cmd /\ forgot' \in BOOLEAN
  <1>1. Len(Way) \in Nat /\ Len(<<>>) = 0
    BY WayFacts
  <1>2. \A i \in 1..Len(Way) : Said(<<>>, i) = Way[i]
    BY DEF Said
  <1>3. \A i \in 1..d : a + i \in 1..Len(Way) /\ gone[i] = Said(<<>>, a + i)
    BY <1>1, <1>2
  <1>4. \A i \in 1..d : gone[i].type # "frame" => gone[i].cmd \in Cmd
    BY <1>3, <1>2 DEF MessagesFit, Fits
  <1>5. /\ unheard \subseteq unheard' /\ (forgot => forgot')
        /\ unheard' \subseteq Cmd /\ forgot' \in BOOLEAN
        /\ \A i \in 1..d : gone[i].type # "frame" =>
             gone[i].cmd \in unheard' /\ (TypeOf[gone[i].cmd] = "ptz" => forgot')
        /\ \A c \in unheard' \ unheard : \E i \in 1..d : gone[i].type # "frame" /\ gone[i].cmd = c
    BY <1>4, MissedFacts, Zenon
  <1>6. \A i \in (a + 1)..(a + d) : \E n \in 1..d : Said(<<>>, i) = gone[n]
    <2> TAKE i \in (a + 1)..(a + d)
    <2>1. i - a \in 1..d /\ a + (i - a) = i
      OBVIOUS
    <2> QED
      BY <1>3, <2>1
  <1>7. \A n \in 1..d : \E i \in (a + 1)..(a + d) : Said(<<>>, i) = gone[n]
    <2> TAKE n \in 1..d
    <2>1. a + n \in (a + 1)..(a + d)
      OBVIOUS
    <2> QED
      BY <1>3, <2>1
  <1>8. \A i \in (a + 1)..(a + d) : Said(<<>>, i).type # "frame" =>
          Said(<<>>, i).cmd \in unheard' /\ (TypeOf[Said(<<>>, i).cmd] = "ptz" => forgot')
    <2> TAKE i \in (a + 1)..(a + d)
    <2>1. PICK n \in 1..d : Said(<<>>, i) = gone[n]
      BY <1>6
    <2>2. gone[n].type # "frame" => gone[n].cmd \in unheard' /\ (TypeOf[gone[n].cmd] = "ptz" => forgot')
      BY <1>5, Zenon
    <2> QED
      BY <2>1, <2>2, Zenon
  <1>9. \A c \in unheard' \ unheard :
          \E i \in (a + 1)..(a + d) : Said(<<>>, i).type # "frame" /\ Said(<<>>, i).cmd = c
    <2> TAKE c \in unheard' \ unheard
    <2>1. PICK n \in 1..d : gone[n].type # "frame" /\ gone[n].cmd = c
      BY <1>5, Zenon
    <2>2. PICK i \in (a + 1)..(a + d) : Said(<<>>, i) = gone[n]
      BY <1>7
    <2> QED
      BY <2>1, <2>2
  <1>10. a + d <= Len(Way) + Len(<<>>) /\ Len(Way') = Len(Way) + Len(<<>>) - d
    BY <1>1
  <1>11. \A i \in 1..Len(Way') : Way'[i] = Said(<<>>, IF i <= a THEN i ELSE i + d)
    BY <1>1, <1>2
  <1> QED
    BY <1>5, <1>8, <1>9, <1>10, <1>11, Zenon DEF Conveyed

\* A connection that breaks, an adoption that fails and a restart of the hub lose
\* a piece of what was on its way.
LEMMA BreakConveys ==
  ASSUME VisionTypeOK, MessagesFit, Break
  PROVE  LinkTypeOK' /\ \E a, d \in Nat : Conveyed(<<>>, a, d)
  <1>1. /\ Len(wire) \in Nat /\ Len(ring) \in Nat /\ Len(Way) = Len(wire) + Len(ring)
        /\ ring \in Seq(Message) /\ wire \in Seq(Message)
        /\ \A i \in 1..Len(Way) : Way[i] = IF i <= Len(wire) THEN wire[i] ELSE ring[i - Len(wire)]
    BY WayFacts DEF VisionTypeOK
  <1>2. PICK n \in 0..Len(wire) :
          wire' = SubSeq(wire, 1, n) /\ Lost(SubSeq(wire, n + 1, Len(wire)))
    BY Zenon DEF Break
  <1>3. ring' = ring /\ conn' = "down"
    BY DEF Break
  <1> DEFINE gone == SubSeq(wire, n + 1, Len(wire))
             d == Len(wire) - n
  <1>4. /\ wire' \in Seq(Message) /\ Len(wire') = n
        /\ \A i \in 1..n : wire'[i] = wire[i]
    <2>1. \A i \in 1..n : wire[i] \in Message
      BY <1>1, ElementOfSeq
    <2> QED
      BY <1>1, <1>2, <2>1, SubSeqProperties
  <1>5. gone \in Seq(Message) /\ Len(gone) = d /\ \A i \in 1..d : gone[i] = wire[n + i]
    <2>1. \A i \in (n + 1)..Len(wire) : wire[i] \in Message
      BY <1>1, ElementOfSeq
    <2>2. /\ gone \in Seq(Message)
          /\ Len(gone) = IF n + 1 <= Len(wire) THEN Len(wire) - (n + 1) + 1 ELSE 0
          /\ \A i \in 1..Len(wire) - (n + 1) + 1 : gone[i] = wire[n + 1 + i - 1]
      BY <1>1, <2>1, SubSeqProperties
    <2> QED
      BY <1>1, <2>2
  <1>6. Missed(gone)
    BY <1>2, LostIsMissed
  <1>7. /\ Len(Way') = n + Len(ring)
        /\ \A i \in 1..Len(Way') : Way'[i] = IF i <= n THEN wire'[i] ELSE ring[i - n]
    BY <1>1, <1>3, <1>4, WayFactsAfter
  <1> HIDE DEF gone
  <1>8. /\ d \in Nat /\ n + d <= Len(Way) /\ Len(Way') = Len(Way) - d
        /\ \A i \in 1..Len(Way') : Way'[i] = Way[IF i <= n THEN i ELSE i + d]
        /\ \A i \in 1..d : gone[i] = Way[n + i]
    <2>1. d \in Nat /\ n + d <= Len(Way) /\ Len(Way') = Len(Way) - d
      BY <1>1, <1>7
    <2>2. ASSUME NEW i \in 1..Len(Way')
          PROVE  Way'[i] = Way[IF i <= n THEN i ELSE i + d]
      <3>1. CASE i <= n
        BY <1>1, <1>4, <1>7, <3>1
      <3>2. CASE ~(i <= n)
        <4>1. i + d \in 1..Len(Way) /\ ~(i + d <= Len(wire)) /\ (i + d) - Len(wire) = i - n
          BY <1>1, <1>7, <3>2
        <4> QED
          BY <1>1, <1>7, <3>2, <4>1
      <3> QED
        BY <3>1, <3>2
    <2>3. ASSUME NEW i \in 1..d
          PROVE  gone[i] = Way[n + i]
      <3>1. n + i \in 1..Len(Way) /\ n + i <= Len(wire)
        BY <1>1
      <3> QED
        BY <1>1, <1>5, <3>1
    <2> QED
      BY <2>1, <2>2, <2>3
  <1>9. Conveyed(<<>>, n, d) /\ unheard' \subseteq Cmd /\ forgot' \in BOOLEAN
    <2>1. n \in Nat
      BY <1>1
    <2> HIDE DEF d
    <2> QED
      BY <1>5, <1>6, <1>8, <2>1, CutConveys
  <1>10. Len(ring) <= RingCap
    BY DEF VisionTypeOK
  <1>11. LinkTypeOK'
    BY <1>1, <1>3, <1>4, <1>9, <1>10 DEF LinkTypeOK
  <1> QED
    BY <1>8, <1>9, <1>11

\* An adoption that fails loses what the ring had kept.
LEMMA VainConveys ==
  ASSUME VisionTypeOK, MessagesFit, AdoptedInVain
  PROVE  LinkTypeOK' /\ \E a, d \in Nat : Conveyed(<<>>, a, d)
  <1>1. /\ Len(wire) \in Nat /\ Len(ring) \in Nat /\ Len(Way) = Len(wire) + Len(ring)
        /\ ring \in Seq(Message) /\ wire \in Seq(Message)
        /\ \A i \in 1..Len(Way) : Way[i] = IF i <= Len(wire) THEN wire[i] ELSE ring[i - Len(wire)]
    BY WayFacts DEF VisionTypeOK
  <1>2. ring' = <<>> /\ wire' = wire /\ conn' = "down" /\ Lost(ring)
    BY DEF AdoptedInVain
  <1>3. Missed(ring)
    BY <1>2, LostIsMissed
  <1>4. Len(Way') = Len(wire) /\ \A i \in 1..Len(Way') : Way'[i] = wire[i]
    <2>1. ring' \in Seq(Message) /\ wire' \in Seq(Message) /\ Len(ring') = 0
      BY <1>1, <1>2
    <2> QED
      BY <1>1, <1>2, <2>1, WayFactsAfter
  <1>5. /\ Len(wire) + Len(ring) <= Len(Way) /\ Len(Way') = Len(Way) - Len(ring)
        /\ \A i \in 1..Len(Way') : Way'[i] = Way[IF i <= Len(wire) THEN i ELSE i + Len(ring)]
        /\ \A i \in 1..Len(ring) : ring[i] = Way[Len(wire) + i]
    BY <1>1, <1>4
  <1>6. Conveyed(<<>>, Len(wire), Len(ring)) /\ unheard' \subseteq Cmd /\ forgot' \in BOOLEAN
    BY <1>1, <1>3, <1>5, CutConveys
  <1>7. LinkTypeOK'
    BY <1>1, <1>2, <1>6, VisionAssumption DEF LinkTypeOK
  <1> QED
    BY <1>1, <1>6, <1>7

\* A restart of the hub loses what was on the wire.
LEMMA RestartConveys ==
  ASSUME VisionTypeOK, MessagesFit, Restart
  PROVE  LinkTypeOK' /\ \E a, d \in Nat : Conveyed(<<>>, a, d)
  <1>1. /\ Len(wire) \in Nat /\ Len(ring) \in Nat /\ Len(Way) = Len(wire) + Len(ring)
        /\ ring \in Seq(Message) /\ wire \in Seq(Message)
        /\ \A i \in 1..Len(Way) : Way[i] = IF i <= Len(wire) THEN wire[i] ELSE ring[i - Len(wire)]
    BY WayFacts DEF VisionTypeOK
  <1>2. ring' = ring /\ wire' = <<>> /\ conn' = "down"
    BY DEF Restart
  <1>3. Missed(wire)
    <2>1. unheard' = unheard \cup AnsweredBy(wire) /\ forgot' = TRUE
      BY Zenon DEF Restart, AnsweredBy
    <2> QED
      BY <2>1, Zenon DEF Missed
  <1>4. Len(Way') = Len(ring) /\ \A i \in 1..Len(Way') : Way'[i] = ring[i]
    <2>1. ring' \in Seq(Message) /\ wire' \in Seq(Message) /\ Len(wire') = 0
      BY <1>1, <1>2
    <2> QED
      BY <1>1, <1>2, <2>1, WayFactsAfter
  <1>5. /\ 0 + Len(wire) <= Len(Way) /\ Len(Way') = Len(Way) - Len(wire)
        /\ \A i \in 1..Len(Way') : Way'[i] = Way[IF i <= 0 THEN i ELSE i + Len(wire)]
        /\ \A i \in 1..Len(wire) : wire[i] = Way[0 + i]
    <2>1. \A i \in 1..Len(Way') : Way'[i] = Way[IF i <= 0 THEN i ELSE i + Len(wire)]
      <3> TAKE i \in 1..Len(Way')
      <3>1. /\ i \in 1..Len(ring) /\ ~(i <= 0)
            /\ i + Len(wire) \in 1..Len(Way) /\ ~(i + Len(wire) <= Len(wire)) /\ (i + Len(wire)) - Len(wire) = i
        BY <1>1, <1>4
      <3> QED
        BY <1>1, <1>4, <3>1
    <2>2. \A i \in 1..Len(wire) : wire[i] = Way[0 + i]
      <3> TAKE i \in 1..Len(wire)
      <3>1. 0 + i = i /\ i \in 1..Len(Way)
        BY <1>1
      <3> QED
        BY <1>1, <3>1
    <2> QED
      BY <1>1, <1>4, <2>1, <2>2
  <1>6. Conveyed(<<>>, 0, Len(wire)) /\ unheard' \subseteq Cmd /\ forgot' \in BOOLEAN
    BY <1>1, <1>3, <1>5, CutConveys
  <1>7. LinkTypeOK'
    <2>1. Len(ring) <= RingCap
      BY DEF VisionTypeOK
    <2> QED
      BY <1>1, <1>2, <1>6, <2>1 DEF LinkTypeOK
  <1> QED
    BY <1>1, <1>6, <1>7

(***************************************************************************)
(* Steps of the camera and of the line.                                    *)
(***************************************************************************)
\* A message is true of the camera after the step.
FitsAfter(m) ==
  /\ m.frame <= Len(frames')
  /\ m.type = "frame" => m.frame # 0 /\ frames'[m.frame].cmd = m.cmd
  /\ m.type # "frame" => m.cmd \in Cmd /\ task'[m.cmd] = "over"
  /\ m.type = "result" /\ TypeOf[m.cmd] \in {"capture", "re_baseline"} =>
       m.frame # 0 /\ frames'[m.frame].cmd = m.cmd

\* A frame at most is taken, of the view of now, for the stream or for a command
\* that has none; no task goes back.
Taken ==
  /\ Len(frames) <= Len(frames') /\ Len(frames') <= Len(frames) + 1
  /\ \A f \in 1..Len(frames) : frames'[f] = frames[f]
  /\ \A f \in 1..Len(frames') : f <= Len(frames) \/
       /\ frames'[f].view = view
       /\ frames'[f].cmd # NoCmd =>
            /\ frames'[f].cmd \in Cmd /\ task[frames'[f].cmd] = "begun"
            /\ task'[frames'[f].cmd] \in {"shot", "over"}
  /\ \A c \in Cmd :
       /\ task[c] = "over" => task'[c] = "over"
       /\ task'[c] \in {"new", "begun"} => task[c] \in {"new", "begun"}
       /\ task'[c] = "shot" => task[c] = "shot" \/
            /\ TypeOf[c] = "capture"
            /\ Len(frames') = Len(frames) + 1 /\ frames'[Len(frames) + 1].cmd = c

\* What is said of it: the frame that was taken, and the answer of one command; a
\* move is told, and a baseline is the last word, of a view that is the view of now.
Spoken(msgs) ==
  /\ msgs \in Seq(Message)
  /\ \A i \in 1..Len(msgs) :
       /\ FitsAfter(msgs[i])
       /\ msgs[i].type # "frame" => task[msgs[i].cmd] # "over"
       /\ msgs[i].type = "frame" => msgs[i].frame = Len(frames) + 1
       /\ IsBase(msgs[i]) => i = Len(msgs) /\ frames'[msgs[i].frame].view = view /\ view' = view
  /\ \A i, j \in 1..Len(msgs) : (msgs[i].type = "frame") = (msgs[j].type = "frame") => i = j
  /\ view' # view => view' = view + 1 /\ msgs # <<>> /\ IsMove(msgs[Len(msgs)])

CameraTypeOK ==
  /\ view \in Nat /\ role \in BOOLEAN
  /\ frames \in Seq([view : 0..view, cmd : Cmd \cup {NoCmd}]) /\ Len(frames) <= MaxFrames
  /\ task \in [Cmd -> {"new", "begun", "shot", "over"}]
  /\ troubles \in Nat

\* The hub does nothing, or has lost what it had in memory.
HubWaits ==
  /\ coverage' = coverage /\ heard' = heard
  /\ \/ mv' = mv /\ queue' = queue /\ svc' = svc
     \/ mv' = Fresh /\ queue' = <<>> /\ svc' = Idle /\ forgot' = TRUE

\* What was on its way and what is said, before anything of it is lost.
LEMMA AllSaid ==
  ASSUME VisionTypeOK, MessagesFit, OneAnswer, FramesInOrder, Taken, NEW msgs, Spoken(msgs)
  PROVE  /\ Len(Way) \in Nat /\ Len(msgs) \in Nat
         /\ \A i \in 1..Len(Way) : Said(msgs, i) = Way[i]
         /\ \A i \in 1..(Len(Way) + Len(msgs)) :
              /\ i > Len(Way) => i - Len(Way) \in 1..Len(msgs) /\ Said(msgs, i) = msgs[i - Len(Way)]
              /\ Said(msgs, i) \in Message
              /\ FitsAfter(Said(msgs, i))
              /\ Said(msgs, i).type # "frame" => Said(msgs, i).cmd \notin heard \cup unheard
              /\ Said(msgs, i).type = "frame" =>
                   svc.frame < Said(msgs, i).frame /\ \A k \in 1..Len(queue) : queue[k] < Said(msgs, i).frame
         /\ \A i, j \in 1..(Len(Way) + Len(msgs)) :
              /\ Said(msgs, i).type # "frame" /\ Said(msgs, j).type # "frame" /\ Said(msgs, i).cmd = Said(msgs, j).cmd
                   => i = j
              /\ i < j /\ Said(msgs, i).type = "frame" /\ Said(msgs, j).type = "frame"
                   => Said(msgs, i).frame < Said(msgs, j).frame
  <1> DEFINE N == Len(Way) + Len(msgs)
             S(i) == Said(msgs, i)
             Old(i) == i <= Len(Way)
  <1>1. /\ Len(Way) \in Nat /\ Len(msgs) \in Nat /\ msgs \in Seq(Message)
        /\ \A i \in 1..Len(Way) : Way[i] \in Message
        /\ \A i \in 1..Len(msgs) : msgs[i] \in Message
    BY WayFacts, LenProperties, ElementOfSeq DEF Spoken
  <1>2. \A i \in 1..Len(Way) : S(i) = Way[i]
    BY DEF Said
  <1>3. \A i \in 1..N : i > Len(Way) => i - Len(Way) \in 1..Len(msgs) /\ S(i) = msgs[i - Len(Way)]
    BY <1>1 DEF Said
  <1>4. \A i \in 1..N : Old(i) => i \in 1..Len(Way)
    BY <1>1
  <1>5. \A i \in 1..N : ~Old(i) => i > Len(Way)
    BY <1>1
  <1>6. \A i \in 1..N : S(i) \in Message
    BY <1>1, <1>2, <1>3, <1>4, <1>5
  <1>7. /\ Len(frames) \in Nat /\ Len(frames') \in Nat
        /\ svc.frame \in Nat /\ svc.frame <= Len(frames)
        /\ \A k \in 1..Len(queue) : queue[k] \in Nat /\ queue[k] <= Len(frames)
    <2>1. Len(frames) \in Nat /\ queue \in Seq(1..Len(frames)) /\ svc.frame \in 0..Len(frames)
      BY LenProperties DEF VisionTypeOK
    <2>2. Len(frames') \in Nat
      BY <2>1 DEF Taken
    <2> QED
      BY <2>1, <2>2, ElementOfSeq
  <1>8. \A m \in Message : m.frame \in Nat
    BY VisionAssumption DEF Message
  <1>9. \A i \in 1..N : FitsAfter(S(i))
    <2> TAKE i \in 1..N
    <2>1. CASE Old(i)
      <3>1. Fits(Way[i]) /\ S(i) = Way[i] /\ Way[i] \in Message
        BY <1>1, <1>2, <1>4, <2>1 DEF MessagesFit
      <3>2. Way[i].frame \in Nat /\ Way[i].frame <= Len(frames) /\ Way[i].frame <= Len(frames')
        BY <1>7, <1>8, <3>1 DEF Fits, Taken
      <3>3. Way[i].frame # 0 => frames'[Way[i].frame] = frames[Way[i].frame]
        BY <1>7, <3>2 DEF Taken
      <3>4. Way[i].type # "frame" => Way[i].cmd \in Cmd /\ task'[Way[i].cmd] = "over"
        BY <3>1 DEF Fits, Taken
      <3> QED
        BY <3>1, <3>2, <3>3, <3>4 DEF Fits, FitsAfter
    <2>2. CASE ~Old(i)
      BY <1>3, <1>5, <2>2 DEF Spoken
    <2> QED
      BY <2>1, <2>2
  <1>10. \A i \in 1..N : Old(i) => /\ S(i).type # "frame" => task[S(i).cmd] = "over"
                                   /\ S(i).frame <= Len(frames)
    BY <1>2, <1>4 DEF MessagesFit, Fits
  <1>11. \A i \in 1..N : ~Old(i) => /\ S(i).type # "frame" => task[S(i).cmd] # "over"
                                    /\ S(i).type = "frame" => S(i).frame = Len(frames) + 1
    BY <1>3, <1>5 DEF Spoken
  <1>12. \A i, j \in 1..N : ~Old(i) /\ ~Old(j) /\ (S(i).type = "frame") = (S(j).type = "frame") => i = j
    <2> TAKE i, j \in 1..N
    <2> HAVE ~Old(i) /\ ~Old(j) /\ (S(i).type = "frame") = (S(j).type = "frame")
    <2>1. i - Len(Way) = j - Len(Way)
      BY <1>3, <1>5 DEF Spoken
    <2> QED
      BY <1>1, <2>1
  <1>13. \A i \in 1..N : S(i).type # "frame" => S(i).cmd \notin heard \cup unheard
    <2> TAKE i \in 1..N
    <2> HAVE S(i).type # "frame"
    <2>1. CASE Old(i)
      BY <1>2, <1>4, <2>1 DEF OneAnswer
    <2>2. CASE ~Old(i)
      BY <1>11, <2>2 DEF OneAnswer
    <2> QED
      BY <2>1, <2>2
  <1>14. \A i \in 1..N : S(i).type = "frame" =>
           svc.frame < S(i).frame /\ \A k \in 1..Len(queue) : queue[k] < S(i).frame
    <2> TAKE i \in 1..N
    <2> HAVE S(i).type = "frame"
    <2>1. CASE Old(i)
      BY <1>2, <1>4, <2>1 DEF FramesInOrder
    <2>2. CASE ~Old(i)
      BY <1>7, <1>11, <2>2
    <2> QED
      BY <2>1, <2>2
  <1>15. \A i, j \in 1..N : S(i).type # "frame" /\ S(j).type # "frame" /\ S(i).cmd = S(j).cmd => i = j
    <2> TAKE i, j \in 1..N
    <2> HAVE S(i).type # "frame" /\ S(j).type # "frame" /\ S(i).cmd = S(j).cmd
    <2>1. CASE Old(i) /\ Old(j)
      BY <1>2, <1>4, <2>1 DEF OneAnswer
    <2>2. CASE ~Old(i) /\ ~Old(j)
      BY <1>12, <2>2
    <2>3. CASE Old(i) # Old(j)
      BY <1>10, <1>11, <2>3
    <2> QED
      BY <2>1, <2>2, <2>3
  <1>16. \A i, j \in 1..N : i < j /\ S(i).type = "frame" /\ S(j).type = "frame" => S(i).frame < S(j).frame
    <2> TAKE i, j \in 1..N
    <2> HAVE i < j /\ S(i).type = "frame" /\ S(j).type = "frame"
    <2>1. CASE Old(j)
      BY <1>1, <1>2, <1>4, <2>1 DEF FramesInOrder
    <2>2. CASE Old(i) /\ ~Old(j)
      BY <1>6, <1>7, <1>8, <1>10, <1>11, <2>2
    <2>3. CASE ~Old(i)
      <3>1. ~Old(j)
        BY <1>1, <2>3
      <3> QED
        BY <1>1, <1>12, <2>3, <3>1
    <2> QED
      BY <2>1, <2>2, <2>3
  <1> QED
    BY <1>1, <1>2, <1>3, <1>6, <1>9, <1>13, <1>14, <1>15, <1>16

\* Where the i-th of what is left was before.
Place(a, d, i) == IF i <= a THEN i ELSE i + d

\* The messages that are left on the way have places before, which keep their order.
LEMMA Places ==
  ASSUME VisionTypeOK, NEW msgs, NEW a \in Nat, NEW d \in Nat,
         Len(Way) \in Nat, Len(msgs) \in Nat, Conveyed(msgs, a, d)
  PROVE  /\ Len(Way') \in Nat /\ Place(a, d, Len(Way') + 1) = Len(Way) + Len(msgs) + 1
         /\ \A i \in 1..Len(Way') : /\ Place(a, d, i) \in 1..(Len(Way) + Len(msgs))
                                    /\ Place(a, d, i) \notin (a + 1)..(a + d)
                                    /\ Way'[i] = Said(msgs, Place(a, d, i))
         /\ \A i, j \in 0..(Len(Way') + 1) : i < j <=> Place(a, d, i) < Place(a, d, j)
         /\ \A i, j \in 0..(Len(Way') + 1) : Place(a, d, i) = Place(a, d, j) => i = j
         /\ \A n \in 1..(Len(Way) + Len(msgs)) :
              n \notin (a + 1)..(a + d) => \E i \in 1..Len(Way') : Place(a, d, i) = n
  <1>1. /\ Len(Way') = Len(Way) + Len(msgs) - d /\ a + d <= Len(Way) + Len(msgs)
        /\ \A i \in 1..Len(Way') : Way'[i] = Said(msgs, IF i <= a THEN i ELSE i + d)
    BY DEF Conveyed
  <1>2. Len(Way') \in Nat /\ Place(a, d, Len(Way') + 1) = Len(Way) + Len(msgs) + 1
    BY <1>1 DEF Place
  <1>3. \A i \in 1..Len(Way') : /\ Place(a, d, i) \in 1..(Len(Way) + Len(msgs))
                                /\ Place(a, d, i) \notin (a + 1)..(a + d)
                                /\ Way'[i] = Said(msgs, Place(a, d, i))
    <2> TAKE i \in 1..Len(Way')
    <2>1. Place(a, d, i) \in 1..(Len(Way) + Len(msgs)) /\ Place(a, d, i) \notin (a + 1)..(a + d)
      BY <1>1, <1>2 DEF Place
    <2>2. Way'[i] = Said(msgs, Place(a, d, i))
      BY <1>1 DEF Place
    <2> QED
      BY <2>1, <2>2
  <1>4. \A i, j \in 0..(Len(Way') + 1) : i < j <=> Place(a, d, i) < Place(a, d, j)
    BY <1>2 DEF Place
  <1>5. \A i, j \in 0..(Len(Way') + 1) : Place(a, d, i) = Place(a, d, j) => i = j
    BY <1>2 DEF Place
  <1>6. \A n \in 1..(Len(Way) + Len(msgs)) :
          n \notin (a + 1)..(a + d) => \E i \in 1..Len(Way') : Place(a, d, i) = n
    <2> TAKE n \in 1..(Len(Way) + Len(msgs))
    <2> HAVE n \notin (a + 1)..(a + d)
    <2>1. CASE n <= a
      <3>1. n \in 1..Len(Way') /\ Place(a, d, n) = n
        BY <1>1, <2>1 DEF Place
      <3> QED
        BY <3>1
    <2>2. CASE ~(n <= a)
      <3>1. n - d \in 1..Len(Way') /\ Place(a, d, n - d) = n
        BY <1>1, <2>2 DEF Place
      <3> QED
        BY <3>1
    <2> QED
      BY <2>1, <2>2
  <1> QED
    BY <1>2, <1>3, <1>4, <1>5, <1>6

\* The messages stay true of the camera, and in order.
LEMMA SpokenKeepsMessages ==
  ASSUME VisionTypeOK, MessagesFit, OneAnswer, FramesInOrder, Taken, HubWaits,
         NEW msgs, Spoken(msgs), NEW a \in Nat, NEW d \in Nat, Conveyed(msgs, a, d)
  PROVE  MessagesFit' /\ OneAnswer' /\ FramesInOrder'
  <1> DEFINE N == Len(Way) + Len(msgs)
             S(i) == Said(msgs, i)
             P(i) == Place(a, d, i)
  <1>1. /\ Len(Way) \in Nat /\ Len(msgs) \in Nat
        /\ \A i \in 1..N :
             /\ FitsAfter(S(i))
             /\ S(i).type # "frame" => S(i).cmd \notin heard \cup unheard
             /\ S(i).type = "frame" => svc.frame < S(i).frame /\ \A k \in 1..Len(queue) : queue[k] < S(i).frame
        /\ \A i, j \in 1..N :
             /\ S(i).type # "frame" /\ S(j).type # "frame" /\ S(i).cmd = S(j).cmd => i = j
             /\ i < j /\ S(i).type = "frame" /\ S(j).type = "frame" => S(i).frame < S(j).frame
    BY AllSaid
  <1>2. /\ Len(Way') \in Nat
        /\ \A i \in 1..Len(Way') : P(i) \in 1..N /\ P(i) \notin (a + 1)..(a + d) /\ Way'[i] = S(P(i))
        /\ \A i, j \in 0..(Len(Way') + 1) : i < j <=> P(i) < P(j)
        /\ \A i, j \in 0..(Len(Way') + 1) : P(i) = P(j) => i = j
    BY <1>1, Places
  <1>3. \A i, j \in 1..Len(Way') : (i < j => P(i) < P(j)) /\ (P(i) = P(j) => i = j)
    <2>1. \A i \in 1..Len(Way') : i \in 0..(Len(Way') + 1)
      BY <1>2
    <2> QED
      BY <1>2, <2>1
  <1> HIDE DEF P, S, N
  <1>4. MessagesFit'
    <2>1. \A i \in 1..Len(Way') : FitsAfter(Way'[i])
      BY <1>1, <1>2
    <2> QED
      BY <2>1 DEF MessagesFit, Fits, FitsAfter
  <1>5. \A c \in unheard' \ unheard : \E n \in 1..N :
          n \in (a + 1)..(a + d) /\ S(n).type # "frame" /\ S(n).cmd = c
    <2> TAKE c \in unheard' \ unheard
    <2>1. PICK n \in (a + 1)..(a + d) : S(n).type # "frame" /\ S(n).cmd = c
      BY Zenon DEF Conveyed, S
    <2>2. a + d <= N
      BY Zenon DEF Conveyed, N
    <2>3. n \in 1..N
      BY <1>1, <2>1, <2>2 DEF N
    <2> QED
      BY <2>1, <2>3
  <1>6. heard' = heard /\ unheard \subseteq unheard'
    BY Zenon DEF HubWaits, Conveyed
  <1>7. OneAnswer'
    <2>1. \A i, j \in 1..Len(Way') :
            Way'[i].type # "frame" /\ Way'[j].type # "frame" /\ Way'[i].cmd = Way'[j].cmd => i = j
      BY <1>1, <1>2, <1>3
    <2>2. \A i \in 1..Len(Way') : Way'[i].type # "frame" => Way'[i].cmd \notin heard' \cup unheard'
      <3> TAKE i \in 1..Len(Way')
      <3> HAVE Way'[i].type # "frame"
      <3>1. Way'[i].cmd \notin heard' \cup unheard
        BY <1>1, <1>2, <1>6
      <3>2. Way'[i].cmd \notin unheard' \ unheard
        BY <1>1, <1>2, <1>5
      <3> QED
        BY <3>1, <3>2
    <2>3. \A c \in heard' \cup unheard' : task'[c] = "over"
      <3> TAKE c \in heard' \cup unheard'
      <3>1. CASE c \in heard \cup unheard
        <4>1. task[c] = "over" /\ c \in Cmd
          BY <3>1 DEF OneAnswer, VisionTypeOK
        <4> QED
          BY <4>1 DEF Taken
      <3>2. CASE c \in unheard' \ unheard
        BY <1>1, <1>5, <3>2 DEF FitsAfter
      <3> QED
        BY <1>6, <3>1, <3>2
    <2>4. heard' \cap unheard' = {}
      <3>1. heard \cap unheard = {}
        BY DEF OneAnswer
      <3>2. \A c \in unheard' \ unheard : c \notin heard
        BY <1>1, <1>5
      <3> QED
        BY <1>6, <3>1, <3>2
    <2> QED
      BY <2>1, <2>2, <2>3, <2>4 DEF OneAnswer
  <1>8. FramesInOrder'
    <2>1. \A i, j \in 1..Len(Way') :
            i < j /\ Way'[i].type = "frame" /\ Way'[j].type = "frame" => Way'[i].frame < Way'[j].frame
      BY <1>1, <1>2, <1>3
    <2>2. CASE queue' = queue /\ svc' = svc
      <3>1. /\ \A k, n \in 1..Len(queue') : k < n => queue'[k] < queue'[n]
            /\ \A k \in 1..Len(queue') : svc'.frame < queue'[k]
        BY <2>2 DEF FramesInOrder
      <3>2. \A i \in 1..Len(Way') : Way'[i].type = "frame" =>
              svc'.frame < Way'[i].frame /\ \A k \in 1..Len(queue') : queue'[k] < Way'[i].frame
        BY <1>1, <1>2, <2>2
      <3>3. svc'.frame # 0 => frames'[svc'.frame].cmd = NoCmd
        <4> HAVE svc'.frame # 0
        <4>1. svc.frame \in 1..Len(frames) /\ frames[svc.frame].cmd = NoCmd
          BY <2>2, LenProperties DEF VisionTypeOK, FramesInOrder
        <4> QED
          BY <2>2, <4>1 DEF Taken
      <3> QED
        BY <2>1, <3>1, <3>2, <3>3 DEF FramesInOrder
    <2>3. CASE queue' = <<>> /\ svc' = Idle
      <3>1. svc'.frame = 0 /\ Len(queue') = 0
        BY <2>3 DEF Idle
      <3>2. \A i \in 1..Len(Way') : Way'[i].type = "frame" => 0 < Way'[i].frame
        <4> TAKE i \in 1..Len(Way')
        <4> HAVE Way'[i].type = "frame"
        <4>1. svc.frame \in Nat /\ svc.frame < Way'[i].frame
          BY <1>1, <1>2, LenProperties DEF VisionTypeOK
        <4>2. Way'[i].frame \in Nat
          <5>1. P(i) \in 1..N /\ Way'[i] = S(P(i))
            BY <1>2
          <5>2. \A n \in 1..N : S(n) \in Message
            BY AllSaid DEF S, N
          <5> QED
            BY <5>1, <5>2, VisionAssumption DEF Message
        <4> QED
          BY <4>1, <4>2
      <3> QED
        BY <2>1, <3>1, <3>2 DEF FramesInOrder
    <2> QED
      BY <2>2, <2>3 DEF HubWaits
  <1> QED
    BY <1>4, <1>7, <1>8

\* So do the frames of the commands, and what is on record of them.
LEMMA TakenKeepsFrames ==
  ASSUME VisionTypeOK, CameraTypeOK', OwnFrame, ViewsGrow, Taken
  PROVE  OwnFrame' /\ ViewsGrow'
  <1> DEFINE L == Len(frames)
  <1>1. /\ L \in Nat /\ Len(frames') \in Nat /\ view \in Nat
        /\ Len(frames') = L \/ Len(frames') = L + 1
        /\ \A f \in 1..L : frames[f] \in [view : 0..view, cmd : Cmd \cup {NoCmd}] /\ frames'[f] = frames[f]
        /\ \A f \in 1..Len(frames') : f \in 1..L \/ f = L + 1
    <2>1. L \in Nat /\ Len(frames') \in Nat /\ view \in Nat
      BY LenProperties DEF VisionTypeOK, CameraTypeOK
    <2>2. \A f \in 1..L : frames[f] \in [view : 0..view, cmd : Cmd \cup {NoCmd}]
      BY ElementOfSeq DEF VisionTypeOK
    <2> QED
      BY <2>1, <2>2 DEF Taken
  <1>2. \A f \in 1..Len(frames') : f = L + 1 =>
          /\ frames'[f].view = view
          /\ frames'[f].cmd # NoCmd =>
               /\ frames'[f].cmd \in Cmd /\ task[frames'[f].cmd] = "begun"
               /\ task'[frames'[f].cmd] \in {"shot", "over"}
    BY <1>1 DEF Taken
  <1>3. \A c \in Cmd : task'[c] \in {"new", "begun"} => \A f \in 1..Len(frames') : frames'[f].cmd # c
    <2> TAKE c \in Cmd
    <2> HAVE task'[c] \in {"new", "begun"}
    <2>1. c # NoCmd /\ task[c] \in {"new", "begun"}
      BY VisionAssumption DEF Taken
    <2>2. \A f \in 1..L : frames[f].cmd # c
      BY <2>1 DEF OwnFrame
    <2> QED
      BY <1>1, <1>2, <2>1, <2>2
  <1>4. \A c \in Cmd : task'[c] = "shot" =>
          TypeOf[c] = "capture" /\ \E f \in 1..Len(frames') : frames'[f].cmd = c
    <2> TAKE c \in Cmd
    <2> HAVE task'[c] = "shot"
    <2>1. CASE task[c] = "shot"
      <3>1. TypeOf[c] = "capture"
        BY <2>1 DEF OwnFrame
      <3>2. PICK f \in 1..L : frames[f].cmd = c
        BY <2>1 DEF OwnFrame
      <3>3. f \in 1..Len(frames') /\ frames'[f].cmd = c
        BY <1>1, <3>2
      <3> QED
        BY <3>1, <3>3
    <2>2. CASE task[c] # "shot"
      <3>1. TypeOf[c] = "capture" /\ Len(frames') = L + 1 /\ frames'[L + 1].cmd = c
        BY <2>2 DEF Taken
      <3> QED
        BY <1>1, <3>1
    <2> QED
      BY <2>1, <2>2
  <1>5. \A f, g \in 1..Len(frames') :
          frames'[f].cmd = frames'[g].cmd => f = g \/ frames'[f].cmd = NoCmd
    <2>1. ASSUME NEW f \in 1..L, frames'[L + 1].cmd # NoCmd, L + 1 \in 1..Len(frames')
          PROVE  frames'[f].cmd # frames'[L + 1].cmd
      <3>1. frames'[L + 1].cmd \in Cmd /\ task[frames'[L + 1].cmd] = "begun"
        BY <1>2, <2>1
      <3> QED
        BY <1>1, <3>1 DEF OwnFrame
    <2>2. \A f, g \in 1..L : frames'[f].cmd = frames'[g].cmd => f = g \/ frames'[f].cmd = NoCmd
      BY <1>1 DEF OwnFrame
    <2> QED
      BY <1>1, <2>1, <2>2
  <1>6. ViewsGrow'
    <2>1. \A f, g \in 1..L : f <= g => frames'[f].view <= frames'[g].view
      BY <1>1 DEF ViewsGrow
    <2>2. \A f \in 1..L : frames'[f].view <= view
      BY <1>1
    <2>3. \A f, g \in 1..Len(frames') : f <= g => frames'[f].view <= frames'[g].view
      <3> TAKE f, g \in 1..Len(frames')
      <3> HAVE f <= g
      <3>1. CASE g \in 1..L
        BY <1>1, <2>1, <3>1
      <3>2. CASE g = L + 1
        BY <1>1, <1>2, <2>2, <3>2
      <3> QED
        BY <1>1, <3>1, <3>2
    <2> QED
      BY <2>3 DEF ViewsGrow
  <1> QED
    BY <1>3, <1>4, <1>5, <1>6 DEF OwnFrame

\* The frames that may still be measured, one at a time.
LEMMA ToMeasureIs ==
  \A f : f \in ToMeasure <=>
    /\ f # 0
    /\ \/ f = svc.frame
       \/ \E k \in 1..Len(queue) : f = queue[k]
       \/ \E i \in 1..Len(Way) : Way[i].type = "frame" /\ f = Way[i].frame
  BY DEF ToMeasure

\* The frames that may still be measured, after a step.
LEMMA ToMeasureAfter ==
  \A f : f \in ToMeasure' <=>
    /\ f # 0
    /\ \/ f = svc'.frame
       \/ \E k \in 1..Len(queue') : f = queue'[k]
       \/ \E i \in 1..Len(Way') : Way'[i].type = "frame" /\ f = Way'[i].frame
  BY DEF ToMeasure

\* What the camera says changes nothing of what was measured.
LEMMA SpokenKeepsRecord ==
  ASSUME VisionTypeOK, MessagesFit, OneAnswer, FramesInOrder, OneInterpretation, Unmeasured, Taken, HubWaits,
         NEW msgs, Spoken(msgs), NEW a \in Nat, NEW d \in Nat, Conveyed(msgs, a, d)
  PROVE  OneInterpretation' /\ Unmeasured'
  <1>1. coverage' = coverage /\ heard' = heard
    BY DEF HubWaits
  <1>2. Len(frames) \in Nat /\ Len(frames) <= Len(frames')
        /\ (\A f \in 1..Len(frames) : frames'[f] = frames[f])
    BY LenProperties DEF Taken, VisionTypeOK
  <1>3. ASSUME NEW f \in 1..Len(frames), f \in ToMeasure'
        PROVE  f \in ToMeasure
    <2>1. f # 0
      BY <1>2
    <2>2. CASE f = svc'.frame \/ \E k \in 1..Len(queue') : f = queue'[k]
      <3>1. CASE queue' = queue /\ svc' = svc
        BY <2>1, <2>2, <3>1, ToMeasureIs
      <3>2. CASE queue' = <<>> /\ svc' = Idle
        BY <2>1, <2>2, <3>2 DEF Idle
      <3> QED
        BY <3>1, <3>2 DEF HubWaits
    <2>3. CASE \E i \in 1..Len(Way') : Way'[i].type = "frame" /\ f = Way'[i].frame
      <3>1. PICK i \in 1..Len(Way') : Way'[i].type = "frame" /\ f = Way'[i].frame
        BY <2>3
      <3>2. /\ Len(Way) \in Nat /\ Len(msgs) \in Nat
            /\ \A n \in 1..Len(Way) : Said(msgs, n) = Way[n]
            /\ \A n \in 1..(Len(Way) + Len(msgs)) :
                 n > Len(Way) => n - Len(Way) \in 1..Len(msgs) /\ Said(msgs, n) = msgs[n - Len(Way)]
        BY AllSaid
      <3>3. PICK n \in 1..(Len(Way) + Len(msgs)) : Way'[i] = Said(msgs, n)
        <4>1. \A k \in 1..Len(Way') :
                Place(a, d, k) \in 1..(Len(Way) + Len(msgs)) /\ Way'[k] = Said(msgs, Place(a, d, k))
          BY <3>2, Places
        <4> QED
          BY <4>1
      <3>4. n <= Len(Way)
        <4> SUFFICES ASSUME n > Len(Way)
                     PROVE  FALSE
          BY <3>2
        <4>1. Way'[i] = msgs[n - Len(Way)] /\ n - Len(Way) \in 1..Len(msgs)
          BY <3>2, <3>3
        <4>2. f = Len(frames) + 1
          BY <3>1, <4>1 DEF Spoken
        <4> QED
          BY <1>2, <4>2
      <3>5. n \in 1..Len(Way) /\ Way[n].type = "frame" /\ f = Way[n].frame
        BY <3>1, <3>2, <3>3, <3>4
      <3> QED
        BY <2>1, <3>5, ToMeasureIs
    <2> QED
      BY <1>3, <2>2, <2>3, ToMeasureAfter
  <1>4. Unmeasured'
    <2> SUFFICES ASSUME NEW f \in Frame, coverage[f] # <<>>
                 PROVE  /\ f <= Len(frames')
                        /\ frames'[f].cmd # NoCmd => frames'[f].cmd \in heard'
                        /\ frames'[f].cmd = NoCmd => f \notin ToMeasure'
      BY <1>1 DEF Unmeasured
    <2>1. /\ f <= Len(frames)
          /\ frames[f].cmd # NoCmd => frames[f].cmd \in heard
          /\ frames[f].cmd = NoCmd => f \notin ToMeasure
      BY DEF Unmeasured
    <2>2. f \in 1..Len(frames) /\ frames'[f] = frames[f] /\ f <= Len(frames')
      <3>1. Len(frames') \in Nat
        BY <1>2 DEF Taken
      <3> QED
        BY <1>2, <2>1, <3>1, VisionAssumption DEF Frame
    <2> QED
      BY <1>1, <1>3, <2>1, <2>2
  <1> QED
    BY <1>1, <1>4 DEF OneInterpretation

\* The word of a move comes before what is seen after it.
LEMMA SpokenTellsMoves ==
  ASSUME VisionTypeOK, CameraTypeOK', MessagesFit, OneAnswer, FramesInOrder, MovesAreTold, Taken, HubWaits,
         NEW msgs, Spoken(msgs), NEW a \in Nat, NEW d \in Nat, Conveyed(msgs, a, d),
         view' \in {view, view + 1}
  PROVE  MovesAreTold'
  <1> SUFFICES ASSUME ~forgot'
               PROVE  \A i \in 0..Len(Way') : BaseAt(i)' =>
                        /\ \A j \in (i + 1)..(Len(Way') + 1) :
                             SeenView(j)' <= BaseView(i)' \/ \E k \in (i + 1)..(j - 1) : IsMove(Way'[k])
                        /\ \A j \in 1..(i - 1) : SeenView(j)' <= BaseView(i)'
                        /\ \A k \in 1..Len(queue') : ViewOf(queue[k])' <= BaseView(i)'
                        /\ ViewOf(svc.frame)' <= BaseView(i)'
    BY DEF MovesAreTold
  <1> DEFINE N == Len(Way) + Len(msgs)
             S(i) == Said(msgs, i)
             P(i) == Place(a, d, i)
             View(f) == IF f = 0 THEN 0 ELSE frames'[f].view
             IsB(i) == IF i = 0 THEN ~mv.required ELSE IsBase(S(i))
             BaseV(i) == IF i = 0 THEN View(mv.base) ELSE View(S(i).frame)
             Seen(j) == IF j > N THEN view' ELSE View(S(j).frame)
             LW == Len(Way)
  <1>1. ~forgot /\ mv' = mv /\ queue' = queue /\ svc' = svc
    BY Zenon DEF HubWaits, Conveyed
  <1>2. /\ LW \in Nat /\ Len(msgs) \in Nat
        /\ \A i \in 1..LW : S(i) = Way[i] /\ i \in 1..N
        /\ \A i \in 1..N : i > LW => i - LW \in 1..Len(msgs) /\ S(i) = msgs[i - LW]
        /\ \A i \in 1..N : FitsAfter(S(i)) /\ S(i) \in Message
    <2>1. /\ LW \in Nat /\ Len(msgs) \in Nat
          /\ \A i \in 1..LW : S(i) = Way[i]
          /\ \A i \in 1..N : i > LW => i - LW \in 1..Len(msgs) /\ S(i) = msgs[i - LW]
          /\ \A i \in 1..N : FitsAfter(S(i)) /\ S(i) \in Message
      BY AllSaid
    <2>2. \A i \in 1..LW : i \in 1..N
      BY <2>1
    <2> QED
      BY <2>1, <2>2
  <1>3. /\ Len(frames) \in Nat /\ Len(frames') \in Nat /\ view \in Nat /\ view' \in Nat
        /\ Len(frames) <= Len(frames')
        /\ \A f \in 1..Len(frames) : frames'[f] = frames[f]
        /\ \A f \in 1..Len(frames) : frames[f].view \in 0..view
        /\ \A f \in 1..Len(frames') : f <= Len(frames) \/ frames'[f].view = view
    <2>1. Len(frames) \in Nat /\ Len(frames') \in Nat /\ view \in Nat
      BY LenProperties DEF VisionTypeOK, CameraTypeOK
    <2>2. \A f \in 1..Len(frames) : frames[f].view \in 0..view
      <3>1. \A f \in 1..Len(frames) : frames[f] \in [view : 0..view, cmd : Cmd \cup {NoCmd}]
        BY ElementOfSeq DEF VisionTypeOK
      <3> QED
        BY <3>1
    <2> QED
      BY <2>1, <2>2 DEF Taken
  <1>4. \A f \in 0..Len(frames') : View(f) \in 0..view
    BY <1>3
  <1>5. \A f \in 0..Len(frames) : View(f) = ViewOf(f) /\ f \in 0..Len(frames')
    BY <1>3 DEF ViewOf
  <1>6. /\ \A i \in 1..N : S(i).frame \in 0..Len(frames')
        /\ \A i \in 1..LW : S(i).frame \in 0..Len(frames)
        /\ mv.base \in 0..Len(frames) /\ svc.frame \in 0..Len(frames)
        /\ \A k \in 1..Len(queue) : queue[k] \in 0..Len(frames)
    <2>1. \A i \in 1..N : S(i).frame \in Nat
      BY <1>2, VisionAssumption DEF Message
    <2>2. \A i \in 1..N : S(i).frame \in 0..Len(frames')
      BY <1>2, <1>3, <2>1 DEF FitsAfter
    <2>3. \A i \in 1..LW : S(i).frame \in 0..Len(frames)
      BY <1>2, <1>3, <2>1 DEF MessagesFit, Fits
    <2>4. mv.base \in 0..Len(frames) /\ svc.frame \in 0..Len(frames)
      BY DEF VisionTypeOK
    <2>5. queue \in Seq(1..Len(frames))
      BY DEF VisionTypeOK
    <2>6. \A k \in 1..Len(queue) : queue[k] \in 0..Len(frames)
      BY <1>3, <2>5, ElementOfSeq
    <2> QED
      BY <2>2, <2>3, <2>4, <2>6
  <1> HIDE DEF S, View
  <1>7. \A i \in 0..LW : IsB(i) =>
          /\ \A j \in (i + 1)..(LW + 1) :
               SeenView(j) <= BaseView(i) \/ \E k \in (i + 1)..(j - 1) : IsMove(Way[k])
          /\ \A j \in 1..(i - 1) : SeenView(j) <= BaseView(i)
          /\ \A k \in 1..Len(queue) : ViewOf(queue[k]) <= BaseView(i)
          /\ ViewOf(svc.frame) <= BaseView(i)
    <2>1. \A i \in 0..LW : IsB(i) => BaseAt(i)
      BY <1>2 DEF BaseAt
    <2>2. \A i \in 0..LW : BaseAt(i) =>
            /\ \A j \in (i + 1)..(LW + 1) :
                 SeenView(j) <= BaseView(i) \/ \E k \in (i + 1)..(j - 1) : IsMove(Way[k])
            /\ \A j \in 1..(i - 1) : SeenView(j) <= BaseView(i)
            /\ \A k \in 1..Len(queue) : ViewOf(queue[k]) <= BaseView(i)
            /\ ViewOf(svc.frame) <= BaseView(i)
      BY <1>1, Zenon DEF MovesAreTold
    <2> QED
      BY <2>1, <2>2, Zenon
  <1>8. \A i \in 0..LW : BaseView(i) = BaseV(i) /\ BaseV(i) \in Nat
    <2> TAKE i \in 0..LW
    <2>1. CASE i = 0
      <3>1. BaseView(i) = ViewOf(mv.base) /\ BaseV(i) = View(mv.base)
        BY <2>1 DEF BaseView
      <3> QED
        BY <1>3, <1>4, <1>5, <1>6, <3>1
    <2>2. CASE i # 0
      <3>1. i \in 1..LW /\ S(i) = Way[i]
        BY <1>2, <2>2
      <3>2. BaseView(i) = ViewOf(S(i).frame) /\ BaseV(i) = View(S(i).frame)
        BY <2>2, <3>1 DEF BaseView
      <3> QED
        BY <1>3, <1>4, <1>5, <1>6, <3>1, <3>2
    <2> QED
      BY <2>1, <2>2
  <1>9. \A j \in 1..LW : SeenView(j) = Seen(j) /\ Seen(j) \in Nat
    <2> TAKE j \in 1..LW
    <2>1. ~(j > LW) /\ ~(j > N) /\ S(j) = Way[j]
      BY <1>2
    <2>2. SeenView(j) = ViewOf(S(j).frame) /\ Seen(j) = View(S(j).frame)
      BY <2>1 DEF SeenView
    <2> QED
      BY <1>3, <1>4, <1>5, <1>6, <2>2
  <1>10. SeenView(LW + 1) = view
    BY <1>2 DEF SeenView
  <1>11. \A j \in 1..N : Seen(j) \in 0..view
    BY <1>2, <1>4, <1>6
  <1>12. \A i \in 0..N : IsB(i) /\ i > LW => i = N /\ BaseV(i) = view /\ view' = view
    <2> TAKE i \in 0..N
    <2> HAVE IsB(i) /\ i > LW
    <2>1. i \in 1..N /\ i # 0 /\ i - LW \in 1..Len(msgs) /\ S(i) = msgs[i - LW] /\ IsBase(S(i))
      BY <1>2
    <2>2. i - LW = Len(msgs) /\ frames'[S(i).frame].view = view /\ view' = view
      BY <2>1, Zenon DEF Spoken
    <2>3. S(i).frame # 0
      BY <1>2, <2>1 DEF FitsAfter, IsBase
    <2> QED
      BY <1>2, <2>1, <2>2, <2>3 DEF View
  <1>13. view' # view => N > LW /\ IsMove(S(N)) /\ view' = view + 1
    <2> HAVE view' # view
    <2>1. msgs # <<>> /\ IsMove(msgs[Len(msgs)])
      BY Zenon DEF Spoken
    <2>2. msgs \in Seq(Message)
      BY DEF Spoken
    <2>3. Len(msgs) # 0
      BY <2>1, <2>2, EmptySeq
    <2>4. N \in 1..N /\ N > LW /\ N - LW = Len(msgs)
      BY <1>2, <2>3
    <2> QED
      BY <1>2, <2>1, <2>4
  <1> HIDE DEF IsB, BaseV, Seen
  \* Of all that was said.
  <1>14. \A i \in 0..N : IsB(i) =>
           \A j \in (i + 1)..(N + 1) : Seen(j) <= BaseV(i) \/ \E k \in (i + 1)..(j - 1) : k <= N /\ IsMove(S(k))
    <2> TAKE i \in 0..N
    <2> HAVE IsB(i)
    <2> TAKE j \in (i + 1)..(N + 1)
    <2>1. CASE i > LW
      <3>1. i = N /\ j = N + 1 /\ BaseV(i) = view /\ view' = view
        BY <1>2, <1>12, <2>1
      <3>2. Seen(j) = view'
        BY <1>2, <3>1 DEF Seen
      <3> QED
        BY <1>3, <3>1, <3>2
    <2>2. CASE i <= LW /\ j <= LW
      <3>1. i \in 0..LW /\ j \in 1..LW /\ j \in (i + 1)..(LW + 1)
        BY <1>2, <2>2
      <3>2. CASE SeenView(j) <= BaseView(i)
        BY <1>8, <1>9, <3>1, <3>2
      <3>3. CASE \E k \in (i + 1)..(j - 1) : IsMove(Way[k])
        <4>1. PICK k \in (i + 1)..(j - 1) : IsMove(Way[k])
          BY <3>3
        <4>2. k \in 1..LW /\ k <= N
          BY <1>2, <3>1
        <4> QED
          BY <1>2, <4>1, <4>2
      <3> QED
        BY <1>7, <3>1, <3>2, <3>3
    <2>3. CASE i <= LW /\ j > LW
      <3>1. i \in 0..LW /\ LW + 1 \in (i + 1)..(LW + 1)
        BY <1>2, <2>3
      <3>2. view <= BaseV(i) \/ \E k \in (i + 1)..LW : IsMove(Way[k])
        <4>1. view <= BaseView(i) \/ \E k \in (i + 1)..((LW + 1) - 1) : IsMove(Way[k])
          BY <1>7, <1>10, <3>1
        <4>2. (LW + 1) - 1 = LW
          BY <1>2
        <4> QED
          BY <1>8, <3>1, <4>1, <4>2
      <3>3. CASE \E k \in (i + 1)..LW : IsMove(Way[k])
        <4>1. PICK k \in (i + 1)..LW : IsMove(Way[k])
          BY <3>3
        <4>2. k \in 1..LW /\ k <= N /\ k \in (i + 1)..(j - 1)
          BY <1>2, <2>3, <3>1
        <4> QED
          BY <1>2, <4>1, <4>2
      <3>4. CASE view <= BaseV(i) /\ j <= N
        <4>1. Seen(j) \in 0..view
          BY <1>2, <1>11, <2>3, <3>4
        <4> QED
          BY <1>3, <1>8, <3>1, <3>4, <4>1
      <3>5. CASE view <= BaseV(i) /\ j = N + 1 /\ view' = view
        BY <1>2, <3>5 DEF Seen
      <3>6. CASE j = N + 1 /\ view' # view
        <4>1. N \in (i + 1)..(j - 1) /\ N <= N /\ IsMove(S(N))
          BY <1>2, <1>13, <2>3, <3>6
        <4> QED
          BY <4>1
      <3>7. j <= N \/ j = N + 1
        BY <1>2
      <3> QED
        BY <3>2, <3>3, <3>4, <3>5, <3>6, <3>7
    <2> QED
      BY <1>2, <2>1, <2>2, <2>3
  <1>15. \A i \in 0..N : IsB(i) => \A j \in 1..(i - 1) : Seen(j) <= BaseV(i)
    <2> TAKE i \in 0..N
    <2> HAVE IsB(i)
    <2> TAKE j \in 1..(i - 1)
    <2>1. CASE i > LW
      <3>1. BaseV(i) = view /\ j \in 1..N
        BY <1>2, <1>12, <2>1
      <3> QED
        BY <1>3, <1>11, <3>1
    <2>2. CASE i <= LW
      <3>1. i \in 0..LW /\ j \in 1..LW
        BY <1>2, <2>2
      <3> QED
        BY <1>7, <1>8, <1>9, <3>1
    <2> QED
      BY <1>2, <2>1, <2>2
  <1>16. \A i \in 0..N : IsB(i) =>
           (\A k \in 1..Len(queue) : View(queue[k]) <= BaseV(i)) /\ View(svc.frame) <= BaseV(i)
    <2> TAKE i \in 0..N
    <2> HAVE IsB(i)
    <2>1. CASE i > LW
      <3>1. BaseV(i) = view
        BY <1>2, <1>12, <2>1
      <3>2. View(svc.frame) \in 0..view /\ \A k \in 1..Len(queue) : View(queue[k]) \in 0..view
        BY <1>4, <1>5, <1>6
      <3> QED
        BY <1>3, <3>1, <3>2
    <2>2. CASE i <= LW
      <3>1. i \in 0..LW
        BY <1>2, <2>2
      <3> QED
        BY <1>5, <1>6, <1>7, <1>8, <3>1
    <2> QED
      BY <1>2, <2>1, <2>2
  \* Of what is left.
  <1>17. /\ Len(Way') \in Nat /\ P(Len(Way') + 1) = N + 1 /\ P(0) = 0
         /\ \A i \in 1..Len(Way') : P(i) \in 1..N /\ Way'[i] = S(P(i))
         /\ \A i, j \in 0..(Len(Way') + 1) : i < j <=> P(i) < P(j)
         /\ \A n \in 1..N : n \notin (a + 1)..(a + d) => \E i \in 1..Len(Way') : P(i) = n
    <2>1. P(0) = 0
      BY DEF Place
    <2> QED
      BY <1>2, <2>1, Places DEF S
  <1>18. \A n \in (a + 1)..(a + d) : ~IsMove(S(n))
    <2> TAKE n \in (a + 1)..(a + d)
    <2>1. S(n).type # "frame" => (TypeOf[S(n).cmd] = "ptz" => forgot')
      BY Zenon DEF Conveyed, S
    <2>2. ~(S(n).type # "frame" /\ TypeOf[S(n).cmd] = "ptz")
      BY <2>1, Zenon
    <2> QED
      BY <2>2 DEF IsMove
  <1> HIDE DEF P, N, LW
  <1>19. \A i \in 0..Len(Way') : BaseAt(i)' = IsB(P(i)) /\ BaseView(i)' = BaseV(P(i)) /\ P(i) \in 0..N
    <2> TAKE i \in 0..Len(Way')
    <2>1. CASE i = 0
      <3>1. P(i) = 0 /\ 0 \in 0..N
        BY <1>2, <1>17, <2>1 DEF N, LW
      <3>2. BaseView(i)' = BaseV(0)
        BY <1>1, <2>1 DEF BaseView, BaseV, View, ViewOf
      <3>3. BaseAt(i)' = IsB(0)
        BY <1>1, <2>1 DEF BaseAt, IsB
      <3> QED
        BY <3>1, <3>2, <3>3
    <2>2. CASE i # 0
      <3>1. i \in 1..Len(Way') /\ P(i) \in 1..N /\ Way'[i] = S(P(i)) /\ P(i) # 0 /\ P(i) \in 0..N
        BY <1>2, <1>17, <2>2 DEF N, LW
      <3>2. BaseView(i)' = BaseV(P(i))
        BY <2>2, <3>1 DEF BaseView, BaseV, View, ViewOf
      <3>3. BaseAt(i)' = IsB(P(i))
        BY <2>2, <3>1 DEF BaseAt, IsB, IsBase
      <3> QED
        BY <3>1, <3>2, <3>3
    <2> QED
      BY <2>1, <2>2
  <1>20. \A j \in 1..(Len(Way') + 1) : SeenView(j)' = Seen(P(j)) /\ P(j) \in 1..(N + 1)
    <2> TAKE j \in 1..(Len(Way') + 1)
    <2>1. CASE j = Len(Way') + 1
      <3>1. SeenView(j)' = view'
        BY <1>17, <2>1 DEF SeenView
      <3>2. Seen(P(j)) = view'
        BY <1>2, <1>17, <2>1 DEF Seen, N, LW
      <3> QED
        BY <1>2, <1>17, <2>1, <3>1, <3>2 DEF N, LW
    <2>2. CASE j # Len(Way') + 1
      <3>1. j \in 1..Len(Way') /\ P(j) \in 1..N /\ Way'[j] = S(P(j))
        BY <1>17, <2>2
      <3>2. ~(j > Len(Way')) /\ ~(P(j) > N)
        BY <1>2, <1>17, <3>1 DEF N, LW
      <3> QED
        BY <1>2, <3>1, <3>2 DEF SeenView, Seen, View, ViewOf, N, LW
    <2> QED
      BY <2>1, <2>2
  <1> SUFFICES ASSUME NEW i \in 0..Len(Way'), IsB(P(i))
               PROVE  /\ \A j \in (i + 1)..(Len(Way') + 1) :
                           Seen(P(j)) <= BaseV(P(i)) \/ \E k \in (i + 1)..(j - 1) : IsMove(Way'[k])
                      /\ \A j \in 1..(i - 1) : Seen(P(j)) <= BaseV(P(i))
                      /\ \A k \in 1..Len(queue') : ViewOf(queue[k])' <= BaseV(P(i))
                      /\ ViewOf(svc.frame)' <= BaseV(P(i))
    <2>1. \A i \in 0..Len(Way') : (\A j \in (i + 1)..(Len(Way') + 1) : j \in 1..(Len(Way') + 1))
                                  /\ (\A j \in 1..(i - 1) : j \in 1..(Len(Way') + 1))
      BY <1>17
    <2> QED
      BY <1>19, <1>20, <2>1, Zenon
  <1>21. P(i) \in 0..N /\ i \in 0..(Len(Way') + 1)
    BY <1>17, <1>19
  <1>22. ASSUME NEW j \in (i + 1)..(Len(Way') + 1)
         PROVE  Seen(P(j)) <= BaseV(P(i)) \/ \E k \in (i + 1)..(j - 1) : IsMove(Way'[k])
    <2>1. j \in 1..(Len(Way') + 1) /\ j \in 0..(Len(Way') + 1) /\ i < j
      BY <1>17, <1>22
    <2>2. P(i) < P(j) /\ P(j) \in 1..(N + 1)
      BY <1>17, <1>20, <1>21, <2>1
    <2>3. P(j) \in (P(i) + 1)..(N + 1)
      BY <1>2, <1>21, <2>2 DEF N, LW
    <2>4. CASE \E k \in (P(i) + 1)..(P(j) - 1) : k <= N /\ IsMove(S(k))
      <3>1. PICK n \in (P(i) + 1)..(P(j) - 1) : n <= N /\ IsMove(S(n))
        BY <2>4
      <3>2. n \in 1..N /\ P(i) < n /\ n < P(j)
        BY <1>2, <1>21, <2>2, <3>1 DEF N, LW
      <3>3. PICK k \in 1..Len(Way') : P(k) = n
        BY <1>17, <1>18, <3>1, <3>2
      <3>4. k \in 0..(Len(Way') + 1) /\ i < k /\ k < j
        BY <1>17, <1>21, <2>1, <3>2, <3>3
      <3>5. k \in (i + 1)..(j - 1) /\ IsMove(Way'[k])
        BY <1>17, <2>1, <3>1, <3>3, <3>4
      <3> QED
        BY <3>5
    <2> QED
      BY <1>14, <1>21, <2>3, <2>4
  <1>23. ASSUME NEW j \in 1..(i - 1)
         PROVE  Seen(P(j)) <= BaseV(P(i))
    <2>1. j \in 1..(Len(Way') + 1) /\ j \in 0..(Len(Way') + 1) /\ j < i
      BY <1>17
    <2>2. P(j) < P(i) /\ P(j) \in 1..(N + 1)
      BY <1>17, <1>20, <1>21, <2>1
    <2>3. P(j) \in 1..(P(i) - 1)
      BY <1>2, <1>21, <2>2 DEF N, LW
    <2> QED
      BY <1>15, <1>21, <2>3
  <1>24. /\ \A k \in 1..Len(queue') : ViewOf(queue[k])' <= BaseV(P(i))
         /\ ViewOf(svc.frame)' <= BaseV(P(i))
    <2>1. /\ \A k \in 1..Len(queue) : View(queue[k]) <= BaseV(P(i))
          /\ View(svc.frame) <= BaseV(P(i))
      BY <1>16, <1>21
    <2>2. /\ \A k \in 1..Len(queue') : ViewOf(queue[k])' = View(queue'[k])
          /\ ViewOf(svc.frame)' = View(svc'.frame)
      BY DEF ViewOf, View
    <2> QED
      BY <1>1, <2>1, <2>2
  <1> QED
    BY <1>22, <1>23, <1>24

\* The types of the state, after a step in which the hub waits.
LEMMA WaitKeepsTypes ==
  ASSUME VisionTypeOK, LinkTypeOK', CameraTypeOK', Taken, HubWaits
  PROVE  VisionTypeOK'
  <1>1. /\ Len(frames) \in Nat /\ Len(frames') \in Nat /\ Len(frames) <= Len(frames')
        /\ 1..Len(frames) \subseteq 1..Len(frames') /\ 0..Len(frames) \subseteq 0..Len(frames')
    <2>1. Len(frames) \in Nat /\ Len(frames') \in Nat /\ Len(frames) <= Len(frames')
      BY LenProperties DEF VisionTypeOK, CameraTypeOK, Taken
    <2> QED
      BY <2>1
  <1>2. /\ mv' \in [known : BOOLEAN, base : 0..Len(frames'), required : BOOLEAN]
        /\ ~mv'.known => mv' = Fresh
    <2>1. CASE mv' = mv
      <3>1. mv \in [known : BOOLEAN, base : 0..Len(frames), required : BOOLEAN] /\ (~mv.known => mv = Fresh)
        BY DEF VisionTypeOK
      <3>2. mv.base \in 0..Len(frames')
        BY <1>1, <3>1
      <3> QED
        BY <2>1, <3>1, <3>2
    <2>2. CASE mv' = Fresh
      BY <1>1, <2>2 DEF Fresh
    <2> QED
      BY <2>1, <2>2 DEF HubWaits
  <1>3. /\ queue' \in Seq(1..Len(frames')) /\ Len(queue') <= QueueCap
        /\ svc' \in [at : {"idle", "create", "measure"}, frame : 0..Len(frames')]
        /\ (svc'.at = "idle") = (svc'.frame = 0)
    <2>1. CASE queue' = queue /\ svc' = svc
      <3>1. queue \in Seq(1..Len(frames'))
        <4>1. queue \in Seq(1..Len(frames)) /\ \A k \in 1..Len(queue) : queue[k] \in 1..Len(frames)
          BY ElementOfSeq DEF VisionTypeOK
        <4>2. queue = [k \in 1..Len(queue) |-> queue[k]] /\ Len(queue) \in Nat
          BY <4>1, LenProperties
        <4> QED
          BY <1>1, <4>1, <4>2, IsASeq
      <3>2. Len(queue) <= QueueCap /\ svc \in [at : {"idle", "create", "measure"}, frame : 0..Len(frames)]
            /\ (svc.at = "idle") = (svc.frame = 0)
        BY DEF VisionTypeOK
      <3>3. svc \in [at : {"idle", "create", "measure"}, frame : 0..Len(frames')]
        BY <1>1, <3>2
      <3> QED
        BY <2>1, <3>1, <3>2, <3>3
    <2>2. CASE queue' = <<>> /\ svc' = Idle
      <3>1. queue' \in Seq(1..Len(frames')) /\ Len(queue') = 0
        BY <2>2
      <3>2. svc' \in [at : {"idle", "create", "measure"}, frame : 0..Len(frames')]
            /\ (svc'.at = "idle") = (svc'.frame = 0)
        BY <1>1, <2>2 DEF Idle
      <3> QED
        BY <3>1, <3>2, VisionAssumption
    <2> QED
      BY <2>1, <2>2 DEF HubWaits
  <1>4. coverage' \in [Frame -> Seq({"none", "reporting"})] /\ {heard', unheard'} \subseteq SUBSET Cmd
    BY DEF VisionTypeOK, HubWaits, LinkTypeOK
  <1>5. forgot' \in BOOLEAN
    BY DEF LinkTypeOK
  <1>6. /\ conn' \in {"down", "hello", "spoiled", "held", "served"}
        /\ {ring', wire'} \subseteq Seq(Message)
        /\ Len(ring') <= RingCap /\ (conn' = "served" => ring' = <<>>)
    BY DEF LinkTypeOK
  <1>7. /\ view' \in Nat /\ role' \in BOOLEAN
        /\ frames' \in Seq([view : 0..view', cmd : Cmd \cup {NoCmd}]) /\ Len(frames') <= MaxFrames
        /\ task' \in [Cmd -> {"new", "begun", "shot", "over"}]
        /\ troubles' \in Nat
    BY DEF CameraTypeOK
  <1> QED
    BY <1>2, <1>3, <1>4, <1>5, <1>6, <1>7 DEF VisionTypeOK

\* A step of the camera, or of the line, keeps the whole.
LEMMA SpokenKeepsAll ==
  ASSUME VisionInv, LinkTypeOK', CameraTypeOK', Taken, HubWaits, view' \in {view, view + 1},
         NEW msgs, Spoken(msgs), \E a, d \in Nat : Conveyed(msgs, a, d)
  PROVE  VisionInv'
  <1>1. /\ VisionTypeOK /\ MessagesFit /\ OwnFrame /\ OneAnswer /\ FramesInOrder
        /\ OneInterpretation /\ Unmeasured /\ ViewsGrow /\ MovesAreTold
    BY DEF VisionInv
  <1>2. PICK a, d \in Nat : Conveyed(msgs, a, d)
    OBVIOUS
  <1>3. VisionTypeOK'
    BY <1>1, WaitKeepsTypes
  <1>4. MessagesFit' /\ OneAnswer' /\ FramesInOrder'
    BY <1>1, <1>2, SpokenKeepsMessages
  <1>5. OwnFrame' /\ ViewsGrow'
    BY <1>1, TakenKeepsFrames
  <1>6. OneInterpretation' /\ Unmeasured'
    BY <1>1, <1>2, SpokenKeepsRecord
  <1>7. MovesAreTold'
    BY <1>1, <1>2, SpokenTellsMoves
  <1> QED
    BY <1>3, <1>4, <1>5, <1>6, <1>7 DEF VisionInv

\* A step in which the camera says nothing.
LEMMA SilentKeepsAll ==
  ASSUME VisionInv, LinkTypeOK', HubWaits,
         view' = view, frames' = frames, role' \in BOOLEAN, troubles' \in Nat,
         task' = task \/ \E c \in Cmd : task[c] = "new" /\ task' = [task EXCEPT ![c] = "begun"],
         \E a, d \in Nat : Conveyed(<<>>, a, d)
  PROVE  VisionInv'
  <1>1. VisionTypeOK
    BY DEF VisionInv
  <1>2. task \in [Cmd -> {"new", "begun", "shot", "over"}] /\ view \in Nat /\ Len(frames) \in Nat
    BY <1>1, LenProperties DEF VisionTypeOK
  <1>3. CameraTypeOK'
    <2>1. task' \in [Cmd -> {"new", "begun", "shot", "over"}]
      BY <1>2
    <2> QED
      BY <1>1, <2>1 DEF VisionTypeOK, CameraTypeOK
  <1>4. Taken
    <2>1. \A c \in Cmd : task'[c] = task[c] \/ (task[c] = "new" /\ task'[c] = "begun")
      BY <1>2
    <2> QED
      BY <1>2, <2>1 DEF Taken
  <1>5. Spoken(<<>>)
    <2>1. Len(<<>>) = 0 /\ <<>> \in Seq(Message)
      OBVIOUS
    <2> QED
      BY <2>1 DEF Spoken
  <1>6. view' \in {view, view + 1}
    OBVIOUS
  <1> QED
    BY <1>3, <1>4, <1>5, <1>6, SpokenKeepsAll

\* What is on its way stays there.
LEMMA NothingMoves ==
  ASSUME VisionTypeOK, Way' = Way, unheard' = unheard, forgot' = forgot
  PROVE  \E a, d \in Nat : Conveyed(<<>>, a, d)
  <1>1. Len(Way) \in Nat /\ Len(<<>>) = 0 /\ (0 + 1)..(0 + 0) = {}
    BY WayFacts
  <1>2. Len(Way') = Len(Way) + Len(<<>>) - 0 /\ 0 + 0 <= Len(Way) + Len(<<>>)
    BY <1>1
  <1>3. \A i \in 1..Len(Way') : Way'[i] = Said(<<>>, IF i <= 0 THEN i ELSE i + 0)
    BY <1>1 DEF Said
  <1>4. Conveyed(<<>>, 0, 0)
    BY <1>1, <1>2, <1>3, Zenon DEF Conveyed
  <1> QED
    BY <1>4

\* Dialling, adoption, breaks, restarts and the begin of a command.
LEMMA LinkKeepsAll ==
  ASSUME VisionInv, Link \/ Break \/ Restart \/ \E c \in Cmd : Begin(c)
  PROVE  VisionInv'
  <1>1. VisionTypeOK /\ MessagesFit
    BY DEF VisionInv
  <1>2. /\ role \in BOOLEAN /\ troubles \in Nat /\ troubles + 1 \in Nat
        /\ ring \in Seq(Message) /\ wire \in Seq(Message) /\ LinkTypeOK
    BY <1>1 DEF VisionTypeOK, LinkTypeOK
  <1>3. CASE Dial
    <2>1. Way' = Way /\ HubWaits /\ unheard' = unheard /\ forgot' = forgot
      BY <1>3, Zenon DEF Dial, Way, HubWaits, serviceVars, logVars, historyVars
    <2>2. LinkTypeOK'
      BY <1>2, <1>3 DEF Dial, LinkTypeOK, historyVars
    <2>3. view' = view /\ frames' = frames /\ task' = task /\ role' = role /\ troubles' = troubles
      BY <1>3, Zenon DEF Dial, cameraVars
    <2> QED
      BY <1>1, <1>2, <2>1, <2>2, <2>3, NothingMoves, SilentKeepsAll
  <1>4. CASE Quarantined
    <2>1. Way' = Way /\ HubWaits /\ unheard' = unheard /\ forgot' = forgot
      BY <1>4, Zenon DEF Quarantined, Way, HubWaits, serviceVars, logVars, historyVars
    <2>2. LinkTypeOK'
      BY <1>2, <1>4 DEF Quarantined, LinkTypeOK, historyVars
    <2>3. view' = view /\ frames' = frames /\ task' = task /\ role' = role /\ troubles' = troubles
      BY <1>4, Zenon DEF Quarantined, cameraVars
    <2> QED
      BY <1>1, <1>2, <2>1, <2>2, <2>3, NothingMoves, SilentKeepsAll
  <1>5. CASE Adopted
    <2>1. HubWaits /\ unheard' = unheard /\ forgot' = forgot
      BY <1>5, Zenon DEF Adopted, HubWaits, serviceVars, logVars, historyVars
    <2>2. wire' = wire \o ring /\ ring' = <<>> /\ conn' = "served"
      BY <1>5 DEF Adopted
    <2>3. wire' \in Seq(Message)
      BY <1>2, <2>2, ConcatProperties
    <2>4. Way' = Way
      BY <2>2, <2>3, ConcatEmptySeq DEF Way
    <2>5. LinkTypeOK'
      BY <1>2, <2>1, <2>2, <2>3, VisionAssumption DEF LinkTypeOK
    <2>6. view' = view /\ frames' = frames /\ task' = task /\ role' = TRUE /\ troubles' = troubles
      BY <1>5, Zenon DEF Adopted
    <2> QED
      BY <1>1, <1>2, <2>1, <2>4, <2>5, <2>6, NothingMoves, SilentKeepsAll
  <1>6. CASE AdoptedInVain
    <2>1. HubWaits
      BY <1>6, Zenon DEF AdoptedInVain, HubWaits, serviceVars, logVars
    <2>2. view' = view /\ frames' = frames /\ task' = task /\ role' = TRUE /\ troubles' = troubles
      BY <1>6, Zenon DEF AdoptedInVain
    <2> QED
      BY <1>1, <1>2, <1>6, <2>1, <2>2, VainConveys, SilentKeepsAll
  <1>7. CASE Break
    <2>1. HubWaits
      BY <1>7, Zenon DEF Break, HubWaits, serviceVars, logVars
    <2>2. view' = view /\ frames' = frames /\ task' = task /\ role' = role /\ troubles' = troubles + 1
      BY <1>7, Zenon DEF Break, cameraVars
    <2> QED
      BY <1>1, <1>2, <1>7, <2>1, <2>2, BreakConveys, SilentKeepsAll
  <1>8. CASE Restart
    <2>1. HubWaits
      BY <1>8, Zenon DEF Restart, HubWaits, logVars
    <2>2. view' = view /\ frames' = frames /\ task' = task /\ role' = role /\ troubles' = troubles + 1
      BY <1>8, Zenon DEF Restart, cameraVars
    <2> QED
      BY <1>1, <1>2, <1>8, <2>1, <2>2, RestartConveys, SilentKeepsAll
  <1>9. CASE \E c \in Cmd : Begin(c)
    <2>1. PICK c \in Cmd : Begin(c)
      BY <1>9
    <2>2. Way' = Way /\ HubWaits /\ unheard' = unheard /\ forgot' = forgot
      BY <2>1, Zenon DEF Begin, Way, HubWaits, serviceVars, logVars, historyVars, linkVars
    <2>3. LinkTypeOK'
      BY <1>2, <2>1 DEF Begin, LinkTypeOK, historyVars, linkVars
    <2>4. view' = view /\ frames' = frames /\ role' = role /\ troubles' = troubles
          /\ task[c] = "new" /\ task' = [task EXCEPT ![c] = "begun"]
      BY <2>1, Zenon DEF Begin
    <2> QED
      BY <1>1, <1>2, <2>2, <2>3, <2>4, NothingMoves, SilentKeepsAll
  <1> QED
    BY <1>3, <1>4, <1>5, <1>6, <1>7, <1>8, <1>9 DEF Link

\* A frame is grabbed.
LEMMA GrabFacts ==
  ASSUME VisionTypeOK, NEW c \in Cmd \cup {NoCmd}, Grab(c), view' = view
  PROVE  /\ Len(frames) \in Nat /\ Len(frames) + 1 \in 1..MaxFrames
         /\ Len(frames') = Len(frames) + 1 /\ Next_ = Len(frames) + 1
         /\ \A f \in 1..Len(frames) : frames'[f] = frames[f]
         /\ frames'[Len(frames) + 1] = [view |-> view, cmd |-> c]
         /\ frames' \in Seq([view : 0..view', cmd : Cmd \cup {NoCmd}]) /\ Len(frames') <= MaxFrames
  <1> DEFINE F == [view : 0..view, cmd : Cmd \cup {NoCmd}]
             r == [view |-> view, cmd |-> c]
  <1>1. frames \in Seq(F) /\ view \in Nat /\ Len(frames) \in Nat /\ MaxFrames \in Nat
    BY VisionAssumption, LenProperties DEF VisionTypeOK
  <1>2. r \in F
    BY <1>1
  <1>3. frames' = Append(frames, r) /\ Len(frames) + 1 \in 1..MaxFrames /\ Next_ = Len(frames) + 1
    BY DEF Grab, Next_, Frame
  <1> HIDE DEF F, r
  <1>4. /\ frames' \in Seq(F) /\ Len(frames') = Len(frames) + 1
        /\ \A f \in 1..Len(frames) : frames'[f] = frames[f]
        /\ frames'[Len(frames) + 1] = r
    BY <1>1, <1>2, <1>3, AppendProperties
  <1> QED
    BY <1>1, <1>3, <1>4 DEF F, r

\* None is grabbed.
LEMMA NoneTaken ==
  ASSUME Len(frames) \in Nat, frames' = frames,
         \A c \in Cmd : /\ task[c] = "over" => task'[c] = "over"
                        /\ task'[c] \in {"new", "begun"} => task[c] \in {"new", "begun"}
                        /\ task'[c] = "shot" => task[c] = "shot"
  PROVE  Taken
  <1>1. \A f \in 1..Len(frames') : f <= Len(frames)
    OBVIOUS
  <1> QED
    BY <1>1 DEF Taken

\* The cadence loop (campod.py:227-235).
LEMMA StreamKeepsAll ==
  ASSUME VisionInv, Stream
  PROVE  VisionInv'
  <1>1. VisionTypeOK /\ MessagesFit
    BY DEF VisionInv
  <1>2. Grab(NoCmd) /\ Say(<<Told(Next_, NoCmd)>>) /\ view' = view /\ task' = task /\ role' = role /\ troubles' = troubles
    BY Zenon DEF Stream
  <1>3. HubWaits
    BY Zenon DEF Stream, HubWaits, serviceVars, logVars
  <1>4. /\ Len(frames) \in Nat /\ Len(frames) + 1 \in 1..MaxFrames
        /\ Len(frames') = Len(frames) + 1 /\ Next_ = Len(frames) + 1
        /\ \A f \in 1..Len(frames) : frames'[f] = frames[f]
        /\ frames'[Len(frames) + 1] = [view |-> view, cmd |-> NoCmd]
        /\ frames' \in Seq([view : 0..view', cmd : Cmd \cup {NoCmd}]) /\ Len(frames') <= MaxFrames
    BY <1>1, <1>2, GrabFacts, Zenon
  <1>5. PICK n \in Nat : n = Len(frames) + 1
    BY <1>4
  <1> DEFINE m == Told(n, NoCmd)
             msgs == <<m>>
  <1>6. m \in Message /\ m.type = "frame" /\ m.frame = n /\ m.cmd = NoCmd
    BY <1>4, <1>5 DEF Told, Message
  <1>7. Say(msgs)
    BY <1>2, <1>4, <1>5
  <1>8. msgs \in Seq(Message) /\ Len(msgs) = 1 /\ msgs[1] = m
    BY <1>6
  <1> HIDE DEF m, msgs
  <1>9. CameraTypeOK'
    BY <1>1, <1>2, <1>4 DEF VisionTypeOK, CameraTypeOK
  <1>10. Taken
    <2>1. \A f \in 1..Len(frames') : f <= Len(frames) \/ f = Len(frames) + 1
      BY <1>4
    <2> QED
      BY <1>2, <1>4, <2>1 DEF Taken
  <1>11. Spoken(msgs)
    <2>1. \A i \in 1..Len(msgs) : i = 1
      BY <1>8
    <2>2. FitsAfter(m)
      BY <1>4, <1>5, <1>6 DEF FitsAfter
    <2>3. ~IsBase(m)
      BY <1>6 DEF IsBase
    <2> QED
      BY <1>2, <1>5, <1>6, <1>8, <2>1, <2>2, <2>3 DEF Spoken
  <1>12. LinkTypeOK' /\ \E a, d \in Nat : Conveyed(msgs, a, d)
    <2>1. \A i \in 1..Len(msgs) : msgs[i].type # "frame" => msgs[i].cmd \in Cmd
      <3>1. \A i \in 1..Len(msgs) : i = 1
        BY <1>8
      <3> QED
        BY <1>6, <1>8, <3>1
    <2> QED
      BY <1>1, <1>7, <1>8, <2>1, SayConveys
  <1> QED
    BY <1>2, <1>3, <1>9, <1>10, <1>11, <1>12, SpokenKeepsAll

\* A capture takes its frame and says it (campod.py:142-145).
LEMMA ShootKeepsAll ==
  ASSUME VisionInv, NEW c \in Cmd, Shoot(c)
  PROVE  VisionInv'
  <1>1. VisionTypeOK /\ MessagesFit
    BY DEF VisionInv
  <1>2. /\ Grab(c) /\ Say(<<Told(Next_, c)>>) /\ view' = view /\ role' = role /\ troubles' = troubles
        /\ task[c] = "begun" /\ TypeOf[c] = "capture" /\ task' = [task EXCEPT ![c] = "shot"]
    BY Zenon DEF Shoot
  <1>3. HubWaits
    BY Zenon DEF Shoot, HubWaits, serviceVars, logVars
  <1>4. /\ Len(frames) \in Nat /\ Len(frames) + 1 \in 1..MaxFrames
        /\ Len(frames') = Len(frames) + 1 /\ Next_ = Len(frames) + 1
        /\ \A f \in 1..Len(frames) : frames'[f] = frames[f]
        /\ frames'[Len(frames) + 1] = [view |-> view, cmd |-> c]
        /\ frames' \in Seq([view : 0..view', cmd : Cmd \cup {NoCmd}]) /\ Len(frames') <= MaxFrames
    BY <1>1, <1>2, GrabFacts, Zenon
  <1>5. PICK n \in Nat : n = Len(frames) + 1
    BY <1>4
  <1> DEFINE m == Told(n, c)
             msgs == <<m>>
  <1>6. m \in Message /\ m.type = "frame" /\ m.frame = n /\ m.cmd = c
    BY <1>4, <1>5 DEF Told, Message
  <1>7. Say(msgs)
    BY <1>2, <1>4, <1>5
  <1>8. msgs \in Seq(Message) /\ Len(msgs) = 1 /\ msgs[1] = m
    BY <1>6
  <1> HIDE DEF m, msgs
  <1>9. task \in [Cmd -> {"new", "begun", "shot", "over"}] /\ task' \in [Cmd -> {"new", "begun", "shot", "over"}]
        /\ task'[c] = "shot" /\ \A b \in Cmd : b # c => task'[b] = task[b]
    BY <1>1, <1>2 DEF VisionTypeOK
  <1>10. CameraTypeOK'
    BY <1>1, <1>2, <1>4, <1>9 DEF VisionTypeOK, CameraTypeOK
  <1>11. Taken
    <2>1. \A f \in 1..Len(frames') : f <= Len(frames) \/ f = Len(frames) + 1
      BY <1>4
    <2> QED
      BY <1>2, <1>4, <1>9, <2>1 DEF Taken
  <1>12. Spoken(msgs)
    <2>1. \A i \in 1..Len(msgs) : i = 1
      BY <1>8
    <2>2. FitsAfter(m)
      BY <1>4, <1>5, <1>6 DEF FitsAfter
    <2>3. ~IsBase(m)
      BY <1>6 DEF IsBase
    <2> QED
      BY <1>2, <1>5, <1>6, <1>8, <2>1, <2>2, <2>3 DEF Spoken
  <1>13. LinkTypeOK' /\ \E a, d \in Nat : Conveyed(msgs, a, d)
    <2>1. \A i \in 1..Len(msgs) : msgs[i].type # "frame" => msgs[i].cmd \in Cmd
      BY <1>6, <1>8
    <2> QED
      BY <1>1, <1>7, <1>8, <2>1, SayConveys
  <1> QED
    BY <1>2, <1>3, <1>10, <1>11, <1>12, <1>13, SpokenKeepsAll

\* The result of a capture is said (campod.py:146-150).
LEMMA CapturedKeepsAll ==
  ASSUME VisionInv, NEW c \in Cmd, Captured(c)
  PROVE  VisionInv'
  <1>1. VisionTypeOK /\ MessagesFit /\ OwnFrame
    BY DEF VisionInv
  <1>2. /\ Say(<<Result(c, FrameOf(c))>>) /\ view' = view /\ frames' = frames /\ role' = role /\ troubles' = troubles
        /\ task[c] = "shot" /\ task' = [task EXCEPT ![c] = "over"]
    BY Zenon DEF Captured
  <1>3. HubWaits
    BY Zenon DEF Captured, HubWaits, serviceVars, logVars
  <1>4. /\ Len(frames) \in Nat /\ DOMAIN frames = 1..Len(frames) /\ Len(frames) <= MaxFrames /\ MaxFrames \in Nat
    BY <1>1, LenProperties, VisionAssumption DEF VisionTypeOK
  <1>5. TypeOf[c] = "capture" /\ \E f \in DOMAIN frames : frames[f].cmd = c
    BY <1>1, <1>2, <1>4 DEF OwnFrame
  <1>6. FrameOf(c) \in DOMAIN frames /\ frames[FrameOf(c)].cmd = c
    BY <1>5, Zenon DEF FrameOf
  <1>7. PICK n \in Nat : n = FrameOf(c)
    BY <1>4, <1>6
  <1> DEFINE m == Result(c, n)
             msgs == <<m>>
  <1>8. m \in Message /\ m.type = "result" /\ m.frame = n /\ m.cmd = c /\ n \in 1..Len(frames)
    BY <1>4, <1>6, <1>7 DEF Result, Message
  <1>9. Say(msgs)
    BY <1>2, <1>7
  <1>10. msgs \in Seq(Message) /\ Len(msgs) = 1 /\ msgs[1] = m
    BY <1>8
  <1> HIDE DEF m, msgs
  <1>11. task \in [Cmd -> {"new", "begun", "shot", "over"}] /\ task' \in [Cmd -> {"new", "begun", "shot", "over"}]
         /\ task'[c] = "over" /\ \A b \in Cmd : b # c => task'[b] = task[b]
    BY <1>1, <1>2 DEF VisionTypeOK
  <1>12. CameraTypeOK'
    BY <1>1, <1>2, <1>11 DEF VisionTypeOK, CameraTypeOK
  <1>13. Taken
    <2>1. \A b \in Cmd : /\ task[b] = "over" => task'[b] = "over"
                         /\ task'[b] \in {"new", "begun"} => task[b] \in {"new", "begun"}
                         /\ task'[b] = "shot" => task[b] = "shot"
      BY <1>2, <1>11
    <2> QED
      BY <1>2, <1>4, <2>1, NoneTaken
  <1>14. Spoken(msgs)
    <2>1. \A i \in 1..Len(msgs) : i = 1
      BY <1>10
    <2>2. FitsAfter(m)
      BY <1>2, <1>4, <1>6, <1>7, <1>8, <1>11 DEF FitsAfter
    <2>3. ~IsBase(m)
      BY <1>5, <1>8 DEF IsBase
    <2> QED
      BY <1>2, <1>8, <1>10, <2>1, <2>2, <2>3 DEF Spoken
  <1>15. LinkTypeOK' /\ \E a, d \in Nat : Conveyed(msgs, a, d)
    BY <1>1, <1>8, <1>9, <1>10, SayConveys
  <1> QED
    BY <1>2, <1>3, <1>12, <1>13, <1>14, <1>15, SpokenKeepsAll

\* A new baseline is taken and said (campod.py:151-156).
LEMMA RebaselineKeepsAll ==
  ASSUME VisionInv, NEW c \in Cmd, Rebaseline(c)
  PROVE  VisionInv'
  <1>1. VisionTypeOK /\ MessagesFit
    BY DEF VisionInv
  <1>2. /\ Grab(c) /\ Say(<<Told(Next_, c), Result(c, Next_)>>) /\ view' = view /\ role' = role /\ troubles' = troubles
        /\ task[c] = "begun" /\ TypeOf[c] = "re_baseline" /\ task' = [task EXCEPT ![c] = "over"]
    BY Zenon DEF Rebaseline
  <1>3. HubWaits
    BY Zenon DEF Rebaseline, HubWaits, serviceVars, logVars
  <1>4. /\ Len(frames) \in Nat /\ Len(frames) + 1 \in 1..MaxFrames
        /\ Len(frames') = Len(frames) + 1 /\ Next_ = Len(frames) + 1
        /\ \A f \in 1..Len(frames) : frames'[f] = frames[f]
        /\ frames'[Len(frames) + 1] = [view |-> view, cmd |-> c]
        /\ frames' \in Seq([view : 0..view', cmd : Cmd \cup {NoCmd}]) /\ Len(frames') <= MaxFrames
    BY <1>1, <1>2, GrabFacts, Zenon
  <1>5. PICK n \in Nat : n = Len(frames) + 1
    BY <1>4
  <1> DEFINE m == Told(n, c)
             r == Result(c, n)
             msgs == <<m, r>>
  <1>6. /\ m \in Message /\ m.type = "frame" /\ m.frame = n /\ m.cmd = c
        /\ r \in Message /\ r.type = "result" /\ r.frame = n /\ r.cmd = c
    BY <1>4, <1>5 DEF Told, Result, Message
  <1>7. Say(msgs)
    BY <1>2, <1>4, <1>5
  <1>8. msgs \in Seq(Message) /\ Len(msgs) = 2 /\ msgs[1] = m /\ msgs[2] = r
    BY <1>6
  <1> HIDE DEF m, r, msgs
  <1>9. task \in [Cmd -> {"new", "begun", "shot", "over"}] /\ task' \in [Cmd -> {"new", "begun", "shot", "over"}]
        /\ task'[c] = "over" /\ \A b \in Cmd : b # c => task'[b] = task[b]
    BY <1>1, <1>2 DEF VisionTypeOK
  <1>10. CameraTypeOK'
    BY <1>1, <1>2, <1>4, <1>9 DEF VisionTypeOK, CameraTypeOK
  <1>11. Taken
    <2>1. \A f \in 1..Len(frames') : f <= Len(frames) \/ f = Len(frames) + 1
      BY <1>4
    <2> QED
      BY <1>2, <1>4, <1>9, <2>1 DEF Taken
  <1>12. Spoken(msgs)
    <2>1. \A i \in 1..Len(msgs) : i = 1 \/ i = 2
      BY <1>8
    <2>2. FitsAfter(m) /\ FitsAfter(r)
      BY <1>2, <1>4, <1>5, <1>6, <1>9 DEF FitsAfter
    <2>3. ~IsBase(m) /\ frames'[r.frame].view = view
      BY <1>4, <1>5, <1>6 DEF IsBase
    <2> QED
      BY <1>2, <1>5, <1>6, <1>8, <2>1, <2>2, <2>3 DEF Spoken
  <1>13. LinkTypeOK' /\ \E a, d \in Nat : Conveyed(msgs, a, d)
    <2>1. \A i \in 1..Len(msgs) : msgs[i].type # "frame" => msgs[i].cmd \in Cmd
      BY <1>6, <1>8
    <2> QED
      BY <1>1, <1>7, <1>8, <2>1, SayConveys
  <1> QED
    BY <1>2, <1>3, <1>10, <1>11, <1>12, <1>13, SpokenKeepsAll

\* A command that fails, or that moves or configures the camera (campod.py:158-191).
LEMMA EndKeepsAll ==
  ASSUME VisionInv, NEW c \in Cmd, GrabFails(c) \/ Configure(c)
  PROVE  VisionInv'
  <1>1. VisionTypeOK /\ MessagesFit
    BY DEF VisionInv
  <1>2. PICK m \in Message :
          /\ Say(<<m>>) /\ frames' = frames /\ role' = role /\ troubles' = troubles
          /\ task[c] = "begun" /\ task' = [task EXCEPT ![c] = "over"]
          /\ m.type # "frame" /\ m.cmd = c /\ m.frame = 0 /\ ~IsBase(m)
          /\ m.type = "result" => TypeOf[c] \in {"set_region", "ptz"}
          /\ view' = view \/ (view' = view + 1 /\ IsMove(m))
    <2>1. CASE GrabFails(c)
      <3> DEFINE m == Failure(c)
      <3>1. m \in Message /\ m.type = "failed" /\ m.cmd = c /\ m.frame = 0
        BY VisionAssumption DEF Failure, Message
      <3>2. /\ Say(<<m>>) /\ frames' = frames /\ role' = role /\ troubles' = troubles
            /\ task[c] = "begun" /\ task' = [task EXCEPT ![c] = "over"] /\ view' = view
        BY <2>1, Zenon DEF GrabFails, Failed
      <3> HIDE DEF m
      <3> QED
        BY <3>1, <3>2 DEF IsBase
    <2>2. CASE Configure(c)
      <3> DEFINE m == Result(c, 0)
      <3>1. m \in Message /\ m.type = "result" /\ m.cmd = c /\ m.frame = 0
        BY VisionAssumption DEF Result, Message
      <3>2. /\ Say(<<m>>) /\ frames' = frames /\ role' = role /\ troubles' = troubles
            /\ task[c] = "begun" /\ task' = [task EXCEPT ![c] = "over"]
            /\ view' = (IF TypeOf[c] = "ptz" THEN view + 1 ELSE view) /\ TypeOf[c] \in {"set_region", "ptz"}
        BY <2>2, Zenon DEF Configure
      <3> HIDE DEF m
      <3> QED
        BY <3>1, <3>2 DEF IsBase, IsMove
    <2> QED
      BY <2>1, <2>2
  <1>3. HubWaits
    BY Zenon DEF GrabFails, Configure, HubWaits, serviceVars, logVars
  <1>4. Len(frames) \in Nat /\ view \in Nat
    BY <1>1, LenProperties DEF VisionTypeOK
  <1> DEFINE msgs == <<m>>
  <1>5. msgs \in Seq(Message) /\ Len(msgs) = 1 /\ msgs[1] = m
    OBVIOUS
  <1>6. Say(msgs)
    BY <1>2
  <1> HIDE DEF msgs
  <1>7. task \in [Cmd -> {"new", "begun", "shot", "over"}] /\ task' \in [Cmd -> {"new", "begun", "shot", "over"}]
        /\ task'[c] = "over" /\ \A b \in Cmd : b # c => task'[b] = task[b]
    BY <1>1, <1>2 DEF VisionTypeOK
  <1>8. CameraTypeOK'
    <2>1. view' \in Nat /\ 0..view \subseteq 0..view'
      BY <1>2, <1>4
    <2>2. frames \in Seq([view : 0..view', cmd : Cmd \cup {NoCmd}])
      <3>1. frames \in Seq([view : 0..view, cmd : Cmd \cup {NoCmd}])
        BY <1>1 DEF VisionTypeOK
      <3>2. [view : 0..view, cmd : Cmd \cup {NoCmd}] \subseteq [view : 0..view', cmd : Cmd \cup {NoCmd}]
        BY <2>1
      <3> QED
        BY <3>1, <3>2, SeqMonotonic
    <2> QED
      BY <1>1, <1>2, <1>7, <2>1, <2>2 DEF VisionTypeOK, CameraTypeOK
  <1>9. Taken
    BY <1>2, <1>4, <1>7 DEF Taken
  <1>10. Spoken(msgs)
    <2>1. \A i \in 1..Len(msgs) : i = 1
      BY <1>5
    <2>2. FitsAfter(m)
      BY <1>2, <1>4, <1>7 DEF FitsAfter
    <2>3. view' # view => view' = view + 1 /\ msgs # <<>> /\ IsMove(msgs[Len(msgs)])
      BY <1>2, <1>5
    <2>4. \A i \in 1..Len(msgs) :
            /\ FitsAfter(msgs[i])
            /\ msgs[i].type # "frame" => task[msgs[i].cmd] # "over"
            /\ msgs[i].type = "frame" => msgs[i].frame = Len(frames) + 1
            /\ IsBase(msgs[i]) => i = Len(msgs) /\ frames'[msgs[i].frame].view = view /\ view' = view
      BY <1>2, <1>5, <2>1, <2>2
    <2>5. \A i, j \in 1..Len(msgs) : (msgs[i].type = "frame") = (msgs[j].type = "frame") => i = j
      BY <2>1
    <2> QED
      BY <1>5, <2>3, <2>4, <2>5, Zenon DEF Spoken
  <1>11. LinkTypeOK' /\ \E a, d \in Nat : Conveyed(msgs, a, d)
    BY <1>1, <1>2, <1>5, <1>6, SayConveys
  <1>12. view' \in {view, view + 1}
    BY <1>2
  <1> QED
    BY <1>3, <1>8, <1>9, <1>10, <1>11, <1>12, SpokenKeepsAll

(***************************************************************************)
(* Steps of the hub.                                                       *)
(***************************************************************************)
\* The session reads the next message.
LEMMA HeardFacts ==
  ASSUME VisionTypeOK, wire # <<>>, wire' = Tail(wire), ring' = ring
  PROVE  /\ Len(Way) \in Nat /\ 1 \in 1..Len(Way) /\ Way[1] = Heard /\ Heard \in Message
         /\ Len(Way') \in Nat /\ Len(Way') = Len(Way) - 1
         /\ \A i \in 1..Len(Way') : i + 1 \in 1..Len(Way) /\ Way'[i] = Way[i + 1]
         /\ wire' \in Seq(Message)
  <1>1. /\ Len(wire) \in Nat /\ Len(ring) \in Nat /\ Len(Way) = Len(wire) + Len(ring)
        /\ ring \in Seq(Message) /\ wire \in Seq(Message)
        /\ \A i \in 1..Len(Way) : Way[i] = IF i <= Len(wire) THEN wire[i] ELSE ring[i - Len(wire)]
    BY WayFacts DEF VisionTypeOK
  <1>2. /\ Len(wire) # 0 /\ Heard \in Message /\ Heard = wire[1]
        /\ wire' \in Seq(Message) /\ Len(wire') = Len(wire) - 1
        /\ \A i \in 1..Len(wire') : wire'[i] = wire[i + 1]
    <2>1. Len(wire) # 0
      BY <1>1, EmptySeq
    <2> QED
      BY <1>1, <2>1, HeadTailProperties DEF Heard
  <1>3. /\ Len(Way') = Len(wire') + Len(ring)
        /\ \A i \in 1..Len(Way') : Way'[i] = IF i <= Len(wire') THEN wire'[i] ELSE ring[i - Len(wire')]
    BY <1>1, <1>2, WayFactsAfter
  <1>4. /\ 1 \in 1..Len(Way) /\ Way[1] = Heard
        /\ Len(Way') \in Nat /\ Len(Way) \in Nat /\ Len(Way') = Len(Way) - 1
    BY <1>1, <1>2, <1>3
  <1>5. \A i \in 1..Len(Way') : i + 1 \in 1..Len(Way) /\ Way'[i] = Way[i + 1]
    <2> TAKE i \in 1..Len(Way')
    <2>1. i + 1 \in 1..Len(Way)
      BY <1>4
    <2>2. CASE i <= Len(wire')
      BY <1>1, <1>2, <1>3, <2>1, <2>2
    <2>3. CASE ~(i <= Len(wire'))
      <3>1. ~(i + 1 <= Len(wire)) /\ (i + 1) - Len(wire) = i - Len(wire')
        BY <1>1, <1>2, <1>4, <2>3
      <3> QED
        BY <1>1, <1>3, <2>1, <2>3, <3>1
    <2> QED
      BY <2>2, <2>3
  <1> QED
    BY <1>2, <1>4, <1>5

\* What the hub does with it: the baseline stays, or is in force no more, or is a
\* new one; a frame goes to the subscription, an answer is on record.
Listened ==
  /\ view' = view /\ frames' = frames /\ task' = task
  /\ svc' = svc /\ unheard' = unheard /\ forgot' = forgot
  /\ \/ Heard.type = "frame" /\ heard' = heard /\ queue' \in {queue, Append(queue, Heard.frame)}
     \/ Heard.type # "frame" /\ heard' = heard \cup {Heard.cmd} /\ queue' = queue
  /\ \/ mv'.base = mv.base /\ mv'.required = mv.required /\ ~IsMove(Heard)
     \/ mv'.required = TRUE
     \/ IsBase(Heard) /\ mv'.base = Heard.frame

\* The queue of the foam service after the session has read one message.
LEMMA QueueFacts ==
  ASSUME VisionTypeOK, MessagesFit, wire # <<>>, wire' = Tail(wire), ring' = ring, Listened
  PROVE  /\ queue' \in Seq(1..Len(frames)) /\ Len(queue) \in Nat /\ Len(queue') \in Nat
         /\ \/ Len(queue') = Len(queue)
            \/ Len(queue') = Len(queue) + 1 /\ Heard.type = "frame" /\ queue'[Len(queue) + 1] = Heard.frame
         /\ \A k \in 1..Len(queue) : queue'[k] = queue[k]
  <1>1. 1 \in 1..Len(Way) /\ Way[1] = Heard /\ Heard \in Message
    BY HeardFacts
  <1>2. queue \in Seq(1..Len(frames)) /\ Len(queue) \in Nat /\ Len(frames) \in Nat
    BY LenProperties DEF VisionTypeOK
  <1>3. CASE queue' = queue
    BY <1>2, <1>3
  <1>4. CASE Heard.type = "frame" /\ queue' = Append(queue, Heard.frame)
    <2>1. Heard.frame \in 1..Len(frames)
      <3>1. Fits(Heard)
        BY <1>1 DEF MessagesFit
      <3>2. Heard.frame \in Nat
        BY <1>1, VisionAssumption DEF Message
      <3> QED
        BY <1>2, <1>4, <3>1, <3>2 DEF Fits
    <2>2. /\ queue' \in Seq(1..Len(frames)) /\ Len(queue') = Len(queue) + 1
          /\ \A k \in 1..Len(queue) : queue'[k] = queue[k]
          /\ queue'[Len(queue) + 1] = Heard.frame
      BY <1>2, <1>4, <2>1, AppendProperties
    <2> QED
      BY <1>2, <1>4, <2>2
  <1> QED
    BY <1>3, <1>4 DEF Listened

\* Reading a message keeps what is said of those that are left.
LEMMA ListenKeepsMessages ==
  ASSUME VisionTypeOK, MessagesFit, OwnFrame, OneAnswer, FramesInOrder, ViewsGrow,
         wire # <<>>, wire' = Tail(wire), ring' = ring, Listened
  PROVE  MessagesFit' /\ OwnFrame' /\ OneAnswer' /\ FramesInOrder' /\ ViewsGrow'
  <1>1. /\ Len(Way) \in Nat /\ 1 \in 1..Len(Way) /\ Way[1] = Heard /\ Heard \in Message
        /\ Len(Way') \in Nat /\ Len(Way') = Len(Way) - 1
        /\ \A i \in 1..Len(Way') : i + 1 \in 1..Len(Way) /\ Way'[i] = Way[i + 1]
    BY HeardFacts
  <1>2. view' = view /\ frames' = frames /\ task' = task /\ svc' = svc /\ unheard' = unheard
    BY DEF Listened
  <1>3. Fits(Heard)
    BY <1>1 DEF MessagesFit
  <1>4. MessagesFit'
    <2>1. \A i \in 1..Len(Way') : Fits(Way[i + 1])
      BY <1>1 DEF MessagesFit
    <2>2. \A i \in 1..Len(Way') : Fits(Way'[i])
      BY <1>1, <2>1
    <2> QED
      BY <1>2, <2>2 DEF MessagesFit, Fits
  <1>5. OwnFrame' /\ ViewsGrow'
    BY <1>2 DEF OwnFrame, ViewsGrow
  <1>6. OneAnswer'
    <2>1. \A i, j \in 1..Len(Way') :
            Way'[i].type # "frame" /\ Way'[j].type # "frame" /\ Way'[i].cmd = Way'[j].cmd => i = j
      <3> TAKE i, j \in 1..Len(Way')
      <3> HAVE Way'[i].type # "frame" /\ Way'[j].type # "frame" /\ Way'[i].cmd = Way'[j].cmd
      <3>1. i + 1 = j + 1
        BY <1>1 DEF OneAnswer
      <3> QED
        BY <1>1, <3>1
    <2>2. heard' = heard \/ (Heard.type # "frame" /\ heard' = heard \cup {Heard.cmd})
      BY DEF Listened
    <2>3. \A i \in 1..Len(Way') : Way'[i].type # "frame" =>
            /\ Way'[i].cmd \notin heard \cup unheard
            /\ Heard.type # "frame" => Way'[i].cmd # Heard.cmd
      <3> TAKE i \in 1..Len(Way')
      <3> HAVE Way'[i].type # "frame"
      <3>1. Way[i + 1].cmd \notin heard \cup unheard
        BY <1>1 DEF OneAnswer
      <3>2. i + 1 # 1
        BY <1>1
      <3>3. Heard.type # "frame" => Way[i + 1].cmd # Way[1].cmd
        BY <1>1, <3>2 DEF OneAnswer
      <3> QED
        BY <1>1, <3>1, <3>3
    <2>4. Heard.type # "frame" => Heard.cmd \notin heard \cup unheard /\ task[Heard.cmd] = "over"
      BY <1>1, <1>3 DEF OneAnswer, Fits
    <2>5. (\A c \in heard \cup unheard : task[c] = "over") /\ heard \cap unheard = {}
      BY DEF OneAnswer
    <2>6. \A i \in 1..Len(Way') : Way'[i].type # "frame" => Way'[i].cmd \notin heard' \cup unheard'
      BY <1>2, <2>2, <2>3
    <2>7. (\A c \in heard' \cup unheard' : task'[c] = "over") /\ heard' \cap unheard' = {}
      BY <1>2, <2>2, <2>4, <2>5
    <2> QED
      BY <2>1, <2>6, <2>7 DEF OneAnswer
  <1>7. FramesInOrder'
    <2>1. /\ queue' \in Seq(1..Len(frames)) /\ Len(queue) \in Nat /\ Len(queue') \in Nat
          /\ \/ Len(queue') = Len(queue)
             \/ Len(queue') = Len(queue) + 1 /\ Heard.type = "frame" /\ queue'[Len(queue) + 1] = Heard.frame
          /\ \A k \in 1..Len(queue) : queue'[k] = queue[k]
      BY QueueFacts
    <2>2. \A k \in 1..Len(queue') : k \in 1..Len(queue) \/
            (k = Len(queue) + 1 /\ Heard.type = "frame" /\ queue'[k] = Heard.frame)
      BY <2>1
    <2>3. Heard.type = "frame" => svc.frame < Heard.frame /\ \A k \in 1..Len(queue) : queue[k] < Heard.frame
      BY <1>1 DEF FramesInOrder
    <2>4. \A i \in 1..Len(Way') : Way'[i].type = "frame" =>
            /\ svc.frame < Way'[i].frame /\ \A k \in 1..Len(queue) : queue[k] < Way'[i].frame
            /\ Heard.type = "frame" => Heard.frame < Way'[i].frame
      <3> TAKE i \in 1..Len(Way')
      <3> HAVE Way'[i].type = "frame"
      <3>1. Way'[i] = Way[i + 1] /\ i + 1 \in 1..Len(Way) /\ 1 < i + 1
        BY <1>1
      <3> QED
        BY <1>1, <3>1 DEF FramesInOrder
    <2>5. \A i, j \in 1..Len(Way') :
            i < j /\ Way'[i].type = "frame" /\ Way'[j].type = "frame" => Way'[i].frame < Way'[j].frame
      <3> TAKE i, j \in 1..Len(Way')
      <3> HAVE i < j /\ Way'[i].type = "frame" /\ Way'[j].type = "frame"
      <3>1. i + 1 < j + 1
        BY <1>1
      <3> QED
        BY <1>1, <3>1 DEF FramesInOrder
    <2>6. \A k, n \in 1..Len(queue') : k < n => queue'[k] < queue'[n]
      <3> TAKE k, n \in 1..Len(queue')
      <3> HAVE k < n
      <3>1. CASE n \in 1..Len(queue)
        BY <2>1, <3>1 DEF FramesInOrder
      <3>2. CASE n = Len(queue) + 1 /\ Heard.type = "frame" /\ queue'[n] = Heard.frame
        <4>1. k \in 1..Len(queue)
          BY <2>1, <3>2
        <4>2. queue'[k] = queue[k]
          BY <2>1, <4>1
        <4>3. queue[k] < Heard.frame
          BY <2>3, <3>2, <4>1
        <4> QED
          BY <3>2, <4>2, <4>3
      <3> QED
        BY <2>2, <3>1, <3>2
    <2>7. \A k \in 1..Len(queue') : svc.frame < queue'[k]
      <3>1. \A k \in 1..Len(queue) : svc.frame < queue[k]
        BY DEF FramesInOrder
      <3> QED
        BY <2>1, <2>2, <2>3, <3>1
    <2>8. \A i \in 1..Len(Way') : Way'[i].type = "frame" => \A k \in 1..Len(queue') : queue'[k] < Way'[i].frame
      BY <2>1, <2>2, <2>4
    <2>9. svc.frame # 0 => frames[svc.frame].cmd = NoCmd
      BY DEF FramesInOrder
    <2> QED
      BY <1>2, <2>4, <2>5, <2>6, <2>7, <2>8, <2>9 DEF FramesInOrder
  <1> QED
    BY <1>4, <1>5, <1>6, <1>7

\* Reading a message keeps the moves told: a move that is heard requires a new baseline.
LEMMA ListenTellsMoves ==
  ASSUME VisionTypeOK, VisionTypeOK', MessagesFit, MovesAreTold,
         wire # <<>>, wire' = Tail(wire), ring' = ring, Listened
  PROVE  MovesAreTold'
  <1> SUFFICES ASSUME ~forgot'
               PROVE  \A i \in 0..Len(Way') : BaseAt(i)' =>
                        /\ \A j \in (i + 1)..(Len(Way') + 1) :
                             SeenView(j)' <= BaseView(i)' \/ \E k \in (i + 1)..(j - 1) : IsMove(Way'[k])
                        /\ \A j \in 1..(i - 1) : SeenView(j)' <= BaseView(i)'
                        /\ \A k \in 1..Len(queue') : ViewOf(queue[k])' <= BaseView(i)'
                        /\ ViewOf(svc.frame)' <= BaseView(i)'
    BY DEF MovesAreTold
  <1>1. /\ Len(Way) \in Nat /\ 1 \in 1..Len(Way) /\ Way[1] = Heard /\ Heard \in Message
        /\ Len(Way') \in Nat /\ Len(Way') = Len(Way) - 1
        /\ \A i \in 1..Len(Way') : i + 1 \in 1..Len(Way) /\ Way'[i] = Way[i + 1]
    BY HeardFacts
  <1>2. ~forgot /\ view' = view /\ frames' = frames /\ svc' = svc
    BY Zenon DEF Listened
  <1>3. \A i \in 0..Len(Way) : BaseAt(i) =>
          /\ \A j \in (i + 1)..(Len(Way) + 1) :
               SeenView(j) <= BaseView(i) \/ \E k \in (i + 1)..(j - 1) : IsMove(Way[k])
          /\ \A j \in 1..(i - 1) : SeenView(j) <= BaseView(i)
          /\ \A k \in 1..Len(queue) : ViewOf(queue[k]) <= BaseView(i)
          /\ ViewOf(svc.frame) <= BaseView(i)
    BY <1>2, Zenon DEF MovesAreTold
  <1>4. \A f : ViewOf(f)' = ViewOf(f)
    BY <1>2 DEF ViewOf
  <1>5. \A j \in 1..(Len(Way') + 1) : SeenView(j)' = SeenView(j + 1) /\ j + 1 \in 2..(Len(Way) + 1)
    <2> TAKE j \in 1..(Len(Way') + 1)
    <2>1. CASE j = Len(Way') + 1
      <3>1. j > Len(Way') /\ j + 1 > Len(Way) /\ j + 1 \in 2..(Len(Way) + 1)
        BY <1>1, <2>1
      <3> QED
        BY <1>2, <3>1 DEF SeenView
    <2>2. CASE j # Len(Way') + 1
      <3>1. j \in 1..Len(Way') /\ ~(j > Len(Way')) /\ ~(j + 1 > Len(Way)) /\ j + 1 \in 2..(Len(Way) + 1)
        BY <1>1, <2>2
      <3>2. Way'[j] = Way[j + 1]
        BY <1>1, <3>1
      <3>3. SeenView(j)' = (IF Way'[j].frame = 0 THEN 0 ELSE frames'[Way'[j].frame].view)
        BY <3>1 DEF SeenView, ViewOf
      <3>4. SeenView(j + 1) = (IF Way[j + 1].frame = 0 THEN 0 ELSE frames[Way[j + 1].frame].view)
        BY <3>1 DEF SeenView, ViewOf
      <3> QED
        BY <1>2, <3>1, <3>2, <3>3, <3>4
    <2> QED
      BY <2>1, <2>2
  \* The baseline at a place was one place further, or in force before.
  <1>6. \A i \in 1..Len(Way') : BaseAt(i)' = BaseAt(i + 1) /\ BaseView(i)' = BaseView(i + 1) /\ i + 1 \in 2..Len(Way)
    <2> TAKE i \in 1..Len(Way')
    <2>1. i # 0 /\ i + 1 # 0 /\ Way'[i] = Way[i + 1] /\ i + 1 \in 2..Len(Way)
      BY <1>1
    <2>2. BaseAt(i)' = BaseAt(i + 1)
      BY <2>1 DEF BaseAt, IsBase
    <2>3. BaseView(i)' = BaseView(i + 1)
      BY <1>2, <2>1 DEF BaseView, ViewOf
    <2> QED
      BY <2>1, <2>2, <2>3
  <1>7. BaseAt(0)' =>
          \/ BaseAt(0) /\ BaseView(0)' = BaseView(0) /\ ~IsMove(Way[1])
          \/ BaseAt(1) /\ BaseView(0)' = BaseView(1)
    <2> HAVE BaseAt(0)'
    <2>1. ~mv'.required
      BY DEF BaseAt
    <2>2. CASE mv'.base = mv.base /\ mv'.required = mv.required /\ ~IsMove(Heard)
      <3>1. BaseView(0)' = BaseView(0)
        BY <1>2, <2>2 DEF BaseView, ViewOf
      <3> QED
        BY <1>1, <2>1, <2>2, <3>1 DEF BaseAt
    <2>3. CASE IsBase(Heard) /\ mv'.base = Heard.frame
      <3>1. BaseView(0)' = BaseView(1)
        BY <1>1, <1>2, <2>3 DEF BaseView, ViewOf
      <3> QED
        BY <1>1, <2>3, <3>1 DEF BaseAt
    <2> QED
      BY <2>1, <2>2, <2>3 DEF Listened
  <1>8. /\ Len(queue) \in Nat
        /\ \A k \in 1..Len(queue') :
             \/ k \in 1..Len(queue) /\ queue'[k] = queue[k]
             \/ Heard.type = "frame" /\ queue'[k] = Heard.frame
    <2>1. /\ Len(queue) \in Nat /\ Len(queue') \in Nat
          /\ \/ Len(queue') = Len(queue)
             \/ Len(queue') = Len(queue) + 1 /\ Heard.type = "frame" /\ queue'[Len(queue) + 1] = Heard.frame
          /\ \A k \in 1..Len(queue) : queue'[k] = queue[k]
      BY QueueFacts
    <2>2. \A k \in 1..Len(queue') : k \in 1..Len(queue) \/ k = Len(queue) + 1
      BY <2>1
    <2> QED
      BY <2>1, <2>2
  <1>9. SeenView(1) = ViewOf(Heard.frame)
    BY <1>1 DEF SeenView
  <1>10. \A k \in 1..Len(queue') : \/ k \in 1..Len(queue) /\ ViewOf(queue[k])' = ViewOf(queue[k])
                                   \/ Heard.type = "frame" /\ ViewOf(queue[k])' = SeenView(1)
    <2> TAKE k \in 1..Len(queue')
    <2>1. CASE k \in 1..Len(queue) /\ queue'[k] = queue[k]
      BY <1>2, <2>1 DEF ViewOf
    <2>2. CASE Heard.type = "frame" /\ queue'[k] = Heard.frame
      BY <1>2, <1>9, <2>2 DEF ViewOf
    <2> QED
      BY <1>8, <2>1, <2>2
  <1>11. ViewOf(svc.frame)' = ViewOf(svc.frame)
    BY <1>2 DEF ViewOf
  \* A baseline of before: what is later is later still.
  <1>12. ASSUME NEW i \in 0..Len(Way'), NEW p \in {i, i + 1}, BaseAt(p), p = i => i = 0 /\ ~IsMove(Way[1])
         PROVE  /\ \A j \in (i + 1)..(Len(Way') + 1) :
                     SeenView(j)' <= BaseView(p) \/ \E k \in (i + 1)..(j - 1) : IsMove(Way'[k])
                /\ \A j \in 1..(i - 1) : SeenView(j)' <= BaseView(p)
                /\ \A k \in 1..Len(queue') : ViewOf(queue[k])' <= BaseView(p)
                /\ ViewOf(svc.frame)' <= BaseView(p)
    <2>1. p \in 0..Len(Way) /\ i \in Nat
      BY <1>1, <1>12
    <2>2. ASSUME NEW j \in (i + 1)..(Len(Way') + 1)
          PROVE  SeenView(j)' <= BaseView(p) \/ \E k \in (i + 1)..(j - 1) : IsMove(Way'[k])
      <3>1. j + 1 \in (p + 1)..(Len(Way) + 1) /\ j \in 1..(Len(Way') + 1)
        BY <1>1, <1>12, <2>1, <2>2
      <3>2. SeenView(j)' = SeenView(j + 1)
        BY <1>5, <3>1
      <3>3. CASE \E k \in (p + 1)..((j + 1) - 1) : IsMove(Way[k])
        <4>1. PICK k \in (p + 1)..((j + 1) - 1) : IsMove(Way[k])
          BY <3>3
        <4>2. k # 1
          BY <1>1, <1>12, <2>1, <4>1, <3>1
        <4>3. k - 1 \in (i + 1)..(j - 1) /\ k - 1 \in 1..Len(Way') /\ (k - 1) + 1 = k
          BY <1>1, <1>12, <2>1, <3>1, <4>1, <4>2
        <4>4. IsMove(Way'[k - 1])
          BY <1>1, <4>1, <4>3
        <4> QED
          BY <4>3, <4>4
      <3> QED
        BY <1>3, <1>12, <2>1, <3>1, <3>2, <3>3
    <2>3. ASSUME NEW j \in 1..(i - 1)
          PROVE  SeenView(j)' <= BaseView(p)
      <3>1. j + 1 \in 1..(p - 1) /\ j \in 1..(Len(Way') + 1)
        BY <1>1, <1>12, <2>1, <2>3
      <3> QED
        BY <1>3, <1>5, <1>12, <2>1, <3>1
    <2>4. SeenView(1) <= BaseView(p) \/ p = 1
      <3>1. CASE p = 0
        <4>1. 1 \in (p + 1)..(Len(Way) + 1) /\ (p + 1)..(1 - 1) = {}
          BY <1>1, <3>1
        <4> QED
          BY <1>3, <1>12, <2>1, <4>1
      <3>2. CASE p > 1
        <4>1. 1 \in 1..(p - 1)
          BY <2>1, <3>2
        <4> QED
          BY <1>3, <1>12, <2>1, <4>1
      <3> QED
        BY <2>1, <3>1, <3>2
    <2>5. Heard.type = "frame" => SeenView(1) <= BaseView(p)
      <3>1. p = 1 => IsBase(Heard)
        BY <1>1, <1>12 DEF BaseAt
      <3> QED
        BY <2>4, <3>1 DEF IsBase
    <2>6. \A k \in 1..Len(queue') : ViewOf(queue[k])' <= BaseView(p)
      BY <1>3, <1>10, <1>12, <2>1, <2>5
    <2>7. ViewOf(svc.frame)' <= BaseView(p)
      BY <1>3, <1>11, <1>12, <2>1
    <2> QED
      BY <2>2, <2>3, <2>6, <2>7
  <1> SUFFICES ASSUME NEW i \in 0..Len(Way'), BaseAt(i)'
               PROVE  \E p \in {i, i + 1} :
                        BaseAt(p) /\ BaseView(i)' = BaseView(p) /\ (p = i => i = 0 /\ ~IsMove(Way[1]))
    BY <1>12, Zenon
  <1>13. CASE i = 0
    BY <1>7, <1>13
  <1>14. CASE i # 0
    <2>1. i \in 1..Len(Way') /\ i + 1 # i
      BY <1>1, <1>14
    <2> QED
      BY <1>6, <2>1
  <1> QED
    BY <1>13, <1>14

\* What is left to measure was to be measured before.
LEMMA HubLeavesLess ==
  ASSUME VisionTypeOK,
         \A i \in 1..Len(Way') : \E n \in 1..Len(Way) : Way'[i] = Way[n],
         \A k \in 1..Len(queue') : queue'[k] \in ToMeasure \cup {0},
         svc'.frame \in ToMeasure \cup {0}
  PROVE  ToMeasure' \subseteq ToMeasure
  <1> SUFFICES ASSUME NEW f \in ToMeasure'
               PROVE  f \in ToMeasure
    OBVIOUS
  <1>1. f # 0
    BY ToMeasureAfter
  <1>2. CASE f = svc'.frame \/ \E k \in 1..Len(queue') : f = queue'[k]
    BY <1>1, <1>2
  <1>3. CASE \E i \in 1..Len(Way') : Way'[i].type = "frame" /\ f = Way'[i].frame
    <2>1. PICK i \in 1..Len(Way') : Way'[i].type = "frame" /\ f = Way'[i].frame
      BY <1>3
    <2>2. PICK n \in 1..Len(Way) : Way'[i] = Way[n]
      OBVIOUS
    <2>3. \E m \in 1..Len(Way) : Way[m].type = "frame" /\ f = Way[m].frame
      BY <2>1, <2>2
    <2> QED
      BY <1>1, <2>3, ToMeasureIs
  <1> QED
    BY <1>2, <1>3, ToMeasureAfter

\* A step that measures nothing keeps the record.
LEMMA RecordStays ==
  ASSUME VisionTypeOK, OneInterpretation, Unmeasured, coverage' = coverage, frames' = frames,
         heard \subseteq heard', ToMeasure' \subseteq ToMeasure
  PROVE  OneInterpretation' /\ Unmeasured'
  <1>1. OneInterpretation'
    BY DEF OneInterpretation
  <1>2. ASSUME NEW f \in Frame, coverage'[f] # <<>>
        PROVE  /\ f <= Len(frames')
               /\ frames'[f].cmd # NoCmd => frames'[f].cmd \in heard'
               /\ frames'[f].cmd = NoCmd => f \notin ToMeasure'
    <2>1. /\ f <= Len(frames)
          /\ frames[f].cmd # NoCmd => frames[f].cmd \in heard
          /\ frames[f].cmd = NoCmd => f \notin ToMeasure
      BY <1>2 DEF Unmeasured
    <2> QED
      BY <2>1
  <1> QED
    BY <1>1, <1>2 DEF Unmeasured

\* One that measures a frame nobody has measured, and nobody will measure again.
LEMMA RecordGrows ==
  ASSUME VisionTypeOK, OneInterpretation, Unmeasured, frames' = frames,
         heard \subseteq heard', ToMeasure' \subseteq ToMeasure,
         NEW f \in 1..Len(frames), coverage[f] = <<>>, Measure(f),
         frames[f].cmd # NoCmd => frames[f].cmd \in heard',
         frames[f].cmd = NoCmd => f \notin ToMeasure'
  PROVE  coverage' \in [Frame -> Seq({"none", "reporting"})] /\ OneInterpretation' /\ Unmeasured'
  <1> DEFINE use == IF mv.required THEN "none" ELSE "reporting"
  <1>1. f \in Frame /\ coverage \in [Frame -> Seq({"none", "reporting"})]
    <2>1. Len(frames) \in Nat /\ Len(frames) <= MaxFrames
      BY LenProperties DEF VisionTypeOK
    <2> QED
      BY <2>1, VisionAssumption DEF VisionTypeOK, Frame
  <1>2. use \in {"none", "reporting"} /\ Append(<<>>, use) \in Seq({"none", "reporting"}) /\ Len(Append(<<>>, use)) = 1
    OBVIOUS
  <1>3. coverage' = [coverage EXCEPT ![f] = Append(<<>>, use)]
    BY DEF Measure
  <1> HIDE DEF use
  <1>4. /\ coverage' \in [Frame -> Seq({"none", "reporting"})]
        /\ coverage'[f] = Append(<<>>, use)
        /\ \A g \in Frame : g # f => coverage'[g] = coverage[g]
    BY <1>1, <1>2, <1>3
  <1>5. OneInterpretation'
    <2>1. \A g \in Frame : Len(coverage'[g]) <= 1
      <3> TAKE g \in Frame
      <3>1. CASE g = f
        <4>1. Len(coverage'[g]) = 1
          BY <1>2, <1>4, <3>1, Zenon
        <4> QED
          BY <4>1
      <3>2. CASE g # f
        BY <1>4, <3>2 DEF OneInterpretation
      <3> QED
        BY <3>1, <3>2
    <2> QED
      BY <2>1 DEF OneInterpretation
  <1>6. ASSUME NEW g \in Frame, coverage'[g] # <<>>
        PROVE  /\ g <= Len(frames')
               /\ frames'[g].cmd # NoCmd => frames'[g].cmd \in heard'
               /\ frames'[g].cmd = NoCmd => g \notin ToMeasure'
    <2>1. CASE g = f
      <3>1. f <= Len(frames)
        BY LenProperties DEF VisionTypeOK
      <3> QED
        BY <2>1, <3>1
    <2>2. CASE g # f
      <3>1. /\ g <= Len(frames)
            /\ frames[g].cmd # NoCmd => frames[g].cmd \in heard
            /\ frames[g].cmd = NoCmd => g \notin ToMeasure
        BY <1>4, <1>6, <2>2 DEF Unmeasured
      <3> QED
        BY <3>1
    <2> QED
      BY <2>1, <2>2
  <1> QED
    BY <1>4, <1>5, <1>6 DEF Unmeasured

\* The types that a step of the hub leaves alone.
LEMMA HubKeepsTypes ==
  ASSUME VisionTypeOK,
         view' = view /\ frames' = frames /\ task' = task /\ role' = role /\ conn' = conn /\ ring' = ring,
         wire' \in Seq(Message), unheard' = unheard, forgot' \in BOOLEAN, troubles' \in Nat, heard' \subseteq Cmd,
         mv' \in [known : BOOLEAN, base : 0..Len(frames), required : BOOLEAN], mv'.known \/ mv' = mv,
         queue' \in Seq(1..Len(frames)), Len(queue') <= QueueCap,
         svc' \in [at : {"idle", "create", "measure"}, frame : 0..Len(frames)],
         (svc'.at = "idle") = (svc'.frame = 0),
         coverage' \in [Frame -> Seq({"none", "reporting"})]
  PROVE  VisionTypeOK'
  <1>1. ~mv'.known => mv' = Fresh
    BY DEF VisionTypeOK
  <1>2. /\ view' \in Nat /\ role' \in BOOLEAN
        /\ frames' \in Seq([view : 0..view', cmd : Cmd \cup {NoCmd}]) /\ Len(frames') <= MaxFrames
        /\ task' \in [Cmd -> {"new", "begun", "shot", "over"}]
    BY DEF VisionTypeOK
  <1>3. /\ conn' \in {"down", "hello", "spoiled", "held", "served"}
        /\ {ring', wire'} \subseteq Seq(Message)
        /\ Len(ring') <= RingCap /\ (conn' = "served" => ring' = <<>>)
    BY DEF VisionTypeOK
  <1>4. {heard', unheard'} \subseteq SUBSET Cmd
    BY DEF VisionTypeOK
  <1>5. /\ mv' \in [known : BOOLEAN, base : 0..Len(frames'), required : BOOLEAN]
        /\ queue' \in Seq(1..Len(frames')) /\ Len(queue') <= QueueCap
        /\ svc' \in [at : {"idle", "create", "measure"}, frame : 0..Len(frames')]
        /\ (svc'.at = "idle") = (svc'.frame = 0)
    OBVIOUS
  <1> QED
    BY <1>1, <1>2, <1>3, <1>4, <1>5 DEF VisionTypeOK

\* The session reads a frame.
LEMMA HearFrameKeepsAll ==
  ASSUME VisionInv, HearFrame
  PROVE  VisionInv'
  <1>1. /\ VisionTypeOK /\ MessagesFit /\ OwnFrame /\ OneAnswer /\ FramesInOrder
        /\ OneInterpretation /\ Unmeasured /\ ViewsGrow /\ MovesAreTold
    BY DEF VisionInv
  <1>2. /\ wire # <<>> /\ wire' = Tail(wire) /\ ring' = ring /\ Heard.type = "frame"
        /\ queue' = IF Len(queue) < QueueCap THEN Append(queue, Heard.frame) ELSE queue
    BY Zenon DEF HearFrame, Hears
  <1>3. /\ view' = view /\ frames' = frames /\ task' = task /\ role' = role /\ conn' = conn
        /\ mv' = mv /\ svc' = svc /\ coverage' = coverage /\ heard' = heard
        /\ unheard' = unheard /\ forgot' = forgot /\ troubles' = troubles
    BY Zenon DEF HearFrame, cameraVars, logVars, historyVars
  <1>4. Listened
    <2>1. ~IsMove(Heard)
      BY <1>2 DEF IsMove
    <2>2. queue' \in {queue, Append(queue, Heard.frame)}
      BY <1>2
    <2> QED
      BY <1>2, <1>3, <2>1, <2>2, Zenon DEF Listened
  <1>5. /\ Len(Way) \in Nat /\ 1 \in 1..Len(Way) /\ Way[1] = Heard /\ Heard \in Message
        /\ Len(Way') \in Nat /\ Len(Way') = Len(Way) - 1
        /\ \A i \in 1..Len(Way') : i + 1 \in 1..Len(Way) /\ Way'[i] = Way[i + 1]
        /\ wire' \in Seq(Message)
    BY <1>1, <1>2, HeardFacts
  <1>6. /\ queue' \in Seq(1..Len(frames)) /\ Len(queue) \in Nat /\ Len(queue') \in Nat
        /\ \/ Len(queue') = Len(queue)
           \/ Len(queue') = Len(queue) + 1 /\ Heard.type = "frame" /\ queue'[Len(queue) + 1] = Heard.frame
        /\ \A k \in 1..Len(queue) : queue'[k] = queue[k]
    BY <1>1, <1>2, <1>4, QueueFacts
  <1>7. Len(queue') <= QueueCap
    <2>1. queue \in Seq(1..Len(frames)) /\ Len(queue) <= QueueCap /\ QueueCap \in Nat
      BY <1>1, VisionAssumption DEF VisionTypeOK
    <2>2. CASE Len(queue) < QueueCap
      BY <1>6, <2>1, <2>2
    <2>3. CASE ~(Len(queue) < QueueCap)
      BY <1>2, <2>1, <2>3
    <2> QED
      BY <2>2, <2>3
  <1>8. VisionTypeOK'
    <2>1. mv' \in [known : BOOLEAN, base : 0..Len(frames), required : BOOLEAN]
          /\ svc' \in [at : {"idle", "create", "measure"}, frame : 0..Len(frames)]
          /\ (svc'.at = "idle") = (svc'.frame = 0)
          /\ coverage' \in [Frame -> Seq({"none", "reporting"})]
          /\ forgot' \in BOOLEAN /\ troubles' \in Nat /\ heard' \subseteq Cmd
      BY <1>1, <1>3 DEF VisionTypeOK
    <2> QED
      BY <1>1, <1>2, <1>3, <1>5, <1>6, <1>7, <2>1, HubKeepsTypes
  <1>9. MessagesFit' /\ OwnFrame' /\ OneAnswer' /\ FramesInOrder' /\ ViewsGrow'
    BY <1>1, <1>2, <1>4, ListenKeepsMessages
  <1>10. MovesAreTold'
    BY <1>1, <1>2, <1>4, <1>8, ListenTellsMoves
  <1>11. ToMeasure' \subseteq ToMeasure
    <2>1. \A i \in 1..Len(Way') : \E n \in 1..Len(Way) : Way'[i] = Way[n]
      BY <1>5
    <2>2. \A k \in 1..Len(queue') : queue'[k] \in ToMeasure \cup {0}
      <3> TAKE k \in 1..Len(queue')
      <3>1. k \in 1..Len(queue) \/ k = Len(queue) + 1
        BY <1>6
      <3>2. CASE k \in 1..Len(queue)
        BY <1>6, <3>2, ToMeasureIs
      <3>3. CASE k = Len(queue) + 1 /\ k \notin 1..Len(queue)
        <4>1. Heard.type = "frame" /\ queue'[k] = Heard.frame
          BY <1>6, <3>3
        <4> QED
          BY <1>5, <4>1, ToMeasureIs
      <3> QED
        BY <3>1, <3>2, <3>3
    <2>3. svc'.frame \in ToMeasure \cup {0}
      BY <1>3, ToMeasureIs
    <2> QED
      BY <1>1, <2>1, <2>2, <2>3, HubLeavesLess
  <1>12. OneInterpretation' /\ Unmeasured'
    BY <1>1, <1>3, <1>11, RecordStays
  <1> QED
    BY <1>8, <1>9, <1>10, <1>12 DEF VisionInv

\* The session reads a result, and the interpreter of results runs
\* (interpreter.py:131-161).
LEMMA HearAnswerKeepsAll ==
  ASSUME VisionInv, HearResult \/ HearFailure
  PROVE  VisionInv'
  <1>1. /\ VisionTypeOK /\ MessagesFit /\ OwnFrame /\ OneAnswer /\ FramesInOrder
        /\ OneInterpretation /\ Unmeasured /\ ViewsGrow /\ MovesAreTold
    BY DEF VisionInv
  <1>2. /\ wire # <<>> /\ wire' = Tail(wire) /\ ring' = ring
        /\ \/ Heard.type = "result" /\ Interpret(Heard.cmd)
           \/ Heard.type = "failed" /\ mv' = mv /\ coverage' = coverage /\ troubles' = troubles
        /\ heard' = heard \cup {Heard.cmd}
    BY Zenon DEF HearResult, HearFailure, Hears
  <1>3. /\ view' = view /\ frames' = frames /\ task' = task /\ role' = role /\ conn' = conn
        /\ queue' = queue /\ svc' = svc /\ unheard' = unheard /\ forgot' = forgot
    BY Zenon DEF HearResult, HearFailure, cameraVars, serviceVars, historyVars
  <1>4. /\ Len(Way) \in Nat /\ 1 \in 1..Len(Way) /\ Way[1] = Heard /\ Heard \in Message
        /\ Len(Way') \in Nat /\ Len(Way') = Len(Way) - 1
        /\ \A i \in 1..Len(Way') : i + 1 \in 1..Len(Way) /\ Way'[i] = Way[i + 1]
        /\ wire' \in Seq(Message)
    BY <1>1, <1>2, HeardFacts
  <1> DEFINE c == Heard.cmd
             f == Heard.frame
  <1>5. Fits(Heard) /\ Heard.type # "frame" /\ c \in Cmd /\ c \notin heard /\ f \in Nat /\ Len(frames) \in Nat
        /\ f <= Len(frames)
    <2>1. Fits(Heard) /\ Heard.type # "frame" /\ f \in Nat /\ Len(frames) \in Nat
      BY <1>1, <1>2, <1>4, VisionAssumption, LenProperties DEF MessagesFit, Message, VisionTypeOK
    <2>2. c \notin heard
      BY <1>1, <1>4, <2>1 DEF OneAnswer
    <2> QED
      BY <2>1, <2>2 DEF Fits
  <1>6. /\ mv \in [known : BOOLEAN, base : 0..Len(frames), required : BOOLEAN]
        /\ svc \in [at : {"idle", "create", "measure"}, frame : 0..Len(frames)]
        /\ (svc.at = "idle") = (svc.frame = 0)
        /\ queue \in Seq(1..Len(frames)) /\ Len(queue) <= QueueCap
        /\ coverage \in [Frame -> Seq({"none", "reporting"})]
        /\ forgot \in BOOLEAN /\ troubles \in Nat /\ heard \subseteq Cmd
    BY <1>1 DEF VisionTypeOK
  \* What becomes of the baseline, and of the frame.
  <1>7. /\ mv' \in [known : BOOLEAN, base : 0..Len(frames), required : BOOLEAN] /\ (mv'.known \/ mv' = mv)
        /\ \/ mv'.base = mv.base /\ mv'.required = mv.required /\ ~IsMove(Heard)
           \/ mv'.required = TRUE
           \/ IsBase(Heard) /\ mv'.base = Heard.frame
        /\ \/ coverage' = coverage /\ troubles' \in Nat
           \/ Heard.type = "result" /\ TypeOf[c] = "capture" /\ Measure(f) /\ troubles' = troubles
    <2>1. CASE Heard.type = "failed" /\ mv' = mv /\ coverage' = coverage /\ troubles' = troubles
      BY <1>6, <2>1 DEF IsMove
    <2>2. CASE Heard.type = "result" /\ TypeOf[c] = "capture"
      <3>1. mv' = [mv EXCEPT !.known = TRUE] /\ ((Measure(f) /\ troubles' = troubles) \/ Gone(f))
        BY <1>2, <2>2 DEF Interpret
      <3>2. Gone(f) => coverage' = coverage /\ troubles' \in Nat
        BY <1>6 DEF Gone
      <3> QED
        BY <1>6, <2>2, <3>1, <3>2 DEF IsMove
    <2>3. CASE Heard.type = "result" /\ TypeOf[c] = "re_baseline"
      <3>1. mv' = [known |-> TRUE, base |-> f, required |-> FALSE] /\ coverage' = coverage /\ troubles' = troubles
        BY <1>2, <2>3 DEF Interpret
      <3> QED
        BY <1>5, <1>6, <2>3, <3>1 DEF IsBase
    <2>4. CASE Heard.type = "result" /\ TypeOf[c] = "set_region"
      <3>1. mv' = [mv EXCEPT !.known = TRUE, !.required = TRUE] /\ coverage' = coverage /\ troubles' = troubles
        BY <1>2, <2>4 DEF Interpret
      <3> QED
        BY <1>6, <3>1
    <2>5. CASE Heard.type = "result" /\ TypeOf[c] = "ptz"
      <3>1. mv' = [mv EXCEPT !.known = TRUE, !.required = RequiredAfterMove] /\ coverage' = coverage /\ troubles' = troubles
        BY <1>2, <2>5 DEF Interpret
      <3> QED
        BY <1>6, <3>1 DEF RequiredAfterMove
    <2> QED
      BY <1>2, <1>5, <2>1, <2>2, <2>3, <2>4, <2>5, VisionAssumption DEF CmdType
  <1>8. Listened
    BY <1>2, <1>3, <1>5, <1>7, Zenon DEF Listened
  <1>9. ToMeasure' \subseteq ToMeasure
    <2>1. \A i \in 1..Len(Way') : \E n \in 1..Len(Way) : Way'[i] = Way[n]
      BY <1>4
    <2>2. \A k \in 1..Len(queue') : queue'[k] \in ToMeasure \cup {0}
      BY <1>3, ToMeasureIs
    <2>3. svc'.frame \in ToMeasure \cup {0}
      BY <1>3, ToMeasureIs
    <2> QED
      BY <1>1, <2>1, <2>2, <2>3, HubLeavesLess
  <1>10. coverage' \in [Frame -> Seq({"none", "reporting"})] /\ OneInterpretation' /\ Unmeasured'
    <2>1. heard \subseteq heard' /\ c \in heard'
      BY <1>2
    <2>2. CASE coverage' = coverage
      BY <1>1, <1>3, <1>6, <1>9, <2>1, <2>2, RecordStays
    <2>3. CASE Heard.type = "result" /\ TypeOf[c] = "capture" /\ Measure(f)
      <3>1. f # 0 /\ frames[f].cmd = c
        BY <1>5, <2>3 DEF Fits
      <3>2. f \in 1..Len(frames) /\ f \in Frame /\ c # NoCmd
        <4>1. Len(frames) <= MaxFrames
          BY <1>1 DEF VisionTypeOK
        <4> QED
          BY <1>5, <3>1, <4>1, VisionAssumption DEF Frame
      <3>3. coverage[f] = <<>>
        BY <1>1, <1>5, <3>1, <3>2 DEF Unmeasured
      <3> QED
        BY <1>1, <1>3, <1>9, <2>1, <2>3, <3>1, <3>2, <3>3, RecordGrows
    <2> QED
      BY <1>7, <2>2, <2>3
  <1>11. VisionTypeOK'
    <2>1. troubles' \in Nat /\ heard' \subseteq Cmd
      BY <1>2, <1>5, <1>6, <1>7
    <2> QED
      BY <1>1, <1>2, <1>3, <1>4, <1>6, <1>7, <1>10, <2>1, HubKeepsTypes
  <1>12. MessagesFit' /\ OwnFrame' /\ OneAnswer' /\ FramesInOrder' /\ ViewsGrow'
    BY <1>1, <1>2, <1>8, ListenKeepsMessages
  <1>13. MovesAreTold'
    BY <1>1, <1>2, <1>8, <1>11, ListenTellsMoves
  <1> QED
    BY <1>10, <1>11, <1>12, <1>13 DEF VisionInv

\* FoamService.
LEMMA ServiceTellsMoves ==
  ASSUME VisionTypeOK, MessagesFit, MovesAreTold, Way' = Way, view' = view, frames' = frames,
         ~forgot' => ~forgot /\ mv'.base = mv.base /\ mv'.required = mv.required,
         \A k \in 1..Len(queue') : \E n \in 1..Len(queue) : queue'[k] = queue[n],
         svc'.frame \in {0, svc.frame} \/ \E n \in 1..Len(queue) : svc'.frame = queue[n]
  PROVE  MovesAreTold'
  <1> SUFFICES ASSUME ~forgot'
               PROVE  \A i \in 0..Len(Way') : BaseAt(i)' =>
                        /\ \A j \in (i + 1)..(Len(Way') + 1) :
                             SeenView(j)' <= BaseView(i)' \/ \E k \in (i + 1)..(j - 1) : IsMove(Way'[k])
                        /\ \A j \in 1..(i - 1) : SeenView(j)' <= BaseView(i)'
                        /\ \A k \in 1..Len(queue') : ViewOf(queue[k])' <= BaseView(i)'
                        /\ ViewOf(svc.frame)' <= BaseView(i)'
    BY DEF MovesAreTold
  <1>1. ~forgot /\ mv'.base = mv.base /\ mv'.required = mv.required
    BY Zenon
  <1>2. \A i \in 0..Len(Way) : BaseAt(i) =>
          /\ \A j \in (i + 1)..(Len(Way) + 1) :
               SeenView(j) <= BaseView(i) \/ \E k \in (i + 1)..(j - 1) : IsMove(Way[k])
          /\ \A j \in 1..(i - 1) : SeenView(j) <= BaseView(i)
          /\ \A k \in 1..Len(queue) : ViewOf(queue[k]) <= BaseView(i)
          /\ ViewOf(svc.frame) <= BaseView(i)
    BY <1>1, Zenon DEF MovesAreTold
  <1>3. \A f \in 0..Len(frames) : ViewOf(f) \in Nat
    <2>1. frames \in Seq([view : 0..view, cmd : Cmd \cup {NoCmd}]) /\ Len(frames) \in Nat /\ view \in Nat
      BY LenProperties DEF VisionTypeOK
    <2>2. \A f \in 1..Len(frames) : frames[f].view \in Nat
      <3> TAKE f \in 1..Len(frames)
      <3>1. frames[f] \in [view : 0..view, cmd : Cmd \cup {NoCmd}]
        BY <2>1, ElementOfSeq
      <3> QED
        BY <2>1, <3>1
    <2> QED
      BY <2>1, <2>2 DEF ViewOf
  <1>4. \A i \in 0..Len(Way) : BaseView(i) \in Nat
    <2>1. mv.base \in 0..Len(frames) /\ Len(frames) \in Nat
      BY LenProperties DEF VisionTypeOK
    <2>2. \A i \in 1..Len(Way) : Way[i].frame \in 0..Len(frames)
      <3>1. \A i \in 1..Len(Way) : Way[i].frame \in Nat
        BY WayFacts, VisionAssumption DEF Message
      <3> QED
        BY <2>1, <3>1 DEF MessagesFit, Fits
    <2>3. Len(Way) \in Nat
      BY WayFacts
    <2> QED
      BY <1>3, <2>1, <2>2, <2>3 DEF BaseView
  <1>5. \A i \in 0..Len(Way) : BaseAt(i)' = BaseAt(i) /\ BaseView(i)' = BaseView(i)
    <2> TAKE i \in 0..Len(Way)
    <2>1. BaseAt(i)' = BaseAt(i)
      BY <1>1 DEF BaseAt, IsBase
    <2>2. BaseView(i)' = BaseView(i)
      BY <1>1 DEF BaseView, ViewOf
    <2> QED
      BY <2>1, <2>2
  <1>6. \A j : SeenView(j)' = SeenView(j)
    BY DEF SeenView, ViewOf
  <1>7. \A k \in 1..Len(queue') : \E n \in 1..Len(queue) : ViewOf(queue[k])' = ViewOf(queue[n])
    <2> TAKE k \in 1..Len(queue')
    <2>1. PICK n \in 1..Len(queue) : queue'[k] = queue[n]
      OBVIOUS
    <2>2. ViewOf(queue[k])' = ViewOf(queue[n])
      BY <2>1 DEF ViewOf
    <2> QED
      BY <2>2
  <1>8. \/ ViewOf(svc.frame)' = 0
        \/ ViewOf(svc.frame)' = ViewOf(svc.frame)
        \/ \E n \in 1..Len(queue) : ViewOf(svc.frame)' = ViewOf(queue[n])
    <2>1. CASE svc'.frame = 0
      BY <2>1 DEF ViewOf
    <2>2. CASE svc'.frame = svc.frame
      BY <2>2 DEF ViewOf
    <2>3. CASE \E n \in 1..Len(queue) : svc'.frame = queue[n]
      <3>1. PICK n \in 1..Len(queue) : svc'.frame = queue[n]
        BY <2>3
      <3>2. ViewOf(svc.frame)' = ViewOf(queue[n])
        BY <3>1 DEF ViewOf
      <3> QED
        BY <3>2
    <2> QED
      BY <2>1, <2>2, <2>3
  <1> SUFFICES ASSUME NEW i \in 0..Len(Way), BaseAt(i)
               PROVE  /\ \A j \in (i + 1)..(Len(Way) + 1) :
                           SeenView(j) <= BaseView(i) \/ \E k \in (i + 1)..(j - 1) : IsMove(Way[k])
                      /\ \A j \in 1..(i - 1) : SeenView(j) <= BaseView(i)
                      /\ \A k \in 1..Len(queue') : ViewOf(queue[k])' <= BaseView(i)
                      /\ ViewOf(svc.frame)' <= BaseView(i)
    BY <1>5, <1>6
  <1>9. \A k \in 1..Len(queue') : ViewOf(queue[k])' <= BaseView(i)
    BY <1>2, <1>7
  <1>10. ViewOf(svc.frame)' <= BaseView(i)
    BY <1>2, <1>4, <1>8
  <1> QED
    BY <1>2, <1>9, <1>10

\* The foam service changes nothing of the camera and of what it has said.
LEMMA ServiceKeepsMessages ==
  ASSUME VisionTypeOK, MessagesFit, OwnFrame, OneAnswer, ViewsGrow, Way' = Way,
         view' = view, frames' = frames, task' = task, heard' = heard, unheard' = unheard
  PROVE  MessagesFit' /\ OwnFrame' /\ OneAnswer' /\ ViewsGrow'
  <1>1. MessagesFit'
    BY DEF MessagesFit, Fits
  <1>2. OwnFrame'
    BY DEF OwnFrame
  <1>3. OneAnswer'
    BY DEF OneAnswer
  <1>4. ViewsGrow'
    BY DEF ViewsGrow
  <1> QED
    BY <1>1, <1>2, <1>3, <1>4

\* The service takes a frame and looks at what it knows (interpreter.py:98-112, 46-50).
LEMMA TakeKeepsAll ==
  ASSUME VisionInv, Take
  PROVE  VisionInv'
  <1>1. /\ VisionTypeOK /\ MessagesFit /\ OwnFrame /\ OneAnswer /\ FramesInOrder
        /\ OneInterpretation /\ Unmeasured /\ ViewsGrow /\ MovesAreTold
    BY DEF VisionInv
  <1>2. /\ queue # <<>> /\ queue' = Tail(queue)
        /\ svc' = IF Owns(Head(queue))
                  THEN [at |-> IF mv.known THEN "measure" ELSE "create", frame |-> Head(queue)]
                  ELSE Idle
    BY Zenon DEF Take
  <1>3. /\ view' = view /\ frames' = frames /\ task' = task /\ role' = role /\ conn' = conn
        /\ wire' = wire /\ ring' = ring /\ mv' = mv /\ coverage' = coverage /\ heard' = heard
        /\ unheard' = unheard /\ forgot' = forgot /\ troubles' = troubles
    BY Zenon DEF Take, cameraVars, linkVars, logVars, historyVars
  <1>4. Way' = Way
    BY <1>3 DEF Way
  <1>5. /\ queue \in Seq(1..Len(frames)) /\ Len(queue) \in Nat \ {0} /\ Len(frames) \in Nat
        /\ \A k \in 1..Len(queue) : queue[k] \in 1..Len(frames)
    <2>1. queue \in Seq(1..Len(frames)) /\ Len(frames) \in Nat
      BY <1>1, LenProperties DEF VisionTypeOK
    <2>2. \A k \in 1..Len(queue) : queue[k] \in 1..Len(frames)
      BY <2>1, ElementOfSeq
    <2>3. Len(queue) \in Nat \ {0}
      BY <1>2, <2>1, EmptySeq
    <2> QED
      BY <2>1, <2>2, <2>3
  <1>6. /\ Head(queue) = queue[1] /\ 1 \in 1..Len(queue)
        /\ queue' \in Seq(1..Len(frames)) /\ Len(queue') = Len(queue) - 1
        /\ \A k \in 1..Len(queue') : k + 1 \in 1..Len(queue) /\ queue'[k] = queue[k + 1]
    BY <1>2, <1>5, HeadTailProperties
  <1>7. \/ svc' = Idle
        \/ /\ svc'.frame = queue[1] /\ frames[queue[1]].cmd = NoCmd
           /\ svc' \in [at : {"measure", "create"}, frame : 1..Len(frames)]
    <2>1. CASE Owns(Head(queue))
      BY <1>2, <1>5, <1>6, <2>1 DEF Owns
    <2>2. CASE ~Owns(Head(queue))
      BY <1>2, <2>2
    <2> QED
      BY <2>1, <2>2
  <1>8. svc' \in [at : {"idle", "create", "measure"}, frame : 0..Len(frames)]
        /\ (svc'.at = "idle") = (svc'.frame = 0)
    BY <1>5, <1>7 DEF Idle
  <1>9. VisionTypeOK'
    <2>1. Len(queue') <= QueueCap
      <3>1. Len(queue) <= QueueCap
        BY <1>1 DEF VisionTypeOK
      <3> QED
        BY <1>5, <1>6, <3>1, VisionAssumption
    <2>2. /\ mv' \in [known : BOOLEAN, base : 0..Len(frames), required : BOOLEAN]
          /\ coverage' \in [Frame -> Seq({"none", "reporting"})]
          /\ forgot' \in BOOLEAN /\ troubles' \in Nat /\ heard' \subseteq Cmd /\ wire' \in Seq(Message)
      BY <1>1, <1>3 DEF VisionTypeOK
    <2> QED
      BY <1>1, <1>3, <1>6, <1>8, <2>1, <2>2, HubKeepsTypes
  <1>10. MessagesFit' /\ OwnFrame' /\ OneAnswer' /\ ViewsGrow'
    BY <1>1, <1>3, <1>4, ServiceKeepsMessages
  <1>11. FramesInOrder'
    <2>1. \A i, j \in 1..Len(Way) :
            i < j /\ Way[i].type = "frame" /\ Way[j].type = "frame" => Way[i].frame < Way[j].frame
      BY <1>1 DEF FramesInOrder
    <2>2. \A k, n \in 1..Len(queue') : k < n => queue'[k] < queue'[n]
      <3> TAKE k, n \in 1..Len(queue')
      <3> HAVE k < n
      <3>1. k + 1 < n + 1
        BY <1>5, <1>6
      <3> QED
        BY <1>1, <1>6, <3>1 DEF FramesInOrder
    <2>3. \A k \in 1..Len(queue') : svc'.frame < queue'[k]
      <3> TAKE k \in 1..Len(queue')
      <3>1. queue'[k] = queue[k + 1] /\ k + 1 \in 1..Len(queue) /\ 1 < k + 1
        BY <1>5, <1>6
      <3>2. queue[1] < queue[k + 1] /\ 0 < queue[k + 1]
        BY <1>1, <1>5, <1>6, <3>1 DEF FramesInOrder
      <3> QED
        BY <1>7, <3>1, <3>2 DEF Idle
    <2>4. \A i \in 1..Len(Way) : Way[i].type = "frame" =>
            svc'.frame < Way[i].frame /\ \A k \in 1..Len(queue') : queue'[k] < Way[i].frame
      <3> TAKE i \in 1..Len(Way)
      <3> HAVE Way[i].type = "frame"
      <3>1. \A k \in 1..Len(queue) : queue[k] < Way[i].frame
        BY <1>1 DEF FramesInOrder
      <3>2. Way[i].frame \in Nat
        BY <1>1, WayFacts, VisionAssumption DEF Message
      <3>3. 0 < Way[i].frame
        <4>1. queue[1] < Way[i].frame
          BY <1>6, <3>1
        <4>2. queue[1] \in Nat
          BY <1>5, <1>6, ElementOfSeq
        <4> QED
          BY <3>2, <4>1, <4>2
      <3> QED
        BY <1>6, <1>7, <3>1, <3>3 DEF Idle
    <2>5. svc'.frame # 0 => frames[svc'.frame].cmd = NoCmd
      BY <1>7 DEF Idle
    <2> QED
      BY <1>3, <1>4, <2>1, <2>2, <2>3, <2>4, <2>5 DEF FramesInOrder
  <1>12. MovesAreTold'
    <2>1. \A k \in 1..Len(queue') : \E n \in 1..Len(queue) : queue'[k] = queue[n]
      BY <1>6
    <2>2. svc'.frame = 0 \/ \E n \in 1..Len(queue) : svc'.frame = queue[n]
      BY <1>6, <1>7 DEF Idle
    <2> QED
      BY <1>1, <1>3, <1>4, <2>1, <2>2, ServiceTellsMoves
  <1>13. ToMeasure' \subseteq ToMeasure
    <2>1. \A k \in 1..Len(queue) : queue[k] \in ToMeasure
      BY <1>5, ToMeasureIs
    <2>2. \A k \in 1..Len(queue') : queue'[k] \in ToMeasure \cup {0}
      BY <1>6, <2>1
    <2>3. svc'.frame \in ToMeasure \cup {0}
      BY <1>6, <1>7, <2>1 DEF Idle
    <2>4. \A i \in 1..Len(Way') : \E n \in 1..Len(Way) : Way'[i] = Way[n]
      BY <1>4
    <2> QED
      BY <1>1, <2>2, <2>3, <2>4, HubLeavesLess
  <1>14. OneInterpretation' /\ Unmeasured'
    BY <1>1, <1>3, <1>13, RecordStays
  <1> QED
    BY <1>9, <1>10, <1>11, <1>12, <1>14 DEF VisionInv

\* The second half of get(): what was not known is entered (interpreter.py:51-55).
LEMMA CreateKeepsAll ==
  ASSUME VisionInv, Create
  PROVE  VisionInv'
  <1>1. /\ VisionTypeOK /\ MessagesFit /\ OwnFrame /\ OneAnswer /\ FramesInOrder
        /\ OneInterpretation /\ Unmeasured /\ ViewsGrow /\ MovesAreTold
    BY DEF VisionInv
  <1>2. /\ svc.at = "create" /\ svc' = [svc EXCEPT !.at = "measure"]
        /\ mv' = [Fresh EXCEPT !.known = TRUE] /\ forgot' = (forgot \/ mv.known)
    BY Zenon DEF Create
  <1>3. /\ view' = view /\ frames' = frames /\ task' = task /\ role' = role /\ conn' = conn
        /\ wire' = wire /\ ring' = ring /\ queue' = queue /\ coverage' = coverage /\ heard' = heard
        /\ unheard' = unheard /\ troubles' = troubles
    BY Zenon DEF Create, cameraVars, linkVars, logVars
  <1>4. Way' = Way
    BY <1>3 DEF Way
  <1>5. svc \in [at : {"idle", "create", "measure"}, frame : 0..Len(frames)] /\ (svc.at = "idle") = (svc.frame = 0)
        /\ Len(frames) \in Nat
    BY <1>1, LenProperties DEF VisionTypeOK
  <1>6. /\ svc' \in [at : {"idle", "create", "measure"}, frame : 0..Len(frames)]
        /\ svc'.frame = svc.frame /\ (svc'.at = "idle") = (svc'.frame = 0)
    BY <1>2, <1>5
  <1>7. mv' = [known |-> TRUE, base |-> 0, required |-> FALSE]
    BY <1>2 DEF Fresh
  <1>8. forgot' \in BOOLEAN /\ (~forgot' => ~forgot /\ ~mv.known)
    BY <1>2, Zenon
  <1>9. VisionTypeOK'
    <2>1. /\ mv' \in [known : BOOLEAN, base : 0..Len(frames), required : BOOLEAN] /\ mv'.known
          /\ coverage' \in [Frame -> Seq({"none", "reporting"})]
          /\ troubles' \in Nat /\ heard' \subseteq Cmd /\ wire' \in Seq(Message)
          /\ queue' \in Seq(1..Len(frames)) /\ Len(queue') <= QueueCap
      BY <1>1, <1>3, <1>5, <1>7 DEF VisionTypeOK
    <2> QED
      BY <1>1, <1>3, <1>6, <1>8, <2>1, HubKeepsTypes
  <1>10. MessagesFit' /\ OwnFrame' /\ OneAnswer' /\ ViewsGrow'
    BY <1>1, <1>3, <1>4, ServiceKeepsMessages
  <1>11. FramesInOrder'
    BY <1>1, <1>3, <1>4, <1>6 DEF FramesInOrder
  <1>12. MovesAreTold'
    <2>1. ~mv.known => mv = Fresh
      BY <1>1 DEF VisionTypeOK
    <2>2. ~mv.known => mv'.base = mv.base /\ mv'.required = mv.required
      <3> HAVE ~mv.known
      <3>1. mv = Fresh
        BY <2>1
      <3> QED
        BY <1>7, <3>1 DEF Fresh
    <2>3. ~forgot' => ~forgot /\ mv'.base = mv.base /\ mv'.required = mv.required
      BY <1>8, <2>2, Zenon
    <2>4. \A k \in 1..Len(queue') : \E n \in 1..Len(queue) : queue'[k] = queue[n]
      BY <1>3
    <2> QED
      BY <1>1, <1>3, <1>4, <1>6, <2>3, <2>4, ServiceTellsMoves
  <1>13. ToMeasure' \subseteq ToMeasure
    BY <1>3, <1>4, <1>6, ToMeasureIs, ToMeasureAfter
  <1>14. OneInterpretation' /\ Unmeasured'
    BY <1>1, <1>3, <1>13, RecordStays
  <1> QED
    BY <1>9, <1>10, <1>11, <1>12, <1>14 DEF VisionInv

\* The service measures its frame (interpreter.py:120-124).
LEMMA NoteKeepsAll ==
  ASSUME VisionInv, Note
  PROVE  VisionInv'
  <1>1. /\ VisionTypeOK /\ MessagesFit /\ OwnFrame /\ OneAnswer /\ FramesInOrder
        /\ OneInterpretation /\ Unmeasured /\ ViewsGrow /\ MovesAreTold
    BY DEF VisionInv
  <1>2. /\ svc.at = "measure" /\ svc' = Idle
        /\ (Measure(svc.frame) /\ troubles' = troubles) \/ Gone(svc.frame)
    BY Zenon DEF Note
  <1>3. /\ view' = view /\ frames' = frames /\ task' = task /\ role' = role /\ conn' = conn
        /\ wire' = wire /\ ring' = ring /\ mv' = mv /\ queue' = queue /\ heard' = heard
        /\ unheard' = unheard /\ forgot' = forgot
    BY Zenon DEF Note, cameraVars, linkVars, historyVars
  <1>4. Way' = Way
    BY <1>3 DEF Way
  <1>5. /\ svc.frame \in 1..Len(frames) /\ Len(frames) \in Nat /\ Len(frames) <= MaxFrames
        /\ queue \in Seq(1..Len(frames)) /\ Len(queue) \in Nat
        /\ \A k \in 1..Len(queue) : queue[k] \in 1..Len(frames)
    <2>1. svc \in [at : {"idle", "create", "measure"}, frame : 0..Len(frames)] /\ (svc.at = "idle") = (svc.frame = 0)
          /\ Len(frames) \in Nat /\ Len(frames) <= MaxFrames /\ queue \in Seq(1..Len(frames)) /\ Len(queue) \in Nat
      BY <1>1, LenProperties DEF VisionTypeOK
    <2> QED
      BY <1>2, <2>1, ElementOfSeq
  <1>6. /\ svc' \in [at : {"idle", "create", "measure"}, frame : 0..Len(frames)]
        /\ svc'.frame = 0 /\ (svc'.at = "idle") = (svc'.frame = 0)
    BY <1>2, <1>5 DEF Idle
  <1>7. MessagesFit' /\ OwnFrame' /\ OneAnswer' /\ ViewsGrow'
    BY <1>1, <1>3, <1>4, ServiceKeepsMessages
  <1>8. /\ \A k \in 1..Len(queue) : svc.frame < queue[k]
        /\ \A i \in 1..Len(Way) : Way[i].type = "frame" =>
             svc.frame < Way[i].frame /\ Way[i].frame \in Nat /\ \A k \in 1..Len(queue) : queue[k] < Way[i].frame
        /\ frames[svc.frame].cmd = NoCmd
    <2>1. \A i \in 1..Len(Way) : Way[i].frame \in Nat
      BY <1>1, WayFacts, VisionAssumption DEF Message
    <2>2. \A k \in 1..Len(queue) : svc.frame < queue[k]
      BY <1>1 DEF FramesInOrder
    <2>3. \A i \in 1..Len(Way) : Way[i].type = "frame" =>
            svc.frame < Way[i].frame /\ \A k \in 1..Len(queue) : queue[k] < Way[i].frame
      BY <1>1 DEF FramesInOrder
    <2>4. frames[svc.frame].cmd = NoCmd
      BY <1>1, <1>5 DEF FramesInOrder
    <2> QED
      BY <2>1, <2>2, <2>3, <2>4
  <1>9. FramesInOrder'
    <2>1. \A k \in 1..Len(queue) : 0 < queue[k]
      BY <1>5
    <2>2. \A i \in 1..Len(Way) : Way[i].type = "frame" => 0 < Way[i].frame
      BY <1>5, <1>8
    <2> QED
      BY <1>1, <1>3, <1>4, <1>6, <1>8, <2>1, <2>2 DEF FramesInOrder
  <1>10. MovesAreTold'
    BY <1>1, <1>3, <1>4, <1>6, ServiceTellsMoves
  <1>11. ToMeasure' \subseteq ToMeasure /\ svc.frame \in ToMeasure /\ svc.frame \notin ToMeasure'
    <2>1. ToMeasure' \subseteq ToMeasure
      BY <1>3, <1>4, <1>6, ToMeasureIs, ToMeasureAfter
    <2>2. svc.frame \in ToMeasure
      BY <1>5, ToMeasureIs
    <2>3. svc.frame # svc'.frame
      BY <1>5, <1>6
    <2>4. \A k \in 1..Len(queue') : svc.frame # queue'[k]
      BY <1>3, <1>5, <1>8
    <2>5. \A i \in 1..Len(Way') : Way'[i].type = "frame" => svc.frame # Way'[i].frame
      BY <1>4, <1>5, <1>8
    <2> QED
      BY <2>1, <2>2, <2>3, <2>4, <2>5, ToMeasureAfter
  <1>12. /\ troubles' \in Nat /\ coverage' \in [Frame -> Seq({"none", "reporting"})]
         /\ OneInterpretation' /\ Unmeasured'
    <2>1. troubles \in Nat /\ coverage \in [Frame -> Seq({"none", "reporting"})]
      BY <1>1 DEF VisionTypeOK
    <2>2. CASE Gone(svc.frame)
      <3>1. coverage' = coverage /\ troubles' \in Nat
        BY <2>1, <2>2 DEF Gone
      <3> QED
        BY <1>1, <1>3, <1>11, <2>1, <3>1, RecordStays
    <2>3. CASE Measure(svc.frame) /\ troubles' = troubles
      <3>1. svc.frame \in Frame
        BY <1>5, VisionAssumption DEF Frame
      <3>2. coverage[svc.frame] = <<>>
        BY <1>1, <1>8, <1>11, <3>1 DEF Unmeasured
      <3>3. PICK f \in 1..Len(frames) : f = svc.frame
        BY <1>5
      <3>4. coverage' \in [Frame -> Seq({"none", "reporting"})] /\ OneInterpretation' /\ Unmeasured'
        BY <1>1, <1>3, <1>8, <1>11, <2>3, <3>2, <3>3, RecordGrows
      <3> QED
        BY <2>1, <2>3, <3>4
    <2> QED
      BY <1>2, <2>2, <2>3
  <1>13. VisionTypeOK'
    <2>1. /\ mv' \in [known : BOOLEAN, base : 0..Len(frames), required : BOOLEAN]
          /\ forgot' \in BOOLEAN /\ heard' \subseteq Cmd /\ wire' \in Seq(Message)
          /\ queue' \in Seq(1..Len(frames)) /\ Len(queue') <= QueueCap
      BY <1>1, <1>3 DEF VisionTypeOK
    <2> QED
      BY <1>1, <1>3, <1>6, <1>12, <2>1, HubKeepsTypes
  <1> QED
    BY <1>7, <1>9, <1>10, <1>12, <1>13 DEF VisionInv

(***************************************************************************)
(* The theorems.                                                           *)
(***************************************************************************)
LEMMA VisionStarts ==
  ASSUME Init
  PROVE  VisionInv
  <1>1. /\ view = 0 /\ frames = <<>> /\ task = [c \in Cmd |-> "new"] /\ role = FALSE
        /\ conn = "down" /\ ring = <<>> /\ wire = <<>> /\ mv = Fresh /\ queue = <<>> /\ svc = Idle
        /\ coverage = [f \in Frame |-> <<>>] /\ heard = {} /\ unheard = {} /\ forgot = FALSE /\ troubles = 0
    BY DEF Init
  <1>2. Len(frames) = 0 /\ Len(ring) = 0 /\ Len(queue) = 0
    BY <1>1
  <1>3. Len(Way) = 0
    <2>1. Way = <<>>
      BY <1>1, ConcatEmptySeq, EmptySeq DEF Way
    <2> QED
      BY <2>1
  <1>4. VisionTypeOK
    <2>1. /\ frames \in Seq([view : 0..view, cmd : Cmd \cup {NoCmd}]) /\ Len(frames) <= MaxFrames
          /\ {ring, wire} \subseteq Seq(Message) /\ Len(ring) <= RingCap
          /\ queue \in Seq(1..Len(frames)) /\ Len(queue) <= QueueCap
      BY <1>1, <1>2, VisionAssumption
    <2>2. mv \in [known : BOOLEAN, base : 0..Len(frames), required : BOOLEAN] /\ (~mv.known => mv = Fresh)
          /\ svc \in [at : {"idle", "create", "measure"}, frame : 0..Len(frames)]
          /\ (svc.at = "idle") = (svc.frame = 0)
      BY <1>1, <1>2 DEF Fresh, Idle
    <2>3. task \in [Cmd -> {"new", "begun", "shot", "over"}] /\ coverage \in [Frame -> Seq({"none", "reporting"})]
      BY <1>1
    <2> QED
      BY <1>1, <2>1, <2>2, <2>3 DEF VisionTypeOK
  <1>5. MessagesFit /\ ViewsGrow
    BY <1>2, <1>3 DEF MessagesFit, ViewsGrow
  <1>6. OwnFrame
    BY <1>1, <1>2 DEF OwnFrame
  <1>7. OneAnswer
    BY <1>1, <1>3 DEF OneAnswer
  <1>8. FramesInOrder
    BY <1>1, <1>2, <1>3 DEF FramesInOrder, Idle
  <1>9. OneInterpretation /\ Unmeasured
    BY <1>1 DEF OneInterpretation, Unmeasured
  <1>10. MovesAreTold
    <2>1. \A i \in 0..Len(Way) : i = 0
      BY <1>3
    <2>2. BaseView(0) = 0 /\ ViewOf(svc.frame) = 0
      BY <1>1 DEF BaseView, ViewOf, Fresh, Idle
    <2>3. \A j \in 1..(Len(Way) + 1) : SeenView(j) = 0
      BY <1>1, <1>3 DEF SeenView
    <2> QED
      BY <1>2, <1>3, <2>1, <2>2, <2>3 DEF MovesAreTold
  <1> QED
    BY <1>4, <1>5, <1>6, <1>7, <1>8, <1>9, <1>10 DEF VisionInv

\* Every step keeps the invariant.
LEMMA VisionStep ==
  ASSUME VisionInv, [Next]_vars
  PROVE  VisionInv'
  <1>1. CASE Stream
    BY <1>1, StreamKeepsAll
  <1>2. CASE \E c \in Cmd : Task(c)
    <2>1. PICK c \in Cmd : Task(c)
      BY <1>2
    <2> QED
      BY <2>1, ShootKeepsAll, CapturedKeepsAll, RebaselineKeepsAll, EndKeepsAll DEF Task
  <1>3. CASE Link \/ Break \/ Restart \/ \E c \in Cmd : Begin(c)
    BY <1>3, LinkKeepsAll
  <1>4. CASE Hear
    BY <1>4, HearFrameKeepsAll, HearAnswerKeepsAll DEF Hear
  <1>5. CASE Service
    BY <1>5, TakeKeepsAll, CreateKeepsAll, NoteKeepsAll DEF Service
  <1>6. CASE UNCHANGED vars
    <2>1. /\ view' = view /\ frames' = frames /\ task' = task /\ role' = role
          /\ conn' = conn /\ ring' = ring /\ wire' = wire /\ mv' = mv /\ queue' = queue /\ svc' = svc
          /\ coverage' = coverage /\ heard' = heard /\ unheard' = unheard /\ forgot' = forgot /\ troubles' = troubles
      BY <1>6, Zenon DEF vars, cameraVars, linkVars, serviceVars, logVars, historyVars
    <2>2. VisionTypeOK /\ LinkTypeOK'
      BY <2>1 DEF VisionInv, VisionTypeOK, LinkTypeOK
    <2>3. HubWaits /\ Way' = Way /\ role' \in BOOLEAN /\ troubles' \in Nat
      BY <2>1, <2>2 DEF HubWaits, Way, VisionTypeOK
    <2> QED
      BY <2>1, <2>2, <2>3, NothingMoves, SilentKeepsAll
  <1> QED
    BY <1>1, <1>2, <1>3, <1>4, <1>5, <1>6 DEF Next

\* The invariant of the vision profile: whatever is on its way from the camera is
\* true of it and in order, no command is answered twice, no frame is measured
\* twice by the two places that measure (interpreter.py), and between a baseline
\* and a frame of a later view there is the word of the move.
THEOREM VisionIsSound == Spec => []VisionInv
  <1>1. Init => VisionInv
    BY VisionStarts
  <1>2. VisionInv /\ [Next]_vars => VisionInv'
    BY VisionStep
  <1> QED
    BY <1>1, <1>2, PTL DEF Spec

\* Nobody measures but the interpreter of results, the frame of the command that is
\* heard, and FoamService, the frame it has in its hands.
LEMMA WhoMeasures ==
  ASSUME VisionInv, [Next]_vars, NEW f \in Frame, coverage'[f] # coverage[f]
  PROVE  /\ Measure(f)
         /\ f = svc.frame \/ (wire # <<>> /\ f = Heard.frame /\ wire' = Tail(wire) /\ ring' = ring)
  <1>1. VisionTypeOK /\ coverage \in [Frame -> Seq({"none", "reporting"})]
    BY DEF VisionInv, VisionTypeOK
  <1>2. coverage' # coverage
    OBVIOUS
  <1>3. \A g : Measure(g) /\ coverage'[f] # coverage[f] => g = f
    BY <1>1 DEF Measure
  <1>4. CASE HearResult
    <2>1. wire # <<>> /\ wire' = Tail(wire) /\ ring' = ring
      BY <1>4, Zenon DEF HearResult, Hears
    <2>2. Interpret(Heard.cmd)
      BY <1>4 DEF HearResult
    <2>3. Measure(Heard.frame)
      BY <1>2, <2>2, Zenon DEF Interpret, Gone
    <2> QED
      BY <1>3, <2>1, <2>3
  <1>5. CASE Note
    <2>1. Measure(svc.frame)
      BY <1>2, <1>5, Zenon DEF Note, Gone
    <2> QED
      BY <1>3, <2>1
  <1>6. CASE Stream \/ Link \/ Break \/ Restart \/ \E c \in Cmd : Begin(c) \/ Task(c)
    BY <1>2, <1>6, Zenon DEF Stream, Link, Dial, Adopted, AdoptedInVain, Quarantined, Break, Restart, Begin, Task,
         Shoot, Captured, Rebaseline, GrabFails, Configure, logVars
  <1>7. CASE HearFrame \/ HearFailure \/ Take \/ Create
    BY <1>2, <1>7, Zenon DEF HearFrame, HearFailure, Take, Create, logVars
  <1>8. CASE UNCHANGED vars
    BY <1>2, <1>8, Zenon DEF vars, logVars
  <1> QED
    BY <1>4, <1>5, <1>6, <1>7, <1>8, Zenon DEF Next, Hear, Service

\* A step that finds a frame fit for use measures it against a baseline of its view.
LEMMA FitIsNotBehind ==
  ASSUME VisionInv, [Next]_vars, NEW f \in Frame, FoundFit(f), ~forgot
  PROVE  ViewOf(mv.base) >= frames[f].view
  <1>1. VisionTypeOK /\ MessagesFit /\ MovesAreTold /\ coverage \in [Frame -> Seq({"none", "reporting"})]
    BY DEF VisionInv, VisionTypeOK
  <1>2. /\ Measure(f)
        /\ f = svc.frame \/ (wire # <<>> /\ f = Heard.frame /\ wire' = Tail(wire) /\ ring' = ring)
    BY WhoMeasures DEF FoundFit
  <1>3. ~mv.required
    <2> SUFFICES ASSUME mv.required
                 PROVE  FALSE
      OBVIOUS
    <2>1. coverage'[f] = Append(coverage[f], "none")
      BY <1>1, <1>2 DEF Measure
    <2>2. coverage[f] \in Seq({"none", "reporting"})
      BY <1>1
    <2>3. Last(Append(coverage[f], "none")) = "none"
      BY <2>2, AppendProperties, LenProperties DEF Last
    <2> QED
      BY <2>1, <2>3 DEF FoundFit
  <1>4. BaseAt(0) /\ BaseView(0) = ViewOf(mv.base)
    BY <1>3 DEF BaseAt, BaseView
  <1>5. Len(Way) \in Nat /\ 0 \in 0..Len(Way)
    BY <1>1, WayFacts
  <1>6. /\ \A j \in (0 + 1)..(Len(Way) + 1) :
             SeenView(j) <= BaseView(0) \/ \E k \in (0 + 1)..(j - 1) : IsMove(Way[k])
        /\ ViewOf(svc.frame) <= BaseView(0)
    BY <1>1, <1>4, <1>5, Zenon DEF MovesAreTold
  <1>7. ViewOf(f) <= BaseView(0)
    <2>1. CASE f = svc.frame
      BY <1>6, <2>1
    <2>2. CASE wire # <<>> /\ f = Heard.frame /\ wire' = Tail(wire) /\ ring' = ring
      <3>1. 1 \in 1..Len(Way) /\ Way[1] = Heard
        BY <1>1, <2>2, HeardFacts
      <3>2. SeenView(1) = ViewOf(f)
        BY <1>5, <2>2, <3>1 DEF SeenView
      <3>3. 1 \in (0 + 1)..(Len(Way) + 1) /\ (0 + 1)..(1 - 1) = {}
        BY <1>5
      <3> QED
        BY <1>6, <3>2, <3>3
    <2> QED
      BY <1>2, <2>1, <2>2
  <1>8. f # 0 /\ ViewOf(f) = frames[f].view
    BY VisionAssumption DEF Frame, ViewOf
  <1>9. ViewOf(f) \in Int /\ ViewOf(mv.base) \in Int
    <2>1. frames \in Seq([view : 0..view, cmd : Cmd \cup {NoCmd}]) /\ Len(frames) \in Nat /\ view \in Nat
      BY <1>1, LenProperties DEF VisionTypeOK
    <2>2. \A g \in 1..Len(frames) : frames[g].view \in Int
      <3> TAKE g \in 1..Len(frames)
      <3>1. frames[g] \in [view : 0..view, cmd : Cmd \cup {NoCmd}]
        BY <2>1, ElementOfSeq
      <3> QED
        BY <2>1, <3>1
    <2>3. mv.base \in 0..Len(frames) /\ svc.frame \in 0..Len(frames)
      BY <1>1 DEF VisionTypeOK
    <2>4. f \in 1..Len(frames)
      <3>1. CASE f = svc.frame
        BY <1>8, <2>1, <2>3, <3>1
      <3>2. CASE wire # <<>> /\ f = Heard.frame /\ wire' = Tail(wire) /\ ring' = ring
        <4>1. Fits(Heard) /\ Heard \in Message
          BY <1>1, <3>2, HeardFacts DEF MessagesFit
        <4>2. f <= Len(frames) /\ f \in Nat
          BY <3>2, <4>1, VisionAssumption DEF Fits, Message
        <4> QED
          BY <1>8, <2>1, <4>2
      <3> QED
        BY <1>2, <3>1, <3>2
    <2> QED
      BY <2>1, <2>2, <2>3, <2>4 DEF ViewOf
  <1> QED
    BY <1>4, <1>7, <1>8, <1>9

\* A frame that is found fit for use shows no later view than the baseline it was
\* measured against, as long as the hub was told of every move and remembers it:
\* required is taken back by a new baseline alone (interpreter.py).
THEOREM VisionNeverBehind == Spec => NeverBehind
  <1>1. VisionInv /\ [Next]_vars =>
          [\A f \in Frame : FoundFit(f) => forgot \/ ViewOf(mv.base) >= frames[f].view]_vars
    BY FitIsNotBehind, Zenon
  <1> QED
    BY <1>1, VisionIsSound, PTL DEF Spec, NeverBehind

------------------------------------------------------------------------------
(***************************************************************************)
(* The interpreter of results.                                             *)
(***************************************************************************)
\* A pair that is valid has an absorbance.
LEMMA AbsorbanceIsInt ==
  ASSUME NEW n \in Names, NEW p \in Pairs[n]
  PROVE  Absorbance(p) \in Int
  <1>1. p \in Volt \X Volt
    BY InterpreterAssumption
  <1>2. p[1].exp \in Int /\ p[2].exp \in Int
    BY <1>1 DEF Volt
  <1> QED
    BY <1>2 DEF Absorbance, Eps

\* A run captures what it should.
LEMMA CaptureFacts ==
  ASSUME NEW names \in SUBSET Names, NEW vin \in Captures(names), NEW n \in names
  PROVE  vin[n] \in Pairs[n] /\ Absorbance(vin[n]) \in Int
  <1>1. vin[n] \in Pairs[n] /\ n \in Names
    BY DEF Captures
  <1> QED
    BY <1>1, AbsorbanceIsInt

\* The names of what a run captures, for each analyte.
LEMMA NamesOf ==
  ASSUME NEW a \in Analyte
  PROVE  /\ PairsOf(a) \in SUBSET Names /\ SampleNames(a) \in SUBSET Names
         /\ \A k \in CurvesOf(a) : DiwOf[k] \in PairsOf(a) /\ StdOf[k] \in PairsOf(a)
  <1>1. \A k \in CurvesOf(a) : DiwOf[k] \in Names /\ StdOf[k] \in Names
    BY DEF CurvesOf, DiwOf, StdOf, Names
  <1> QED
    BY <1>1 DEF PairsOf, SampleNames, Names

\* A curve that was fitted runs through its standard and through its deionized water.
LEMMA CurveFacts ==
  ASSUME NEW std \in Int, std > 0, NEW atStd, NEW atDiw,
         Absorbance(atStd) \in Int, Absorbance(atDiw) \in Int,
         Curve(std, atStd, atDiw) # NoCurve
  PROVE  LET c == Curve(std, atStd, atDiw) IN
         /\ c.std = std /\ c.den \in Int /\ c.den # 0 /\ c.diw \in Int
         /\ Value(c, atStd).den = c.den /\ Value(c, atStd).num = std * c.den
         /\ Value(c, atDiw).num = 0
  <1>1. Curve(std, atStd, atDiw) = Line(std, atStd, atDiw) /\ Absorbance(atStd) # Absorbance(atDiw)
    BY DEF Curve
  <1>2. /\ Line(std, atStd, atDiw).std = std
        /\ Line(std, atStd, atDiw).den = Absorbance(atStd) - Absorbance(atDiw)
        /\ Line(std, atStd, atDiw).diw = Absorbance(atDiw)
    BY DEF Line
  <1>3. std * (Absorbance(atDiw) - Absorbance(atDiw)) = 0
    <2>1. Absorbance(atDiw) - Absorbance(atDiw) = 0
      OBVIOUS
    <2>2. std * 0 = 0
      OBVIOUS
    <2> QED
      BY <2>1, <2>2
  <1> QED
    BY <1>1, <1>2, <1>3 DEF Value

\* The curves of a calibration that is in force.
LEMMA CalFacts ==
  ASSUME InterpreterTypeOK, CalFitted, cal # NoCal
  PROVE  /\ cal.std \in Int /\ cal.std > 0 /\ DOMAIN cal.fit = CurvesOf(cal.analyte)
         /\ \A k \in CurvesOf(cal.analyte) :
              /\ cal.fit[k] = Curve(cal.std, cal.vin[StdOf[k]], cal.vin[DiwOf[k]]) /\ cal.fit[k] # NoCurve
              /\ Absorbance(cal.vin[StdOf[k]]) \in Int /\ Absorbance(cal.vin[DiwOf[k]]) \in Int
  <1>1. /\ cal.analyte \in Analyte /\ cal.std \in Stds /\ cal.vin \in Captures(PairsOf(cal.analyte))
        /\ cal.fit = Fit(cal.analyte, cal.std, cal.vin)
        /\ ~FitFails(cal.analyte, cal.std, cal.vin)
    BY DEF InterpreterTypeOK, CalFitted
  <1>2. cal.std \in Int /\ cal.std > 0
    <2>1. cal.std \in Int
      BY <1>1, InterpreterAssumption
    <2>2. ~(cal.std <= 0)
      BY <1>1, Zenon DEF FitFails
    <2> QED
      BY <2>1, <2>2
  <1>3. DOMAIN cal.fit = CurvesOf(cal.analyte)
        /\ \A k \in CurvesOf(cal.analyte) : cal.fit[k] = Curve(cal.std, cal.vin[StdOf[k]], cal.vin[DiwOf[k]])
    BY <1>1 DEF Fit
  <1>4. \A k \in CurvesOf(cal.analyte) : cal.fit[k] # NoCurve
    BY <1>1 DEF FitFails
  <1>5. \A k \in CurvesOf(cal.analyte) :
          Absorbance(cal.vin[StdOf[k]]) \in Int /\ Absorbance(cal.vin[DiwOf[k]]) \in Int
    BY <1>1, NamesOf, CaptureFacts
  <1> QED
    BY <1>2, <1>3, <1>4, <1>5

\* A calibration reads its own pairs back, whatever they read.
LEMMA StandardsAreReadBack ==
  ASSUME InterpreterTypeOK, CalFitted
  PROVE  StandardsReadBack
  <1> SUFFICES ASSUME cal # NoCal, NEW k \in DOMAIN cal.fit
               PROVE  /\ Value(cal.fit[k], cal.vin[StdOf[k]]).den # 0
                      /\ Value(cal.fit[k], cal.vin[StdOf[k]]).num
                           = cal.std * Value(cal.fit[k], cal.vin[StdOf[k]]).den
                      /\ Value(cal.fit[k], cal.vin[DiwOf[k]]).num = 0
    BY DEF StandardsReadBack
  <1>1. /\ cal.std \in Int /\ cal.std > 0
        /\ cal.fit[k] = Curve(cal.std, cal.vin[StdOf[k]], cal.vin[DiwOf[k]]) /\ cal.fit[k] # NoCurve
        /\ Absorbance(cal.vin[StdOf[k]]) \in Int /\ Absorbance(cal.vin[DiwOf[k]]) \in Int
    BY CalFacts
  <1>2. PICK std, s, d : std \in Int /\ std = cal.std /\ s = cal.vin[StdOf[k]] /\ d = cal.vin[DiwOf[k]]
    BY <1>1
  <1>3. LET c == Curve(std, s, d) IN
        /\ c.std = std /\ c.den \in Int /\ c.den # 0 /\ c.diw \in Int
        /\ Value(c, s).den = c.den /\ Value(c, s).num = std * c.den
        /\ Value(c, d).num = 0
    BY <1>1, <1>2, CurveFacts
  <1> QED
    BY <1>1, <1>2, <1>3

\* A fit without errors is complete for its analyte, so that both tests of it agree.
LEMMA GatesAgree ==
  ASSUME InterpreterTypeOK, CalFitted
  PROVE  GateAgrees
  <1> SUFFICES ASSUME cal # NoCal, cal.analyte = analyte
               PROVE  Complete(analyte, cal.fit)
    BY DEF GateAgrees, GateOpen
  <1> QED
    BY CalFacts DEF Complete

\* With a calibration that will do, a value is there and is a fraction.
LEMMA ValueFacts ==
  ASSUME InterpreterTypeOK, CalFitted, NEW a \in Analyte, Ready(a, cal), NEW k \in CurvesOf(a) \ {"nox_5x"},
         NEW p, Absorbance(p) \in Int
  PROVE  /\ Value(cal.fit[k], p).num \in Int /\ Value(cal.fit[k], p).den \in Int
         /\ Value(cal.fit[k], p).den # 0 /\ Value(cal.fit[k], p) # NoValue
  <1>1. cal # NoCal /\ k \in DOMAIN cal.fit /\ cal.fit[k] # NoCurve
    BY DEF Ready, Complete
  <1>2. /\ cal.std \in Int /\ cal.std > 0
        /\ cal.fit[k] = Curve(cal.std, cal.vin[StdOf[k]], cal.vin[DiwOf[k]])
        /\ Absorbance(cal.vin[StdOf[k]]) \in Int /\ Absorbance(cal.vin[DiwOf[k]]) \in Int
    BY <1>1, CalFacts
  <1>3. PICK std, s, d : std \in Int /\ std = cal.std /\ s = cal.vin[StdOf[k]] /\ d = cal.vin[DiwOf[k]]
    BY <1>2
  <1>4. LET c == Curve(std, s, d) IN
        /\ c.std = std /\ c.den \in Int /\ c.den # 0 /\ c.diw \in Int
    BY <1>1, <1>2, <1>3, CurveFacts
  <1>5. /\ cal.fit[k].std \in Int /\ cal.fit[k].den \in Int /\ cal.fit[k].den # 0 /\ cal.fit[k].diw \in Int
    BY <1>2, <1>3, <1>4
  <1>6. Value(cal.fit[k], p).den = cal.fit[k].den
        /\ Value(cal.fit[k], p).num = cal.fit[k].std * (Absorbance(p) - cal.fit[k].diw)
    BY DEF Value
  <1>7. cal.fit[k].std * (Absorbance(p) - cal.fit[k].diw) \in Int
    BY <1>5
  <1> QED
    BY <1>5, <1>6, <1>7 DEF NoValue

\* The integers have no zero divisors.
LEMMA ProductNotZero ==
  ASSUME NEW x \in Int, NEW y \in Int, x # 0, y # 0
  PROVE  x * y # 0
  OBVIOUS

\* Nothing was read.
LEMMA NothingFacts ==
  ASSUME NEW a \in Analyte
  PROVE  /\ \E n \in Nat : DOMAIN Channels(a) = 1..n
         /\ Len(Nothing(a)) \in Nat
         /\ \A k \in 1..Len(Nothing(a)) : Nothing(a)[k].value = NoValue
  <1>1. \E n \in Nat : DOMAIN Channels(a) = 1..n
    <2>1. CASE a \in Core
      <3>1. DOMAIN Channels(a) = 1..1
        BY <2>1 DEF Channels
      <3> QED
        BY <3>1
    <2>2. CASE a \notin Core
      <3>1. DOMAIN Channels(a) = 1..3
        BY <2>2 DEF Channels
      <3> QED
        BY <3>1
    <2> QED
      BY <2>1, <2>2
  <1>2. PICK n \in Nat : DOMAIN Channels(a) = 1..n
    BY <1>1
  <1>3. Nothing(a) = [k \in 1..n |-> [name |-> Channels(a)[k], value |-> NoValue]]
    BY <1>2 DEF Nothing
  <1>4. Len(Nothing(a)) = n
    BY <1>3
  <1> QED
    BY <1>1, <1>3, <1>4

\* What a reading is: nothing and an error; or one value; or two, and a third that
\* is their difference, of numbers that are not negative, or missing and an error.
ReadingShape(a, r) ==
  \/ r.error /\ r.channels = Nothing(a)
  \/ \E v : v # NoValue /\ ~r.error /\ a \in Core /\ r.channels = <<[name |-> a, value |-> v]>>
  \/ \E x, y, z :
       /\ r.channels = <<[name |-> "nox", value |-> x], [name |-> "no2", value |-> y], [name |-> "no3", value |-> z]>>
       /\ x # NoValue /\ y # NoValue
       /\ \/ r.error /\ z = NoValue
          \/ ~r.error /\ z # NoValue /\ z.den # 0 /\ ~Negative(x) /\ ~Negative(y) /\ ~Negative(z)

\* A reading has the channels of its analyte, and a value in each unless there is an
\* error.
LEMMA ReadingFacts ==
  ASSUME InterpreterTypeOK, CalFitted, NEW a \in Analyte, NEW vin \in Captures(SampleNames(a))
  PROVE  LET r == ReadWith(a, cal, vin) IN
         /\ r.error \in BOOLEAN /\ ReadingShape(a, r)
         /\ ~r.error => Ready(a, cal)
  <1> SUFFICES ASSUME NEW r, r = ReadWith(a, cal, vin)
               PROVE  /\ r.error \in BOOLEAN /\ ReadingShape(a, r)
                      /\ ~r.error => Ready(a, cal)
    OBVIOUS
  <1>1. CASE r = Reading(Nothing(a), TRUE)
    <2>1. r.error = TRUE /\ r.channels = Nothing(a)
      BY <1>1 DEF Reading
    <2> QED
      BY <2>1 DEF ReadingShape
  <1>2. CASE Ready(a, cal) /\ a \in Core
    <2>1. r = ReadSingle(a, cal.fit, vin)
      BY <1>2 DEF ReadWith, Read
    <2>2. CASE Valid(vin.single)
      <3> DEFINE v == Value(cal.fit.single, vin.single)
      <3>1. r = Reading(<<[name |-> a, value |-> v]>>, FALSE)
        BY <2>1, <2>2 DEF ReadSingle
      <3>2. v # NoValue
        <4>1. "single" \in CurvesOf(a) \ {"nox_5x"} /\ "single" \in SampleNames(a)
          BY <1>2 DEF CurvesOf, SampleNames
        <4>2. Absorbance(vin.single) \in Int
          BY <4>1, NamesOf, CaptureFacts
        <4> QED
          BY <1>2, <4>1, <4>2, ValueFacts
      <3> HIDE DEF v
      <3>3. r.error = FALSE /\ r.channels = <<[name |-> a, value |-> v]>>
        BY <3>1 DEF Reading
      <3> QED
        BY <1>2, <3>2, <3>3 DEF ReadingShape
    <2>3. CASE ~Valid(vin.single)
      BY <1>1, <2>1, <2>3 DEF ReadSingle
    <2> QED
      BY <2>2, <2>3
  <1>3. CASE Ready(a, cal) /\ a = "NOX"
    <2>1. r = ReadNox(cal.fit, vin)
      BY <1>3 DEF ReadWith, Read, Core
    <2>2. CASE Valid(vin.nox) /\ Valid(vin.no2)
      <3> DEFINE x == Value(cal.fit.nox, vin.nox)
                 y == Value(cal.fit.no2, vin.no2)
                 no3 == Nitrate(x, y)
      <3>1. r = Reading(<<[name |-> "nox", value |-> x], [name |-> "no2", value |-> y],
                          [name |-> "no3", value |-> no3.value]>>, no3.error)
        BY <2>1, <2>2, Zenon DEF ReadNox
      <3>2. /\ x.num \in Int /\ x.den \in Int /\ x.den # 0 /\ x # NoValue
            /\ y.num \in Int /\ y.den \in Int /\ y.den # 0 /\ y # NoValue
        <4>1. {"nox", "no2"} \subseteq CurvesOf(a) \ {"nox_5x"} /\ {"nox", "no2"} \subseteq SampleNames(a)
          BY <1>3 DEF CurvesOf, SampleNames, Core
        <4>2. Absorbance(vin.nox) \in Int /\ Absorbance(vin.no2) \in Int
          BY <4>1, NamesOf, CaptureFacts
        <4> QED
          BY <1>3, <4>1, <4>2, ValueFacts
      <3> HIDE DEF x, y
      <3>3. Minus(x, y).den # 0 /\ Minus(x, y) # NoValue
        <4>1. Minus(x, y).den = x.den * y.den
          BY DEF Minus
        <4>2. x.den * y.den # 0
          BY <3>2, ProductNotZero
        <4> QED
          BY <4>1, <4>2 DEF NoValue
      <3>4. \/ no3.error = TRUE /\ no3.value = NoValue
            \/ /\ no3.error = FALSE /\ no3.value = Minus(x, y)
               /\ ~Negative(x) /\ ~Negative(y) /\ ~Negative(Minus(x, y))
        BY DEF Nitrate
      <3> HIDE DEF no3
      <3>5. /\ r.error = no3.error
            /\ r.channels = <<[name |-> "nox", value |-> x], [name |-> "no2", value |-> y],
                              [name |-> "no3", value |-> no3.value]>>
        BY <3>1 DEF Reading
      <3>6. CASE no3.error = TRUE /\ no3.value = NoValue
        <4>1. ReadingShape(a, r)
          BY <3>2, <3>5, <3>6, Zenon DEF ReadingShape
        <4> QED
          BY <1>3, <3>5, <3>6, <4>1
      <3>7. CASE /\ no3.error = FALSE /\ no3.value = Minus(x, y)
                 /\ ~Negative(x) /\ ~Negative(y) /\ ~Negative(Minus(x, y))
        <4>1. ReadingShape(a, r)
          BY <3>2, <3>3, <3>5, <3>7, Zenon DEF ReadingShape
        <4> QED
          BY <1>3, <3>5, <3>7, <4>1
      <3> QED
        BY <3>4, <3>6, <3>7
    <2>3. CASE ~(Valid(vin.nox) /\ Valid(vin.no2))
      BY <1>1, <1>3, <2>1, <2>3 DEF ReadNox
    <2> QED
      BY <2>2, <2>3
  <1>4. CASE ~Ready(a, cal)
    BY <1>1, <1>4 DEF ReadWith
  <1> QED
    BY <1>2, <1>3, <1>4 DEF Analyte

\* The first channels of a reading.
LEMMA FirstChannels ==
  ASSUME NEW s, NEW n \in Nat
  PROVE  /\ DOMAIN SubSeq(s, 1, n) = 1..n
         /\ \A k \in 1..n : SubSeq(s, 1, n)[k] = s[k]
  <1> DEFINE S == {s[i] : i \in 1..n}
  <1>1. \A i \in 1..n : s[i] \in S
    OBVIOUS
  <1> HIDE DEF S
  <1>2. /\ SubSeq(s, 1, n) \in Seq(S)
        /\ Len(SubSeq(s, 1, n)) = IF 1 <= n THEN n - 1 + 1 ELSE 0
        /\ \A i \in 1..n - 1 + 1 : SubSeq(s, 1, n)[i] = s[1 + i - 1]
    BY <1>1, SubSeqProperties
  <1>3. Len(SubSeq(s, 1, n)) = n
    BY <1>2
  <1>4. DOMAIN SubSeq(s, 1, n) = 1..Len(SubSeq(s, 1, n))
    BY <1>2, LenProperties
  <1> QED
    BY <1>2, <1>3, <1>4

\* All of a sequence is its first channels, and a reading is one.
LEMMA WholeSequence ==
  ASSUME NEW S, NEW s \in Seq(S)
  PROVE  Len(s) \in Nat /\ s = SubSeq(s, 1, Len(s))
  <1>1. Len(s) \in Nat /\ DOMAIN s = 1..Len(s) /\ \A k \in 1..Len(s) : s[k] \in S
    BY LenProperties, ElementOfSeq
  <1>2. DOMAIN SubSeq(s, 1, Len(s)) = 1..Len(s) /\ \A k \in 1..Len(s) : SubSeq(s, 1, Len(s))[k] = s[k]
    BY <1>1, FirstChannels
  <1>3. SubSeq(s, 1, Len(s)) \in Seq(S) /\ Len(SubSeq(s, 1, Len(s))) = Len(s)
    BY <1>1, SubSeqProperties
  <1> QED
    BY <1>1, <1>2, <1>3, SeqEqual

\* The channels of a reading are a sequence.
LEMMA ReadingIsSequence ==
  ASSUME InterpreterTypeOK, CalFitted, NEW a \in Analyte, NEW vin \in Captures(SampleNames(a))
  PROVE  \E S : ReadWith(a, cal, vin).channels \in Seq(S)
  <1> SUFFICES ASSUME NEW r, r = ReadWith(a, cal, vin)
               PROVE  \E S : r.channels \in Seq(S)
    OBVIOUS
  <1>1. ReadingShape(a, r)
    BY ReadingFacts
  <1>2. CASE r.channels = Nothing(a)
    <2>1. PICK n \in Nat : DOMAIN Channels(a) = 1..n
      BY NothingFacts
    <2> DEFINE S == {[name |-> Channels(a)[k], value |-> NoValue] : k \in 1..n}
    <2>2. Nothing(a) \in [1..n -> S]
      BY <2>1 DEF Nothing
    <2> HIDE DEF S
    <2>3. [1..n -> S] \in {[1..i -> S] : i \in Nat}
      OBVIOUS
    <2>4. Nothing(a) \in UNION {[1..i -> S] : i \in Nat}
      BY <2>2, <2>3, Zenon
    <2>5. Nothing(a) \in Seq(S)
      BY <2>4, SeqDef, Zenon
    <2> QED
      BY <1>2, <2>5
  <1>3. ASSUME NEW v, r.channels = <<[name |-> a, value |-> v]>>
        PROVE  \E S : r.channels \in Seq(S)
    <2>1. r.channels \in Seq({[name |-> a, value |-> v]})
      BY <1>3
    <2> QED
      BY <2>1
  <1>4. ASSUME NEW x, NEW y, NEW z,
               r.channels = <<[name |-> "nox", value |-> x], [name |-> "no2", value |-> y],
                              [name |-> "no3", value |-> z]>>
        PROVE  \E S : r.channels \in Seq(S)
    <2>1. r.channels \in Seq({[name |-> "nox", value |-> x], [name |-> "no2", value |-> y],
                              [name |-> "no3", value |-> z]})
      BY <1>4
    <2> QED
      BY <2>1
  <1> QED
    BY <1>1, <1>2, <1>3, <1>4, Zenon DEF ReadingShape

\* Whatever was read with a fitted calibration is sound, also in part.
LEMMA WhatWasReadIsSound ==
  ASSUME InterpreterTypeOK, CalFitted, SeenWasRead
  PROVE  ControlHasValue /\ NitrateValid
  <1>1. CASE about.analyte = "none"
    <2>1. seen = <<>> /\ about = NoSample
      BY <1>1 DEF SeenWasRead
    <2>2. ControlHasValue
      BY <2>1 DEF ControlHasValue, NoSample
    <2>3. Observed("no3") = {}
      BY <2>1 DEF Observed
    <2> QED
      BY <2>2, <2>3 DEF NitrateValid
  <1>2. CASE about.analyte # "none"
    <2>1. about.analyte \in Analyte /\ about.cal = cal
      BY <1>2 DEF SeenWasRead
    <2>2. PICK vin \in Captures(SampleNames(about.analyte)) :
            /\ about.use = Use(Ready(about.analyte, cal), ReadWith(about.analyte, cal, vin))
            /\ \E n \in 0..Len(ReadWith(about.analyte, cal, vin).channels) :
                 seen = SubSeq(ReadWith(about.analyte, cal, vin).channels, 1, n)
      BY <1>2 DEF SeenWasRead
    <2>3. PICK a, r : a \in Analyte /\ a = about.analyte /\ r = ReadWith(about.analyte, cal, vin)
      BY <2>1
    <2>4. /\ about.use = Use(Ready(a, cal), r)
          /\ \E n \in 0..Len(r.channels) : seen = SubSeq(r.channels, 1, n)
      BY <2>2, <2>3
    <2>5. r.error \in BOOLEAN /\ ReadingShape(a, r) /\ (~r.error => Ready(a, cal))
      BY <2>3, ReadingFacts
    <2>6. Len(r.channels) \in Nat
      <3>1. CASE r.channels = Nothing(a)
        BY <3>1, NothingFacts
      <3>2. CASE \E v : r.channels = <<[name |-> a, value |-> v]>>
        BY <3>2
      <3>3. CASE \E x, y, z : r.channels = <<[name |-> "nox", value |-> x], [name |-> "no2", value |-> y],
                                             [name |-> "no3", value |-> z]>>
        BY <3>3
      <3> QED
        BY <2>5, <3>1, <3>2, <3>3, Zenon DEF ReadingShape
    <2>7. PICK n \in 0..Len(r.channels) : seen = SubSeq(r.channels, 1, n)
      BY <2>4
    <2>8. n \in Nat /\ DOMAIN seen = 1..n /\ \A k \in 1..n : seen[k] = r.channels[k] /\ k \in 1..Len(r.channels)
      BY <2>6, <2>7, FirstChannels
    <2>9. ControlHasValue
      <3> SUFFICES ASSUME about.use = "control"
                   PROVE  /\ about.cal # NoCal /\ Complete(about.analyte, about.cal.fit)
                          /\ \A k \in DOMAIN seen : seen[k].value # NoValue
        BY DEF ControlHasValue
      <3>1. Ready(a, cal) /\ ~r.error
        BY <2>4 DEF Use
      <3>2. about.cal # NoCal /\ Complete(about.analyte, about.cal.fit)
        BY <2>1, <2>3, <3>1 DEF Ready
      <3>3. ASSUME NEW k \in DOMAIN seen
            PROVE  seen[k].value # NoValue
        <4>1. k \in 1..Len(r.channels) /\ seen[k] = r.channels[k]
          BY <2>8, <3>3
        <4>2. CASE \E v : v # NoValue /\ r.channels = <<[name |-> a, value |-> v]>>
          BY <4>1, <4>2
        <4>3. CASE \E x, y, z : /\ x # NoValue /\ y # NoValue /\ z # NoValue
                                /\ r.channels = <<[name |-> "nox", value |-> x], [name |-> "no2", value |-> y],
                                                  [name |-> "no3", value |-> z]>>
          BY <4>1, <4>3
        <4> QED
          BY <2>5, <3>1, <4>2, <4>3, Zenon DEF ReadingShape
      <3> QED
        BY <3>2, <3>3
    <2>10. NitrateValid
      <3> SUFFICES ASSUME NEW k \in DOMAIN seen, seen[k].name = "no3", seen[k].value # NoValue,
                          NEW j \in DOMAIN seen
                   PROVE  /\ seen[k].value.den # 0 /\ ~Negative(seen[k].value)
                          /\ seen[j].name \in {"nox", "no2"} => seen[j].value # NoValue /\ ~Negative(seen[j].value)
        BY DEF NitrateValid, Observed
      <3>1. /\ k \in 1..Len(r.channels) /\ r.channels[k].name = "no3" /\ r.channels[k].value # NoValue
            /\ j \in 1..Len(r.channels) /\ seen[j] = r.channels[j] /\ seen[k] = r.channels[k]
        BY <2>8
      <3>2. r.channels # Nothing(a)
        <4> SUFFICES ASSUME r.channels = Nothing(a)
                     PROVE  FALSE
          OBVIOUS
        <4>1. k \in 1..Len(Nothing(a)) /\ Nothing(a)[k].value # NoValue
          BY <3>1
        <4> QED
          BY <2>3, <4>1, NothingFacts
      <3>3. CASE \E v : a \in Core /\ r.channels = <<[name |-> a, value |-> v]>>
        BY <3>1, <3>3 DEF Core
      <3>4. CASE \E x, y, z :
              /\ r.channels = <<[name |-> "nox", value |-> x], [name |-> "no2", value |-> y],
                                [name |-> "no3", value |-> z]>>
              /\ x # NoValue /\ y # NoValue
              /\ z = NoValue \/ (z.den # 0 /\ ~Negative(x) /\ ~Negative(y) /\ ~Negative(z))
        <4>1. PICK x, y, z :
              /\ r.channels = <<[name |-> "nox", value |-> x], [name |-> "no2", value |-> y],
                                [name |-> "no3", value |-> z]>>
              /\ x # NoValue /\ y # NoValue
              /\ z = NoValue \/ (z.den # 0 /\ ~Negative(x) /\ ~Negative(y) /\ ~Negative(z))
          BY <3>4
        <4>2. k = 3 /\ r.channels[k].value = z
          BY <3>1, <4>1
        <4>3. z.den # 0 /\ ~Negative(x) /\ ~Negative(y) /\ ~Negative(z)
          BY <3>1, <4>1, <4>2
        <4>4. r.channels[j].name \in {"nox", "no2"} => r.channels[j].value = x \/ r.channels[j].value = y
          BY <3>1, <4>1
        <4> QED
          BY <3>1, <4>1, <4>2, <4>3, <4>4
      <3> QED
        BY <2>5, <3>2, <3>3, <3>4, Zenon DEF ReadingShape
    <2> QED
      BY <2>9, <2>10
  <1> QED
    BY <1>1, <1>2

\* Nothing was calibrated or read at first.
LEMMA InterpreterStarts ==
  ASSUME InterpreterInit
  PROVE  InterpreterTypeOK /\ CalFitted /\ SeenWasRead
  BY InterpreterAssumption DEF InterpreterInit, InterpreterTypeOK, CalFitted, SeenWasRead, NoSample

\* Every step keeps the calibration fitted and what was seen read with it.
LEMMA InterpreterStep ==
  ASSUME InterpreterTypeOK, CalFitted, SeenWasRead, [InterpreterNext]_interpreterVars
  PROVE  InterpreterTypeOK' /\ CalFitted' /\ SeenWasRead'
  <1>1. CASE Reconfigure
    BY <1>1 DEF Reconfigure, InterpreterTypeOK, CalFitted, SeenWasRead
  <1>2. CASE Calibrate
    <2>1. PICK std \in Stds, vin \in Captures(PairsOf(analyte)) :
            cal' = IF FitFails(analyte, std, vin)
                   THEN cal
                   ELSE [id |-> 1, analyte |-> analyte, std |-> std, vin |-> vin, fit |-> Fit(analyte, std, vin)]
      BY <1>2 DEF Calibrate
    <2>2. seen' = <<>> /\ about' = NoSample /\ analyte' = analyte /\ faults' = faults
      BY <1>2 DEF Calibrate
    <2>3. SeenWasRead'
      BY <2>2 DEF SeenWasRead, NoSample
    <2>4. CASE cal' = cal
      BY <2>2, <2>3, <2>4 DEF InterpreterTypeOK, CalFitted
    <2>5. CASE ~FitFails(analyte, std, vin)
      <3>1. cal'.analyte = analyte /\ cal'.std = std /\ cal'.vin = vin /\ cal'.fit = Fit(analyte, std, vin)
        BY <2>1, <2>5
      <3>2. InterpreterTypeOK'
        BY <2>2, <3>1 DEF InterpreterTypeOK
      <3>3. CalFitted'
        BY <2>5, <3>1 DEF CalFitted
      <3> QED
        BY <2>3, <3>2, <3>3
    <2> QED
      BY <2>1, <2>4, <2>5
  <1>3. CASE Sample
    <2>1. analyte' = analyte /\ cal' = cal
      BY <1>3 DEF Sample
    <2>2. PICK vin \in Captures(SampleNames(analyte)) :
            /\ about' = [analyte |-> analyte, cal |-> cal,
                         use |-> Use(Ready(analyte, cal), ReadWith(analyte, cal, vin))]
            /\ \/ seen' = ReadWith(analyte, cal, vin).channels /\ faults' = faults
               \/ /\ faults < MaxFaults /\ faults' = faults + 1
                  /\ \E n \in 0..(Len(ReadWith(analyte, cal, vin).channels) - 1) :
                       seen' = SubSeq(ReadWith(analyte, cal, vin).channels, 1, n)
      BY <1>3 DEF Sample
    <2>3. analyte \in Analyte /\ faults \in 0..MaxFaults
      BY DEF InterpreterTypeOK
    <2>4. PICK c : c = ReadWith(analyte, cal, vin).channels
      OBVIOUS
    <2>5. Len(c) \in Nat /\ c = SubSeq(c, 1, Len(c))
      BY <2>3, <2>4, ReadingIsSequence, WholeSequence
    <2>6. \E n \in 0..Len(c) : seen' = SubSeq(c, 1, n)
      BY <2>2, <2>4, <2>5
    <2>7. faults' \in 0..MaxFaults
      BY <2>2, <2>3, InterpreterAssumption
    <2>8. about'.analyte = analyte /\ about'.cal = cal
          /\ about'.use = Use(Ready(analyte, cal), ReadWith(analyte, cal, vin)) /\ analyte # "none"
      BY <2>2, <2>3 DEF Analyte, Core
    <2>9. SeenWasRead'
      BY <2>1, <2>3, <2>4, <2>6, <2>8 DEF SeenWasRead
    <2> QED
      BY <2>1, <2>7, <2>9 DEF InterpreterTypeOK, CalFitted
  <1>4. CASE UNCHANGED interpreterVars
    BY <1>4 DEF interpreterVars, InterpreterTypeOK, CalFitted, SeenWasRead
  <1> QED
    BY <1>1, <1>2, <1>3, <1>4 DEF InterpreterNext

\* Whatever the pairs read and whatever standards are asked for, a calibration is
\* true to its standards and good for both who test it.
THEOREM CalibrationIsSound == InterpreterSpec => []CalibrationSound
  <1>1. InterpreterInit => InterpreterTypeOK /\ CalFitted /\ SeenWasRead
    BY InterpreterStarts
  <1>2. InterpreterTypeOK /\ CalFitted /\ SeenWasRead /\ [InterpreterNext]_interpreterVars
          => InterpreterTypeOK' /\ CalFitted' /\ SeenWasRead'
    BY InterpreterStep
  <1>3. InterpreterTypeOK /\ CalFitted => CalibrationSound
    BY StandardsAreReadBack, GatesAgree DEF CalibrationSound
  <1> QED
    BY <1>1, <1>2, <1>3, PTL DEF InterpreterSpec

\* Whatever goes wrong in the detector, in the calibration, with the sign of a
\* result or between two appends, what is observed for control has a value, and a
\* nitrate value was made of two that are not negative.
THEOREM SampleIsSound == InterpreterSpec => []SampleSound
  <1>1. InterpreterInit => InterpreterTypeOK /\ CalFitted /\ SeenWasRead
    BY InterpreterStarts
  <1>2. InterpreterTypeOK /\ CalFitted /\ SeenWasRead /\ [InterpreterNext]_interpreterVars
          => InterpreterTypeOK' /\ CalFitted' /\ SeenWasRead'
    BY InterpreterStep
  <1>3. InterpreterTypeOK /\ CalFitted /\ SeenWasRead => SampleSound
    BY WhatWasReadIsSound DEF SampleSound
  <1> QED
    BY <1>1, <1>2, <1>3, PTL DEF InterpreterSpec
==============================================================================
