---------------------------- MODULE SessionProofs -----------------------------
(***************************************************************************)
(* Proofs about the two ends of a session, the connection (Conn) and the   *)
(* courtroom message machine (Room), which share no variable.              *)
(*                                                                         *)
(* The connection: as long as nobody closed it, what the application took, *)
(* Incoming, deliverLoop's hand, the backlog and readLoop's hand are, in   *)
(* this order, the frames the server sent.                                 *)
(*                                                                         *)
(* The room: each operator it is built from takes a room that is Good to   *)
(* one that is, so a call, which composes them, does; its queue holds, in  *)
(* the order of arrival, messages later than the one that has the stage.   *)
(***************************************************************************)
EXTENDS Conn, Room, FiniteSetTheorems, TLAPS

(* Frames that have left the backlog, and those before the reader's hand. *)
Handed    == Len(seen) + Len(incoming) + (IF deliver.pc = "give" THEN 1 ELSE 0)
Delivered == Handed + Len(backlog)

(* Every place of the pipeline holds the frames that follow those of the   *)
(* place before it.                                                        *)
FramesInOrder ==
  /\ \A i \in 1 .. Len(seen) : seen[i].id = i
  /\ \A i \in 1 .. Len(incoming) : incoming[i].id = Len(seen) + i
  /\ deliver.pc = "give" => deliver.packet.id = Handed
  /\ \A i \in 1 .. Len(backlog) : backlog[i].id = Handed + i
  /\ reader.pc = "enqueue" => reader.packet.id = sent
  /\ sent = Delivered + (IF reader.pc = "enqueue" THEN 1 ELSE 0)

(* deliverLoop leaves a connection nobody closed only when readLoop is gone *)
(* and the backlog empty, and it alone closes Incoming.                    *)
Drained ==
  /\ incomingClosed => deliver.pc = "exited"
  /\ deliver.pc = "exited" => backlog = <<>> /\ reader.pc = "exited"

ConnInv == ~closed => FramesInOrder /\ Drained

-----------------------------------------------------------------------------
LEMMA AppendFacts ==
  ASSUME NEW S, NEW s \in Seq(S), NEW e \in S
  PROVE  /\ Append(s, e) \in Seq(S)
         /\ Len(Append(s, e)) = Len(s) + 1
         /\ Append(s, e)[Len(s) + 1] = e
         /\ \A i \in 1 .. Len(s) : Append(s, e)[i] = s[i]
  OBVIOUS

LEMMA TailFacts ==
  ASSUME NEW S, NEW s \in Seq(S), s # <<>>
  PROVE  /\ Head(s) \in S /\ Head(s) = s[1] /\ 1 \in 1 .. Len(s)
         /\ Tail(s) \in Seq(S)
         /\ Len(Tail(s)) = Len(s) - 1 /\ Len(s) \in Nat \ {0}
         /\ \A i \in 1 .. Len(s) - 1 : Tail(s)[i] = s[i + 1]
  OBVIOUS

-----------------------------------------------------------------------------
(* Type correctness *)

LEMMA ConnConstants ==
  /\ {BacklogCap, IncomingCap, MaxBytes, MaxPackets, MaxPings} \subseteq Nat
  /\ \A n \in Sizes : n \in Nat
  /\ NoPacket \in Packet
  /\ \A p \in Packet : p.id \in Nat /\ p.size \in Nat
<1>1. BacklogCap \in Nat /\ IncomingCap \in Nat /\ MaxBytes \in Nat
  BY ConnAssumption
<1>2. MaxPackets \in Nat /\ MaxPings \in Nat /\ \A n \in Sizes : n \in Nat
  BY ConnAssumption
<1>3. QED BY <1>1, <1>2 DEF NoPacket, Packet

LEMMA TypeInit == Init => TypeOK
<1> SUFFICES ASSUME Init PROVE TypeOK
  OBVIOUS
<1>1. reader \in [pc : {"read", "enqueue", "charge", "store", "exited"}, packet : Packet]
  BY ConnConstants DEF Init, At
<1>2. deliver \in [pc : {"take", "give", "release", "exited"}, packet : Packet]
  BY ConnConstants DEF Init, At
<1>3. BacklogCap \in Nat /\ IncomingCap \in Nat /\ MaxPackets \in Nat /\ MaxPings \in Nat
  BY ConnConstants
<1>4. backlog \in Seq(Packet) /\ incoming \in Seq(Packet) /\ seen \in Seq(Packet)
  BY DEF Init
<1>5. Len(backlog) <= BacklogCap /\ Len(incoming) <= IncomingCap
  BY <1>3 DEF Init
<1>6. pings \in 0 .. MaxPings /\ sent \in 0 .. MaxPackets
  BY <1>3 DEF Init
<1>7. incomingClosed \in BOOLEAN /\ closed \in BOOLEAN
  BY DEF Init
<1>8. parked \in Int
  BY DEF Init
<1>9. QED BY <1>1, <1>2, <1>4, <1>5, <1>6, <1>7, <1>8 DEF Init, TypeOK

LEMMA ReaderTypes == TypeOK /\ ReadStep => TypeOK'
<1> SUFFICES ASSUME TypeOK, ReadStep PROVE TypeOK'
  OBVIOUS
<1> USE DEF TypeOK, queue, app, At
<1>0. NoPacket \in Packet /\ reader.packet \in Packet
  BY ConnAssumption DEF NoPacket, Packet
<1>1. CASE Overflow
  BY <1>0, <1>1 DEF Overflow, FirstError, Close
<1>2. CASE EnqueueFrame
  BY <1>0, <1>2, AppendFacts, ConnAssumption DEF EnqueueFrame
<1>3. CASE Charge
  <2>1. reader.packet.size \in Int
    BY <1>0, ConnConstants
  <2>2. QED BY <1>0, <1>3, <2>1 DEF Charge
<1>4. CASE DropClosed
  BY <1>0, <1>4 DEF DropClosed
<1>5. CASE ReadFails
  BY <1>0, <1>5 DEF ReadFails
<1>6. CASE StoreError
  BY <1>0, <1>6 DEF StoreError
<1>7. QED
  BY <1>1, <1>2, <1>3, <1>4, <1>5, <1>6 DEF ReadStep

LEMMA DeliverTypes == TypeOK /\ DeliverStep => TypeOK'
<1> SUFFICES ASSUME TypeOK, DeliverStep PROVE TypeOK'
  OBVIOUS
<1> USE DEF TypeOK, queue, app, At
<1>0. NoPacket \in Packet /\ deliver.packet \in Packet
  BY ConnAssumption DEF NoPacket, Packet
<1>1. CASE TakeNext
  BY <1>1, TailFacts, ConnAssumption DEF TakeNext
<1>2. CASE BacklogDone
  BY <1>0, <1>2 DEF BacklogDone
<1>3. CASE Give
  BY <1>0, <1>3, AppendFacts, ConnAssumption DEF Give
<1>4. CASE ReleaseParked
  <2>1. deliver.packet.size \in Int
    BY <1>0, ConnConstants
  <2>2. QED BY <1>0, <1>4, <2>1 DEF ReleaseParked
<1>5. CASE GiveUp
  BY <1>0, <1>5 DEF GiveUp
<1>6. QED
  BY <1>1, <1>2, <1>3, <1>4, <1>5 DEF DeliverStep

LEMMA OtherTypes ==
  ASSUME TypeOK, PingStep \/ (\E n \in Sizes : Receive(n)) \/ Drain \/ UserClose \/ Drop
  PROVE  TypeOK'
<1> USE DEF TypeOK, queue, app, At
<1>1. CASE PingStep
  <2>1. CASE PingWritten
    BY <2>1, ConnConstants DEF PingWritten
  <2>2. CASE Tick \/ PingerSeesClose \/ PingFails \/ PingerCloses
    BY <2>2 DEF Tick, PingerSeesClose, PingFails, PingerCloses, Close, FirstError
  <2>3. QED BY <1>1, <2>1, <2>2 DEF PingStep
<1>2. ASSUME NEW n \in Sizes, Receive(n) PROVE TypeOK'
  <2>1. sent + 1 \in 0 .. MaxPackets /\ [id |-> sent + 1, size |-> n] \in Packet
    BY <1>2, ConnAssumption DEF Receive, Packet
  <2>2. QED BY <1>2, <2>1 DEF Receive
<1>3. CASE Drain
  BY <1>3, AppendFacts, TailFacts, ConnAssumption DEF Drain
<1>4. CASE UserClose
  BY <1>4 DEF UserClose, Close
<1>5. CASE Drop
  BY <1>5 DEF Drop
<1>6. QED
  BY <1>1, <1>2, <1>3, <1>4, <1>5

(* The variables keep their types, and the queues their capacities.        *)
THEOREM ConnTypeCorrect == Spec => []TypeOK
<1>1. TypeOK /\ [Next]_vars => TypeOK'
  <2> SUFFICES ASSUME TypeOK, [Next]_vars PROVE TypeOK'
    OBVIOUS
  <2>1. CASE UNCHANGED vars
    BY <2>1 DEF vars, queue, app, TypeOK
  <2>2. CASE Next
    BY <2>2, ReaderTypes, DeliverTypes, OtherTypes DEF Next
  <2>3. QED BY <2>1, <2>2
<1>2. QED BY TypeInit, <1>1, PTL DEF Spec

-----------------------------------------------------------------------------
(* Frames are never lost or reordered *)

LEMMA InvInit == Init => ConnInv
  BY DEF Init, ConnInv, FramesInOrder, Drained, Handed, Delivered, At

(* A frame the reader receives is the next one, and goes to the end. *)
LEMMA ReadKeeps == TypeOK /\ ConnInv /\ ReadStep => ConnInv'
<1> SUFFICES ASSUME TypeOK, ConnInv, ReadStep, ~closed' PROVE (FramesInOrder /\ Drained)'
  BY DEF ConnInv
<1> USE DEF TypeOK, queue, app, At, ConnInv, FramesInOrder, Drained, Handed, Delivered
<1>1. CASE Overflow
  BY <1>1 DEF Overflow, Close
<1>2. CASE EnqueueFrame
  <2>1. ~closed /\ reader.packet \in Packet /\ deliver.pc # "exited"
    BY <1>2 DEF EnqueueFrame
  <2>2. backlog'[Len(backlog) + 1].id = Handed + Len(backlog) + 1
    BY <1>2, <2>1, AppendFacts DEF EnqueueFrame
  <2>3. \A i \in 1 .. Len(backlog') : backlog'[i].id = Handed' + i
    <3>1. Len(backlog') = Len(backlog) + 1 /\ Handed' = Handed /\ Len(backlog) \in Nat
          /\ \A i \in 1 .. Len(backlog) : backlog'[i].id = Handed + i
      BY <1>2, <2>1, AppendFacts DEF EnqueueFrame
    <3>2. Handed \in Nat
      OBVIOUS
    <3> HIDE DEF Handed, TypeOK, FramesInOrder
    <3>3. QED BY <2>2, <3>1, <3>2
  <2>4. sent' = Delivered' + (IF reader'.pc = "enqueue" THEN 1 ELSE 0)
    BY <1>2, <2>1, AppendFacts DEF EnqueueFrame
  <2>5. QED BY <1>2, <2>1, <2>3, <2>4 DEF EnqueueFrame
<1>3. CASE Charge
  BY <1>3 DEF Charge
<1>4. CASE DropClosed
  BY <1>4 DEF DropClosed
<1>5. CASE ReadFails
  BY <1>5 DEF ReadFails
<1>6. CASE StoreError
  BY <1>6 DEF StoreError
<1>7. QED
  BY <1>1, <1>2, <1>3, <1>4, <1>5, <1>6 DEF ReadStep

(* deliverLoop moves the head of the backlog to the end of Incoming. *)
LEMMA DeliverKeeps == TypeOK /\ ConnInv /\ DeliverStep => ConnInv'
<1> SUFFICES ASSUME TypeOK, ConnInv, DeliverStep, ~closed' PROVE (FramesInOrder /\ Drained)'
  BY DEF ConnInv
<1> USE DEF TypeOK, queue, app, At, ConnInv, FramesInOrder, Drained, Handed, Delivered
<1>1. CASE TakeNext
  <2>1. ~closed /\ Handed' = Handed + 1 /\ Len(backlog') = Len(backlog) - 1
    BY <1>1, TailFacts DEF TakeNext
  <2>2. deliver'.packet.id = Handed'
    BY <1>1, <2>1, TailFacts DEF TakeNext
  <2>3. \A i \in 1 .. Len(backlog') : backlog'[i].id = Handed' + i
    BY <1>1, <2>1, TailFacts DEF TakeNext
  <2>4. QED BY <1>1, <2>1, <2>2, <2>3 DEF TakeNext
<1>2. CASE BacklogDone
  BY <1>2 DEF BacklogDone
<1>3. CASE Give
  <2>1. ~closed /\ Handed' = Handed /\ Len(incoming') = Len(incoming) + 1
    BY <1>3, AppendFacts DEF Give
  <2>2. \A i \in 1 .. Len(incoming') : incoming'[i].id = Len(seen) + i
    <3>1. Len(incoming) \in Nat /\ Len(seen) \in Nat
          /\ \A i \in 1 .. Len(incoming) : incoming'[i].id = Len(seen) + i
      BY <1>3, <2>1, AppendFacts DEF Give
    <3>2. incoming'[Len(incoming) + 1].id = Len(seen) + Len(incoming) + 1
      BY <1>3, <2>1, AppendFacts DEF Give
    <3> HIDE DEF Handed, TypeOK, FramesInOrder
    <3>3. QED BY <2>1, <3>1, <3>2
  <2>3. QED BY <1>3, <2>1, <2>2 DEF Give
<1>4. CASE ReleaseParked
  BY <1>4 DEF ReleaseParked
<1>5. CASE GiveUp
  BY <1>5 DEF GiveUp
<1>6. QED
  BY <1>1, <1>2, <1>3, <1>4, <1>5 DEF DeliverStep

LEMMA OthersKeep ==
  ASSUME TypeOK, ConnInv, PingStep \/ (\E n \in Sizes : Receive(n)) \/ Drain \/ UserClose \/ Drop
  PROVE  ConnInv'
<1> SUFFICES ASSUME ~closed' PROVE (FramesInOrder /\ Drained)'
  BY DEF ConnInv
<1> USE DEF TypeOK, queue, app, At, ConnInv, FramesInOrder, Drained, Handed, Delivered
<1>1. CASE PingStep
  <2>1. CASE Tick
    BY <2>1 DEF Tick
  <2>2. CASE PingerSeesClose
    BY <2>2 DEF PingerSeesClose
  <2>3. CASE PingWritten
    BY <2>3 DEF PingWritten
  <2>4. CASE PingFails
    BY <2>4 DEF PingFails, FirstError
  <2>5. CASE PingerCloses
    BY <2>5 DEF PingerCloses, Close
  <2>6. QED BY <1>1, <2>1, <2>2, <2>3, <2>4, <2>5 DEF PingStep
<1>2. ASSUME NEW n \in Sizes, Receive(n) PROVE (FramesInOrder /\ Drained)'
  BY <1>2 DEF Receive
<1>3. CASE Drain
  <2>1. ~closed /\ Handed' = Handed /\ Len(seen') = Len(seen) + 1
        /\ Len(incoming') = Len(incoming) - 1
    BY <1>3, AppendFacts, TailFacts DEF Drain
  <2>2. \A i \in 1 .. Len(seen') : seen'[i].id = i
    BY <1>3, <2>1, AppendFacts, TailFacts DEF Drain
  <2>3. \A i \in 1 .. Len(incoming') : incoming'[i].id = Len(seen') + i
    BY <1>3, <2>1, TailFacts DEF Drain
  <2>4. QED BY <1>3, <2>1, <2>2, <2>3 DEF Drain
<1>4. CASE UserClose
  BY <1>4 DEF UserClose, Close
<1>5. CASE Drop
  BY <1>5 DEF Drop
<1>6. QED
  BY <1>1, <1>2, <1>3, <1>4, <1>5

LEMMA PipelineInOrder == Spec => []ConnInv
<1>1. TypeOK /\ ConnInv /\ [Next]_vars => ConnInv'
  <2> SUFFICES ASSUME TypeOK, ConnInv, [Next]_vars PROVE ConnInv'
    OBVIOUS
  <2>1. CASE UNCHANGED vars
    BY <2>1 DEF vars, queue, app, ConnInv, FramesInOrder, Drained, Handed, Delivered
  <2>2. CASE Next
    BY <2>2, ReadKeeps, DeliverKeeps, OthersKeep DEF Next
  <2>3. QED BY <2>1, <2>2
<1>2. QED BY InvInit, ConnTypeCorrect, <1>1, PTL DEF Spec

(* conn.go: when Incoming closes on a connection nobody closed, the         *)
(* application has taken, or will find there, every frame the server sent, *)
(* in the order it sent them.                                              *)
THEOREM NothingIsLost == Spec => []DropLosesNothing
<1>1. TypeOK /\ ConnInv => DropLosesNothing
  <2> SUFFICES ASSUME TypeOK, ConnInv, incomingClosed, ~closed
               PROVE  [k \in DOMAIN (seen \o incoming) |-> (seen \o incoming)[k].id]
                        = [k \in 1 .. sent |-> k]
    BY DEF DropLosesNothing
  <2> DEFINE all == seen \o incoming
  <2>1. Len(seen) \in Nat /\ Len(incoming) \in Nat /\ seen \in Seq(Packet) /\ incoming \in Seq(Packet)
    BY DEF TypeOK
  <2>2. sent = Len(seen) + Len(incoming)
    <3>1. FramesInOrder /\ deliver.pc = "exited" /\ reader.pc = "exited" /\ Len(backlog) = 0
      BY DEF ConnInv, Drained
    <3>2. QED BY <2>1, <3>1 DEF FramesInOrder, Handed, Delivered
  <2>3. DOMAIN all = 1 .. sent
        /\ \A k \in 1 .. sent : all[k] = IF k <= Len(seen) THEN seen[k] ELSE incoming[k - Len(seen)]
    BY <2>1, <2>2
  <2>4. ASSUME NEW k \in 1 .. sent PROVE all[k].id = k
    BY <2>1, <2>2, <2>3, <2>4 DEF ConnInv, FramesInOrder
  <2>5. QED BY <2>3, <2>4
<1>2. QED BY ConnTypeCorrect, PipelineInOrder, <1>1, PTL

-----------------------------------------------------------------------------
(* The room.  Rooms are the records it can be.                              *)

Message == [id : 1 .. MaxMessages, kind : Kinds]
Rooms ==
  [queue : Seq(Message), phase : {"shout", "preanim", "talking", "linger", "idle"}, timer : Nat,
   current : Message \cup {Nobody}, waitFor : Nat, waitLeft : Nat,
   active : {"none", "idle", "talk", "pre"}, preBase : Bases \cup {NoBase}, playOnce : BOOLEAN,
   preanimDone : BOOLEAN, imPreLeft : Nat, sfx : [of : Nat, left : Nat], typed : Nat,
   missing : SUBSET Bases, asset : [Bases -> {"cold", "fetching", "resident"}],
   marked : SUBSET Bases, last : Nat, preanim : {"due", "shown", "absent"}, told : BOOLEAN]

Onstage == {"shout", "preanim", "talking"}

(* What holds of the message on stage, at rest between two calls. *)
Performs(r) == r.phase \in Onstage => r.current \in Message
Sounds(r)   == r.sfx.of \in {0, r.current.id}
Latched(r)  == r.phase \in Onstage /\ r.active = "pre" => r.playOnce = TRUE
Owing(r)    == r.preanim = "due" /\ r.preBase \notin r.missing
Shown(r) ==
  /\ r.phase = "shout" => r.playOnce = FALSE /\ (r.preanimDone = TRUE => r.preanim # "due")
  /\ r.phase = "preanim" => r.preanim # "due"
  /\ r.phase = "talking" /\ PreanimWillPlay(r.current) => ~Owing(r)

Good(r) == r \in Rooms /\ Performs(r) /\ Sounds(r) /\ Latched(r) /\ Shown(r)

(* What the calls between two messages leave alone. *)
Same(r, s) == s.queue = r.queue /\ s.last = r.last /\ s.missing = r.missing
Staged(r, s) == Same(r, s) /\ s.current = r.current

LEMMA RoomConstants ==
  /\ QueueCap \in Nat /\ QueueCap > 0 /\ Threshold \in Nat /\ Threshold > 0
  /\ ShoutTicks \in Nat /\ PreanimTicks \in Nat /\ StayTicks \in Nat /\ WaitTicks \in Nat
  /\ LongPreanim \in Nat /\ MissingCap \in Nat /\ MaxMessages \in Nat
<1>1. /\ QueueCap \in Nat \ {0} /\ Threshold \in Nat \ {0} /\ ShoutTicks \in Nat \ {0}
      /\ PreanimTicks \in Nat \ {0} /\ StayTicks \in Nat \ {0} /\ WaitTicks \in Nat \ {0}
      /\ LongPreanim \in Nat \ {0} /\ MissingCap \in Nat /\ MaxMessages \in Nat
  BY RoomAssumption
<1>2. QED BY <1>1

LEMMA MessageFacts ==
  ASSUME NEW m \in Message
  PROVE  /\ m.id \in Nat /\ m.id > 0 /\ m # Nobody /\ m.kind \in Kinds
         /\ m.kind.idle \in Bases /\ m.kind.talk \in Bases /\ m.kind.pre \in Bases
         /\ m.kind.scene \subseteq Bases /\ m.kind.text \in Nat /\ m.kind.delay \in Nat
         /\ m.kind.shout \in BOOLEAN /\ m.kind.marks \in BOOLEAN /\ m.kind.sound \in BOOLEAN
<1>1. m.id \in 1 .. MaxMessages /\ m.kind \in Kinds
  BY DEF Message
<1>2. m.id \in Nat /\ m.id > 0
  BY <1>1, RoomConstants
<1>3. m # Nobody
  BY <1>2 DEF Nobody
<1>4. /\ m.kind.idle \in Bases /\ m.kind.talk \in Bases /\ m.kind.pre \in Bases
      /\ m.kind.scene \subseteq Bases /\ m.kind.text \in Nat /\ m.kind.delay \in Nat
  BY <1>1, RoomAssumption
<1>5. m.kind.shout \in BOOLEAN /\ m.kind.marks \in BOOLEAN /\ m.kind.sound \in BOOLEAN
  BY <1>1, RoomAssumption
<1>6. QED BY <1>1, <1>2, <1>3, <1>4, <1>5

LEMMA EndPreanimFacts ==
  ASSUME NEW r \in Rooms
  PROVE  /\ EndPreanim(r) \in Rooms /\ EndPreanim(r).playOnce = FALSE
         /\ EndPreanim(r) = [r EXCEPT !.playOnce = FALSE]
         /\ \A f \in DOMAIN r : f # "playOnce" => EndPreanim(r)[f] = r[f]
  BY DEF EndPreanim, Rooms

LEMMA EnterLingerFacts ==
  ASSUME NEW r \in Rooms
  PROVE  /\ EnterLinger(r) \in Rooms /\ EnterLinger(r).phase = "linger"
         /\ Staged(r, EnterLinger(r)) /\ EnterLinger(r).sfx = r.sfx
  BY RoomConstants DEF EnterLinger, EndPreanim, Rooms, Staged, Same

LEMMA StartTalkingFacts ==
  ASSUME NEW r \in Rooms, r.current \in Message, Sounds(r),
         PreanimWillPlay(r.current) => ~Owing(r)
  PROVE  Good(StartTalking(r)) /\ Staged(r, StartTalking(r))
<1> DEFINE spoken == IF r.playOnce THEN [r EXCEPT !.imPreLeft = PreanimTicks, !.typed = 0]
                     ELSE [r EXCEPT !.active = "talk", !.typed = 0]
           talking == [spoken EXCEPT !.phase = "talking"]
<1>1. /\ spoken \in Rooms /\ Staged(r, spoken) /\ spoken.sfx = r.sfx
      /\ spoken.preanim = r.preanim /\ spoken.preBase = r.preBase
      /\ spoken.active = "pre" => spoken.playOnce = TRUE
  BY RoomConstants DEF Rooms, Staged, Same
<1> HIDE DEF spoken
<1>2. CASE StartTalking(r) = EnterLinger(spoken)
  <2>1. /\ EnterLinger(spoken) \in Rooms /\ EnterLinger(spoken).phase = "linger"
        /\ Staged(spoken, EnterLinger(spoken)) /\ EnterLinger(spoken).sfx = spoken.sfx
    BY <1>1, EnterLingerFacts
  <2>2. Staged(r, EnterLinger(spoken)) /\ Sounds(EnterLinger(spoken))
    BY <1>1, <2>1 DEF Staged, Same, Sounds
  <2>3. QED BY <1>2, <2>1, <2>2 DEF Good, Performs, Latched, Shown, Onstage
<1>3. CASE StartTalking(r) = talking
  <2>1. /\ talking \in Rooms /\ talking.phase = "talking" /\ Staged(spoken, talking)
        /\ talking.sfx = spoken.sfx /\ talking.preanim = spoken.preanim
        /\ talking.preBase = spoken.preBase /\ talking.active = spoken.active
        /\ talking.playOnce = spoken.playOnce
    BY <1>1 DEF Rooms, Staged, Same
  <2> HIDE DEF talking
  <2>2. Staged(r, talking) /\ Sounds(talking)
    BY <1>1, <2>1 DEF Staged, Same, Sounds
  <2>3. PreanimWillPlay(talking.current) => ~Owing(talking)
    BY <1>1, <2>1 DEF Staged, Same, Owing
  <2>4. Good(talking)
    BY <1>1, <2>1, <2>2, <2>3 DEF Good, Performs, Latched, Shown, Onstage, Staged
  <2>5. QED BY <1>3, <2>2, <2>4
<1>4. QED BY <1>2, <1>3 DEF StartTalking, spoken

LEMMA ArmSFXDelayFacts ==
  ASSUME NEW r \in Rooms, r.current \in Message, Sounds(r)
  PROVE  /\ ArmSFXDelay(r) \in Rooms /\ Staged(r, ArmSFXDelay(r)) /\ Sounds(ArmSFXDelay(r))
         /\ ArmSFXDelay(r).preanim = r.preanim /\ ArmSFXDelay(r).preBase = r.preBase
         /\ ArmSFXDelay(r).playOnce = r.playOnce
<1>1. r.current.id \in Nat /\ r.current.kind.delay \in Nat
  BY MessageFacts
<1> DEFINE due   == [of |-> r.current.id, left |-> r.current.kind.delay]
           armed == [r EXCEPT !.sfx = due]
<1>2. due \in [of : Nat, left : Nat] /\ due.of = r.current.id
  BY <1>1
<1>3. ArmSFXDelay(r) \in {r, armed}
  BY DEF ArmSFXDelay
<1> HIDE DEF due
<1>4. /\ armed \in Rooms /\ armed.sfx = due /\ armed.current = r.current /\ Staged(r, armed)
      /\ armed.preanim = r.preanim /\ armed.preBase = r.preBase /\ armed.playOnce = r.playOnce
  BY <1>2 DEF Rooms, Staged, Same
<1> HIDE DEF armed
<1>5. QED BY <1>2, <1>3, <1>4 DEF Sounds, Staged, Same

(* A preanimation is either staged with its latch or not owed. *)
LEMMA EnterAfterShoutFacts ==
  ASSUME NEW r \in Rooms, r.current \in Message, Sounds(r),
         r.preanimDone = TRUE => r.preanim # "due"
  PROVE  Good(EnterAfterShout(r)) /\ Staged(r, EnterAfterShout(r))
<1> DEFINE a == ArmSFXDelay(r)
           staged == [a EXCEPT !.active = "pre", !.playOnce = TRUE, !.preanim = "shown"]
           playing == [staged EXCEPT !.phase = "preanim", !.timer = PreanimTicks]
<1>1. /\ a \in Rooms /\ Staged(r, a) /\ Sounds(a) /\ a.preanim = r.preanim
      /\ a.preBase = r.preBase
  BY ArmSFXDelayFacts
<1> HIDE DEF a
<1>2. CASE ~Plays(r)
  <2>1. PreanimWillPlay(r.current) => r.preanim # "due" \/ r.preBase \in r.missing
    <3>1. r.preanimDone \in BOOLEAN BY DEF Rooms
    <3>2. QED BY <1>2, <3>1 DEF Plays
  <2>2. a.current = r.current /\ a.missing = r.missing
    BY <1>1 DEF Staged, Same
  <2>3. PreanimWillPlay(a.current) => ~Owing(a)
    BY <1>1, <2>1, <2>2 DEF Owing
  <2>4. Good(StartTalking(a)) /\ Staged(a, StartTalking(a))
    BY <1>1, <2>2, <2>3, StartTalkingFacts
  <2>5. EnterAfterShout(r) = StartTalking(a)
    BY <1>2 DEF EnterAfterShout, a
  <2>6. QED BY <1>1, <2>4, <2>5 DEF Staged, Same
<1>3. CASE Plays(r)
  <2>1. /\ staged \in Rooms /\ Staged(a, staged) /\ Sounds(staged) /\ staged.preanim = "shown"
        /\ staged.active = "pre" /\ staged.playOnce = TRUE
    BY <1>1 DEF Rooms, Staged, Same, Sounds
  <2> HIDE DEF staged
  <2>2. staged.current \in Message /\ Staged(r, staged)
    BY <1>1, <2>1 DEF Staged, Same
  <2>3. CASE r.current.kind.mode = "over"
    <3>1. Good(StartTalking(staged)) /\ Staged(staged, StartTalking(staged))
      BY <2>1, <2>2, StartTalkingFacts DEF Owing
    <3>2. EnterAfterShout(r) = StartTalking(staged)
      BY <1>3, <2>3 DEF EnterAfterShout, a, staged
    <3>3. QED BY <2>2, <3>1, <3>2 DEF Staged, Same
  <2>4. CASE r.current.kind.mode # "over"
    <3>1. EnterAfterShout(r) = playing
      BY <1>3, <2>4 DEF EnterAfterShout, a, staged
    <3>2. /\ playing \in Rooms /\ Staged(staged, playing) /\ playing.phase = "preanim"
          /\ playing.sfx = staged.sfx /\ playing.preanim = "shown" /\ playing.active = "pre"
          /\ playing.playOnce = TRUE
      BY <2>1, RoomConstants DEF Rooms, Staged, Same
    <3> HIDE DEF playing
    <3>3. Sounds(playing) /\ playing.current \in Message
      BY <2>1, <2>2, <3>2 DEF Sounds, Staged
    <3>4. Good(playing)
      BY <3>2, <3>3 DEF Good, Performs, Latched, Shown, Onstage
    <3>5. QED BY <2>2, <3>1, <3>2, <3>4 DEF Staged, Same
  <2>5. QED BY <2>3, <2>4
<1>4. QED BY <1>2, <1>3

LEMMA TakeStageFacts ==
  ASSUME NEW r \in Rooms, NEW m \in Message
  PROVE  /\ TakeStage(r, m) \in Rooms /\ TakeStage(r, m).current = m
         /\ TakeStage(r, m).sfx = Silence /\ TakeStage(r, m).preanim = "due"
         /\ TakeStage(r, m).queue = r.queue /\ TakeStage(r, m).missing = r.missing
         /\ TakeStage(r, m).last = m.id
<1>1. m.id \in Nat
  BY MessageFacts
<1>2. QED BY <1>1 DEF TakeStage, EndPreanim, Rooms, Silence

LEMMA BeginCaughtUpFacts ==
  ASSUME NEW r \in Rooms, r.current \in Message, Sounds(r)
  PROVE  Good(BeginCaughtUp(r)) /\ Staged(r, BeginCaughtUp(r))
<1>1. r.current.kind.text \in Nat
  BY MessageFacts
<1>2. /\ BeginCaughtUp(r) \in Rooms /\ Staged(r, BeginCaughtUp(r))
      /\ BeginCaughtUp(r).phase = "linger" /\ Sounds(BeginCaughtUp(r))
  BY <1>1 DEF BeginCaughtUp, Rooms, Staged, Same, Sounds
<1>3. QED BY <1>2 DEF Good, Performs, Latched, Shown, Onstage

LEMMA StageSpeakerFacts ==
  ASSUME NEW r \in Rooms, r.current \in Message
  PROVE  /\ StageSpeaker(r) \in Rooms /\ Staged(r, StageSpeaker(r))
         /\ StageSpeaker(r).sfx = r.sfx /\ StageSpeaker(r).active = "idle"
         /\ StageSpeaker(r).playOnce = FALSE /\ StageSpeaker(r).preanimDone = FALSE
<1>1. r.current.kind.pre \in Bases
  BY MessageFacts
<1>2. QED BY <1>1 DEF StageSpeaker, Rooms, Staged, Same

LEMMA PrefetchFacts ==
  ASSUME NEW r \in Rooms, NEW B
  PROVE  /\ Prefetch(r, B) \in Rooms
         /\ \E X \in [Bases -> {"cold", "fetching", "resident"}] :
              Prefetch(r, B) = [r EXCEPT !.asset = X]
<1> DEFINE X == [b \in Bases |-> IF b \in B /\ r.asset[b] = "cold" THEN "fetching" ELSE r.asset[b]]
<1>1. X \in [Bases -> {"cold", "fetching", "resident"}]
  BY DEF Rooms
<1>2. Prefetch(r, B) = [r EXCEPT !.asset = X]
  BY DEF Prefetch
<1> HIDE DEF X
<1>3. [r EXCEPT !.asset = X] \in Rooms
  BY <1>1 DEF Rooms
<1>4. QED BY <1>1, <1>2, <1>3

(* A message that begins owns the stage, the sound and the history. *)
LEMMA BeginFacts ==
  ASSUME NEW r \in Rooms, NEW m \in Message
  PROVE  /\ Good(Begin(r, m)) /\ Begin(r, m).current = m /\ Begin(r, m).last = m.id
         /\ Begin(r, m).queue = r.queue /\ Begin(r, m).missing = r.missing
<1> DEFINE taken  == TakeStage(r, m)
           ready  == StageSpeaker(taken)
           staged == Prefetch(ready, FirstFrame(m))
           shout  == [staged EXCEPT !.phase = "shout", !.timer = ShoutTicks]
<1>1. /\ taken \in Rooms /\ taken.current = m /\ taken.sfx = Silence /\ taken.preanim = "due"
      /\ taken.queue = r.queue /\ taken.missing = r.missing /\ taken.last = m.id
  BY TakeStageFacts
<1>2. CASE CatchesUp(Len(r.queue))
  <2>1. Sounds(taken)
    BY <1>1 DEF Sounds, Silence
  <2>2. Good(BeginCaughtUp(taken)) /\ Staged(taken, BeginCaughtUp(taken))
    BY <1>1, <2>1, BeginCaughtUpFacts
  <2>3. Begin(r, m) = BeginCaughtUp(taken)
    BY <1>2 DEF Begin
  <2> HIDE DEF taken
  <2>4. QED BY <1>1, <2>2, <2>3 DEF Staged, Same
<1>3. CASE ~CatchesUp(Len(r.queue))
  <2>1. /\ ready \in Rooms /\ Staged(taken, ready) /\ ready.sfx = taken.sfx
        /\ ready.active = "idle" /\ ready.playOnce = FALSE /\ ready.preanimDone = FALSE
    BY <1>1, StageSpeakerFacts
  <2>2. staged \in Rooms /\ \E X : staged = [ready EXCEPT !.asset = X]
    BY <2>1, PrefetchFacts
  <2>3. Begin(r, m) = IF m.kind.shout THEN shout ELSE EnterAfterShout(staged)
    BY <1>3 DEF Begin
  <2> HIDE DEF taken, ready, staged
  <2>4. /\ Staged(ready, staged) /\ staged.sfx = ready.sfx /\ staged.active = "idle"
        /\ staged.playOnce = FALSE /\ staged.preanimDone = FALSE
    BY <2>1, <2>2 DEF Rooms, Staged, Same
  <2>5. Sounds(staged) /\ staged.current = m
    BY <1>1, <2>1, <2>4 DEF Sounds, Staged, Silence
  <2>6. /\ staged.queue = r.queue /\ staged.missing = r.missing /\ staged.last = m.id
    BY <1>1, <2>1, <2>4 DEF Staged, Same
  <2>7. CASE m.kind.shout
    <3>1. /\ shout \in Rooms /\ Staged(staged, shout) /\ shout.phase = "shout"
          /\ shout.sfx = staged.sfx /\ shout.active = "idle" /\ shout.playOnce = FALSE
          /\ shout.preanimDone = FALSE
      BY <2>2, <2>4, RoomConstants DEF Rooms, Staged, Same
    <3>2. Begin(r, m) = shout
      BY <2>3, <2>7
    <3> HIDE DEF shout
    <3>3. Sounds(shout) /\ shout.current = m
      BY <2>5, <3>1 DEF Sounds, Staged
    <3>4. Good(shout)
      BY <3>1, <3>3 DEF Good, Performs, Latched, Shown, Onstage
    <3>5. QED BY <2>6, <3>1, <3>2, <3>3, <3>4 DEF Staged, Same
  <2>8. CASE ~m.kind.shout
    <3>1. Good(EnterAfterShout(staged)) /\ Staged(staged, EnterAfterShout(staged))
      BY <2>2, <2>4, <2>5, EnterAfterShoutFacts
    <3>2. Begin(r, m) = EnterAfterShout(staged)
      BY <2>3, <2>8
    <3>3. QED BY <2>5, <2>6, <3>1, <3>2 DEF Staged, Same
  <2>9. QED BY <2>7, <2>8
<1>4. QED BY <1>2, <1>3

-----------------------------------------------------------------------------
(* The wait gate only fetches and counts.  Aside(r, s): s is r but for its   *)
(* assets and the clock of the gate.                                         *)
Aside(r, s) ==
  \E X \in [Bases -> {"cold", "fetching", "resident"}], n, k \in Nat :
    s = [r EXCEPT !.asset = X, !.waitFor = n, !.waitLeft = k]

LEMMA AsideFacts ==
  ASSUME NEW r \in Rooms, NEW s, Aside(r, s)
  PROVE  /\ s \in Rooms /\ Staged(r, s) /\ s.phase = r.phase /\ s.timer = r.timer
         /\ s.active = r.active /\ s.preBase = r.preBase /\ s.playOnce = r.playOnce
         /\ s.preanimDone = r.preanimDone /\ s.sfx = r.sfx /\ s.preanim = r.preanim
         /\ s.marked = r.marked
         /\ Good(r) => Good(s)
<1>1. PICK X \in [Bases -> {"cold", "fetching", "resident"}], n \in Nat, k \in Nat :
        s = [r EXCEPT !.asset = X, !.waitFor = n, !.waitLeft = k]
  BY DEF Aside
<1>2. /\ s \in Rooms /\ Staged(r, s) /\ s.phase = r.phase /\ s.timer = r.timer
      /\ s.active = r.active /\ s.preBase = r.preBase /\ s.playOnce = r.playOnce
      /\ s.preanimDone = r.preanimDone /\ s.sfx = r.sfx /\ s.preanim = r.preanim
      /\ s.marked = r.marked
  BY <1>1 DEF Rooms, Staged, Same
<1>3. ASSUME Good(r) PROVE Good(s)
  <2>1. Performs(s) /\ Sounds(s) /\ Latched(s)
    BY <1>2, <1>3 DEF Good, Staged, Performs, Sounds, Latched
  <2>2. Shown(s)
    BY <1>2, <1>3 DEF Good, Staged, Same, Shown, Owing
  <2>3. QED BY <1>2, <2>1, <2>2 DEF Good
<1>4. QED BY <1>2, <1>3

LEMMA ArmFacts ==
  ASSUME NEW r \in Rooms, NEW m \in Message
  PROVE  Aside(r, Arm(r, m))
<1> DEFINE armed == [r EXCEPT !.waitFor = m.id, !.waitLeft = WaitTicks]
<1>0. m.id \in Nat /\ WaitTicks \in Nat
  BY MessageFacts, RoomConstants
<1>1. CASE r.waitFor = m.id
  <2>1. r = [r EXCEPT !.asset = r.asset, !.waitFor = r.waitFor, !.waitLeft = r.waitLeft]
    BY DEF Rooms
  <2>2. /\ r.asset \in [Bases -> {"cold", "fetching", "resident"}]
        /\ r.waitFor \in Nat /\ r.waitLeft \in Nat
    BY DEF Rooms
  <2>3. Aside(r, r)
    BY <2>1, <2>2 DEF Aside
  <2>4. QED BY <1>1, <2>3 DEF Arm
<1>2. CASE r.waitFor # m.id
  <2>1. armed \in Rooms
    BY <1>0 DEF Rooms
  <2>2. PICK X \in [Bases -> {"cold", "fetching", "resident"}] :
          Prefetch(armed, FirstFrame(m)) = [armed EXCEPT !.asset = X]
    BY <2>1, PrefetchFacts
  <2>3. [armed EXCEPT !.asset = X] = [r EXCEPT !.asset = X, !.waitFor = m.id, !.waitLeft = WaitTicks]
    BY DEF Rooms
  <2>4. Arm(r, m) = [r EXCEPT !.asset = X, !.waitFor = m.id, !.waitLeft = WaitTicks]
    BY <1>2, <2>2, <2>3 DEF Arm
  <2>5. QED BY <1>0, <2>4 DEF Aside
<1>3. QED BY <1>1, <1>2

LEMMA GatedFacts ==
  ASSUME NEW r \in Rooms, NEW m \in Message, NEW behind, NEW dt \in Nat
  PROVE  Aside(r, Gated(r, m, behind, dt))
<1> DEFINE a == Arm(r, m)
           off == [r EXCEPT !.waitFor = 0]
           n == IF a.waitLeft > dt THEN m.id ELSE 0
           k == IF a.waitLeft > dt THEN a.waitLeft - dt ELSE 0
           late == [a EXCEPT !.waitFor = n, !.waitLeft = k]
<1>0. m.id \in Nat
  BY MessageFacts
<1>1. r.asset \in [Bases -> {"cold", "fetching", "resident"}] /\ r.waitFor \in Nat /\ r.waitLeft \in Nat
  BY DEF Rooms
<1>2. Aside(r, r)
  <2>1. r = [r EXCEPT !.asset = r.asset, !.waitFor = r.waitFor, !.waitLeft = r.waitLeft]
    BY DEF Rooms
  <2>2. QED BY <1>1, <2>1 DEF Aside
<1>3. Aside(r, off)
  <2>1. off = [r EXCEPT !.asset = r.asset, !.waitFor = 0, !.waitLeft = r.waitLeft]
    BY DEF Rooms
  <2>2. QED BY <1>1, <2>1 DEF Aside
<1>4. Aside(r, a)
  BY ArmFacts
<1>5. Aside(r, late)
  <2>1. PICK X \in [Bases -> {"cold", "fetching", "resident"}], i \in Nat, j \in Nat :
          a = [r EXCEPT !.asset = X, !.waitFor = i, !.waitLeft = j]
    BY <1>4 DEF Aside
  <2>2. a.waitLeft \in Nat
    BY <2>1 DEF Rooms
  <2>3. n \in Nat /\ k \in Nat
    BY <1>0, <2>2
  <2> HIDE DEF a, n, k
  <2>4. late = [r EXCEPT !.asset = X, !.waitFor = n, !.waitLeft = k]
    BY <2>1 DEF Rooms
  <2> HIDE DEF late
  <2>5. QED BY <2>3, <2>4 DEF Aside
<1>6. Gated(r, m, behind, dt) \in {r, off, a, late}
  BY DEF Gated
<1>7. QED BY <1>2, <1>3, <1>4, <1>5, <1>6

LEMMA HoldsFacts ==
  ASSUME NEW r, NEW m, NEW behind, NEW dt,
         knobs.gate = "strict", ~Holds(r, m, behind, dt)
  PROVE  CatchesUp(behind) \/ Ready(r, m)
BY DEF Holds

-----------------------------------------------------------------------------
(* The queue, in the order of arrival.                                       *)
QueueInOrder(q, last, n) ==
  /\ last \in Nat /\ n \in Nat /\ last <= n
  /\ \A i \in 1 .. Len(q) : last <= q[i].id /\ q[i].id <= n
  /\ \A i, j \in 1 .. Len(q) : i <= j => q[i].id <= q[j].id

LEMMA HeadIsNext ==
  ASSUME NEW q \in Seq(Message), q # <<>>, NEW last, NEW n, QueueInOrder(q, last, n)
  PROVE  /\ Head(q) \in Message /\ Tail(q) \in Seq(Message) /\ Len(Tail(q)) = Len(q) - 1
         /\ last <= Head(q).id /\ QueueInOrder(Tail(q), Head(q).id, n)
<1>1. /\ Head(q) = q[1] /\ Head(q) \in Message /\ Tail(q) \in Seq(Message) /\ Len(q) \in Nat
      /\ Len(q) > 0 /\ Len(Tail(q)) = Len(q) - 1
      /\ \A i \in 1 .. Len(Tail(q)) : Tail(q)[i] = q[i + 1]
  OBVIOUS
<1>2. last <= Head(q).id /\ Head(q).id <= n /\ Head(q).id \in Nat /\ n \in Nat
  BY <1>1, MessageFacts DEF QueueInOrder
<1>3. \A i \in 1 .. Len(Tail(q)) : Head(q).id <= Tail(q)[i].id /\ Tail(q)[i].id <= n
  <2> TAKE i \in 1 .. Len(Tail(q))
  <2>1. i + 1 \in 1 .. Len(q) /\ 1 \in 1 .. Len(q) /\ 1 <= i + 1 /\ Tail(q)[i] = q[i + 1]
    BY <1>1
  <2>2. q[1].id <= q[i + 1].id /\ q[i + 1].id <= n
    BY <2>1 DEF QueueInOrder
  <2>3. QED BY <1>1, <2>1, <2>2
<1>4. \A i, j \in 1 .. Len(Tail(q)) : i <= j => Tail(q)[i].id <= Tail(q)[j].id
  <2> TAKE i, j \in 1 .. Len(Tail(q))
  <2> HAVE i <= j
  <2>1. /\ i + 1 \in 1 .. Len(q) /\ j + 1 \in 1 .. Len(q) /\ i + 1 <= j + 1
        /\ Tail(q)[i] = q[i + 1] /\ Tail(q)[j] = q[j + 1]
    BY <1>1
  <2>2. q[i + 1].id <= q[j + 1].id
    BY <2>1 DEF QueueInOrder
  <2>3. QED BY <2>1, <2>2
<1>5. QED BY <1>1, <1>2, <1>3, <1>4 DEF QueueInOrder

LEMMA AppendInOrder ==
  ASSUME NEW q \in Seq(Message), NEW last, NEW n, QueueInOrder(q, last, n),
         NEW m \in Message, n <= m.id
  PROVE  /\ Append(q, m) \in Seq(Message) /\ Len(Append(q, m)) = Len(q) + 1
         /\ QueueInOrder(Append(q, m), last, m.id)
<1>1. m.id \in Nat /\ last \in Nat /\ n \in Nat /\ last <= n
  BY MessageFacts DEF QueueInOrder
<1>2. /\ Append(q, m) \in Seq(Message) /\ Len(q) \in Nat /\ Len(Append(q, m)) = Len(q) + 1
      /\ \A i \in 1 .. Len(Append(q, m)) : Append(q, m)[i] = IF i = Len(q) + 1 THEN m ELSE q[i]
  OBVIOUS
<1>3. \A i \in 1 .. Len(q) : q[i].id \in Nat
  <2> TAKE i \in 1 .. Len(q)
  <2>1. q[i] \in Message OBVIOUS
  <2>2. QED BY <2>1, MessageFacts
<1>4. \A i \in 1 .. Len(Append(q, m)) : last <= Append(q, m)[i].id /\ Append(q, m)[i].id <= m.id
  <2> TAKE i \in 1 .. Len(Append(q, m))
  <2>1. CASE i = Len(q) + 1 BY <1>1, <1>2, <2>1
  <2>2. CASE i # Len(q) + 1
    <3>1. i \in 1 .. Len(q) /\ Append(q, m)[i] = q[i] BY <1>2, <2>2
    <3>2. last <= q[i].id /\ q[i].id <= n BY <3>1 DEF QueueInOrder
    <3>3. QED BY <1>1, <1>3, <3>1, <3>2
  <2>3. QED BY <2>1, <2>2
<1>5. \A i, j \in 1 .. Len(Append(q, m)) : i <= j => Append(q, m)[i].id <= Append(q, m)[j].id
  <2> TAKE i, j \in 1 .. Len(Append(q, m))
  <2> HAVE i <= j
  <2>1. CASE j = Len(q) + 1
    <3>1. Append(q, m)[j].id = m.id BY <1>2, <2>1
    <3>2. QED BY <1>4, <3>1
  <2>2. CASE j # Len(q) + 1
    <3>1. /\ i \in 1 .. Len(q) /\ j \in 1 .. Len(q)
          /\ Append(q, m)[i] = q[i] /\ Append(q, m)[j] = q[j]
      BY <1>2, <2>2
    <3>2. q[i].id <= q[j].id BY <3>1 DEF QueueInOrder
    <3>3. QED BY <3>1, <3>2
  <2>3. QED BY <2>1, <2>2
<1>6. last <= m.id BY <1>1
<1>7. QED BY <1>1, <1>2, <1>4, <1>5, <1>6 DEF QueueInOrder

(* Forgetting what came before only loosens the order. *)
LEMMA EarlierInOrder ==
  ASSUME NEW q \in Seq(Message), NEW last, NEW n, QueueInOrder(q, last, n),
         NEW first \in Nat, first <= last
  PROVE  QueueInOrder(q, first, n)
<1>1. \A i \in 1 .. Len(q) : q[i].id \in Nat
  <2> TAKE i \in 1 .. Len(q)
  <2>1. q[i] \in Message OBVIOUS
  <2>2. QED BY <2>1, MessageFacts
<1>2. QED BY <1>1 DEF QueueInOrder

-----------------------------------------------------------------------------
(* The cap: the queue holds between one and QueueCap messages.               *)
LEMMA EnqueueCappedFacts ==
  ASSUME NEW r \in Rooms, NEW n, QueueInOrder(r.queue, r.last, n), Len(r.queue) <= QueueCap,
         NEW m \in Message, n <= m.id
  PROVE  LET s == EnqueueCapped(r, m) IN
         /\ s = [r EXCEPT !.queue = s.queue] /\ s.queue \in Seq(Message)
         /\ Len(s.queue) <= QueueCap /\ QueueInOrder(s.queue, r.last, m.id)
<1> DEFINE Q == r.queue
           q == IF Len(Q) < QueueCap THEN Append(Q, m) ELSE Q
           p == IF Len(q) = QueueCap THEN Append(Tail(q), m) ELSE q
<1>1. Q \in Seq(Message) /\ Len(Q) \in Nat /\ QueueCap \in Nat /\ QueueCap > 0
  BY RoomConstants DEF Rooms
<1>2. /\ Append(Q, m) \in Seq(Message) /\ Len(Append(Q, m)) = Len(Q) + 1
      /\ QueueInOrder(Append(Q, m), r.last, m.id)
  BY <1>1, AppendInOrder
<1>3. m.id \in Nat /\ r.last \in Nat /\ n \in Nat
  BY MessageFacts DEF QueueInOrder
<1>4. /\ q \in Seq(Message) /\ Len(q) <= QueueCap /\ \E k : k <= m.id /\ QueueInOrder(q, r.last, k)
  <2>1. CASE Len(Q) < QueueCap
    <3>1. m.id <= m.id BY <1>3
    <3>2. q = Append(Q, m) BY <2>1
    <3>3. Len(Append(Q, m)) <= QueueCap BY <1>1, <1>2, <2>1
    <3> HIDE DEF q, Q
    <3>4. QED BY <1>2, <3>1, <3>2, <3>3
  <2>2. CASE ~(Len(Q) < QueueCap)
    <3>1. q = Q BY <2>2
    <3> HIDE DEF q
    <3>2. QED BY <1>1, <3>1
  <2>3. QED BY <2>1, <2>2
<1>5. PICK k : k <= m.id /\ QueueInOrder(q, r.last, k)
  BY <1>4
<1>6. p \in Seq(Message) /\ Len(p) <= QueueCap /\ QueueInOrder(p, r.last, m.id)
  <2>1. CASE Len(q) = QueueCap
    <3> HIDE DEF q
    <3>1. q # <<>>
      BY <1>1, <1>4, <2>1
    <3>2. /\ Head(q) \in Message /\ Tail(q) \in Seq(Message) /\ Len(Tail(q)) = Len(q) - 1
          /\ r.last <= Head(q).id /\ QueueInOrder(Tail(q), Head(q).id, k)
      BY <1>4, <1>5, <3>1, HeadIsNext
    <3>3. QueueInOrder(Tail(q), r.last, k)
      BY <1>3, <3>2, EarlierInOrder
    <3>4. /\ Append(Tail(q), m) \in Seq(Message) /\ Len(Append(Tail(q), m)) = Len(Tail(q)) + 1
          /\ QueueInOrder(Append(Tail(q), m), r.last, m.id)
      BY <1>5, <3>2, <3>3, AppendInOrder
    <3>5. Len(Append(Tail(q), m)) <= QueueCap
      BY <1>1, <2>1, <3>2, <3>4
    <3>6. p = Append(Tail(q), m)
      BY <2>1
    <3> HIDE DEF p
    <3>7. QED BY <3>4, <3>5, <3>6
  <2>2. CASE Len(q) # QueueCap
    <3>1. Len(Q) < QueueCap BY <1>1, <1>4, <2>2
    <3>2. q = Append(Q, m) /\ p = q BY <2>2, <3>1
    <3> HIDE DEF p, q, Q
    <3>3. QED BY <1>2, <1>4, <3>2
  <2>3. QED BY <2>1, <2>2
<1>7. EnqueueCapped(r, m) = [r EXCEPT !.queue = p]
  BY DEF EnqueueCapped
<1> HIDE DEF p
<1>8. [r EXCEPT !.queue = p].queue = p
  BY DEF Rooms
<1>9. QED BY <1>6, <1>7, <1>8

-----------------------------------------------------------------------------
(* The invariant, of a room r that has been sent the messages up to n.       *)
Steady(r, n) ==
  /\ Good(r) /\ Len(r.queue) <= QueueCap /\ QueueInOrder(r.queue, r.last, n) /\ n <= MaxMessages
  /\ IsFiniteSet(r.missing) /\ Cardinality(r.missing) <= MissingCap

LEMMA SameSteady ==
  ASSUME NEW r, NEW s, NEW n, Steady(r, n), Good(s), Same(r, s)
  PROVE  Steady(s, n)
BY DEF Steady, Same

(* What strict sequencing asks of a call that takes r to s. *)
Ripe(r, s) ==
  s.current = r.current \/ CatchesUp(Len(s.queue)) \/ Ready(r, s.current)

LEMMA DequeueFacts ==
  ASSUME NEW r, NEW n, Steady(r, n), r.queue # <<>>
  PROVE  LET s == Dequeue(r) IN
         /\ Steady(s, n) /\ r.last <= s.last
         /\ s.current = Head(r.queue) /\ Len(s.queue) = Len(r.queue) - 1
<1> DEFINE popped == [r EXCEPT !.queue = Tail(r.queue)]
           m == Head(r.queue)
           s == Begin(popped, m)
<1>1. r \in Rooms /\ r.queue \in Seq(Message) /\ QueueInOrder(r.queue, r.last, n)
  BY DEF Steady, Good, Rooms
<1>2. /\ m \in Message /\ Tail(r.queue) \in Seq(Message)
      /\ Len(Tail(r.queue)) = Len(r.queue) - 1
      /\ r.last <= m.id /\ QueueInOrder(Tail(r.queue), m.id, n)
  BY <1>1, HeadIsNext
<1>3. popped \in Rooms /\ popped.queue = Tail(r.queue) /\ popped.missing = r.missing
  BY <1>1, <1>2 DEF Rooms
<1>4. Dequeue(r) = s
  BY DEF Dequeue
<1> HIDE DEF popped, m
<1>5. /\ Good(s) /\ s.current = m /\ s.last = m.id
      /\ s.queue = popped.queue /\ s.missing = popped.missing
  BY <1>2, <1>3, BeginFacts
<1> HIDE DEF s
<1>6. Len(r.queue) \in Nat /\ QueueCap \in Nat
  BY <1>1, RoomConstants
<1>7. Len(s.queue) <= QueueCap
  BY <1>2, <1>3, <1>5, <1>6 DEF Steady
<1>8. Steady(s, n)
  BY <1>2, <1>3, <1>5, <1>7 DEF Steady
<1>9. QED BY <1>2, <1>3, <1>4, <1>5, <1>8 DEF m

LEMMA ReleaseFacts ==
  ASSUME NEW r, NEW n, Steady(r, n), NEW dt \in Nat
  PROVE  LET s == Release(r, dt) IN
         Steady(s, n) /\ r.last <= s.last /\ (knobs.gate = "strict" => Ripe(r, s))
<1> DEFINE m == Head(r.queue)
           behind == Len(r.queue) - 1
           g == Gated(r, m, behind, dt)
<1>1. r \in Rooms /\ r.queue \in Seq(Message) /\ r.last \in Nat
  BY DEF Steady, Good, Rooms
<1>2. CASE r.queue = <<>>
  <2>1. Release(r, dt) = r
    BY <1>2 DEF Release
  <2>2. QED BY <1>1, <2>1 DEF Ripe
<1>3. CASE r.queue # <<>>
  <2>1. m \in Message
    BY <1>1, <1>3
  <2>2. Aside(r, g)
    BY <1>1, <2>1, GatedFacts
  <2>3. Release(r, dt) = IF Holds(r, m, behind, dt) THEN g ELSE Dequeue(g)
    BY <1>3 DEF Release
  <2> HIDE DEF m, behind, g
  <2>4. Staged(r, g) /\ Good(g)
    BY <1>1, <2>2, AsideFacts DEF Steady
  <2>5. Steady(g, n)
    BY <2>4, SameSteady DEF Staged
  <2>6. CASE Holds(r, m, behind, dt)
    BY <1>1, <2>3, <2>4, <2>5, <2>6 DEF Staged, Same, Ripe
  <2>7. CASE ~Holds(r, m, behind, dt)
    <3>1. g.queue = r.queue /\ g.last = r.last
      BY <2>4 DEF Staged, Same
    <3>2. /\ Steady(Dequeue(g), n) /\ g.last <= Dequeue(g).last
          /\ Dequeue(g).current = Head(g.queue) /\ Len(Dequeue(g).queue) = Len(g.queue) - 1
      BY <1>3, <2>5, <3>1, DequeueFacts
    <3>3. knobs.gate = "strict" => CatchesUp(behind) \/ Ready(r, m)
      BY <2>7, HoldsFacts
    <3>4. knobs.gate = "strict" => Ripe(r, Dequeue(g))
      BY <3>1, <3>2, <3>3 DEF Ripe, m, behind
    <3>5. QED BY <2>3, <2>7, <3>1, <3>2, <3>4
  <2>8. QED BY <2>6, <2>7
<1>4. QED BY <1>2, <1>3

LEMMA EnqueueFacts ==
  ASSUME NEW r, NEW n \in Nat, Steady(r, n), NEW m \in Message, m.id = n + 1
  PROVE  LET s == Enqueue(r, m) IN
         /\ Steady(s, m.id) /\ r.last <= s.last
         /\ knobs.gate = "strict" /\ ~(s.current.kind.shout /\ knobs.bypass) => Ripe(r, s)
<1> DEFINE cleared == [r EXCEPT !.queue = <<>>]
           g == Gated(r, m, 0, 0)
           alone == [g EXCEPT !.queue = <<m>>]
<1>1. /\ r \in Rooms /\ r.queue \in Seq(Message) /\ r.last \in Nat
      /\ QueueInOrder(r.queue, r.last, n) /\ Len(r.queue) <= QueueCap
  BY DEF Steady, Good, Rooms
<1>2. /\ m.id \in Nat /\ n <= m.id /\ r.last <= m.id /\ m.id <= MaxMessages
      /\ QueueCap \in Nat /\ QueueCap > 0 /\ Threshold \in Nat /\ Threshold > 0
  <2>1. m.id \in 1 .. MaxMessages
    BY DEF Message
  <2>2. r.last <= n
    BY <1>1 DEF QueueInOrder
  <2>3. QED BY <1>1, <2>1, <2>2, RoomConstants
<1>3. /\ <<>> \in Seq(Message) /\ Len(<<>>) = 0 /\ QueueInOrder(<<>>, m.id, m.id)
  BY <1>2 DEF QueueInOrder
<1>4. IsFiniteSet(r.missing) /\ Cardinality(r.missing) <= MissingCap
  BY DEF Steady
<1>5. CASE m.kind.shout /\ knobs.bypass
  <2>1. cleared \in Rooms /\ cleared.queue = <<>> /\ cleared.missing = r.missing
    BY <1>1, <1>3 DEF Rooms
  <2>2. Enqueue(r, m) = Begin(cleared, m)
    BY <1>5 DEF Enqueue
  <2> HIDE DEF cleared
  <2>3. /\ Good(Begin(cleared, m)) /\ Begin(cleared, m).current = m
        /\ Begin(cleared, m).last = m.id /\ Begin(cleared, m).queue = <<>>
        /\ Begin(cleared, m).missing = r.missing
    BY <2>1, BeginFacts
  <2>4. Steady(Begin(cleared, m), m.id)
    BY <1>2, <1>3, <1>4, <2>3 DEF Steady
  <2>5. QED BY <1>2, <1>5, <2>2, <2>3, <2>4
<1>6. CASE ~(m.kind.shout /\ knobs.bypass) /\ r.phase = "idle" /\ r.queue = <<>>
  <2>1. Aside(r, g)
    BY <1>1, GatedFacts
  <2>2. Enqueue(r, m) = IF Holds(r, m, 0, 0) THEN alone ELSE Begin(g, m)
    BY <1>6 DEF Enqueue
  <2> HIDE DEF g
  <2>3. g \in Rooms /\ Staged(r, g) /\ Good(g)
    BY <1>1, <2>1, AsideFacts DEF Steady
  <2>4. g.queue = <<>> /\ g.last = r.last /\ g.missing = r.missing /\ g.current = r.current
    BY <1>6, <2>3 DEF Staged, Same
  <2>5. CASE Holds(r, m, 0, 0)
    <3>1. <<m>> \in Seq(Message) /\ Len(<<m>>) = 1 /\ <<m>>[1] = m
      OBVIOUS
    <3>2. QueueInOrder(<<m>>, r.last, m.id)
      BY <1>1, <1>2, <3>1 DEF QueueInOrder
    <3>3. /\ alone \in Rooms /\ alone.queue = <<m>> /\ alone.last = r.last
          /\ alone.missing = r.missing /\ alone.current = r.current
          /\ alone.phase = g.phase /\ alone.sfx = g.sfx /\ alone.active = g.active
          /\ alone.playOnce = g.playOnce /\ alone.preanimDone = g.preanimDone
          /\ alone.preanim = g.preanim /\ alone.preBase = g.preBase
      BY <2>3, <2>4, <3>1 DEF Rooms
    <3> HIDE DEF alone
    <3>4. Performs(alone) /\ Sounds(alone) /\ Latched(alone)
      BY <2>3, <2>4, <3>3 DEF Good, Performs, Sounds, Latched
    <3>5. Shown(alone)
      BY <2>3, <2>4, <3>3 DEF Good, Shown, Owing
    <3>6. Steady(alone, m.id)
      BY <1>2, <1>4, <3>1, <3>2, <3>3, <3>4, <3>5 DEF Steady, Good
    <3>7. QED BY <1>1, <2>2, <2>5, <3>3, <3>6 DEF Ripe
  <2>6. CASE ~Holds(r, m, 0, 0)
    <3>1. /\ Good(Begin(g, m)) /\ Begin(g, m).current = m
          /\ Begin(g, m).last = m.id /\ Begin(g, m).queue = <<>>
          /\ Begin(g, m).missing = r.missing
      BY <2>3, <2>4, BeginFacts
    <3>2. Steady(Begin(g, m), m.id)
      BY <1>2, <1>3, <1>4, <3>1 DEF Steady
    <3>3. ~CatchesUp(0)
      BY <1>2 DEF CatchesUp
    <3>4. knobs.gate = "strict" => Ready(r, m)
      BY <2>6, <3>3, HoldsFacts
    <3>5. QED BY <1>2, <2>2, <2>6, <3>1, <3>2, <3>4 DEF Ripe
  <2>7. QED BY <2>5, <2>6
<1>7. CASE ~(m.kind.shout /\ knobs.bypass) /\ ~(r.phase = "idle" /\ r.queue = <<>>)
  <2> DEFINE s == EnqueueCapped(r, m)
  <2>1. /\ s = [r EXCEPT !.queue = s.queue] /\ s.queue \in Seq(Message)
        /\ Len(s.queue) <= QueueCap /\ QueueInOrder(s.queue, r.last, m.id)
    BY <1>1, <1>2, EnqueueCappedFacts
  <2>2. Enqueue(r, m) = s
    BY <1>7 DEF Enqueue
  <2> HIDE DEF s
  <2>3. /\ s \in Rooms /\ s.last = r.last /\ s.missing = r.missing /\ s.current = r.current
        /\ s.phase = r.phase /\ s.sfx = r.sfx /\ s.active = r.active
        /\ s.playOnce = r.playOnce /\ s.preanimDone = r.preanimDone
        /\ s.preanim = r.preanim /\ s.preBase = r.preBase
    <3>1. PICK q : s = [r EXCEPT !.queue = q] /\ q \in Seq(Message)
      BY <2>1
    <3>2. QED BY <1>1, <3>1 DEF Rooms
  <2>4. Performs(s) /\ Sounds(s) /\ Latched(s)
    BY <2>3 DEF Steady, Good, Performs, Sounds, Latched
  <2>5. Shown(s)
    BY <2>3 DEF Steady, Good, Shown, Owing
  <2>6. Steady(s, m.id)
    BY <1>2, <1>4, <2>1, <2>3, <2>4, <2>5 DEF Steady, Good
  <2>7. QED BY <1>1, <2>2, <2>3, <2>6 DEF Ripe
<1>8. QED BY <1>5, <1>6, <1>7

-----------------------------------------------------------------------------
(* One frame.                                                                *)
Kept(r, s) == Staged(r, s) /\ s.asset = r.asset

LEMMA KeptRipe ==
  ASSUME NEW r, NEW s, NEW t, Kept(r, s), Ripe(s, t)
  PROVE  Ripe(r, t)
<1>1. Ready(s, t.current) => Ready(r, t.current)
  BY DEF Kept, Staged, Same, Ready, Settled
<1>2. QED BY <1>1 DEF Kept, Staged, Ripe

LEMMA TickSFXFacts ==
  ASSUME NEW r \in Rooms, Good(r)
  PROVE  /\ Good(TickSFX(r)) /\ Kept(r, TickSFX(r)) /\ TickSFX(r).phase = r.phase
         /\ TickSFX(r).preanimDone = r.preanimDone /\ TickSFX(r).timer = r.timer
<1> DEFINE silent == [r EXCEPT !.sfx = Silence]
           ticked == [r EXCEPT !.sfx.left = @ - 1]
           s == TickSFX(r)
<1>1. r.sfx \in [of : Nat, left : Nat]
  BY DEF Rooms
<1>2. CASE s = r
  BY <1>2 DEF Kept, Staged, Same
<1>3. ASSUME NEW x \in [of : Nat, left : Nat], x.of \in {0, r.sfx.of}, s = [r EXCEPT !.sfx = x]
      PROVE  /\ Good(s) /\ Kept(r, s) /\ s.phase = r.phase
             /\ s.preanimDone = r.preanimDone /\ s.timer = r.timer
  <2> HIDE DEF s
  <2>1. /\ s \in Rooms /\ Kept(r, s) /\ s.phase = r.phase /\ s.sfx = x /\ s.active = r.active
        /\ s.playOnce = r.playOnce /\ s.preanimDone = r.preanimDone
        /\ s.preanim = r.preanim /\ s.preBase = r.preBase /\ s.timer = r.timer
    BY <1>3 DEF Rooms, Kept, Staged, Same
  <2>2. Performs(s) /\ Sounds(s) /\ Latched(s)
    BY <1>3, <2>1 DEF Good, Kept, Staged, Performs, Sounds, Latched
  <2>3. Shown(s)
    BY <2>1 DEF Good, Shown, Owing, Kept, Staged, Same
  <2>4. QED BY <2>1, <2>2, <2>3 DEF Good
<1>4. CASE s = silent
  <2>1. Silence \in [of : Nat, left : Nat] /\ Silence.of = 0
    BY DEF Silence
  <2>2. QED BY <1>3, <1>4, <2>1
<1>5. CASE s = ticked /\ r.sfx.left > 1
  <2> DEFINE x == [r.sfx EXCEPT !.left = @ - 1]
  <2>1. x \in [of : Nat, left : Nat] /\ x.of = r.sfx.of
    BY <1>1, <1>5
  <2>2. ticked = [r EXCEPT !.sfx = x]
    OBVIOUS
  <2>3. s = [r EXCEPT !.sfx = x]
    BY <1>5, <2>2
  <2> HIDE DEF x
  <2>4. QED BY <1>3, <2>1, <2>3
<1>6. r.sfx.left \in Nat
  BY <1>1
<1>7. QED BY <1>2, <1>4, <1>5, <1>6 DEF TickSFX

LEMMA TickImmediatePreanimFacts ==
  ASSUME NEW r \in Rooms, Good(r)
  PROVE  LET s == TickImmediatePreanim(r) IN
         /\ Good(s) /\ Kept(r, s) /\ s.phase = r.phase
         /\ s.preanimDone = r.preanimDone /\ s.timer = r.timer
<1> DEFINE s == TickImmediatePreanim(r)
           mouth == IF r.phase = "talking" THEN "talk" ELSE "idle"
           over == [EndPreanim(r) EXCEPT !.imPreLeft = 0, !.active = mouth]
<1>1. r.imPreLeft \in Nat
  BY DEF Rooms
<1>2. ASSUME NEW k \in Nat, s = [r EXCEPT !.imPreLeft = k]
      PROVE  /\ Good(s) /\ Kept(r, s) /\ s.phase = r.phase
             /\ s.preanimDone = r.preanimDone /\ s.timer = r.timer
  <2> HIDE DEF s
  <2>1. /\ s \in Rooms /\ Kept(r, s) /\ s.phase = r.phase /\ s.sfx = r.sfx /\ s.active = r.active
        /\ s.playOnce = r.playOnce /\ s.preanimDone = r.preanimDone
        /\ s.preanim = r.preanim /\ s.preBase = r.preBase /\ s.timer = r.timer
    BY <1>2 DEF Rooms, Kept, Staged, Same
  <2>2. Performs(s) /\ Sounds(s) /\ Latched(s)
    BY <2>1 DEF Good, Kept, Staged, Performs, Sounds, Latched
  <2>3. Shown(s)
    BY <2>1 DEF Good, Shown, Owing, Kept, Staged, Same
  <2>4. QED BY <2>1, <2>2, <2>3 DEF Good
<1>3. CASE s = over
  <2>1. /\ over \in Rooms /\ Kept(r, over) /\ over.phase = r.phase /\ over.sfx = r.sfx
        /\ over.active # "pre" /\ over.playOnce = FALSE /\ over.preanimDone = r.preanimDone
        /\ over.preanim = r.preanim /\ over.preBase = r.preBase /\ over.timer = r.timer
    BY DEF EndPreanim, Rooms, Kept, Staged, Same
  <2> HIDE DEF over
  <2>2. Performs(over) /\ Sounds(over) /\ Latched(over)
    BY <2>1 DEF Good, Kept, Staged, Performs, Sounds, Latched
  <2>3. Shown(over)
    BY <2>1 DEF Good, Shown, Owing, Kept, Staged, Same
  <2>4. QED BY <1>3, <2>1, <2>2, <2>3 DEF Good
<1>4. CASE s = r
  BY <1>4 DEF Kept, Staged, Same
<1>5. CASE s = [r EXCEPT !.imPreLeft = @ - 1] /\ r.imPreLeft > 1
  <2>1. r.imPreLeft - 1 \in Nat
    BY <1>1, <1>5
  <2>2. s = [r EXCEPT !.imPreLeft = r.imPreLeft - 1]
    BY <1>5
  <2>3. QED BY <1>2, <2>1, <2>2
<1>6. CASE s = [r EXCEPT !.imPreLeft = 0]
  BY <1>2, <1>6
<1>7. QED BY <1>3, <1>4, <1>5, <1>6 DEF TickImmediatePreanim

LEMMA LessFacts == ASSUME NEW n \in Nat PROVE Less(n) \in Nat
BY DEF Less

LEMMA ClockedFacts ==
  ASSUME Good(room)
  PROVE  /\ Good(Clocked) /\ Kept(room, Clocked) /\ Clocked.phase = room.phase
         /\ Clocked.preanimDone = room.preanimDone
         /\ Good(Waited) /\ Kept(room, Waited) /\ Waited.phase = room.phase
         /\ Waited.preanimDone = room.preanimDone
<1> DEFINE t == TickSFX(room)
           c == TickImmediatePreanim(t)
           w == [c EXCEPT !.timer = Less(c.timer)]
<1>1. /\ Good(t) /\ Kept(room, t) /\ t.phase = room.phase /\ t.preanimDone = room.preanimDone
  BY TickSFXFacts DEF Good
<1> HIDE DEF t
<1>2. /\ Good(c) /\ Kept(t, c) /\ c.phase = t.phase /\ c.preanimDone = t.preanimDone
  BY <1>1, TickImmediatePreanimFacts DEF Good
<1> HIDE DEF c
<1>3. Kept(room, c)
  BY <1>1, <1>2 DEF Kept, Staged, Same
<1>4. /\ w \in Rooms /\ Kept(c, w) /\ w.phase = c.phase /\ w.sfx = c.sfx /\ w.active = c.active
      /\ w.playOnce = c.playOnce /\ w.preanimDone = c.preanimDone
      /\ w.preanim = c.preanim /\ w.preBase = c.preBase
  <2>1. c \in Rooms
    BY <1>2 DEF Good
  <2>2. Less(c.timer) \in Nat
    BY <2>1, LessFacts DEF Rooms
  <2>3. QED BY <2>1, <2>2 DEF Rooms, Kept, Staged, Same
<1> HIDE DEF w
<1>5. Performs(w) /\ Sounds(w) /\ Latched(w)
  BY <1>2, <1>4 DEF Good, Kept, Staged, Performs, Sounds, Latched
<1>6. Shown(w)
  BY <1>2, <1>4 DEF Good, Shown, Owing, Kept, Staged, Same
<1>7. Clocked = c /\ Waited = w
  BY DEF Clocked, Waited, c, t, w
<1>8. Kept(room, w)
  BY <1>3, <1>4 DEF Kept, Staged, Same
<1>9. QED BY <1>1, <1>2, <1>3, <1>4, <1>5, <1>6, <1>7, <1>8 DEF Good

LEMMA UpdateFacts ==
  ASSUME NEW n, Steady(room, n)
  PROVE  Steady(Updated, n) /\ room.last <= Updated.last
         /\ (knobs.gate = "strict" => Ripe(room, Updated))
<1>1. /\ Good(room) /\ room \in Rooms /\ room.last \in Nat
      /\ room.phase \in {"shout", "preanim", "talking", "linger", "idle"}
  BY DEF Steady, Good, Rooms
<1>2. /\ Good(Clocked) /\ Kept(room, Clocked) /\ Clocked.phase = room.phase
      /\ Good(Waited) /\ Kept(room, Waited) /\ Waited.phase = room.phase
      /\ Clocked \in Rooms /\ Waited \in Rooms
  BY <1>1, ClockedFacts DEF Good
(* Within a message. *)
<1>3. ASSUME Good(Updated), Staged(room, Updated)
      PROVE  Steady(Updated, n) /\ room.last <= Updated.last /\ Ripe(room, Updated)
  BY <1>1, <1>3, SameSteady DEF Staged, Same, Ripe
<1>4. CASE room.phase = "shout"
  <2>1. CASE TimedOut
    <3>1. Waited.current \in Message /\ Sounds(Waited)
      BY <1>2, <1>4 DEF Good, Performs, Onstage
    <3>2. Waited.preanimDone = TRUE => Waited.preanim # "due"
      BY <1>2, <1>4 DEF Good, Shown
    <3>3. Good(EnterAfterShout(Waited)) /\ Staged(Waited, EnterAfterShout(Waited))
      BY <1>2, <3>1, <3>2, EnterAfterShoutFacts
    <3>4. Updated = EnterAfterShout(Waited)
      BY <1>4, <2>1 DEF Updated, UpdateShout
    <3>5. Staged(room, Updated)
      BY <1>2, <3>3, <3>4 DEF Kept, Staged, Same
    <3>6. QED BY <1>3, <3>3, <3>4, <3>5
  <2>2. CASE ~TimedOut
    <3>1. Updated = Waited
      BY <1>4, <2>2 DEF Updated, UpdateShout
    <3>2. QED BY <1>2, <1>3, <3>1 DEF Kept
  <2>3. QED BY <2>1, <2>2
<1>5. CASE room.phase = "preanim"
  <2>1. CASE room.preanimDone \/ TimedOut
    <3> DEFINE e == EndPreanim(Waited)
    <3>1. /\ e \in Rooms /\ e = [Waited EXCEPT !.playOnce = FALSE]
      BY <1>2, EndPreanimFacts
    <3>2. Updated = StartTalking(e)
      BY <1>5, <2>1 DEF Updated, UpdatePreanim
    <3> HIDE DEF e
    <3>3. /\ Staged(Waited, e) /\ e.sfx = Waited.sfx /\ e.preanim = Waited.preanim
      BY <1>2, <3>1 DEF Rooms, Staged, Same
    <3>4. e.current \in Message /\ Sounds(e) /\ ~Owing(e)
      BY <1>2, <1>5, <3>3 DEF Good, Performs, Onstage, Sounds, Staged, Shown, Owing
    <3>5. Good(StartTalking(e)) /\ Staged(e, StartTalking(e))
      BY <3>1, <3>4, StartTalkingFacts
    <3>6. Staged(room, Updated)
      BY <1>2, <3>2, <3>3, <3>5 DEF Kept, Staged, Same
    <3>7. QED BY <1>3, <3>2, <3>5, <3>6
  <2>2. CASE ~(room.preanimDone \/ TimedOut)
    <3>1. Updated = Waited
      BY <1>5, <2>2 DEF Updated, UpdatePreanim
    <3>2. QED BY <1>2, <1>3, <3>1 DEF Kept
  <2>3. QED BY <2>1, <2>2
<1>6. CASE room.phase = "talking"
  <2> DEFINE k == IF Clocked.typed < room.current.kind.text THEN Clocked.typed + 1 ELSE Clocked.typed
             t == [Clocked EXCEPT !.typed = k]
  <2>1. Updated = IF t.typed = room.current.kind.text THEN EnterLinger(t) ELSE t
    BY <1>6 DEF Updated, UpdateTalking
  <2>2. k \in Nat
    BY <1>2 DEF Rooms
  <2> HIDE DEF k
  <2>3. /\ t \in Rooms /\ Staged(Clocked, t) /\ t.phase = Clocked.phase /\ t.sfx = Clocked.sfx
        /\ t.active = Clocked.active /\ t.playOnce = Clocked.playOnce
        /\ t.preanimDone = Clocked.preanimDone /\ t.preanim = Clocked.preanim
        /\ t.preBase = Clocked.preBase
    BY <1>2, <2>2 DEF Rooms, Staged, Same
  <2> HIDE DEF t
  <2>4. Performs(t) /\ Sounds(t) /\ Latched(t)
    BY <1>2, <2>3 DEF Good, Staged, Performs, Sounds, Latched
  <2>5. Shown(t)
    BY <1>2, <2>3 DEF Good, Shown, Owing, Staged, Same
  <2>6. Good(t) /\ Staged(room, t)
    BY <1>2, <2>3, <2>4, <2>5 DEF Good, Kept, Staged, Same
  <2>7. /\ EnterLinger(t) \in Rooms /\ EnterLinger(t).phase = "linger"
        /\ Staged(t, EnterLinger(t)) /\ EnterLinger(t).sfx = t.sfx
    BY <2>3, EnterLingerFacts
  <2>8. Good(EnterLinger(t)) /\ Staged(room, EnterLinger(t))
    <3>1. Sounds(EnterLinger(t))
      BY <2>4, <2>7 DEF Sounds, Staged
    <3>2. QED BY <2>6, <2>7, <3>1 DEF Good, Performs, Latched, Shown, Onstage, Staged, Same
  <2>9. QED BY <1>3, <2>1, <2>6, <2>8
<1>7. CASE room.phase = "linger"
  <2>1. CASE TimedOut
    <3> DEFINE i == [Waited EXCEPT !.phase = "idle"]
    <3>1. Updated = Release(i, 0)
      BY <1>7, <2>1 DEF Updated, UpdateLinger
    <3>2. /\ i \in Rooms /\ Kept(Waited, i) /\ i.phase = "idle" /\ i.sfx = Waited.sfx
      BY <1>2 DEF Rooms, Kept, Staged, Same
    <3> HIDE DEF i
    <3>3. Sounds(i)
      BY <1>2, <3>2 DEF Good, Sounds, Kept, Staged
    <3>4. Good(i)
      BY <3>2, <3>3 DEF Good, Performs, Latched, Shown, Onstage
    <3>5. Kept(room, i)
      BY <1>2, <3>2 DEF Kept, Staged, Same
    <3>6. Steady(i, n) /\ i.last = room.last
      BY <3>4, <3>5, SameSteady DEF Kept, Staged, Same
    <3>7. /\ Steady(Release(i, 0), n) /\ i.last <= Release(i, 0).last
          /\ (knobs.gate = "strict" => Ripe(i, Release(i, 0)))
      BY <3>6, ReleaseFacts
    <3>8. knobs.gate = "strict" => Ripe(room, Release(i, 0))
      BY <3>5, <3>7, KeptRipe
    <3>9. QED BY <3>1, <3>6, <3>7, <3>8
  <2>2. CASE ~TimedOut
    <3>1. Updated = Waited
      BY <1>7, <2>2 DEF Updated, UpdateLinger
    <3>2. QED BY <1>2, <1>3, <3>1 DEF Kept
  <2>3. QED BY <2>1, <2>2
<1>8. CASE room.phase = "idle"
  <2>1. Updated = Release(Clocked, 1)
    BY <1>8 DEF Updated
  <2>2. Steady(Clocked, n) /\ Clocked.last = room.last
    BY <1>2, SameSteady DEF Kept, Staged, Same
  <2>3. /\ Steady(Release(Clocked, 1), n) /\ Clocked.last <= Release(Clocked, 1).last
        /\ (knobs.gate = "strict" => Ripe(Clocked, Release(Clocked, 1)))
    BY <2>2, ReleaseFacts
  <2>4. knobs.gate = "strict" => Ripe(room, Release(Clocked, 1))
    BY <1>2, <2>3, KeptRipe
  <2>5. QED BY <2>1, <2>2, <2>3, <2>4
<1>9. QED BY <1>1, <1>4, <1>5, <1>6, <1>7, <1>8

-----------------------------------------------------------------------------
(* The calls from outside.  Beside(r, s): s differs from r in nothing the    *)
(* invariant reads, but for assets, marks, clocks and what the room was told. *)
LEMMA BesideSteady ==
  ASSUME NEW r, NEW s \in Rooms, NEW n, Steady(r, n), Staged(r, s), s.phase = r.phase,
         s.sfx = r.sfx, s.active = r.active, s.playOnce = r.playOnce,
         s.preanimDone = r.preanimDone, s.preanim = r.preanim, s.preBase = r.preBase
  PROVE  Steady(s, n)
<1>1. Performs(s) /\ Sounds(s) /\ Latched(s)
  BY DEF Steady, Good, Staged, Performs, Sounds, Latched
<1>2. Shown(s)
  BY DEF Steady, Good, Shown, Owing, Staged, Same
<1>3. QED BY <1>1, <1>2, SameSteady DEF Good, Staged

LEMMA NotifyPreanimDoneFacts ==
  ASSUME NEW n, Steady(room, n), NotifyPreanimDone
  PROVE  Steady(room', n) /\ Staged(room, room')
<1>1. room \in Rooms /\ Good(room)
  BY DEF Steady, Good
<1>2. room.playOnce \in BOOLEAN /\ room.preanimDone \in BOOLEAN
  BY <1>1 DEF Rooms
<1> DEFINE d == room.preanimDone \/ room.playOnce
<1>3. d \in BOOLEAN /\ room' = [room EXCEPT !.preanimDone = d]
  BY DEF NotifyPreanimDone
<1>4. room.playOnce = FALSE => d = room.preanimDone
  BY <1>2
<1> HIDE DEF d
<1>5. /\ room' \in Rooms /\ Staged(room, room') /\ room'.phase = room.phase
      /\ room'.sfx = room.sfx /\ room'.active = room.active /\ room'.playOnce = room.playOnce
      /\ room'.preanimDone = d /\ room'.preanim = room.preanim /\ room'.preBase = room.preBase
  BY <1>1, <1>3 DEF Rooms, Staged, Same
<1>6. Performs(room') /\ Sounds(room') /\ Latched(room')
  BY <1>1, <1>5 DEF Good, Staged, Performs, Sounds, Latched
<1>7. Shown(room')
  BY <1>1, <1>4, <1>5 DEF Good, Shown, Owing, Staged, Same
<1>8. QED BY <1>5, <1>6, <1>7, SameSteady DEF Good, Staged

LEMMA NotifyPreanimStartedFacts ==
  ASSUME NEW n, Steady(room, n), NotifyPreanimStarted
  PROVE  Steady(room', n) /\ Staged(room, room')
<1>1. room \in Rooms
  BY DEF Steady, Good
<1>2. PICK t \in Nat, k \in Nat :
        room' = [room EXCEPT !.told = TRUE, !.timer = t, !.imPreLeft = k]
  <2> DEFINE told == [room EXCEPT !.told = TRUE]
  <2>1. room.timer \in Nat /\ room.imPreLeft \in Nat /\ LongPreanim \in Nat
    BY <1>1, RoomConstants DEF Rooms
  <2>2. /\ told = [room EXCEPT !.told = TRUE, !.timer = room.timer, !.imPreLeft = room.imPreLeft]
        /\ [told EXCEPT !.imPreLeft = LongPreanim]
             = [room EXCEPT !.told = TRUE, !.timer = room.timer, !.imPreLeft = LongPreanim]
        /\ [told EXCEPT !.timer = LongPreanim]
             = [room EXCEPT !.told = TRUE, !.timer = LongPreanim, !.imPreLeft = room.imPreLeft]
    BY <1>1 DEF Rooms
  <2>3. room' \in {told, [told EXCEPT !.imPreLeft = LongPreanim], [told EXCEPT !.timer = LongPreanim]}
    BY DEF NotifyPreanimStarted
  <2> HIDE DEF told
  <2>4. QED BY <2>1, <2>2, <2>3
<1>3. /\ room' \in Rooms /\ Staged(room, room') /\ room'.phase = room.phase
      /\ room'.sfx = room.sfx /\ room'.active = room.active /\ room'.playOnce = room.playOnce
      /\ room'.preanimDone = room.preanimDone /\ room'.preanim = room.preanim
      /\ room'.preBase = room.preBase
  BY <1>1, <1>2 DEF Rooms, Staged, Same
<1>4. QED BY <1>3, BesideSteady

LEMMA WipeStageFacts ==
  ASSUME Steady(room, arrived), WipeStage
  PROVE  Steady(room', arrived) /\ room.last <= room'.last /\ room'.current = Nobody
<1>1. /\ room \in Rooms /\ arrived \in Nat /\ room.last <= arrived
      /\ QueueCap \in Nat
  BY RoomConstants DEF Steady, Good, QueueInOrder
<1>2. <<>> \in Seq(Message) /\ Len(<<>>) = 0
  OBVIOUS
<1>3. Silence \in [of : Nat, left : Nat] /\ Silence.of = 0
  BY DEF Silence
<1>4. /\ room' \in Rooms /\ room'.queue = <<>> /\ room'.phase = "idle" /\ room'.current = Nobody
      /\ room'.sfx = Silence /\ room'.last = arrived /\ room'.missing = room.missing
  BY <1>1, <1>2, <1>3 DEF WipeStage, EndPreanim, Rooms
<1>5. Good(room')
  BY <1>3, <1>4 DEF Good, Performs, Sounds, Latched, Shown, Onstage
<1>6. QueueInOrder(room'.queue, room'.last, arrived) /\ Len(room'.queue) <= QueueCap
  BY <1>1, <1>2, <1>4, RoomConstants DEF QueueInOrder
<1>7. QED BY <1>1, <1>4, <1>5, <1>6 DEF Steady

-----------------------------------------------------------------------------
(* The asset pipeline.                                                       *)
LEMMA RecordMissingFacts ==
  ASSUME NEW r, NEW n, Steady(r, n), NEW b \in Bases
  PROVE  LET s == RecordMissing(r, b) IN
         /\ Steady(s, n) /\ \E M : s = [r EXCEPT !.missing = M] /\ r.missing \subseteq M
<1> DEFINE M == IF Cardinality(r.missing) < MissingCap THEN r.missing \cup {b} ELSE r.missing
           s == [r EXCEPT !.missing = M]
<1>1. /\ r \in Rooms /\ r.missing \in SUBSET Bases /\ IsFiniteSet(r.missing)
      /\ Cardinality(r.missing) <= MissingCap
  BY DEF Steady, Good, Rooms
<1>2. /\ M \in SUBSET Bases /\ r.missing \subseteq M /\ IsFiniteSet(M)
      /\ Cardinality(M) <= MissingCap
  <2>1. /\ Cardinality(r.missing) \in Nat /\ MissingCap \in Nat
        /\ IsFiniteSet(r.missing \cup {b})
        /\ Cardinality(r.missing \cup {b})
             = IF b \in r.missing THEN Cardinality(r.missing) ELSE Cardinality(r.missing) + 1
    BY <1>1, FS_AddElement, FS_CardinalityType, RoomConstants
  <2>2. CASE Cardinality(r.missing) < MissingCap
    <3>1. M = r.missing \cup {b} BY <2>2
    <3>2. Cardinality(r.missing \cup {b}) <= MissingCap BY <2>1, <2>2
    <3> HIDE DEF M
    <3>3. QED BY <1>1, <2>1, <3>1, <3>2
  <2>3. CASE ~(Cardinality(r.missing) < MissingCap)
    <3>1. M = r.missing BY <2>3
    <3> HIDE DEF M
    <3>2. QED BY <1>1, <3>1
  <2>4. QED BY <2>2, <2>3
<1>3. RecordMissing(r, b) = s
  <2>1. r = [r EXCEPT !.missing = r.missing]
    BY <1>1 DEF Rooms
  <2>2. QED BY <2>1 DEF RecordMissing
<1> HIDE DEF M
<1>4. /\ s \in Rooms /\ s.missing = M /\ s.queue = r.queue /\ s.last = r.last
      /\ s.current = r.current /\ s.phase = r.phase /\ s.sfx = r.sfx /\ s.active = r.active
      /\ s.playOnce = r.playOnce /\ s.preanimDone = r.preanimDone /\ s.preanim = r.preanim
      /\ s.preBase = r.preBase
  BY <1>1, <1>2 DEF Rooms
<1>5. \E N : s = [r EXCEPT !.missing = N] /\ r.missing \subseteq N
  BY <1>2
<1> HIDE DEF s
<1>6. Performs(s) /\ Sounds(s) /\ Latched(s)
  BY <1>4 DEF Steady, Good, Performs, Sounds, Latched
<1>7. Owing(s) => Owing(r)
  BY <1>2, <1>4 DEF Owing
<1>8. Shown(s)
  BY <1>4, <1>7 DEF Steady, Good, Shown
<1>9. Steady(s, n)
  BY <1>2, <1>4, <1>6, <1>8 DEF Steady, Good
<1>10. QED BY <1>3, <1>5, <1>9

(* A 404 for the preanimation on stage takes the speaker off it at once.     *)
LEMMA NotifyAssetMissingFacts ==
  ASSUME NEW r, NEW n, Steady(r, n), NEW b \in Bases
  PROVE  LET s == NotifyAssetMissing(r, b) IN
         /\ Steady(s, n) /\ s.current = r.current /\ s.queue = r.queue /\ s.last = r.last
         /\ s.asset = r.asset /\ s.marked = r.marked
<1> DEFINE known == RecordMissing(r, b)
           absent == IF known.preanim = "due" THEN "absent" ELSE known.preanim
           done == [known EXCEPT !.preanimDone = TRUE, !.preanim = absent]
           mouth == IF r.phase \in {"talking", "preanim"} THEN "talk" ELSE EndPreanim(done).active
           over == [EndPreanim(done) EXCEPT !.imPreLeft = 0, !.active = mouth]
<1>1. /\ r \in Rooms /\ Steady(known, n)
      /\ \E M : known = [r EXCEPT !.missing = M]
  BY RecordMissingFacts DEF Steady, Good
<1>2. NotifyAssetMissing(r, b) = IF r.current = Nobody \/ b # r.preBase THEN known
                                ELSE IF ~r.playOnce THEN done ELSE over
  BY DEF NotifyAssetMissing
<1> HIDE DEF known
<1>3. /\ known \in Rooms /\ known.current = r.current /\ known.queue = r.queue
      /\ known.last = r.last /\ known.asset = r.asset /\ known.marked = r.marked
      /\ known.phase = r.phase /\ known.playOnce = r.playOnce
  BY <1>1 DEF Rooms, Steady, Good
<1>4. absent \in {"shown", "absent"}
  BY <1>3 DEF Rooms
<1> HIDE DEF absent
<1>5. /\ done \in Rooms /\ Staged(known, done) /\ done.phase = known.phase
      /\ done.sfx = known.sfx /\ done.active = known.active /\ done.playOnce = known.playOnce
      /\ done.preanim # "due" /\ done.asset = known.asset /\ done.marked = known.marked
  BY <1>3, <1>4 DEF Rooms, Staged, Same
<1> HIDE DEF done
<1>6. Performs(done) /\ Sounds(done) /\ Latched(done)
  BY <1>1, <1>5 DEF Steady, Good, Staged, Performs, Sounds, Latched
<1>7. Shown(done) /\ Good(done)
  BY <1>1, <1>5, <1>6 DEF Steady, Good, Shown, Owing
<1>8. Steady(done, n)
  BY <1>1, <1>5, <1>7, SameSteady DEF Staged
<1>9. mouth \in {"talk", done.active} /\ (r.phase \in {"talking", "preanim"} => mouth = "talk")
  <2>1. EndPreanim(done).active = done.active
    BY <1>5 DEF EndPreanim, Rooms
  <2>2. QED BY <2>1
<1> HIDE DEF mouth
<1>10. /\ over \in Rooms /\ Staged(done, over) /\ over.phase = done.phase
       /\ over.sfx = done.sfx /\ over.active = mouth /\ over.playOnce = FALSE
       /\ over.preanim = done.preanim /\ over.asset = done.asset /\ over.marked = done.marked
  BY <1>5, <1>9 DEF EndPreanim, Rooms, Staged, Same
<1> HIDE DEF over
<1>11. ASSUME r.playOnce = TRUE PROVE Steady(over, n)
  <2>1. r.phase # "shout"
    BY <1>11 DEF Steady, Good, Shown
  <2>2. Performs(over) /\ Sounds(over)
    BY <1>6, <1>10 DEF Staged, Performs, Sounds
  <2>3. Latched(over) /\ Shown(over)
    BY <1>3, <1>5, <1>9, <1>10, <2>1 DEF Latched, Shown, Owing, Onstage
  <2>4. QED BY <1>8, <1>10, <2>2, <2>3, SameSteady DEF Good, Staged
<1>12. r.playOnce \in BOOLEAN
  BY <1>1 DEF Rooms
<1>13. /\ done.current = r.current /\ done.queue = r.queue /\ done.last = r.last
       /\ done.asset = r.asset /\ done.marked = r.marked
       /\ over.current = r.current /\ over.queue = r.queue /\ over.last = r.last
       /\ over.asset = r.asset /\ over.marked = r.marked
  BY <1>3, <1>5, <1>10 DEF Staged, Same
<1>14. QED BY <1>1, <1>2, <1>3, <1>8, <1>11, <1>12, <1>13

LEMMA PipelineFacts ==
  ASSUME NEW n, Steady(room, n), NEW b \in Bases, Upload(b) \/ Warn(b) \/ NoAnswer(b) \/ Evict(b)
  PROVE  /\ Steady(room', n) /\ room'.current = room.current
         /\ room'.queue = room.queue /\ room'.last = room.last
(* An asset changes state and the store's marks with it. *)
<1>1. ASSUME NEW r, Steady(r, n), NEW x \in {"cold", "resident"}, NEW M \in SUBSET Bases,
             room' = [r EXCEPT !.asset[b] = x, !.marked = M],
             r.current = room.current, r.queue = room.queue, r.last = room.last
      PROVE  /\ Steady(room', n) /\ room'.current = room.current
             /\ room'.queue = room.queue /\ room'.last = room.last
  <2> DEFINE X == [r.asset EXCEPT ![b] = x]
  <2>1. r \in Rooms /\ X \in [Bases -> {"cold", "fetching", "resident"}]
    BY <1>1 DEF Steady, Good, Rooms
  <2>2. room' = [r EXCEPT !.asset = X, !.marked = M]
    BY <1>1, <2>1 DEF Rooms
  <2> HIDE DEF X
  <2>3. /\ room' \in Rooms /\ Staged(r, room') /\ room'.phase = r.phase
        /\ room'.sfx = r.sfx /\ room'.active = r.active /\ room'.playOnce = r.playOnce
        /\ room'.preanimDone = r.preanimDone /\ room'.preanim = r.preanim
        /\ room'.preBase = r.preBase
    BY <1>1, <2>1, <2>2 DEF Rooms, Staged, Same
  <2>4. QED BY <1>1, <2>3, BesideSteady DEF Staged, Same
<1>2. room \in Rooms /\ room.marked \in SUBSET Bases
  BY DEF Steady, Good, Rooms
<1>3. \A x : [room EXCEPT !.asset[b] = x] = [room EXCEPT !.asset[b] = x, !.marked = room.marked]
  BY <1>2 DEF Rooms
<1>4. CASE Upload(b)
  <2>1. room' = [room EXCEPT !.asset[b] = "resident", !.marked = room.marked \ {b}]
    BY <1>4 DEF Upload
  <2>2. room.marked \ {b} \in SUBSET Bases
    BY <1>2
  <2>3. QED BY <1>1, <2>1, <2>2
<1>5. CASE Warn(b)
  <2> DEFINE r == NotifyAssetMissing(room, b)
  <2>1. /\ Steady(r, n) /\ r.current = room.current /\ r.queue = room.queue
        /\ r.last = room.last /\ r.marked = room.marked
    BY NotifyAssetMissingFacts
  <2>2. room' = [r EXCEPT !.asset[b] = "cold", !.marked = r.marked \cup {b}]
    BY <1>5 DEF Warn
  <2> HIDE DEF r
  <2>3. r.marked \cup {b} \in SUBSET Bases
    BY <1>2, <2>1
  <2>4. QED BY <1>1, <2>1, <2>2, <2>3
<1>6. CASE NoAnswer(b) \/ Evict(b)
  <2>1. room' = [room EXCEPT !.asset[b] = "cold", !.marked = room.marked]
    BY <1>3, <1>6 DEF NoAnswer, Evict
  <2>2. QED BY <1>1, <1>2, <2>1
<1>7. QED BY <1>4, <1>5, <1>6

-----------------------------------------------------------------------------
RoomInv == Steady(room, arrived)

LEMMA RoomInitInv == RoomInit => RoomInv
<1> SUFFICES ASSUME RoomInit PROVE RoomInv
  OBVIOUS
<1>1. /\ [b \in Bases |-> "cold"] \in [Bases -> {"cold", "fetching", "resident"}]
      /\ <<>> \in Seq(Message) /\ Len(<<>>) = 0 /\ Silence \in [of : Nat, left : Nat]
      /\ Silence.of = 0
  BY DEF Silence
<1>2. /\ room \in Rooms /\ room.queue = <<>> /\ room.phase = "idle" /\ room.sfx = Silence
      /\ room.missing = {} /\ room.last = 0 /\ arrived = 0
  BY <1>1 DEF RoomInit, Rooms
<1>3. Good(room)
  BY <1>1, <1>2 DEF Good, Performs, Sounds, Latched, Shown, Onstage
<1>4. IsFiniteSet({}) /\ Cardinality({}) = 0
  BY FS_EmptySet
<1>5. QED BY <1>1, <1>2, <1>3, <1>4, RoomConstants DEF RoomInv, Steady, QueueInOrder

(* What every step does, beside keeping the invariant. *)
LEMMA RoomStep ==
  ASSUME RoomInv, [RoomNext]_roomVars
  PROVE  /\ RoomInv' /\ room.last <= room'.last
         /\ knobs.gate = "strict" =>
              \/ room'.current = Nobody
              \/ room'.current.kind.shout /\ knobs.bypass
              \/ Ripe(room, room')
<1>1. room.last \in Nat /\ arrived \in Nat
  BY DEF RoomInv, Steady, QueueInOrder
(* A step that leaves stage, queue and history alone. *)
<1>2. ASSUME Steady(room', arrived), room'.current = room.current, room'.last = room.last,
             arrived' = arrived
      PROVE  RoomInv' /\ room.last <= room'.last /\ Ripe(room, room')
  BY <1>1, <1>2 DEF RoomInv, Steady, Ripe, QueueInOrder
<1>3. CASE UNCHANGED roomVars
  BY <1>1, <1>2, <1>3 DEF roomVars, RoomInv
<1>4. ASSUME NEW k \in Kinds, Arrive(k)
      PROVE  /\ RoomInv' /\ room.last <= room'.last
             /\ knobs.gate = "strict" =>
                  (room'.current.kind.shout /\ knobs.bypass) \/ Ripe(room, room')
  <2> DEFINE m == [id |-> arrived + 1, kind |-> k]
  <2>1. /\ m \in Message /\ m.id = arrived + 1
        /\ room' = Enqueue(room, m) /\ arrived' = m.id
    BY <1>1, <1>4, RoomConstants DEF Arrive, Message
  <2> HIDE DEF m
  <2>2. /\ Steady(Enqueue(room, m), m.id) /\ room.last <= Enqueue(room, m).last
        /\ knobs.gate = "strict" /\ ~(Enqueue(room, m).current.kind.shout /\ knobs.bypass)
             => Ripe(room, Enqueue(room, m))
    BY <1>1, <2>1, EnqueueFacts DEF RoomInv
  <2>3. RoomInv' = Steady(room', arrived')
    BY DEF RoomInv
  <2>4. QED BY <2>1, <2>2, <2>3
<1>5. CASE Update
  <2>1. /\ Steady(Updated, arrived) /\ room.last <= Updated.last
        /\ (knobs.gate = "strict" => Ripe(room, Updated))
    BY UpdateFacts DEF RoomInv
  <2>2. room' = Updated /\ arrived' = arrived
    BY <1>5 DEF Update
  <2>3. RoomInv' = Steady(room', arrived')
    BY DEF RoomInv
  <2>4. QED BY <2>1, <2>2, <2>3
<1>6. CASE NotifyPreanimDone
  <2>1. Steady(room', arrived) /\ Staged(room, room')
    BY <1>6, NotifyPreanimDoneFacts DEF RoomInv
  <2>2. arrived' = arrived
    BY <1>6 DEF NotifyPreanimDone
  <2>3. QED BY <1>2, <2>1, <2>2 DEF Staged, Same
<1>7. CASE NotifyPreanimStarted
  <2>1. Steady(room', arrived) /\ Staged(room, room')
    BY <1>7, NotifyPreanimStartedFacts DEF RoomInv
  <2>2. arrived' = arrived
    BY <1>7 DEF NotifyPreanimStarted
  <2>3. QED BY <1>2, <2>1, <2>2 DEF Staged, Same
<1>8. CASE WipeStage
  <2>1. Steady(room', arrived) /\ room.last <= room'.last /\ room'.current = Nobody
    BY <1>8, WipeStageFacts DEF RoomInv
  <2>2. arrived' = arrived
    BY <1>8 DEF WipeStage
  <2>3. RoomInv' = Steady(room', arrived')
    BY DEF RoomInv
  <2>4. QED BY <2>1, <2>2, <2>3
<1>9. ASSUME NEW b \in Bases, Answer(b) \/ (Evict(b) /\ UNCHANGED <<knobs, arrived>>)
      PROVE  RoomInv' /\ room.last <= room'.last /\ Ripe(room, room')
  <2>1. (Upload(b) \/ Warn(b) \/ NoAnswer(b) \/ Evict(b)) /\ arrived' = arrived
    BY <1>9 DEF Answer
  <2>2. /\ Steady(room', arrived) /\ room'.current = room.current
        /\ room'.last = room.last
    BY <2>1, PipelineFacts DEF RoomInv
  <2>3. QED BY <1>2, <2>1, <2>2
<1>10. QED BY <1>3, <1>4, <1>5, <1>6, <1>7, <1>8, <1>9 DEF RoomNext

LEMMA RoomInvariant == RoomSpec => []RoomInv
<1>1. RoomInit => RoomInv
  BY RoomInitInv
<1>2. RoomInv /\ [RoomNext]_roomVars => RoomInv'
  BY RoomStep
<1>3. QED BY <1>1, <1>2, PTL DEF RoomSpec

-----------------------------------------------------------------------------
(* The room is what its type says; in particular the queue never passes     *)
(* QueueCap, the miss set never passes MissingCap, and the stage is never   *)
(* ahead of the server.                                                     *)
THEOREM RoomTypeCorrect == RoomSpec => []RoomTypeOK
<1>1. RoomInv => RoomTypeOK
  <2> SUFFICES ASSUME RoomInv PROVE RoomTypeOK
    OBVIOUS
  <2>1. /\ room \in Rooms /\ Len(room.queue) <= QueueCap
        /\ Cardinality(room.missing) <= MissingCap
        /\ room.last \in Nat /\ arrived \in Nat /\ room.last <= arrived
        /\ arrived <= MaxMessages /\ MaxMessages \in Nat
    BY RoomConstants DEF RoomInv, Steady, Good, QueueInOrder
  <2>2. arrived \in 0 .. MaxMessages /\ room.last \in 0 .. arrived
    BY <2>1
  <2>3. /\ room.queue \in Seq(Message) /\ room.current \in Message \cup {Nobody}
        /\ room.phase \in {"shout", "preanim", "talking", "linger", "idle"}
        /\ room.active \in {"none", "idle", "talk", "pre"}
        /\ {room.playOnce, room.preanimDone, room.told} \subseteq BOOLEAN
        /\ room.missing \cup room.marked \subseteq Bases
        /\ room.asset \in [Bases -> {"cold", "fetching", "resident"}]
        /\ room.preBase \in Bases \cup {NoBase} /\ room.preanim \in {"due", "shown", "absent"}
    BY <2>1 DEF Rooms
  <2>4. {room.timer, room.imPreLeft, room.waitLeft, room.typed, room.sfx.left} \subseteq Nat
    <3>1. room.sfx \in [of : Nat, left : Nat]
      BY <2>1 DEF Rooms
    <3>2. /\ room.timer \in Nat /\ room.imPreLeft \in Nat /\ room.waitLeft \in Nat
          /\ room.typed \in Nat /\ room.sfx.left \in Nat
      BY <2>1, <3>1 DEF Rooms
    <3>3. QED BY <3>2
  <2>5. QED BY <2>1, <2>2, <2>3, <2>4 DEF RoomTypeOK, Message
<1>2. QED BY <1>1, RoomInvariant, PTL

(* A delayed sound belongs to the message on stage, for every queue, gate   *)
(* and order of calls.                                                      *)
THEOREM SoundsAreCurrent == RoomSpec => []SoundIsCurrent
<1>1. RoomInv => SoundIsCurrent
  BY DEF RoomInv, Steady, Good, Sounds, SoundIsCurrent
<1>2. QED BY <1>1, RoomInvariant, PTL

(* The speaker of a message being performed is never parked on a missing    *)
(* preanimation without the latch that hides the placeholder.               *)
THEOREM NoPlaceholderShown == RoomSpec => []NoPlaceholder
<1>1. RoomInv => NoPlaceholder
  BY DEF RoomInv, Steady, Good, Latched, Onstage, NoPlaceholder
<1>2. QED BY <1>1, RoomInvariant, PTL

(* A message whose text runs has shown its preanimation, or the art was     *)
(* absent.                                                                  *)
THEOREM PreanimsAreShown == RoomSpec => []PreanimNotSkipped
<1>1. RoomInv => PreanimNotSkipped
  BY DEF RoomInv, Steady, Good, Shown, Owing, PreanimNotSkipped
<1>2. QED BY <1>1, RoomInvariant, PTL

(* The stage never goes back to an earlier message.                         *)
THEOREM StageKeepsOrder == RoomSpec => StageInOrder
<1>1. RoomInv /\ [RoomNext]_roomVars => [room'.last >= room.last]_roomVars
  <2> SUFFICES ASSUME RoomInv, [RoomNext]_roomVars PROVE room'.last >= room.last
    OBVIOUS
  <2>1. RoomInv' /\ room.last <= room'.last
    BY RoomStep
  <2>2. room.last \in Nat /\ room'.last \in Nat
    BY <2>1 DEF RoomInv, Steady, QueueInOrder
  <2>3. QED BY <2>1, <2>2
<1>2. QED BY <1>1, RoomInvariant, PTL DEF RoomSpec, StageInOrder

(* Under strict sequencing a message that plays in full found its first     *)
(* frame settled when it took the stage.                                    *)
THEOREM StrictStagesWarm == RoomSpec => ColdNeverStaged
<1>1. RoomInv /\ [RoomNext]_roomVars =>
        [/\ knobs.gate = "strict" /\ room'.current \notin {room.current, Nobody}
         /\ ~(room'.current.kind.shout /\ knobs.bypass) /\ ~CatchesUp(Len(room'.queue))
         => Ready(room, room'.current)]_roomVars
  BY RoomStep DEF Ripe
<1>2. QED BY <1>1, RoomInvariant, PTL DEF RoomSpec, ColdNeverStaged
=============================================================================
