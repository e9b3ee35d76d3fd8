--------------------------------- MODULE Room ---------------------------------
(***************************************************************************)
(* The courtroom message machine of internal/courtroom/courtroom.go: the   *)
(* bounded IC queue, the wait gate that holds a message until its art has  *)
(* settled, and the phases shout, preanim, talking, linger, idle with the  *)
(* clocks that run beside them (delayed sound, immediate-mode preanim).    *)
(*                                                                         *)
(* Everything runs on the render thread, so one step is one whole call;    *)
(* what interleaves is the order of the calls: messages, frames, reports   *)
(* of the renderer, answers of the asset pipeline.  A message is an id and *)
(* a kind; all its first-frame art is the set FirstFrame.                  *)
(***************************************************************************)
EXTENDS Integers, Sequences, FiniteSets, SequencesExt

CONSTANTS
  Kinds,        (* [shout, mode, text, marks, sound, delay, idle, talk, pre, scene] *)
  Bases,        (* asset bases a message may need                          *)
  Knobs,        (* preference sets: [gate, catchUp, bypass]                *)
  QueueCap, Threshold, MissingCap, (* queue, catch-up and miss-set bounds  *)
  ShoutTicks, PreanimTicks, StayTicks, WaitTicks, (* phase clocks, in ticks *)
  LongPreanim,  (* length of a decoded preanimation, slack included        *)
  MaxMessages   (* bound on messages that arrive                           *)

ASSUME RoomAssumption ==
  /\ \A k \in Kinds : /\ {k.idle, k.talk, k.pre} \cup k.scene \subseteq Bases
                      /\ k.mode \in {"plain", "block", "over"}
                      /\ k.text \in Nat /\ k.delay \in Nat
                      /\ {k.shout, k.marks, k.sound} \subseteq BOOLEAN
  /\ Knobs \subseteq [gate : {"off", "wait", "strict"}, catchUp : BOOLEAN, bypass : BOOLEAN]
  /\ {QueueCap, Threshold, ShoutTicks, PreanimTicks, StayTicks, WaitTicks, LongPreanim}
       \subseteq Nat \ {0}
  /\ {MissingCap, MaxMessages} \subseteq Nat

VARIABLES
  knobs,   (* the preferences, fixed for a run                             *)
  arrived, (* messages the server has sent                                 *)
  room     (* the Courtroom, with what the pipeline has done for it        *)
roomVars == <<knobs, arrived, room>>

Nobody  == [id |-> 0]
Silence == [of |-> 0, left |-> 0]
NoBase  == "no base"

RoomInit ==
  /\ knobs \in Knobs /\ arrived = 0
  /\ room = [queue |-> <<>>, phase |-> "idle", timer |-> 0, current |-> Nobody,
             waitFor |-> 0, waitLeft |-> 0,
             active |-> "none", preBase |-> NoBase, playOnce |-> FALSE,
             preanimDone |-> FALSE, imPreLeft |-> 0, sfx |-> Silence, typed |-> 0,
             missing |-> {},                       (* missingSprites       *)
             asset |-> [b \in Bases |-> "cold"],   (* the pipeline's side  *)
             marked |-> {},                        (* the store's misses   *)
             last |-> 0, preanim |-> "due", told |-> FALSE] (* history     *)

RoomTypeOK ==
  LET Message == [id : 1 .. MaxMessages, kind : Kinds] IN
  /\ arrived \in 0 .. MaxMessages /\ room.last \in 0 .. arrived
  /\ room.queue \in Seq(Message) /\ Len(room.queue) <= QueueCap
  /\ room.current \in Message \cup {Nobody}
  /\ room.phase \in {"shout", "preanim", "talking", "linger", "idle"}
  /\ room.active \in {"none", "idle", "talk", "pre"}
  /\ {room.timer, room.imPreLeft, room.waitLeft, room.typed, room.sfx.left} \subseteq Nat
  /\ {room.playOnce, room.preanimDone, room.told} \subseteq BOOLEAN
  /\ Cardinality(room.missing) <= MissingCap /\ room.missing \cup room.marked \subseteq Bases
  /\ room.asset \in [Bases -> {"cold", "fetching", "resident"}]
  /\ room.preBase \in Bases \cup {NoBase} /\ room.preanim \in {"due", "shown", "absent"}

-----------------------------------------------------------------------------
(* What a message needs, and whether the room has an answer for it.         *)
PreanimWillPlay(m) == m.kind.mode # "plain"

FirstFrame(m) ==
  {m.kind.idle, m.kind.talk}
    \cup (IF PreanimWillPlay(m) THEN {m.kind.pre} ELSE {})
    \cup (IF knobs.gate = "strict" THEN m.kind.scene ELSE {})

Settled(r, b) == r.asset[b] = "resident" \/ b \in r.missing

Prefetch(r, B) ==
  [r EXCEPT !.asset = [b \in Bases |->
     IF b \in B /\ r.asset[b] = "cold" THEN "fetching" ELSE r.asset[b]]]

Less(n) == IF n > 0 THEN n - 1 ELSE 0

CatchesUp(behind) == knobs.catchUp /\ behind >= Threshold

-----------------------------------------------------------------------------
(* The wait gate: Holds says whether m stays off the stage for a tick of dt, *)
(* Gated is the room after the question was asked.                           *)
Ready(r, m) == \A b \in FirstFrame(m) : Settled(r, b)

Arm(r, m) ==
  IF r.waitFor = m.id THEN r
  ELSE Prefetch([r EXCEPT !.waitFor = m.id, !.waitLeft = WaitTicks], FirstFrame(m))

(* Mutant of Holds: the countdown does not open the gate. *)
HoldsUntilReady(r, m, behind, dt) ==
  knobs.gate # "off" /\ ~CatchesUp(behind) /\ ~Ready(r, m)

Holds(r, m, behind, dt) ==
  /\ knobs.gate # "off"
  /\ ~CatchesUp(behind) /\ ~Ready(r, m)
  /\ knobs.gate = "strict" \/ Arm(r, m).waitLeft > dt

Gated(r, m, behind, dt) ==
  IF knobs.gate = "off" THEN r
  ELSE IF CatchesUp(behind) \/ Ready(r, m) THEN [r EXCEPT !.waitFor = 0]
  ELSE IF knobs.gate = "strict" THEN Arm(r, m)
  ELSE LET a == Arm(r, m) IN
       [a EXCEPT !.waitFor  = IF a.waitLeft > dt THEN m.id ELSE 0,
                 !.waitLeft = IF a.waitLeft > dt THEN a.waitLeft - dt ELSE 0]

-----------------------------------------------------------------------------
(* From begin to the end of a message.                                      *)
EndPreanim(r) == [r EXCEPT !.playOnce = FALSE]

EnterLinger(r) ==
  LET settled == IF r.imPreLeft > 0 THEN r ELSE [EndPreanim(r) EXCEPT !.active = "idle"]
  IN  [settled EXCEPT !.phase = "linger", !.timer = StayTicks]

StartTalking(r) ==
  LET spoken == IF r.playOnce THEN [r EXCEPT !.imPreLeft = PreanimTicks, !.typed = 0]
                ELSE [r EXCEPT !.active = "talk", !.typed = 0]
      kind   == r.current.kind
  IN  IF kind.text = 0 /\ ~kind.marks THEN EnterLinger(spoken)
      ELSE [spoken EXCEPT !.phase = "talking"]

ArmSFXDelay(r) ==
  IF r.current.kind.sound
  THEN [r EXCEPT !.sfx = [of |-> r.current.id, left |-> r.current.kind.delay]] ELSE r

Plays(r) ==
  PreanimWillPlay(r.current) /\ ~r.preanimDone /\ r.preBase \notin r.missing

EnterAfterShout(r) ==
  LET a == ArmSFXDelay(r) IN
  IF ~Plays(r) THEN StartTalking(a)
  ELSE LET staged == [a EXCEPT !.active = "pre", !.playOnce = TRUE, !.preanim = "shown"] IN
       IF r.current.kind.mode = "over" THEN StartTalking(staged)
       ELSE [staged EXCEPT !.phase = "preanim", !.timer = PreanimTicks]

(* begin up to the catch-up test, and the fast-forward it may end in.       *)
(* Mutant of TakeStage: the sound of the superseded message stays armed.    *)
TakeStageKeepsSound(r, m) ==
  [EndPreanim(r) EXCEPT !.current = m, !.waitFor = 0,
                        !.last = m.id, !.preanim = "due", !.told = FALSE]

TakeStage(r, m) ==
  [EndPreanim(r) EXCEPT !.current = m, !.waitFor = 0, !.sfx = Silence,
                        !.last = m.id, !.preanim = "due", !.told = FALSE]

BeginCaughtUp(r) ==
  [r EXCEPT !.preanimDone = FALSE, !.typed = r.current.kind.text,
            !.phase = "linger", !.timer = 0]

StageSpeaker(r) ==
  [r EXCEPT !.active = "idle", !.playOnce = FALSE, !.preanimDone = FALSE, !.imPreLeft = 0,
            !.preBase = IF PreanimWillPlay(r.current) THEN r.current.kind.pre ELSE NoBase]

Begin(r, m) ==
  LET taken  == TakeStage(r, m)
      staged == Prefetch(StageSpeaker(taken), FirstFrame(m))
  IN  IF CatchesUp(Len(r.queue)) THEN BeginCaughtUp(taken)
      ELSE IF m.kind.shout THEN [staged EXCEPT !.phase = "shout", !.timer = ShoutTicks]
      ELSE EnterAfterShout(staged)

Dequeue(r) ==
  IF r.queue = <<>> THEN r ELSE Begin([r EXCEPT !.queue = Tail(@)], Head(r.queue))

-----------------------------------------------------------------------------
EnqueueCapped(r, m) ==
  LET q == IF Len(r.queue) < QueueCap THEN Append(r.queue, m) ELSE r.queue
  IN  [r EXCEPT !.queue = IF Len(q) = QueueCap THEN Append(Tail(q), m) ELSE q]

(* Mutant of Enqueue: a shout takes the stage and leaves the queue. *)
EnqueueKeepsQueue(r, m) ==
  IF m.kind.shout /\ knobs.bypass THEN Begin(r, m)
  ELSE IF r.phase = "idle" /\ r.queue = <<>>
  THEN LET g == Gated(r, m, 0, 0)
       IN  IF Holds(r, m, 0, 0) THEN [g EXCEPT !.queue = <<m>>] ELSE Begin(g, m)
  ELSE EnqueueCapped(r, m)

Enqueue(r, m) ==
  IF m.kind.shout /\ knobs.bypass THEN Begin([r EXCEPT !.queue = <<>>], m)
  ELSE IF r.phase = "idle" /\ r.queue = <<>>
  THEN LET g == Gated(r, m, 0, 0)
       IN  IF Holds(r, m, 0, 0) THEN [g EXCEPT !.queue = <<m>>] ELSE Begin(g, m)
  ELSE EnqueueCapped(r, m)

Arrive(k) ==
  /\ arrived < MaxMessages
  /\ arrived' = arrived + 1
  /\ room' = Enqueue(room, [id |-> arrived + 1, kind |-> k])
  /\ UNCHANGED knobs

-----------------------------------------------------------------------------
(* Update: first the clocks that ignore the phase, then the phase.          *)
TickSFX(r) ==
  IF r.sfx.of = 0 THEN r
  ELSE IF r.sfx.left <= 1 THEN [r EXCEPT !.sfx = Silence]
  ELSE [r EXCEPT !.sfx.left = @ - 1]

TickImmediatePreanim(r) ==
  IF r.imPreLeft = 0 THEN r
  ELSE IF ~r.preanimDone /\ r.imPreLeft > 1 THEN [r EXCEPT !.imPreLeft = @ - 1]
  ELSE IF ~r.playOnce THEN [r EXCEPT !.imPreLeft = 0]
  ELSE [EndPreanim(r) EXCEPT !.imPreLeft = 0,
                             !.active = IF r.phase = "talking" THEN "talk" ELSE "idle"]

Clocked  == TickImmediatePreanim(TickSFX(room))
TimedOut == room.timer <= 1
Waited   == [Clocked EXCEPT !.timer = Less(@)]

UpdateShout == IF TimedOut THEN EnterAfterShout(Waited) ELSE Waited

UpdatePreanim ==
  IF room.preanimDone \/ TimedOut THEN StartTalking(EndPreanim(Waited)) ELSE Waited

UpdateTalking ==
  LET typed == [Clocked EXCEPT !.typed = IF @ < room.current.kind.text THEN @ + 1 ELSE @]
  IN  IF typed.typed = room.current.kind.text THEN EnterLinger(typed) ELSE typed

(* A message at the head either stays behind the gate or begins.            *)
(* Mutant of Release: the head counts among the messages behind it. *)
ReleaseMiscounts(r, dt) ==
  IF r.queue = <<>> THEN r
  ELSE LET g == Gated(r, Head(r.queue), Len(r.queue), dt)
       IN  IF Holds(r, Head(r.queue), Len(r.queue), dt) THEN g ELSE Dequeue(g)

Release(r, dt) ==
  IF r.queue = <<>> THEN r
  ELSE LET behind == Len(r.queue) - 1
           g      == Gated(r, Head(r.queue), behind, dt)
       IN  IF Holds(r, Head(r.queue), behind, dt) THEN g ELSE Dequeue(g)

UpdateLinger == IF TimedOut THEN Release([Waited EXCEPT !.phase = "idle"], 0) ELSE Waited

Updated ==
  CASE room.phase = "shout"   -> UpdateShout
    [] room.phase = "preanim" -> UpdatePreanim
    [] room.phase = "talking" -> UpdateTalking
    [] room.phase = "linger"  -> UpdateLinger
    [] room.phase = "idle"    -> Release(Clocked, 1)

Update == room' = Updated /\ UNCHANGED <<knobs, arrived>>

-----------------------------------------------------------------------------
(* Calls from the renderer and the session.                                 *)
(* Mutant of NotifyPreanimDone: no check that a one-shot is on stage. *)
NotifyPreanimDoneUnguarded ==
  /\ room' = [room EXCEPT !.preanimDone = TRUE]
  /\ UNCHANGED <<knobs, arrived>>

NotifyPreanimDone ==
  /\ room' = [room EXCEPT !.preanimDone = @ \/ room.playOnce]
  /\ UNCHANGED <<knobs, arrived>>

(* At most one report a message, its own or one meant for another room that *)
(* shares the viewport.                                                     *)
NotifyPreanimStarted ==
  /\ ~room.told
  /\ room' = LET r == [room EXCEPT !.told = TRUE] IN
             IF r.imPreLeft > 0 /\ LongPreanim > r.imPreLeft
             THEN [r EXCEPT !.imPreLeft = LongPreanim]
             ELSE IF r.imPreLeft = 0 /\ r.phase = "preanim" /\ LongPreanim > r.timer
             THEN [r EXCEPT !.timer = LongPreanim]
             ELSE r
  /\ UNCHANGED <<knobs, arrived>>

(* A wiping BN: queue, message and every latch go; the misses stay.  A       *)
(* message it clears counts as dealt with.                                   *)
WipeStage ==
  /\ room' = [EndPreanim(room) EXCEPT
                !.queue = <<>>, !.phase = "idle", !.timer = 0, !.current = Nobody,
                !.active = "none", !.preBase = NoBase, !.preanimDone = FALSE,
                !.imPreLeft = 0, !.waitFor = 0, !.waitLeft = 0, !.sfx = Silence,
                !.typed = 0, !.last = arrived]
  /\ UNCHANGED <<knobs, arrived>>

-----------------------------------------------------------------------------
(* The asset pipeline.  An upload clears the store's mark; a 404 of every   *)
(* spelling reaches the room as a warning; a transport failure, a failed    *)
(* decode or a warning dropped from a full channel reaches it as nothing.   *)
Upload(b) ==
  /\ room.asset[b] = "fetching"
  /\ room' = [room EXCEPT !.asset[b] = "resident", !.marked = @ \ {b}]

RecordMissing(r, b) ==
  IF Cardinality(r.missing) < MissingCap THEN [r EXCEPT !.missing = @ \cup {b}] ELSE r

(* Mutant of NotifyAssetMissing: the speaker waits for the next Update. *)
NotifyAssetMissingLate(r, b) ==
  LET known == RecordMissing(r, b)
      done  == [known EXCEPT !.preanimDone = TRUE,
                             !.preanim = IF @ = "due" THEN "absent" ELSE @]
  IN  IF r.current = Nobody \/ b # r.preBase THEN known
      ELSE IF ~r.playOnce THEN done
      ELSE [EndPreanim(done) EXCEPT !.imPreLeft = 0]

NotifyAssetMissing(r, b) ==
  LET known == RecordMissing(r, b)
      done  == [known EXCEPT !.preanimDone = TRUE,
                             !.preanim = IF @ = "due" THEN "absent" ELSE @]
  IN  IF r.current = Nobody \/ b # r.preBase THEN known
      ELSE IF ~r.playOnce THEN done
      ELSE [EndPreanim(done) EXCEPT !.imPreLeft = 0,
              !.active = IF r.phase \in {"talking", "preanim"} THEN "talk" ELSE @]

Warn(b) ==
  /\ room.asset[b] = "fetching"
  /\ room' = [NotifyAssetMissing(room, b) EXCEPT !.asset[b] = "cold", !.marked = @ \cup {b}]

NoAnswer(b) ==
  /\ room.asset[b] = "fetching"
  /\ room' = [room EXCEPT !.asset[b] = "cold"]

Evict(b) ==
  /\ room.asset[b] = "resident"
  /\ room' = [room EXCEPT !.asset[b] = "cold"]

Answer(b) == (Upload(b) \/ Warn(b) \/ NoAnswer(b)) /\ UNCHANGED <<knobs, arrived>>

-----------------------------------------------------------------------------
RoomNext ==
  \/ \E k \in Kinds : Arrive(k)
  \/ Update \/ NotifyPreanimDone \/ NotifyPreanimStarted \/ WipeStage
  \/ \E b \in Bases : Answer(b)
  \/ \E b \in Bases : Evict(b) /\ UNCHANGED <<knobs, arrived>>

RoomSpec == RoomInit /\ [][RoomNext]_roomVars

(* The render loop calls Update every frame; nothing is assumed of the      *)
(* network.  This is WF_roomVars(Update), written out because ENABLED       *)
(* <<Update>>_roomVars is Updated # room.                                   *)
RoomFairSpec == RoomSpec /\ ([]<>(Updated = room) \/ []<><<Update>>_roomVars)

-----------------------------------------------------------------------------
(* The stage never goes back: a message that lost the stage to a later one  *)
(* cannot return, through shouts, catch-up, drops at the cap and wipes.     *)
StageInOrder == [][room'.last >= room.last]_roomVars

(* A delayed sound belongs to the message on stage: none fires late over    *)
(* the message, the fast-forward or the wipe that superseded it.            *)
SoundIsCurrent == room.sfx.of \in {0, room.current.id}

(* While a message is being performed the speaker is never parked on a      *)
(* preanimation the store marked missing without the one-shot latch that    *)
(* keeps the placeholder from being painted for it.                         *)
NoPlaceholder ==
  room.phase \in {"shout", "preanim", "talking"} =>
    ~(room.active = "pre" /\ room.preBase \in room.marked /\ ~room.playOnce)

(* A preanimation is skipped only because its art is absent: no report      *)
(* about an earlier message or another room's animation can skip it.        *)
PreanimNotSkipped ==
  room.phase = "talking" /\ PreanimWillPlay(room.current) =>
    room.preanim # "due" \/ room.preBase \in room.missing

(* Under strict sequencing a message that plays in full had all its         *)
(* first-frame art settled when it took the stage, unless it is a shout     *)
(* that bypasses the queue.                                                 *)
ColdNeverStaged ==
  [][/\ knobs.gate = "strict" /\ room'.current \notin {room.current, Nobody}
     /\ ~(room'.current.kind.shout /\ knobs.bypass) /\ ~CatchesUp(Len(room'.queue))
     => Ready(room, room'.current)]_roomVars

(* Every message is performed, superseded or wiped, and the stage comes to  *)
(* rest, mouth shut, no clock on.                                            *)
AtRest ==
  /\ room.phase = "idle" /\ room.queue = <<>> /\ room.last = arrived
  /\ room.imPreLeft = 0 /\ ~room.playOnce /\ room.active # "talk" /\ room.sfx = Silence

(* With the bounded gate the room drains whatever the network does.         *)
RoomDrains == <>[](knobs.gate = "strict" \/ AtRest)

=============================================================================
