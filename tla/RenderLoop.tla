------------------------------ MODULE RenderLoop ------------------------------
(***************************************************************************)
(* The event-driven main loop (cmd/asyncao/main.go) over one connection,   *)
(* reduced to what the loop sees of it (Conn is its module). deliverLoop   *)
(* and the decode pool knock on the doorbell of internal/ui/wake.go after  *)
(* each delivery; a pass of the loop handles events, draws a frame or skips*)
(* it, drains what was delivered, and parks only if what is on screen is   *)
(* still right (SkipFrame, RenderNeeded, RenderSuppressed, Background and  *)
(* Frame of internal/ui/app.go, and Pump.Frame of internal/render/pump.go).*)
(*                                                                         *)
(* The idle rate is off, so that nothing redraws a frame by itself. The    *)
(* one event that WaitEventTimeout takes out of the queue is handled first *)
(* by the next pass: it is left in the queue here.                         *)
(***************************************************************************)
EXTENDS Integers

CONSTANTS IncomingCap, (* capacity of Conn.Incoming                         *)
          MaxPackets,  (* bound on packets that arrive                      *)
          MaxAssets,   (* bound on assets the decode pool delivers          *)
          MaxEvents    (* bound on window events                            *)

ASSUME LoopAssumption ==
  /\ {MaxPackets, MaxAssets, MaxEvents} \subseteq Nat
  /\ IncomingCap \in Nat \ {0}

VARIABLES
  arrived, incoming, closed, (* packets delivered so far, those still in    *)
                      (* Conn.Incoming, and its close by deliverLoop        *)
  attached, taken,    (* App.conn is this connection; packets it drained    *)
  wakePending, knock, (* the doorbell: its flag, and where each producer    *)
                      (* stands in PushWake                                *)
  wakes, input,       (* the SDL queue: wake events, and any other event    *)
  lost,               (* history: a PushEvent failed since the last drain   *)
  loop, mode,         (* where the loop stands, and why it pumps            *)
  window, sawEvent,
  uiDirty, genMoved,  (* damage: App.uiDirty, and a store generation that   *)
                      (* is not drawnGen                                   *)
  decoded, carry,     (* assets in Manager.decodedCh, and in Pump.carry     *)
  delivered, events,
  drawn, bound,       (* history: packets on screen; the last frame began   *)
                      (* after every upload                                *)
  idled,              (* history: the last Pump.Frame deferred work and     *)
                      (* uploaded nothing                                   *)
  spun                (* history: passes since the last park or frame       *)

conn     == <<arrived, incoming, closed, attached, taken>>
doorbell == <<wakePending, knock, wakes, lost>>
sdl      == <<input, window, sawEvent, events>>
damage   == <<uiDirty, genMoved>>
assets   == <<decoded, carry, idled, delivered, bound>>
screen   == <<drawn, spun>>
place    == <<loop, mode>>
vars     == <<conn, doorbell, sdl, damage, assets, screen, place>>

Producers == {"deliver", "decode"}

Init ==
  /\ arrived = 0 /\ incoming = 0 /\ closed = FALSE /\ attached = TRUE /\ taken = 0
  /\ wakePending = FALSE /\ knock = [p \in Producers |-> "no"]
  /\ wakes = 0 /\ input = FALSE /\ lost = FALSE
  /\ loop = "events" /\ mode = "skip" /\ sawEvent = FALSE
  /\ window \in {"focused", "unfocused"}
  /\ uiDirty = FALSE /\ genMoved = FALSE
  /\ decoded = 0 /\ carry = 0 /\ idled = FALSE /\ delivered = 0 /\ events = 0
  /\ drawn = 0 /\ bound = TRUE /\ spun = 0

-----------------------------------------------------------------------------
(* The producers *)

(* PushWake: the flag first, then the event. *)
Knock(p) ==
  /\ knock[p] = "ring"
  /\ knock' = [knock EXCEPT ![p] = IF wakePending THEN "no" ELSE "push"]
  /\ wakePending' = TRUE
  /\ UNCHANGED <<conn, wakes, lost, sdl, damage, assets, screen, place>>

Push(p) ==
  /\ knock[p] = "push" /\ knock' = [knock EXCEPT ![p] = "no"]
  /\ wakes' = wakes + 1
  /\ UNCHANGED <<conn, wakePending, lost, sdl, damage, assets, screen, place>>

(* The queue is full: the flag is given back. *)
PushFails(p) ==
  /\ knock[p] = "push" /\ knock' = [knock EXCEPT ![p] = "no"]
  /\ wakePending' = FALSE /\ lost' = TRUE
  /\ UNCHANGED <<conn, wakes, sdl, damage, assets, screen, place>>

Ring(p) == knock' = [knock EXCEPT ![p] = "ring"]

(* deliverLoop knocks for every packet and for the close of Incoming, which *)
(* may come at any time and leave packets behind.                          *)
DeliverPacket ==
  /\ knock["deliver"] = "no" /\ ~closed /\ arrived < MaxPackets
  /\ incoming < IncomingCap
  /\ arrived' = arrived + 1 /\ incoming' = incoming + 1 /\ Ring("deliver")
  /\ UNCHANGED <<closed, attached, taken>>
  /\ UNCHANGED <<wakePending, wakes, lost, sdl, damage, assets, screen, place>>

CloseIncoming ==
  /\ knock["deliver"] = "no" /\ ~closed
  /\ closed' = TRUE /\ Ring("deliver")
  /\ UNCHANGED <<arrived, incoming, attached, taken>>
  /\ UNCHANGED <<wakePending, wakes, lost, sdl, damage, assets, screen, place>>

DeliverAsset ==
  /\ knock["decode"] = "no" /\ delivered < MaxAssets
  /\ delivered' = delivered + 1 /\ decoded' = decoded + 1 /\ Ring("decode")
  /\ UNCHANGED <<conn, wakePending, wakes, lost, sdl, damage, carry, idled, bound, screen, place>>

(* SDL pumps the system's events only inside PollEvent and WaitEventTimeout, *)
(* and changes the window's flags with them.                               *)
WindowEvent(w) ==
  /\ loop \in {"events", "parked"} /\ events < MaxEvents
  /\ events' = events + 1 /\ input' = TRUE /\ window' = w
  /\ UNCHANGED <<conn, doorbell, sawEvent, damage, assets, screen, place>>

-----------------------------------------------------------------------------
(* A pass of the loop: its events *)

(* Mutant of HandleWake: the doorbell's flag stays up. *)
HandleWakeKeeps ==
  /\ loop = "events" /\ wakes > 0 /\ wakes' = wakes - 1
  /\ UNCHANGED <<conn, wakePending, knock, lost, sdl, damage, assets, screen, place>>

(* IsWakeEvent lets the producers knock again. *)
HandleWake ==
  /\ loop = "events" /\ wakes > 0
  /\ wakes' = wakes - 1 /\ wakePending' = FALSE
  /\ UNCHANGED <<conn, knock, lost, sdl, damage, assets, screen, place>>

HandleInput ==
  /\ loop = "events" /\ input
  /\ input' = FALSE /\ sawEvent' = TRUE
  /\ UNCHANGED <<conn, doorbell, window, events, damage, assets, screen, place>>

RenderNeeded == uiDirty \/ genMoved

(* Unfocused, with the background rate off. *)
RenderSuppressed == window = "unfocused"

(* No event is left. SkipFrame: nothing to show, or nothing may be shown.  *)
Skip ==
  /\ loop = "events" /\ wakes = 0 /\ ~input
  /\ window = "minimized" \/ (~sawEvent /\ (RenderSuppressed \/ ~RenderNeeded))
  /\ loop' = "packets" /\ mode' = "skip" /\ lost' = FALSE
  /\ UNCHANGED <<conn, wakePending, knock, wakes, sdl, damage, assets, screen>>

(* Frame absorbs the damage at its start; what its own pumps bring is damage *)
(* again. An animation, a ceremony or a toast forces frames too.           *)
BeginFrame ==
  /\ loop = "events" /\ wakes = 0 /\ ~input
  /\ window # "minimized" /\ (sawEvent \/ ~RenderSuppressed)
  /\ loop' = "packets" /\ mode' = "frame" /\ lost' = FALSE
  /\ uiDirty' = FALSE /\ genMoved' = FALSE /\ bound' = TRUE
  /\ UNCHANGED <<conn, wakePending, knock, wakes, sdl, decoded, carry, idled, delivered, screen>>

-----------------------------------------------------------------------------
(* ... what it drains, drawn or not *)

DrainPacket ==
  /\ loop = "packets" /\ attached /\ incoming > 0
  /\ incoming' = incoming - 1 /\ taken' = taken + 1 /\ uiDirty' = TRUE
  /\ UNCHANGED <<arrived, closed, attached, doorbell, sdl, genMoved, assets, screen, place>>

NoticeClose ==
  /\ loop = "packets" /\ attached /\ incoming = 0 /\ closed
  /\ attached' = FALSE /\ uiDirty' = TRUE
  /\ UNCHANGED <<arrived, incoming, closed, taken, doorbell, sdl, genMoved, assets, screen, place>>

(* A write failed, the server said goodbye, or the user leaves. *)
Leave ==
  /\ loop = "packets" /\ attached
  /\ attached' = FALSE /\ uiDirty' = TRUE
  /\ UNCHANGED <<arrived, incoming, closed, taken, doorbell, sdl, genMoved, assets, screen, place>>

PacketsDone ==
  /\ loop = "packets" /\ loop' = "upload"
  /\ ~attached \/ (incoming = 0 /\ ~closed)
  /\ UNCHANGED <<conn, doorbell, sdl, damage, assets, screen, mode>>

(* Pump.Frame keeps for later what exceeds its budgets. They are charged    *)
(* for uploads, and for the stream chunks that AppendStream drops without   *)
(* an error and without moving the generation.                             *)
Budgeted(up, dropped, kept) == kept > 0 => up + dropped > 0

(* A damaged file of the pack has its base's page removed.                 *)
Upload ==
  /\ loop = "upload"
  /\ \E up, dropped, failed, kept \in 0 .. MaxAssets :
       /\ up + dropped + failed + kept = carry + decoded /\ Budgeted(up, dropped, kept)
       /\ carry' = kept /\ decoded' = 0 /\ idled' = (kept > 0 /\ up = 0)
       /\ \E removed \in {FALSE, failed > 0} : genMoved' = (genMoved \/ up > 0 \/ removed)
       /\ bound' = (bound /\ up = 0)
  /\ loop' = IF mode = "skip" THEN "check" ELSE IF mode = "frame" THEN "draw" ELSE "events"
  /\ UNCHANGED <<conn, doorbell, sdl, uiDirty, delivered, screen, mode>>

(* Mutant of Draw: the frame absorbs the damage when it is done. *)
DrawAbsorbs ==
  /\ loop = "draw" /\ drawn' = taken /\ spun' = 0
  /\ uiDirty' = FALSE /\ genMoved' = FALSE /\ sawEvent' = FALSE
  /\ loop' = "events" /\ UNCHANGED mode
  /\ UNCHANGED <<conn, doorbell, input, window, events, assets>>

(* The frame is on screen. A click or a key earns another frame; while a   *)
(* message types, the pacing sleep is spent in Background.                 *)
Draw ==
  /\ loop = "draw" /\ drawn' = taken /\ spun' = 0
  /\ uiDirty' \in {uiDirty, uiDirty \/ sawEvent} /\ sawEvent' = FALSE
  /\ \/ loop' = "events" /\ UNCHANGED mode
     \/ loop' = "packets" /\ mode' = "pace"
  /\ UNCHANGED <<conn, doorbell, input, window, events, genMoved, assets>>

-----------------------------------------------------------------------------
(* ... and whether it parks *)

(* Mutant of LoopAround: damage is always worth another pass. *)
LoopAroundAlways ==
  /\ loop = "check" /\ window # "minimized" /\ RenderNeeded
  /\ loop' = "events" /\ sawEvent' = FALSE /\ spun' = spun + 1
  /\ UNCHANGED <<conn, doorbell, input, window, events, damage, assets, drawn, mode>>

LoopAround ==
  /\ loop = "check" /\ window # "minimized" /\ RenderNeeded /\ ~RenderSuppressed
  /\ loop' = "events" /\ sawEvent' = FALSE /\ spun' = spun + 1
  /\ UNCHANGED <<conn, doorbell, input, window, events, damage, assets, drawn, mode>>

Park ==
  /\ loop = "check" /\ (window = "minimized" \/ ~RenderNeeded \/ RenderSuppressed)
  /\ loop' = "parked" /\ sawEvent' = FALSE /\ spun' = 0
  /\ UNCHANGED <<conn, doorbell, input, window, events, damage, assets, drawn, mode>>

WakeUp ==
  /\ loop = "parked" /\ (wakes > 0 \/ input)
  /\ loop' = "events"
  /\ UNCHANGED <<conn, doorbell, sdl, damage, assets, screen, mode>>

(* Mutant of TimeOut: the loop waits for an event without a limit.        *)
TimeOutNever == FALSE /\ UNCHANGED vars

(* NextWakeDelay: the housekeeping floor, or a deadline that is drawn. *)
TimeOut ==
  /\ loop = "parked" /\ wakes = 0 /\ ~input
  /\ loop' = "events" /\ uiDirty' \in {uiDirty, uiDirty \/ window = "focused"}
  /\ UNCHANGED <<conn, doorbell, sdl, genMoved, assets, screen, mode>>

-----------------------------------------------------------------------------
PushWake == \E p \in Producers : Knock(p) \/ Push(p) \/ PushFails(p)
Pass == \/ HandleWake \/ HandleInput \/ Skip \/ BeginFrame
        \/ DrainPacket \/ NoticeClose \/ Leave \/ PacketsDone \/ Upload \/ Draw
        \/ LoopAround \/ Park \/ WakeUp \/ TimeOut

Next ==
  \/ DeliverPacket \/ CloseIncoming \/ DeliverAsset \/ PushWake
  \/ \E w \in {"focused", "unfocused", "minimized"} : WindowEvent(w)
  \/ Pass

(* The scheduler runs the loop; nothing promises that a producer goes on.  *)
Spec == Init /\ [][Next]_vars /\ WF_vars(Pass)

-----------------------------------------------------------------------------
Flags ==
  /\ closed \in BOOLEAN /\ attached \in BOOLEAN
  /\ wakePending \in BOOLEAN /\ lost \in BOOLEAN
  /\ input \in BOOLEAN /\ sawEvent \in BOOLEAN
  /\ uiDirty \in BOOLEAN /\ genMoved \in BOOLEAN /\ bound \in BOOLEAN /\ idled \in BOOLEAN

Counts ==
  /\ arrived \in Nat /\ taken \in Nat /\ incoming \in 0 .. IncomingCap
  /\ wakes \in Nat /\ events \in Nat
  /\ decoded \in Nat /\ carry \in Nat /\ delivered \in Nat
  /\ drawn \in Nat /\ spun \in Nat

Places ==
  /\ knock \in [Producers -> {"no", "ring", "push"}]
  /\ loop \in {"events", "packets", "upload", "draw", "check", "parked"}
  /\ mode \in {"skip", "frame", "pace"}
  /\ window \in {"focused", "unfocused", "minimized"}

TypeOK == Flags /\ Counts /\ Places

(* Asleep, and no producer is between its delivery and its knock. *)
Parked ==
  /\ loop = "parked" /\ wakes = 0 /\ ~input
  /\ \A p \in Producers : knock[p] = "no"

(* wake.go:19: "never a missed wake". Whatever the order of deliveries,     *)
(* knocks, drains and frames, the loop does not sleep on delivered work    *)
(* with nothing on its way to wake it: no packet, no closed connection, no *)
(* decoded asset and, where it may draw, no deferred upload. Two things     *)
(* leave work to the housekeeping tick: a push that SDL refused, and for    *)
(* deferred uploads a Pump.Frame that spent its budget on dropped chunks    *)
(* alone (DeferredComesNext is the promise without this exception).        *)
NoMissedWake ==
  Parked /\ ~lost =>
    /\ attached => incoming = 0 /\ ~closed
    /\ decoded = 0 /\ (window = "focused" => carry = 0 \/ idled)

(* pump.go:24: "carry holds budget-deferred uploads for the next frame".    *)
(* Where the loop may draw, it does not sleep on deferred uploads with      *)
(* nothing on its way to wake it.                                          *)
DeferredComesNext == Parked /\ ~lost /\ window = "focused" => carry = 0

(* A loop asleep in front of the user shows every packet it took and every *)
(* texture it uploaded: the flags a frame clears at its start never lose   *)
(* what the frame's own pumps brought.                                     *)
ScreenIsCurrent ==
  loop = "parked" /\ ~input /\ window = "focused" => drawn = taken /\ bound

(* RenderSuppressed: the loop never goes round twice without drawing a     *)
(* frame or going to sleep, however much damage it may not draw.           *)
NeverSpins == spun <= 1

(* Even when SDL refuses the doorbell's event, or the producer stops between *)
(* its delivery and its knock, the housekeeping tick gets every delivered  *)
(* packet to the session, unless the session is left.                      *)
PacketsAreTaken == incoming > 0 ~> incoming = 0 \/ ~attached
=============================================================================
