----------------------------- MODULE ScreenProofs -----------------------------
(***************************************************************************)
(* Proofs about what reaches the screen: the main loop (RenderLoop) and    *)
(* the texture store its frames draw from (TextureStore), which share no   *)
(* variable.                                                               *)
(*                                                                         *)
(* The loop, for any number of packets, assets and window events and any   *)
(* capacity of Incoming. A sleep without a missed wake rests on two facts: *)
(* the doorbell's flag is up exactly while an event is queued or about to  *)
(* be pushed (Doorbell), and what was delivered since the pass drained is  *)
(* announced by that flag or about to be (Announced).                      *)
(*                                                                         *)
(* The store, for any bases, assets, decodes, budgets and caps. Between    *)
(* operations it is whole: every page with textures is in one of its two   *)
(* tiers, the oversized map, the bridge of held frames and the destroy     *)
(* queue. An operation takes pages in hand and puts them elsewhere, so     *)
(* each operator of the module is shown to keep a store whole with the     *)
(* pages H in hand (Good), the loops by induction on their steps. Good     *)
(* holds the books too: every byte counter is the weight of what it counts *)
(* (Booked). That the budgets hold (Slim) is apart: it fails inside an     *)
(* upload and is restored by the loops that evict. The only hypothesis     *)
(* beside the module's assumptions is that there are always more page      *)
(* identities: no object is ever given that of another.                    *)
(***************************************************************************)
EXTENDS RenderLoop, TextureStore, FiniteSetTheorems, NaturalsInduction, WellFoundedInduction, TLAPS

(* The main loop *)

Pushing == \E p \in Producers : knock[p] = "push"

(* At most one event is queued or being pushed, and the flag tells. *)
Doorbell ==
  /\ wakes \in {0, 1}
  /\ wakePending <=> wakes = 1 \/ Pushing
  /\ wakes = 1 => ~Pushing
  /\ \A p, q \in Producers : knock[p] = "push" /\ knock[q] = "push" => p = q

Rung(p) == lost \/ wakePending \/ knock[p] = "ring"

(* What a pass can no longer drain before it parks has rung, or will. *)
Announced ==
  /\ loop \in {"upload", "draw", "check", "parked"} /\ attached /\ (incoming > 0 \/ closed)
       => Rung("deliver")
  /\ loop \in {"draw", "check", "parked"} /\ decoded > 0 => Rung("decode")

(* When the pump keeps textures for later and uploaded some, that is       *)
(* damage; a park in front of the user leaves none.                        *)
CarryIsDamage ==
  /\ loop = "check" /\ carry > 0 => genMoved \/ idled
  /\ loop = "parked" /\ ~input /\ window = "focused" => carry = 0 \/ idled

(* What is not on screen is damage, or the frame under way will show it. *)
Unseen ==
  /\ drawn = taken \/ uiDirty \/ (mode = "frame" /\ loop \in {"packets", "upload", "draw"})
  /\ bound \/ genMoved
  /\ loop = "check" => mode = "skip"

(* Once round without a frame, the next pass draws one or finds the window *)
(* minimized and parks.                                                    *)
OnceRound ==
  /\ spun \in {0, 1}
  /\ spun = 1 =>
       \/ loop = "events" /\ ((window = "focused" /\ RenderNeeded) \/ sawEvent \/ input)
       \/ loop \in {"packets", "upload", "check"} /\ mode = "skip" /\ window = "minimized"
       \/ loop \in {"packets", "upload", "draw"} /\ mode = "frame"

LoopInv == Doorbell /\ Announced /\ CarryIsDamage /\ Unseen /\ ScreenIsCurrent /\ OnceRound

-----------------------------------------------------------------------------
(* Type correctness *)

LEMMA Constants == MaxPackets \in Nat /\ MaxAssets \in Nat /\ MaxEvents \in Nat
                   /\ IncomingCap \in Nat \ {0}
  BY LoopAssumption

LEMMA TypeInit == Init => TypeOK
<1> SUFFICES ASSUME Init PROVE TypeOK
  OBVIOUS
<1>1. Flags
  BY DEF Init, Flags
<1>2. Counts
  BY Constants DEF Init, Counts
<1>3. Places
  BY DEF Init, Places
<1>4. QED BY <1>1, <1>2, <1>3 DEF TypeOK

Windows == {"focused", "unfocused", "minimized"}

LEMMA FlagsKept == Flags /\ [Next]_vars => Flags'
<1> SUFFICES ASSUME Flags, [Next]_vars PROVE Flags'
  OBVIOUS
<1> USE DEF Flags, conn, doorbell, sdl, damage, assets, screen, place
<1>1. ASSUME NEW p \in Producers, Knock(p) PROVE Flags'
  BY <1>1 DEF Knock
<1>2. ASSUME NEW p \in Producers, Push(p) PROVE Flags'
  BY <1>2 DEF Push
<1>3. ASSUME NEW p \in Producers, PushFails(p) PROVE Flags'
  BY <1>3 DEF PushFails
<1>4. CASE DeliverPacket
  BY <1>4 DEF DeliverPacket, Ring
<1>5. CASE CloseIncoming
  BY <1>5 DEF CloseIncoming, Ring
<1>6. CASE DeliverAsset
  BY <1>6 DEF DeliverAsset, Ring
<1>7. ASSUME NEW w \in Windows, WindowEvent(w) PROVE Flags'
  BY <1>7 DEF WindowEvent
<1>8. CASE HandleWake
  BY <1>8 DEF HandleWake
<1>9. CASE HandleInput
  BY <1>9 DEF HandleInput
<1>10. CASE Skip
  BY <1>10 DEF Skip
<1>11. CASE BeginFrame
  BY <1>11 DEF BeginFrame
<1>12. CASE DrainPacket
  BY <1>12 DEF DrainPacket
<1>13. CASE NoticeClose
  BY <1>13 DEF NoticeClose
<1>14. CASE Leave
  BY <1>14 DEF Leave
<1>15. CASE PacketsDone
  BY <1>15 DEF PacketsDone
<1>16. CASE Upload
  BY <1>16 DEF Upload
<1>17. CASE Draw
  BY <1>17 DEF Draw
<1>18. CASE LoopAround
  BY <1>18 DEF LoopAround
<1>19. CASE Park
  BY <1>19 DEF Park
<1>20. CASE WakeUp
  BY <1>20 DEF WakeUp
<1>21. CASE TimeOut
  BY <1>21 DEF TimeOut
<1>22. CASE UNCHANGED vars
  BY <1>22 DEF vars
<1>23. QED
  BY <1>1, <1>2, <1>3, <1>4, <1>5, <1>6, <1>7, <1>8, <1>9, <1>10, <1>11, <1>12, <1>13, <1>14,
     <1>15, <1>16, <1>17, <1>18, <1>19, <1>20, <1>21, <1>22
     DEF Next, PushWake, Pass, Windows

LEMMA CountsKept == Counts /\ [Next]_vars => Counts'
<1> SUFFICES ASSUME Counts, [Next]_vars PROVE Counts'
  OBVIOUS
<1> USE Constants DEF Counts, conn, doorbell, sdl, damage, assets, screen, place
<1>1. ASSUME NEW p \in Producers, Knock(p) PROVE Counts'
  BY <1>1 DEF Knock
<1>2. ASSUME NEW p \in Producers, Push(p) PROVE Counts'
  BY <1>2 DEF Push
<1>3. ASSUME NEW p \in Producers, PushFails(p) PROVE Counts'
  BY <1>3 DEF PushFails
<1>4. CASE DeliverPacket
  BY <1>4 DEF DeliverPacket, Ring
<1>5. CASE CloseIncoming
  BY <1>5 DEF CloseIncoming, Ring
<1>6. CASE DeliverAsset
  BY <1>6 DEF DeliverAsset, Ring
<1>7. ASSUME NEW w \in Windows, WindowEvent(w) PROVE Counts'
  BY <1>7 DEF WindowEvent
<1>8. CASE HandleWake
  BY <1>8 DEF HandleWake
<1>9. CASE HandleInput
  BY <1>9 DEF HandleInput
<1>10. CASE Skip
  BY <1>10 DEF Skip
<1>11. CASE BeginFrame
  BY <1>11 DEF BeginFrame
<1>12. CASE DrainPacket
  BY <1>12 DEF DrainPacket
<1>13. CASE NoticeClose
  BY <1>13 DEF NoticeClose
<1>14. CASE Leave
  BY <1>14 DEF Leave
<1>15. CASE PacketsDone
  BY <1>15 DEF PacketsDone
<1>16. CASE Upload
  BY <1>16 DEF Upload
<1>17. CASE Draw
  BY <1>17 DEF Draw
<1>18. CASE LoopAround
  BY <1>18 DEF LoopAround
<1>19. CASE Park
  BY <1>19 DEF Park
<1>20. CASE WakeUp
  BY <1>20 DEF WakeUp
<1>21. CASE TimeOut
  BY <1>21 DEF TimeOut
<1>22. CASE UNCHANGED vars
  BY <1>22 DEF vars
<1>23. QED
  BY <1>1, <1>2, <1>3, <1>4, <1>5, <1>6, <1>7, <1>8, <1>9, <1>10, <1>11, <1>12, <1>13, <1>14,
     <1>15, <1>16, <1>17, <1>18, <1>19, <1>20, <1>21, <1>22
     DEF Next, PushWake, Pass, Windows

LEMMA PlacesKept == Places /\ [Next]_vars => Places'
<1> SUFFICES ASSUME Places, [Next]_vars PROVE Places'
  OBVIOUS
<1> USE DEF Places, Producers, Windows, conn, doorbell, sdl, damage, assets, screen, place
<1>1. ASSUME NEW p \in Producers, Knock(p) PROVE Places'
  BY <1>1 DEF Knock
<1>2. ASSUME NEW p \in Producers, Push(p) PROVE Places'
  BY <1>2 DEF Push
<1>3. ASSUME NEW p \in Producers, PushFails(p) PROVE Places'
  BY <1>3 DEF PushFails
<1>4. CASE DeliverPacket
  BY <1>4 DEF DeliverPacket, Ring
<1>5. CASE CloseIncoming
  BY <1>5 DEF CloseIncoming, Ring
<1>6. CASE DeliverAsset
  BY <1>6 DEF DeliverAsset, Ring
<1>7. ASSUME NEW w \in Windows, WindowEvent(w) PROVE Places'
  BY <1>7 DEF WindowEvent
<1>8. CASE HandleWake
  BY <1>8 DEF HandleWake
<1>9. CASE HandleInput
  BY <1>9 DEF HandleInput
<1>10. CASE Skip
  BY <1>10 DEF Skip
<1>11. CASE BeginFrame
  BY <1>11 DEF BeginFrame
<1>12. CASE DrainPacket
  BY <1>12 DEF DrainPacket
<1>13. CASE NoticeClose
  BY <1>13 DEF NoticeClose
<1>14. CASE Leave
  BY <1>14 DEF Leave
<1>15. CASE PacketsDone
  BY <1>15 DEF PacketsDone
<1>16. CASE Upload
  BY <1>16 DEF Upload
<1>17. CASE Draw
  BY <1>17 DEF Draw
<1>18. CASE LoopAround
  BY <1>18 DEF LoopAround
<1>19. CASE Park
  BY <1>19 DEF Park
<1>20. CASE WakeUp
  BY <1>20 DEF WakeUp
<1>21. CASE TimeOut
  BY <1>21 DEF TimeOut
<1>22. CASE UNCHANGED vars
  BY <1>22 DEF vars
<1>23. QED
  BY <1>1, <1>2, <1>3, <1>4, <1>5, <1>6, <1>7, <1>8, <1>9, <1>10, <1>11, <1>12, <1>13, <1>14,
     <1>15, <1>16, <1>17, <1>18, <1>19, <1>20, <1>21, <1>22
     DEF Next, PushWake, Pass, Windows

(* The variables keep their types, and Incoming its capacity. *)
THEOREM LoopTypeCorrect == Spec => []TypeOK
<1>1. TypeOK /\ [Next]_vars => TypeOK'
  BY FlagsKept, CountsKept, PlacesKept DEF TypeOK
<1>2. QED BY TypeInit, <1>1, PTL DEF Spec

-----------------------------------------------------------------------------
(* The doorbell *)

(* Actions that leave the doorbell alone. *)
Unrung ==
  \/ HandleInput \/ Skip \/ BeginFrame \/ DrainPacket \/ NoticeClose \/ Leave
  \/ PacketsDone \/ Upload \/ Draw \/ LoopAround \/ Park \/ WakeUp \/ TimeOut
  \/ (\E w \in Windows : WindowEvent(w)) \/ UNCHANGED vars

LEMMA UnrungFrame == Unrung => UNCHANGED <<wakes, wakePending, knock>>
  BY DEF Unrung, HandleInput, Skip, BeginFrame, DrainPacket, NoticeClose, Leave, PacketsDone,
         Upload, Draw, LoopAround, Park, WakeUp, TimeOut, WindowEvent, vars, doorbell

LEMMA DoorbellKept == TypeOK /\ Doorbell /\ [Next]_vars => Doorbell'
<1> SUFFICES ASSUME TypeOK, Doorbell, [Next]_vars PROVE Doorbell'
  OBVIOUS
<1> USE DEF Doorbell, Pushing, TypeOK, Flags, Counts, Places
<1>1. ASSUME NEW p \in Producers, Knock(p) PROVE Doorbell'
  <2>1. CASE wakePending
    <3>1. wakes' = wakes /\ wakePending' /\ \A q \in Producers : knock'[q] = "push" <=> knock[q] = "push"
      BY <1>1, <2>1 DEF Knock
    <3>2. QED BY <2>1, <3>1
  <2>2. CASE ~wakePending
    <3>1. wakes = 0 /\ wakes' = 0 /\ wakePending' /\ ~Pushing
      BY <1>1, <2>2 DEF Knock
    <3>2. knock'[p] = "push" /\ \A q \in Producers : knock'[q] = "push" => q = p
      BY <1>1, <2>2, <3>1 DEF Knock
    <3>3. QED BY <3>1, <3>2
  <2>3. QED BY <2>1, <2>2
<1>2. ASSUME NEW p \in Producers, Push(p) PROVE Doorbell'
  <2>1. wakePending /\ wakes = 0 /\ wakes' = 1 /\ wakePending' = wakePending
    BY <1>2 DEF Push
  <2>2. \A q \in Producers : knock'[q] # "push"
    BY <1>2 DEF Push
  <2>3. QED BY <2>1, <2>2
<1>3. ASSUME NEW p \in Producers, PushFails(p) PROVE Doorbell'
  <2>1. wakes = 0 /\ wakes' = 0 /\ ~wakePending'
    BY <1>3 DEF PushFails
  <2>2. \A q \in Producers : knock'[q] # "push"
    BY <1>3 DEF PushFails
  <2>3. QED BY <2>1, <2>2
<1>4. CASE DeliverPacket \/ CloseIncoming \/ DeliverAsset
  <2>1. wakes' = wakes /\ wakePending' = wakePending
    BY <1>4 DEF DeliverPacket, CloseIncoming, DeliverAsset
  <2>2. \A q \in Producers : knock'[q] = "push" <=> knock[q] = "push"
    BY <1>4 DEF DeliverPacket, CloseIncoming, DeliverAsset, Ring, Producers
  <2>3. QED BY <2>1, <2>2
<1>5. CASE HandleWake
  <2>1. wakes = 1 /\ wakes' = 0 /\ ~wakePending' /\ knock' = knock
    BY <1>5 DEF HandleWake
  <2>2. QED BY <2>1
<1>6. CASE Unrung
  BY <1>6, UnrungFrame
<1>7. QED
  BY <1>1, <1>2, <1>3, <1>4, <1>5, <1>6 DEF Next, PushWake, Pass, Unrung, Windows

-----------------------------------------------------------------------------
(* What is announced stays announced until the next pass *)

LEMMA AnnouncedKept == TypeOK /\ Announced /\ [Next]_vars => Announced'
<1> SUFFICES ASSUME TypeOK, Announced, [Next]_vars PROVE Announced'
  OBVIOUS
<1> USE DEF Announced, Rung, TypeOK, Flags, Counts, Places, Producers,
            conn, doorbell, sdl, damage, assets, screen, place
<1>1. ASSUME NEW p \in Producers, Knock(p) PROVE Announced'
  BY <1>1 DEF Knock
<1>2. ASSUME NEW p \in Producers, Push(p) PROVE Announced'
  BY <1>2 DEF Push
<1>3. ASSUME NEW p \in Producers, PushFails(p) PROVE Announced'
  BY <1>3 DEF PushFails
<1>4. CASE DeliverPacket
  BY <1>4 DEF DeliverPacket, Ring
<1>5. CASE CloseIncoming
  BY <1>5 DEF CloseIncoming, Ring
<1>6. CASE DeliverAsset
  BY <1>6 DEF DeliverAsset, Ring
<1>7. CASE HandleWake \/ HandleInput \/ Skip \/ BeginFrame
  BY <1>7 DEF HandleWake, HandleInput, Skip, BeginFrame
<1>8. CASE DrainPacket \/ NoticeClose \/ Leave
  BY <1>8 DEF DrainPacket, NoticeClose, Leave
<1>9. CASE PacketsDone
  BY <1>9 DEF PacketsDone
<1>10. CASE Upload
  BY <1>10 DEF Upload
<1>11. CASE Draw
  BY <1>11 DEF Draw
<1>12. CASE LoopAround \/ Park \/ WakeUp \/ TimeOut
  BY <1>12 DEF LoopAround, Park, WakeUp, TimeOut
<1>13. ASSUME NEW w \in Windows, WindowEvent(w) PROVE Announced'
  BY <1>13 DEF WindowEvent
<1>14. CASE UNCHANGED vars
  BY <1>14 DEF vars
<1>15. QED
  BY <1>1, <1>2, <1>3, <1>4, <1>5, <1>6, <1>7, <1>8, <1>9, <1>10, <1>11, <1>12, <1>13, <1>14
     DEF Next, PushWake, Pass, Windows

-----------------------------------------------------------------------------
(* What is not on screen is damage *)

(* Neither the producers nor the doorbell touch the picture. *)
Unpainted ==
  \/ PushWake \/ DeliverPacket \/ CloseIncoming \/ DeliverAsset \/ HandleWake \/ UNCHANGED vars

LEMMA UnpaintedFrame ==
  Unpainted => UNCHANGED <<loop, mode, window, input, sawEvent, uiDirty, genMoved, carry, idled, bound,
                           drawn, taken, spun>>
  BY DEF Unpainted, PushWake, Knock, Push, PushFails, DeliverPacket, CloseIncoming, DeliverAsset,
         HandleWake, vars, conn, sdl, damage, assets, screen, place

LEMMA CarryKept == TypeOK /\ CarryIsDamage /\ [Next]_vars => CarryIsDamage'
<1> SUFFICES ASSUME TypeOK, CarryIsDamage, [Next]_vars PROVE CarryIsDamage'
  OBVIOUS
<1> USE DEF CarryIsDamage, TypeOK, Flags, Counts, Places, sdl, damage, assets, place
<1>1. CASE Unpainted
  BY <1>1, UnpaintedFrame
<1>2. CASE HandleInput \/ Skip \/ BeginFrame \/ DrainPacket \/ NoticeClose \/ Leave \/ PacketsDone
  BY <1>2 DEF HandleInput, Skip, BeginFrame, DrainPacket, NoticeClose, Leave, PacketsDone
<1>3. CASE Upload
  <2>1. PICK up \in 0 .. MaxAssets, kept \in 0 .. MaxAssets :
          /\ carry' = kept /\ idled' = (kept > 0 /\ up = 0)
          /\ \E removed \in BOOLEAN : genMoved' = (genMoved \/ up > 0 \/ removed)
    BY <1>3 DEF Upload
  <2>2. carry' > 0 => genMoved' \/ idled'
    <3>1. CASE up = 0
      BY <2>1, <3>1
    <3>2. CASE up > 0
      BY <2>1, <3>2
    <3>3. QED BY <3>1, <3>2
  <2>3. loop' # "parked"
    BY <1>3 DEF Upload
  <2>4. QED BY <2>2, <2>3
<1>4. CASE Draw \/ LoopAround
  BY <1>4 DEF Draw, LoopAround
<1>5. CASE Park
  BY <1>5 DEF Park, RenderNeeded, RenderSuppressed
<1>6. CASE WakeUp \/ TimeOut
  BY <1>6 DEF WakeUp, TimeOut
<1>7. ASSUME NEW w \in Windows, WindowEvent(w) PROVE CarryIsDamage'
  BY <1>7 DEF WindowEvent
<1>8. QED
  BY <1>1, <1>2, <1>3, <1>4, <1>5, <1>6, <1>7 DEF Next, Pass, Unpainted, Windows

LEMMA UnseenKept == TypeOK /\ Unseen /\ [Next]_vars => Unseen'
<1> SUFFICES ASSUME TypeOK, Unseen, [Next]_vars PROVE Unseen'
  OBVIOUS
<1> USE DEF Unseen, TypeOK, Flags, Counts, Places, conn, sdl, damage, assets, screen, place
<1>1. CASE Unpainted
  BY <1>1, UnpaintedFrame
<1>2. CASE HandleInput \/ Skip
  BY <1>2 DEF HandleInput, Skip
<1>3. CASE BeginFrame
  BY <1>3 DEF BeginFrame
<1>4. CASE DrainPacket
  BY <1>4 DEF DrainPacket
<1>5. CASE NoticeClose \/ Leave \/ PacketsDone
  BY <1>5 DEF NoticeClose, Leave, PacketsDone
<1>6. CASE Upload
  <2>1. PICK up \in 0 .. MaxAssets :
          /\ \E removed \in BOOLEAN : genMoved' = (genMoved \/ up > 0 \/ removed)
          /\ bound' = (bound /\ up = 0)
    BY <1>6 DEF Upload
  <2>2. bound' \/ genMoved'
    BY <2>1
  <2>3. QED BY <1>6, <2>2 DEF Upload
<1>7. CASE Draw
  BY <1>7 DEF Draw
<1>8. CASE LoopAround \/ Park \/ WakeUp
  BY <1>8 DEF LoopAround, Park, WakeUp
<1>9. CASE TimeOut
  BY <1>9 DEF TimeOut
<1>10. ASSUME NEW w \in Windows, WindowEvent(w) PROVE Unseen'
  BY <1>10 DEF WindowEvent
<1>11. QED
  BY <1>1, <1>2, <1>3, <1>4, <1>5, <1>6, <1>7, <1>8, <1>9, <1>10
     DEF Next, Pass, Unpainted, Windows

(* The loop parks in front of the user only without damage, and nothing is *)
(* taken, uploaded or moved while it sleeps.                               *)
LEMMA ScreenKept == TypeOK /\ Unseen /\ ScreenIsCurrent /\ [Next]_vars => ScreenIsCurrent'
<1> SUFFICES ASSUME TypeOK, Unseen, ScreenIsCurrent, [Next]_vars PROVE ScreenIsCurrent'
  OBVIOUS
<1> USE DEF ScreenIsCurrent, TypeOK, Flags, Counts, Places, conn, damage, assets, screen, place
<1>1. CASE Unpainted
  BY <1>1, UnpaintedFrame
<1>2. CASE HandleInput \/ Skip \/ BeginFrame \/ DrainPacket \/ NoticeClose \/ Leave \/ PacketsDone
  BY <1>2 DEF HandleInput, Skip, BeginFrame, DrainPacket, NoticeClose, Leave, PacketsDone
<1>3. CASE Upload \/ Draw \/ LoopAround \/ WakeUp \/ TimeOut
  BY <1>3 DEF Upload, Draw, LoopAround, WakeUp, TimeOut
<1>4. CASE Park
  BY <1>4 DEF Park, Unseen, RenderNeeded, RenderSuppressed
<1>5. ASSUME NEW w \in Windows, WindowEvent(w) PROVE ScreenIsCurrent'
  BY <1>5 DEF WindowEvent
<1>6. QED
  BY <1>1, <1>2, <1>3, <1>4, <1>5 DEF Next, Pass, Unpainted, Windows

LEMMA OnceRoundKept == TypeOK /\ OnceRound /\ [Next]_vars => OnceRound'
<1> SUFFICES ASSUME TypeOK, OnceRound, [Next]_vars PROVE OnceRound'
  OBVIOUS
<1> USE DEF OnceRound, RenderNeeded, TypeOK, Flags, Counts, Places, sdl, damage, screen, place
<1>1. CASE Unpainted
  BY <1>1, UnpaintedFrame
<1>2. CASE HandleInput
  BY <1>2 DEF HandleInput
<1>3. CASE Skip
  BY <1>3 DEF Skip, RenderSuppressed
<1>4. CASE BeginFrame
  BY <1>4 DEF BeginFrame
<1>5. CASE DrainPacket \/ NoticeClose \/ Leave \/ PacketsDone
  BY <1>5 DEF DrainPacket, NoticeClose, Leave, PacketsDone
<1>6. CASE Upload
  BY <1>6 DEF Upload
<1>7. CASE Draw \/ Park
  BY <1>7 DEF Draw, Park
<1>8. CASE LoopAround
  BY <1>8 DEF LoopAround, RenderSuppressed
<1>9. CASE WakeUp \/ TimeOut
  BY <1>9 DEF WakeUp, TimeOut
<1>10. ASSUME NEW w \in Windows, WindowEvent(w) PROVE OnceRound'
  BY <1>10 DEF WindowEvent
<1>11. QED
  BY <1>1, <1>2, <1>3, <1>4, <1>5, <1>6, <1>7, <1>8, <1>9, <1>10
     DEF Next, Pass, Unpainted, Windows

-----------------------------------------------------------------------------
LEMMA LoopInvInit == Init => LoopInv
<1> SUFFICES ASSUME Init PROVE LoopInv
  OBVIOUS
<1>1. Doorbell
  BY DEF Init, Doorbell, Pushing
<1>2. Announced /\ CarryIsDamage /\ Unseen /\ ScreenIsCurrent /\ OnceRound
  BY DEF Init, Announced, CarryIsDamage, Unseen, ScreenIsCurrent, OnceRound
<1>3. QED BY <1>1, <1>2 DEF LoopInv

LEMMA LoopInvariant == Spec => []LoopInv
<1>1. TypeOK /\ LoopInv /\ [Next]_vars => LoopInv'
  BY DoorbellKept, AnnouncedKept, CarryKept, UnseenKept, ScreenKept, OnceRoundKept DEF LoopInv
<1>2. QED BY LoopInvInit, LoopTypeCorrect, <1>1, PTL DEF Spec

(* wake.go: a loop that sleeps with nothing on its way to wake it has       *)
(* drained the connection and the decoded assets, and in front of the user *)
(* uploaded them all, unless a wake event was refused or the last pass      *)
(* deferred uploads without making one.                                    *)
THEOREM NoWakeIsMissed == Spec => []NoMissedWake
<1>1. TypeOK /\ LoopInv => NoMissedWake
  <2> SUFFICES ASSUME TypeOK, LoopInv, Parked, ~lost
               PROVE  /\ attached => incoming = 0 /\ ~closed
                      /\ decoded = 0 /\ (window = "focused" => carry = 0 \/ idled)
    BY DEF NoMissedWake
  <2>1. ~Rung("deliver") /\ ~Rung("decode")
    BY DEF Parked, Producers, LoopInv, Doorbell, Pushing, Rung
  <2>2. attached => incoming = 0 /\ ~closed
    BY <2>1 DEF LoopInv, Announced, Parked, TypeOK, Counts
  <2>3. decoded = 0
    BY <2>1 DEF LoopInv, Announced, Parked, TypeOK, Counts
  <2>4. window = "focused" => carry = 0 \/ idled
    BY DEF LoopInv, CarryIsDamage, Parked
  <2>5. QED BY <2>2, <2>3, <2>4
<1>2. QED BY LoopTypeCorrect, LoopInvariant, <1>1, PTL

(* App.Frame: a loop asleep in front of the user shows all it has taken. *)
THEOREM SleepsOnCurrentScreen == Spec => []ScreenIsCurrent
<1>1. LoopInv => ScreenIsCurrent
  BY DEF LoopInv
<1>2. QED BY LoopInvariant, <1>1, PTL

(* RenderSuppressed: damage that may not be drawn does not keep the loop    *)
(* awake.                                                                  *)
THEOREM LoopNeverSpins == Spec => []NeverSpins
<1>1. LoopInv => NeverSpins
  BY DEF LoopInv, OnceRound, NeverSpins
<1>2. QED BY LoopInvariant, <1>1, PTL

-----------------------------------------------------------------------------
(* The texture store *)

(* The places a page can be in, the hand of an operation apart.              *)
Homes == {"main", "small", "over", "held", "queue"}
Bridged(s) == {s.held[b] : b \in Bases} \ {NoId}
Where(s, p) ==
  IF p \in Tiers THEN TierIds(s, p) ELSE IF p = "over" THEN ToSet(s.over)
  ELSE IF p = "held" THEN Bridged(s) ELSE ToSet(s.queue)

(* While an operation has the pages H in hand, each page with textures is in *)
(* hand or in one place, and nothing else is.                                *)
Whole(s, H) ==
  /\ \A i \in Ids : s.page[i] # NoPage <=> i \in H \/ \E p \in Homes : i \in Where(s, p)
  /\ \A p, q \in Homes : \A i \in Ids : i \in Where(s, p) /\ i \in Where(s, q) => p = q
  /\ \A p \in Homes : \A i \in H : i \notin Where(s, p)
  /\ H \subseteq Ids

(* No place lists a page twice.                                              *)
OnceIn(q) == \A j, k \in DOMAIN q : q[j].id = q[k].id => j = k
Once(s) ==
  /\ \A t \in Tiers : OnceIn(s.lru[t])
  /\ IsInjective(s.over) /\ IsInjective(s.queue)
  /\ \A b, c \in Bases : s.held[b] = s.held[c] => b = c \/ s.held[b] = NoId

(* What a tier or the oversized map has can be drawn.                        *)
Shelved(s) == TierIds(s, "main") \cup TierIds(s, "small") \cup ToSet(s.over)
Drawn(s) == \A i \in Shelved(s) : s.page[i].art # <<>> /\ s.page[i].art[1] # Nil

(* The byte counter of a place is the weight of what is there, the size of   *)
(* an entry the weight of its page, and a base has one oversized page.       *)
Counted == Homes \ {"queue"}
Paid(s, p) == s.bytes[p] = Mass(s, Where(s, p))
Sized(s) ==
  \A t \in Tiers : \A k \in DOMAIN s.lru[t] : s.lru[t][k].size = Weight(s, s.lru[t][k].id)
Lone(s) == \A j, k \in DOMAIN s.over : s.page[s.over[j]].base = s.page[s.over[k]].base => j = k
Booked(s) == (\A p \in Counted : Paid(s, p)) /\ Sized(s) /\ Lone(s)

Good(s, H) ==
  /\ s \in Stores /\ Len(s.queue) <= QueueCap
  /\ Whole(s, H) /\ Once(s) /\ Drawn(s) /\ Booked(s)
  /\ IsFiniteSet({i \in Ids : s.page[i] # NoPage})

(* The tiers are within their budgets, and so is the oversized map, unless   *)
(* one page is all it has.                                                   *)
Fed(s) == \A t \in Tiers : s.bytes[t] <= Budget(t)
Slim(s) == Fed(s) /\ (s.bytes["over"] <= OverCap \/ Len(s.over) <= 1)

(* What a layer holds as fresh is on a shelf, and is its base.               *)
Cached ==
  \A l \in Layers : view[l].fresh /\ view[l].id # NoId =>
    view[l].id \in Shelved(store) /\ store.page[view[l].id].base = view[l].base

(* A pack's decode is of a base it covers.                                   *)
Packed == \A j \in Jobs : job[j] # NoJob /\ job[j].src = "pack" => job[j].base \in Covered

TextureInv == TextureTypeOK /\ Good(store, {}) /\ Slim(store) /\ Cached /\ Packed

-----------------------------------------------------------------------------
LEMMA TextureConstants ==
  /\ HeldMax \in Nat /\ HeldMax > 0 /\ QueueCap \in Nat /\ DrainMax \in Nat
  /\ MainBudget \in Nat /\ SmallBudget \in Nat /\ OverCap \in Nat
  /\ Ids \subseteq Nat /\ NoId \notin Ids /\ NoBase \notin Bases /\ NoPage \notin Page
  /\ NoJob \notin Decode /\ Nil \notin Sources
  /\ Assets \subseteq [Bases -> [kind : {"icon", "still", "clip", "stream", "refused"}, n : Nat \ {0}]]
  /\ Scenes \subseteq [Layers -> Bases] /\ Covered \subseteq Bases
  /\ MaxDemands \in Nat /\ MaxCuts \in Nat
<1>1. /\ HeldMax \in Nat \ {0} /\ QueueCap \in Nat \ {0} /\ DrainMax \in Nat \ {0}
      /\ MainBudget \in Nat \ {0} /\ SmallBudget \in Nat \ {0} /\ OverCap \in Nat \ {0}
      /\ MaxDemands \in Nat /\ MaxCuts \in Nat
  BY TextureAssumption
<1>2. QED BY <1>1, TextureAssumption, NothingAssumption

(* Sequences *)

LEMMA RemovedFacts ==
  ASSUME NEW S, NEW q \in Seq(S), NEW k \in DOMAIN q
  PROVE  /\ RemoveAt(q, k) \in Seq(S) /\ Len(RemoveAt(q, k)) = Len(q) - 1
         /\ \A j \in DOMAIN RemoveAt(q, k) :
              \E m \in DOMAIN q : m # k /\ RemoveAt(q, k)[j] = q[m]
         /\ \A m \in DOMAIN q : m # k => \E j \in DOMAIN RemoveAt(q, k) : RemoveAt(q, k)[j] = q[m]
         /\ \A i, j \in DOMAIN RemoveAt(q, k) : i # j =>
              \E m, n \in DOMAIN q : m # n /\ RemoveAt(q, k)[i] = q[m] /\ RemoveAt(q, k)[j] = q[n]
<1>1. k \in 1 .. Len(q) /\ Len(q) \in Nat /\ DOMAIN q = 1 .. Len(q)
  OBVIOUS
<1> DEFINE left == SubSeq(q, 1, k - 1)  right == SubSeq(q, k + 1, Len(q))  r == left \o right
<1>2. left \in Seq(S) /\ Len(left) = k - 1 /\ \A j \in 1 .. k - 1 : left[j] = q[j]
  BY <1>1
<1>3. /\ right \in Seq(S) /\ Len(right) = Len(q) - k
      /\ \A j \in 1 .. Len(q) - k : right[j] = q[j + k]
  <2>1. \A a, b \in Nat : a >= 1 /\ a <= b + 1 /\ b <= Len(q) =>
          /\ SubSeq(q, a, b) \in Seq(S) /\ Len(SubSeq(q, a, b)) = b - a + 1
          /\ \A j \in 1 .. b - a + 1 : SubSeq(q, a, b)[j] = q[a + j - 1]
    BY <1>1
  <2>2. k + 1 \in Nat /\ k + 1 >= 1 /\ k + 1 <= Len(q) + 1 /\ Len(q) <= Len(q)
        /\ Len(q) - (k + 1) + 1 = Len(q) - k
        /\ \A j \in 1 .. Len(q) - k : (k + 1) + j - 1 = j + k
    BY <1>1
  <2>3. /\ right \in Seq(S) /\ Len(right) = Len(q) - (k + 1) + 1
        /\ \A j \in 1 .. Len(q) - (k + 1) + 1 : right[j] = q[(k + 1) + j - 1]
    BY <1>1, <2>1, <2>2
  <2>4. QED BY <2>2, <2>3
<1> HIDE DEF left, right
<1>4. /\ r \in Seq(S) /\ Len(r) = Len(q) - 1 /\ DOMAIN r = 1 .. Len(q) - 1
      /\ \A j \in 1 .. Len(q) - 1 : r[j] = IF j < k THEN left[j] ELSE right[j - (k - 1)]
  <2>1. \A x, y \in Seq(S) :
          /\ x \o y \in Seq(S) /\ Len(x \o y) = Len(x) + Len(y)
          /\ Len(x) \in Nat /\ Len(y) \in Nat /\ DOMAIN (x \o y) = 1 .. Len(x) + Len(y)
          /\ \A j \in 1 .. Len(x) + Len(y) :
               (x \o y)[j] = IF j <= Len(x) THEN x[j] ELSE y[j - Len(x)]
    OBVIOUS
  <2>2. Len(left) + Len(right) = Len(q) - 1 /\ \A j \in Nat : j <= Len(left) <=> j < k
    BY <1>1, <1>2, <1>3
  <2>3. /\ r \in Seq(S) /\ Len(r) = Len(left) + Len(right)
        /\ DOMAIN r = 1 .. Len(left) + Len(right)
        /\ \A j \in 1 .. Len(left) + Len(right) :
             r[j] = IF j <= Len(left) THEN left[j] ELSE right[j - Len(left)]
    BY <1>2, <1>3, <2>1
  <2>4. Len(left) = k - 1 /\ Len(left) + Len(right) = Len(q) - 1
    BY <1>2, <2>2
  <2>5. /\ r \in Seq(S) /\ Len(r) = Len(q) - 1 /\ DOMAIN r = 1 .. Len(q) - 1
        /\ \A j \in 1 .. Len(q) - 1 : r[j] = IF j <= Len(left) THEN left[j] ELSE right[j - (k - 1)]
    BY <2>3, <2>4
  <2>6. \A j \in 1 .. Len(q) - 1 : j <= Len(left) <=> j < k
    BY <1>1, <2>2
  <2>7. QED BY <2>5, <2>6
<1> HIDE DEF r
<1>5. \A j \in 1 .. Len(q) - 1 : r[j] = IF j < k THEN q[j] ELSE q[j + 1]
  <2> TAKE j \in 1 .. Len(q) - 1
  <2>1. CASE j < k
    BY <1>1, <1>2, <1>4, <2>1
  <2>2. CASE j >= k
    <3>1. j - (k - 1) \in 1 .. Len(q) - k /\ (j - (k - 1)) + k = j + 1
      BY <1>1, <2>2
    <3>2. r[j] = right[j - (k - 1)]
      BY <1>1, <1>4, <2>2
    <3>3. right[j - (k - 1)] = q[(j - (k - 1)) + k]
      BY <1>3, <3>1
    <3>4. ~(j < k)
      BY <1>1, <2>2
    <3>5. QED BY <3>1, <3>2, <3>3, <3>4
  <2>3. QED BY <1>1, <2>1, <2>2
<1>6. RemoveAt(q, k) = r
  BY DEF RemoveAt, r, left, right
<1> DEFINE at(j) == IF j < k THEN j ELSE j + 1
<1>7. /\ \A j \in 1 .. Len(q) - 1 : at(j) \in 1 .. Len(q) /\ at(j) # k /\ r[j] = q[at(j)]
      /\ \A i, j \in 1 .. Len(q) - 1 : i # j => at(i) # at(j)
  BY <1>1, <1>5
<1>8. \A m \in 1 .. Len(q) : m # k => \E j \in 1 .. Len(q) - 1 : at(j) = m
  <2> TAKE m \in 1 .. Len(q)
  <2>1. CASE m < k
    <3>1. m \in 1 .. Len(q) - 1 /\ at(m) = m
      BY <1>1, <2>1
    <3>2. QED BY <3>1
  <2>2. CASE m > k
    <3>1. m - 1 \in 1 .. Len(q) - 1 /\ at(m - 1) = m
      BY <1>1, <2>2
    <3>2. QED BY <3>1
  <2>3. QED BY <1>1, <2>1, <2>2
<1> HIDE DEF at
<1>9. \A m \in DOMAIN q : m # k => \E j \in DOMAIN r : r[j] = q[m]
  BY <1>1, <1>4, <1>7, <1>8
<1>10. \A j \in DOMAIN r : \E m \in DOMAIN q : m # k /\ r[j] = q[m]
  BY <1>1, <1>4, <1>7
<1>11. \A i, j \in DOMAIN r : i # j => \E m, n \in DOMAIN q : m # n /\ r[i] = q[m] /\ r[j] = q[n]
  <2> TAKE i, j \in DOMAIN r
  <2> SUFFICES ASSUME i # j
               PROVE  \E m, n \in DOMAIN q : m # n /\ r[i] = q[m] /\ r[j] = q[n]
    OBVIOUS
  <2>1. /\ at(i) \in DOMAIN q /\ at(j) \in DOMAIN q /\ at(i) # at(j)
        /\ r[i] = q[at(i)] /\ r[j] = q[at(j)]
    BY <1>1, <1>4, <1>7
  <2>2. QED BY <2>1
<1>12. QED BY <1>4, <1>6, <1>9, <1>10, <1>11

(* The identities a tier lists *)
IdsOf(q) == {q[k].id : k \in DOMAIN q}

LEMMA RemovedIds ==
  ASSUME NEW q \in Seq(Entry), NEW k \in DOMAIN q, OnceIn(q)
  PROVE  /\ RemoveAt(q, k) \in Seq(Entry) /\ OnceIn(RemoveAt(q, k))
         /\ IdsOf(RemoveAt(q, k)) = IdsOf(q) \ {q[k].id}
<1> DEFINE r == RemoveAt(q, k)
<1>1. /\ r \in Seq(Entry)
      /\ \A j \in DOMAIN r : \E m \in DOMAIN q : m # k /\ r[j] = q[m]
      /\ \A m \in DOMAIN q : m # k => \E j \in DOMAIN r : r[j] = q[m]
      /\ \A i, j \in DOMAIN r : i # j => \E m, n \in DOMAIN q : m # n /\ r[i] = q[m] /\ r[j] = q[n]
  BY RemovedFacts
<1> HIDE DEF r
<1>2. OnceIn(r)
  <2> SUFFICES ASSUME NEW i \in DOMAIN r, NEW j \in DOMAIN r, i # j, r[i].id = r[j].id PROVE FALSE
    BY DEF OnceIn
  <2>1. PICK m, n \in DOMAIN q : m # n /\ r[i] = q[m] /\ r[j] = q[n]
    BY <1>1
  <2>2. QED BY <2>1 DEF OnceIn
<1>3. ASSUME NEW j \in DOMAIN r PROVE r[j].id \in IdsOf(q) /\ r[j].id # q[k].id
  <2>1. PICK m \in DOMAIN q : m # k /\ r[j] = q[m]
    BY <1>1
  <2>2. QED BY <2>1 DEF OnceIn, IdsOf
<1>4. ASSUME NEW m \in DOMAIN q, q[m].id # q[k].id PROVE q[m].id \in IdsOf(r)
  <2>1. m # k
    BY <1>4
  <2>2. PICK j \in DOMAIN r : r[j] = q[m]
    BY <1>1, <2>1
  <2>3. QED BY <2>2 DEF IdsOf
<1>5. IdsOf(r) = IdsOf(q) \ {q[k].id}
  BY <1>3, <1>4 DEF IdsOf
<1>6. QED BY <1>1, <1>2, <1>5 DEF r

LEMMA AppendedIds ==
  ASSUME NEW q \in Seq(Entry), NEW e \in Entry, OnceIn(q), e.id \notin IdsOf(q)
  PROVE  /\ Append(q, e) \in Seq(Entry) /\ OnceIn(Append(q, e))
         /\ IdsOf(Append(q, e)) = IdsOf(q) \cup {e.id}
<1> DEFINE r == Append(q, e)
<1>0. /\ r \in Seq(Entry) /\ Len(q) \in Nat /\ DOMAIN q = 1 .. Len(q)
      /\ DOMAIN r = 1 .. Len(q) + 1 /\ r[Len(q) + 1] = e /\ \A j \in 1 .. Len(q) : r[j] = q[j]
  OBVIOUS
<1>1. /\ r \in Seq(Entry)
      /\ \A j \in DOMAIN r : r[j] = e \/ \E m \in DOMAIN q : r[j] = q[m]
      /\ \A m \in DOMAIN q : \E j \in DOMAIN r : r[j] = q[m]
      /\ \E j \in DOMAIN r : r[j] = e
  <2> HIDE DEF r
  <2>1. \A j \in DOMAIN r : j = Len(q) + 1 \/ j \in DOMAIN q
    BY <1>0
  <2>2. Len(q) + 1 \in DOMAIN r /\ \A j \in DOMAIN q : j \in DOMAIN r
    BY <1>0
  <2>3. QED BY <1>0, <2>1, <2>2
<1> HIDE DEF r
<1>2. \A m \in DOMAIN q : q[m].id # e.id
  BY DEF IdsOf
<1>3. OnceIn(r)
  <2> SUFFICES ASSUME NEW i \in DOMAIN r, NEW j \in DOMAIN r, i # j, r[i].id = r[j].id PROVE FALSE
    BY DEF OnceIn
  <2>0. (i = Len(q) + 1 \/ i \in DOMAIN q) /\ (j = Len(q) + 1 \/ j \in DOMAIN q)
    BY <1>0
  <2>1. CASE i \in DOMAIN q /\ j \in DOMAIN q
    BY <1>0, <2>1 DEF OnceIn
  <2>2. CASE i = Len(q) + 1
    BY <1>0, <1>2, <2>0, <2>2
  <2>3. CASE j = Len(q) + 1
    BY <1>0, <1>2, <2>0, <2>3
  <2>4. QED BY <2>0, <2>1, <2>2, <2>3
<1>4. IdsOf(r) = IdsOf(q) \cup {e.id}
  <2>1. ASSUME NEW j \in DOMAIN r PROVE r[j].id \in IdsOf(q) \cup {e.id}
    BY <1>1 DEF IdsOf
  <2>2. ASSUME NEW m \in DOMAIN q PROVE q[m].id \in IdsOf(r)
    BY <1>1 DEF IdsOf
  <2>3. e.id \in IdsOf(r)
    BY <1>1 DEF IdsOf
  <2>4. QED BY <2>1, <2>2, <2>3 DEF IdsOf
<1>5. QED BY <1>1, <1>3, <1>4 DEF r

LEMMA RemovedOnes ==
  ASSUME NEW q \in Seq(Ids), NEW k \in DOMAIN q, IsInjective(q)
  PROVE  /\ RemoveAt(q, k) \in Seq(Ids) /\ IsInjective(RemoveAt(q, k))
         /\ ToSet(RemoveAt(q, k)) = ToSet(q) \ {q[k]}
<1> DEFINE r == RemoveAt(q, k)
<1>1. /\ r \in Seq(Ids)
      /\ \A j \in DOMAIN r : \E m \in DOMAIN q : m # k /\ r[j] = q[m]
      /\ \A m \in DOMAIN q : m # k => \E j \in DOMAIN r : r[j] = q[m]
      /\ \A i, j \in DOMAIN r : i # j => \E m, n \in DOMAIN q : m # n /\ r[i] = q[m] /\ r[j] = q[n]
  BY RemovedFacts
<1> HIDE DEF r
<1>2. IsInjective(r)
  <2> SUFFICES ASSUME NEW i \in DOMAIN r, NEW j \in DOMAIN r, i # j, r[i] = r[j] PROVE FALSE
    BY DEF IsInjective
  <2>1. PICK m, n \in DOMAIN q : m # n /\ r[i] = q[m] /\ r[j] = q[n]
    BY <1>1
  <2>2. QED BY <2>1 DEF IsInjective
<1>3. ASSUME NEW j \in DOMAIN r PROVE r[j] \in ToSet(q) /\ r[j] # q[k]
  <2>1. PICK m \in DOMAIN q : m # k /\ r[j] = q[m]
    BY <1>1
  <2>2. QED BY <2>1 DEF IsInjective, ToSet
<1>4. ASSUME NEW m \in DOMAIN q, q[m] # q[k] PROVE q[m] \in ToSet(r)
  <2>1. m # k
    BY <1>4
  <2>2. PICK j \in DOMAIN r : r[j] = q[m]
    BY <1>1, <2>1
  <2>3. QED BY <2>2 DEF ToSet
<1>5. ToSet(r) = ToSet(q) \ {q[k]}
  BY <1>3, <1>4 DEF ToSet
<1>6. QED BY <1>1, <1>2, <1>5 DEF r

LEMMA AppendedOnes ==
  ASSUME NEW q \in Seq(Ids), NEW e \in Ids, IsInjective(q), e \notin ToSet(q)
  PROVE  /\ Append(q, e) \in Seq(Ids) /\ IsInjective(Append(q, e))
         /\ ToSet(Append(q, e)) = ToSet(q) \cup {e}
<1> DEFINE r == Append(q, e)
<1>0. /\ r \in Seq(Ids) /\ Len(q) \in Nat /\ DOMAIN q = 1 .. Len(q)
      /\ DOMAIN r = 1 .. Len(q) + 1 /\ r[Len(q) + 1] = e /\ \A j \in 1 .. Len(q) : r[j] = q[j]
  OBVIOUS
<1>1. /\ r \in Seq(Ids)
      /\ \A j \in DOMAIN r : r[j] = e \/ \E m \in DOMAIN q : r[j] = q[m]
      /\ \A m \in DOMAIN q : \E j \in DOMAIN r : r[j] = q[m]
      /\ \E j \in DOMAIN r : r[j] = e
  <2> HIDE DEF r
  <2>1. \A j \in DOMAIN r : j = Len(q) + 1 \/ j \in DOMAIN q
    BY <1>0
  <2>2. Len(q) + 1 \in DOMAIN r /\ \A j \in DOMAIN q : j \in DOMAIN r
    BY <1>0
  <2>3. QED BY <1>0, <2>1, <2>2
<1> HIDE DEF r
<1>2. \A m \in DOMAIN q : q[m] # e
  BY DEF ToSet
<1>3. IsInjective(r)
  <2> SUFFICES ASSUME NEW i \in DOMAIN r, NEW j \in DOMAIN r, i # j, r[i] = r[j] PROVE FALSE
    BY DEF IsInjective
  <2>0. (i = Len(q) + 1 \/ i \in DOMAIN q) /\ (j = Len(q) + 1 \/ j \in DOMAIN q)
    BY <1>0
  <2>1. CASE i \in DOMAIN q /\ j \in DOMAIN q
    BY <1>0, <2>1 DEF IsInjective
  <2>2. CASE i = Len(q) + 1
    BY <1>0, <1>2, <2>0, <2>2
  <2>3. CASE j = Len(q) + 1
    BY <1>0, <1>2, <2>0, <2>3
  <2>4. QED BY <2>0, <2>1, <2>2, <2>3
<1>4. ToSet(r) = ToSet(q) \cup {e}
  <2>1. ASSUME NEW j \in DOMAIN r PROVE r[j] \in ToSet(q) \cup {e}
    BY <1>1 DEF ToSet
  <2>2. ASSUME NEW m \in DOMAIN q PROVE q[m] \in ToSet(r)
    BY <1>1 DEF ToSet
  <2>3. e \in ToSet(r)
    BY <1>1 DEF ToSet
  <2>4. QED BY <2>1, <2>2, <2>3 DEF ToSet
<1>5. QED BY <1>1, <1>3, <1>4 DEF r

-----------------------------------------------------------------------------
(* A page moves: from a place to the hand, from the hand to a place, or it   *)
(* is made in the hand, or dies there.                                       *)

SameLife(s, t) == \A i \in Ids : t.page[i] # NoPage <=> s.page[i] # NoPage

LEMMA TakeFacts ==
  ASSUME NEW s, NEW t, NEW H, Whole(s, H), NEW p \in Homes, NEW i \in Ids, i \in Where(s, p),
         SameLife(s, t),
         \A r \in Homes : Where(t, r) = IF r = p THEN Where(s, r) \ {i} ELSE Where(s, r)
  PROVE  Whole(t, H \cup {i})
<1>1. \A j \in Ids : t.page[j] # NoPage <=> j \in H \cup {i} \/ \E r \in Homes : j \in Where(t, r)
  <2> TAKE j \in Ids
  <2>1. CASE j = i
    BY <2>1 DEF Whole, SameLife
  <2>2. CASE j # i
    <3>1. \A r \in Homes : j \in Where(t, r) <=> j \in Where(s, r)
      BY <2>2
    <3>2. QED BY <2>2, <3>1 DEF Whole, SameLife
  <2>3. QED BY <2>1, <2>2
<1>2. \A r \in Homes : Where(t, r) \subseteq Where(s, r)
  OBVIOUS
<1>3. \A q, r \in Homes : \A j \in Ids : j \in Where(t, q) /\ j \in Where(t, r) => q = r
  BY <1>2 DEF Whole
<1>4. \A r \in Homes : \A j \in H \cup {i} : j \notin Where(t, r)
  BY <1>2 DEF Whole
<1>5. QED BY <1>1, <1>3, <1>4 DEF Whole

LEMMA PutFacts ==
  ASSUME NEW s, NEW t, NEW H, Whole(s, H), NEW p \in Homes, NEW i \in H, SameLife(s, t),
         \A r \in Homes : Where(t, r) = IF r = p THEN Where(s, r) \cup {i} ELSE Where(s, r)
  PROVE  Whole(t, H \ {i})
<1>0. i \in Ids /\ \A r \in Homes : i \notin Where(s, r)
  BY DEF Whole
<1>1. \A j \in Ids : t.page[j] # NoPage <=> j \in H \ {i} \/ \E r \in Homes : j \in Where(t, r)
  <2> TAKE j \in Ids
  <2>1. CASE j = i
    BY <2>1 DEF Whole, SameLife
  <2>2. CASE j # i
    <3>1. \A r \in Homes : j \in Where(t, r) <=> j \in Where(s, r)
      BY <2>2
    <3>2. QED BY <2>2, <3>1 DEF Whole, SameLife
  <2>3. QED BY <2>1, <2>2
<1>2. \A q, r \in Homes : \A j \in Ids : j \in Where(t, q) /\ j \in Where(t, r) => q = r
  <2> TAKE q, r \in Homes
  <2> TAKE j \in Ids
  <2>1. CASE j = i
    BY <1>0, <2>1
  <2>2. CASE j # i
    <3>1. \A a \in Homes : j \in Where(t, a) <=> j \in Where(s, a)
      BY <2>2
    <3>2. QED BY <3>1 DEF Whole
  <2>3. QED BY <2>1, <2>2
<1>3. \A r \in Homes : \A j \in H \ {i} : j \notin Where(t, r)
  BY DEF Whole
<1>4. QED BY <1>1, <1>2, <1>3 DEF Whole

LEMMA DeathFacts ==
  ASSUME NEW s, NEW t, NEW H, Whole(s, H), NEW i \in H, t.page[i] = NoPage,
         \A j \in Ids \ {i} : t.page[j] # NoPage <=> s.page[j] # NoPage,
         \A r \in Homes : Where(t, r) = Where(s, r)
  PROVE  Whole(t, H \ {i})
<1>0. i \in Ids /\ \A r \in Homes : i \notin Where(s, r)
  BY DEF Whole
<1>1. \A j \in Ids : t.page[j] # NoPage <=> j \in H \ {i} \/ \E r \in Homes : j \in Where(t, r)
  <2> TAKE j \in Ids
  <2>1. CASE j = i
    BY <1>0, <2>1
  <2>2. CASE j # i
    BY <2>2 DEF Whole
  <2>3. QED BY <2>1, <2>2
<1>2. QED BY <1>1 DEF Whole

LEMMA BirthFacts ==
  ASSUME NEW s, NEW t, NEW H, Whole(s, H), NEW i \in Ids, s.page[i] = NoPage, t.page[i] # NoPage,
         \A j \in Ids \ {i} : t.page[j] # NoPage <=> s.page[j] # NoPage,
         \A r \in Homes : Where(t, r) = Where(s, r)
  PROVE  Whole(t, H \cup {i})
<1>0. i \notin H /\ \A r \in Homes : i \notin Where(s, r)
  BY DEF Whole
<1>1. \A j \in Ids : t.page[j] # NoPage <=> j \in H \cup {i} \/ \E r \in Homes : j \in Where(t, r)
  <2> TAKE j \in Ids
  <2>1. CASE j = i
    BY <2>1
  <2>2. CASE j # i
    BY <2>2 DEF Whole
  <2>3. QED BY <2>1, <2>2
<1>2. \A r \in Homes : \A j \in H \cup {i} : j \notin Where(t, r)
  BY <1>0 DEF Whole
<1>3. \A q, r \in Homes : \A j \in Ids : j \in Where(t, q) /\ j \in Where(t, r) => q = r
  BY DEF Whole
<1>4. H \cup {i} \subseteq Ids
  BY DEF Whole
<1>5. QED BY <1>1, <1>2, <1>3, <1>4 DEF Whole

-----------------------------------------------------------------------------
(* The destroy queue *)

(* What stays of a store: the pages of H, and that the generation moved.     *)
Keeps(s, r, H) == (\A j \in H : r.page[j] = s.page[j]) /\ (s.moved => r.moved)

(* The counters of the tiers and of the oversized map do not grow.           *)
Shelves == {"main", "small", "over"}
Lean(s, r) == (\A p \in Shelves : r.bytes[p] <= s.bytes[p]) /\ Len(r.over) <= Len(s.over)

(* Only the bridge changes.                                                  *)
Even(s, r) == (\A p \in Shelves : r.bytes[p] = s.bytes[p]) /\ r.over = s.over /\ r.lru = s.lru

LEMMA WherePlaces ==
  \A s : /\ \A t \in Tiers : Where(s, t) = TierIds(s, t)
         /\ Where(s, "over") = ToSet(s.over) /\ Where(s, "held") = Bridged(s)
         /\ Where(s, "queue") = ToSet(s.queue)
  BY DEF Where, Tiers

LEMMA StoreFields ==
  ASSUME NEW s \in Stores
  PROVE  /\ s.page \in [Ids -> Page \cup {NoPage}] /\ s.lru \in [Tiers -> Seq(Entry)]
         /\ s.over \in Seq(Ids) /\ s.held \in [Bases -> Ids \cup {NoId}]
         /\ s.ring \in [0 .. HeldMax - 1 -> Bases \cup {NoBase}] /\ s.next \in 0 .. HeldMax - 1
         /\ s.queue \in Seq(Ids) /\ s.bytes \in [{"main", "small", "over", "held"} -> Int]
         /\ s.moved \in BOOLEAN
  BY DEF Stores

LEMMA Counters ==
  ASSUME NEW s \in Stores
  PROVE  (\A p \in Shelves : s.bytes[p] \in Int) /\ Len(s.over) \in Nat
  BY StoreFields DEF Shelves

LEMMA LeanTrans ==
  ASSUME NEW s \in Stores, NEW r \in Stores, NEW x \in Stores, Lean(s, r), Lean(r, x)
  PROVE  Lean(s, x)
<1>1. ASSUME NEW p \in Shelves PROVE x.bytes[p] <= s.bytes[p]
  <2>1. s.bytes[p] \in Int /\ r.bytes[p] \in Int /\ x.bytes[p] \in Int
    BY Counters
  <2>2. QED BY <2>1 DEF Lean
<1>2. Len(x.over) <= Len(s.over)
  BY Counters DEF Lean
<1>3. QED BY <1>1, <1>2 DEF Lean

LEMMA LeanSame ==
  ASSUME NEW s \in Stores, NEW r, \A p \in Shelves : r.bytes[p] = s.bytes[p], r.over = s.over
  PROVE  Lean(s, r)
<1>1. ASSUME NEW p \in Shelves PROVE r.bytes[p] <= s.bytes[p]
  <2>1. s.bytes[p] \in Int
    BY Counters
  <2>2. QED BY <2>1
<1>2. Len(r.over) <= Len(s.over)
  BY Counters
<1>3. QED BY <1>1, <1>2 DEF Lean

LEMMA BudgetFacts == \A t \in Tiers : Budget(t) \in Nat /\ t \in Shelves
  BY TextureConstants DEF Tiers, Budget, Shelves

LEMMA FedKept ==
  ASSUME NEW s \in Stores, NEW r \in Stores, Fed(s), \A t \in Tiers : r.bytes[t] <= s.bytes[t]
  PROVE  Fed(r)
<1>1. ASSUME NEW t \in Tiers PROVE r.bytes[t] <= Budget(t)
  <2>1. s.bytes[t] \in Int /\ r.bytes[t] \in Int /\ Budget(t) \in Nat
    BY Counters, BudgetFacts
  <2>2. QED BY <2>1 DEF Fed
<1>2. QED BY <1>1 DEF Fed

LEMMA SlimKept ==
  ASSUME NEW s \in Stores, NEW r \in Stores, Slim(s), Lean(s, r) PROVE Slim(r)
<1>1. Fed(r)
  BY FedKept, BudgetFacts DEF Slim, Lean
<1>2. r.bytes["over"] <= OverCap \/ Len(r.over) <= 1
  <2>1. /\ s.bytes["over"] \in Int /\ r.bytes["over"] \in Int /\ OverCap \in Nat
        /\ Len(s.over) \in Nat /\ Len(r.over) \in Nat
    BY Counters, TextureConstants DEF Shelves
  <2>2. /\ s.bytes["over"] <= OverCap \/ Len(s.over) <= 1
        /\ r.bytes["over"] <= s.bytes["over"] /\ Len(r.over) <= Len(s.over)
    BY DEF Slim, Lean, Shelves
  <2>3. QED BY <2>1, <2>2
<1>3. QED BY <1>1, <1>2 DEF Slim

LEMMA EvenKept ==
  ASSUME NEW s, NEW r, Even(s, r) PROVE (Slim(s) => Slim(r)) /\ (Fed(s) => Fed(r))
<1>1. r.over = s.over /\ r.bytes["over"] = s.bytes["over"] /\ \A t \in Tiers : r.bytes[t] = s.bytes[t]
  BY DEF Even, Shelves, Tiers
<1>2. Fed(s) => Fed(r)
  BY <1>1 DEF Fed
<1>3. QED BY <1>1, <1>2 DEF Slim

LEMMA EvenLean ==
  ASSUME NEW s \in Stores, NEW r, Even(s, r) PROVE Lean(s, r)
  BY LeanSame DEF Even

LEMMA ShelvedIds ==
  ASSUME NEW s \in Stores PROVE Shelved(s) \subseteq Ids /\ \A p \in Homes : Where(s, p) \subseteq Ids
<1>1. \A t \in Tiers : TierIds(s, t) \subseteq Ids
  <2> SUFFICES ASSUME NEW t \in Tiers, NEW k \in DOMAIN s.lru[t] PROVE s.lru[t][k].id \in Ids
    BY DEF TierIds
  <2>1. s.lru[t] \in Seq(Entry)
    BY StoreFields
  <2>2. s.lru[t][k] \in Entry
    BY <2>1
  <2>3. QED BY <2>2 DEF Entry
<1>2. ToSet(s.over) \subseteq Ids /\ ToSet(s.queue) \subseteq Ids
  BY StoreFields DEF ToSet
<1>3. Bridged(s) \subseteq Ids
  BY StoreFields DEF Bridged
<1>4. QED BY <1>1, <1>2, <1>3 DEF Shelved, Where, Tiers

LEMMA UnmovedPlaces ==
  ASSUME NEW s, NEW r
  PROVE  /\ \A t \in Tiers : r.lru[t] = s.lru[t] => Where(r, t) = Where(s, t)
         /\ r.lru = s.lru => \A t \in Tiers : Where(r, t) = Where(s, t)
         /\ r.over = s.over => Where(r, "over") = Where(s, "over")
         /\ r.held = s.held => Where(r, "held") = Where(s, "held")
         /\ r.queue = s.queue => Where(r, "queue") = Where(s, "queue")
         /\ \A p \in Homes : p \in Tiers \/ p \in {"over", "held", "queue"}
         /\ r.lru = s.lru /\ r.over = s.over /\ r.held = s.held =>
              \A p \in Homes \ {"queue"} : Where(r, p) = Where(s, p)
<1>1. ASSUME NEW t \in Tiers, r.lru[t] = s.lru[t] PROVE Where(r, t) = Where(s, t)
  BY <1>1 DEF Where, TierIds
<1>2. \A p \in Homes : p \in Tiers \/ p \in {"over", "held", "queue"}
  BY DEF Homes, Tiers
<1>3. r.over = s.over => Where(r, "over") = Where(s, "over")
  BY DEF Where, Tiers
<1>4. r.held = s.held => Where(r, "held") = Where(s, "held")
  BY DEF Where, Tiers, Bridged
<1>5. r.queue = s.queue => Where(r, "queue") = Where(s, "queue")
  BY DEF Where, Tiers
<1>6. QED BY <1>1, <1>2, <1>3, <1>4, <1>5

LEMMA PageFields ==
  ASSUME NEW p \in Page
  PROVE  /\ p.base \in Bases /\ p.art \in Seq(Sources \cup {Nil}) /\ p.animated \in BOOLEAN
         /\ p.partial \in BOOLEAN /\ p.stilled \in BOOLEAN /\ Len(p.art) \in Nat
  BY DEF Page

(* What is in hand or in a place is a page.                                  *)
LEMMA AlivePages ==
  ASSUME NEW s, NEW H, Good(s, H)
  PROVE  /\ \A i \in H : i \in Ids /\ s.page[i] \in Page
         /\ \A p \in Homes : \A i \in Where(s, p) : i \in Ids /\ s.page[i] \in Page /\ i \notin H
<1>1. s \in Stores /\ Whole(s, H)
  BY DEF Good
<1>2. \A p \in Homes : Where(s, p) \subseteq Ids
  BY <1>1, ShelvedIds
<1>3. \A i \in Ids : s.page[i] # NoPage => s.page[i] \in Page
  BY <1>1, StoreFields
<1>4. QED BY <1>1, <1>2, <1>3 DEF Whole

-----------------------------------------------------------------------------
(* The weight of a set of pages                                              *)

LEMMA ColumnFacts ==
  ASSUME NEW i, NEW n \in Nat
  PROVE  IsFiniteSet({i} \X (1 .. n)) /\ Cardinality({i} \X (1 .. n)) = n
<1>1. IsFiniteSet({i}) /\ Cardinality({i}) = 1
  BY FS_Singleton
<1>2. IsFiniteSet(1 .. n) /\ Cardinality(1 .. n) = n
  <2>1. n \in Int /\ 1 \in Int
    OBVIOUS
  <2>2. IsFiniteSet(1 .. n) /\ Cardinality(1 .. n) = IF 1 > n THEN 0 ELSE n - 1 + 1
    BY <2>1, FS_Interval
  <2>3. QED BY <2>2
<1> DEFINE C == {i} \X (1 .. n)
<1>3. IsFiniteSet(C) /\ Cardinality(C) = Cardinality({i}) * Cardinality(1 .. n)
  BY <1>1, <1>2, FS_Product
<1>4. QED BY <1>1, <1>2, <1>3

LEMMA MassFacts ==
  ASSUME NEW s, NEW I, IsFiniteSet(I), \A i \in I : Weight(s, i) \in Nat
  PROVE  Mass(s, I) \in Nat /\ IsFiniteSet(UNION {{i} \X (1 .. Weight(s, i)) : i \in I})
<1> DEFINE cell == [i \in I |-> {i} \X (1 .. Weight(s, i))]
           T == {{i} \X (1 .. Weight(s, i)) : i \in I}
<1>1. \A i \in I : IsFiniteSet({i} \X (1 .. Weight(s, i)))
  <2> TAKE i \in I
  <2> DEFINE n == Weight(s, i)
  <2>1. n \in Nat
    OBVIOUS
  <2> HIDE DEF n
  <2>2. IsFiniteSet({i} \X (1 .. n))
    BY <2>1, ColumnFacts
  <2>3. QED BY <2>2 DEF n
<1>2. cell \in Surjection(I, T)
  BY DEF Surjection
<1>3. IsFiniteSet(T)
  BY <1>2, FS_Surjection
<1>4. IsFiniteSet(UNION T)
  BY <1>1, <1>3, FS_UNION
<1>5. QED BY <1>4, FS_CardinalityType DEF Mass

LEMMA MassOfNone == ASSUME NEW s PROVE Mass(s, {}) = 0
  BY FS_EmptySet DEF Mass

LEMMA MassAlike ==
  ASSUME NEW s, NEW r, NEW I, \A i \in I : Weight(r, i) = Weight(s, i)
  PROVE  Mass(r, I) = Mass(s, I)
<1>1. {{i} \X (1 .. Weight(r, i)) : i \in I} = {{i} \X (1 .. Weight(s, i)) : i \in I}
  OBVIOUS
<1>2. QED BY <1>1 DEF Mass

LEMMA MassUnion ==
  ASSUME NEW s, NEW I, NEW J, IsFiniteSet(I), IsFiniteSet(J), I \cap J = {},
         \A i \in I \cup J : Weight(s, i) \in Nat
  PROVE  Mass(s, I \cup J) = Mass(s, I) + Mass(s, J)
<1> DEFINE A == UNION {{i} \X (1 .. Weight(s, i)) : i \in I}
           B == UNION {{i} \X (1 .. Weight(s, i)) : i \in J}
<1>1. UNION {{i} \X (1 .. Weight(s, i)) : i \in I \cup J} = A \cup B /\ A \cap B = {}
  OBVIOUS
<1>2. /\ IsFiniteSet(A) /\ Cardinality(A) \in Nat /\ Mass(s, I) = Cardinality(A)
      /\ IsFiniteSet(B) /\ Cardinality(B) \in Nat /\ Mass(s, J) = Cardinality(B)
  BY MassFacts, FS_CardinalityType DEF Mass
<1>3. Mass(s, I \cup J) = Cardinality(A \cup B)
  BY <1>1 DEF Mass
<1> HIDE DEF A, B
<1>4. Cardinality(A \cup B) = Cardinality(A) + Cardinality(B) - Cardinality(A \cap B)
  BY <1>2, FS_Union
<1>5. Cardinality(A \cap B) = 0
  BY <1>1, FS_EmptySet
<1>6. QED BY <1>2, <1>3, <1>4, <1>5

LEMMA MassOfOne ==
  ASSUME NEW s, NEW i, Weight(s, i) \in Nat PROVE Mass(s, {i}) = Weight(s, i)
<1> DEFINE n == Weight(s, i)
<1>1. UNION {{j} \X (1 .. Weight(s, j)) : j \in {i}} = {i} \X (1 .. n)
  OBVIOUS
<1>2. n \in Nat
  OBVIOUS
<1> HIDE DEF n
<1>3. Cardinality({i} \X (1 .. n)) = n
  BY <1>2, ColumnFacts
<1>4. QED BY <1>1, <1>3 DEF Mass, n

(* One page more. *)
LEMMA MassPut ==
  ASSUME NEW s, NEW I, IsFiniteSet(I), NEW i, i \notin I, \A j \in I \cup {i} : Weight(s, j) \in Nat
  PROVE  Mass(s, I \cup {i}) = Mass(s, I) + Weight(s, i)
<1>1. IsFiniteSet({i})
  BY FS_Singleton
<1> DEFINE J == {i}
<1>2. I \cap J = {} /\ IsFiniteSet(J) /\ \A j \in I \cup J : Weight(s, j) \in Nat
  BY <1>1
<1>3. Mass(s, J) = Weight(s, i)
  BY MassOfOne
<1> HIDE DEF J
<1>4. Mass(s, I \cup J) = Mass(s, I) + Mass(s, J)
  BY <1>2, MassUnion
<1>5. QED BY <1>3, <1>4 DEF J

(* Pages of one frame weigh what they number. *)
LEMMA MassOfStills ==
  ASSUME NEW s, NEW I, IsFiniteSet(I), \A i \in I : Weight(s, i) = 1
  PROVE  Mass(s, I) = Cardinality(I)
<1>1. UNION {{i} \X (1 .. Weight(s, i)) : i \in I} = I \X {1}
  <2>1. 1 .. 1 = {1}
    OBVIOUS
  <2>2. \A i \in I : {i} \X (1 .. Weight(s, i)) = {i} \X {1}
    BY <2>1
  <2>3. UNION {{i} \X (1 .. Weight(s, i)) : i \in I} = UNION {{i} \X {1} : i \in I}
    BY <2>2
  <2>4. UNION {{i} \X {1} : i \in I} = I \X {1}
    OBVIOUS
  <2>5. QED BY <2>3, <2>4
<1>2. IsFiniteSet({1}) /\ Cardinality({1}) = 1
  BY FS_Singleton
<1> DEFINE U == {1}
<1>3. IsFiniteSet(U) /\ Cardinality(U) = 1
  BY <1>2
<1> HIDE DEF U
<1>4. Cardinality(I \X U) = Cardinality(I) * Cardinality(U) /\ Cardinality(I) \in Nat
  BY <1>3, FS_Product, FS_CardinalityType
<1>5. Mass(s, I) = Cardinality(I \X U)
  BY <1>1 DEF U, Mass
<1>6. Cardinality(I \X U) = Cardinality(I)
  BY <1>3, <1>4
<1>7. QED BY <1>5, <1>6

-----------------------------------------------------------------------------
(* What the counters say                                                     *)

LEMMA PlaceFacts ==
  ASSUME NEW s, NEW H, Good(s, H), NEW p \in Homes
  PROVE  IsFiniteSet(Where(s, p)) /\ \A i \in Where(s, p) : Weight(s, i) \in Nat
<1>1. \A i \in Where(s, p) : i \in Ids /\ s.page[i] \in Page
  BY AlivePages
<1>2. Where(s, p) \subseteq {i \in Ids : s.page[i] # NoPage}
  BY <1>1, TextureConstants
<1>3. IsFiniteSet(Where(s, p))
  BY <1>2, FS_Subset DEF Good
<1>4. \A i \in Where(s, p) : Weight(s, i) \in Nat
  BY <1>1, PageFields DEF Weight
<1>5. QED BY <1>3, <1>4

(* The counter of a place that stays, loses a page, or gains one.            *)
LEMMA PaidSame ==
  ASSUME NEW s, NEW p, Paid(s, p), NEW r, Where(r, p) = Where(s, p), r.bytes[p] = s.bytes[p],
         \A j \in Where(s, p) : Weight(r, j) = Weight(s, j)
  PROVE  Paid(r, p)
  BY MassAlike DEF Paid

LEMMA PaidTake ==
  ASSUME NEW s, NEW H, Good(s, H), NEW p \in Counted, NEW i \in Where(s, p), NEW r,
         Where(r, p) = Where(s, p) \ {i}, r.bytes[p] = s.bytes[p] - Weight(s, i),
         \A j \in Where(r, p) : Weight(r, j) = Weight(s, j)
  PROVE  Paid(r, p)
<1> DEFINE I == Where(r, p)
<1>1. p \in Homes /\ s.bytes[p] = Mass(s, Where(s, p))
  BY DEF Counted, Good, Booked, Paid
<1>2. IsFiniteSet(Where(s, p)) /\ \A j \in Where(s, p) : Weight(s, j) \in Nat
  BY <1>1, PlaceFacts
<1>3. /\ I \subseteq Where(s, p) /\ i \notin I /\ Where(s, p) = I \cup {i}
      /\ \A j \in I \cup {i} : Weight(s, j) \in Nat
  BY <1>2
<1>4. IsFiniteSet(I)
  BY <1>2, <1>3, FS_Subset
<1>5. Mass(r, I) = Mass(s, I)
  BY MassAlike
<1> HIDE DEF I
<1>6. Mass(s, I \cup {i}) = Mass(s, I) + Weight(s, i)
  BY <1>3, <1>4, MassPut
<1>7. Mass(s, I) \in Nat /\ Weight(s, i) \in Nat
  <2>1. \A j \in I : Weight(s, j) \in Nat
    BY <1>3
  <2>2. QED BY <1>3, <1>4, <2>1, MassFacts
<1>8. r.bytes[p] = Mass(s, I)
  BY <1>1, <1>3, <1>6, <1>7
<1>9. QED BY <1>5, <1>8 DEF I, Paid

LEMMA PaidPut ==
  ASSUME NEW s, NEW H, Good(s, H), NEW p \in Counted, NEW r, NEW i, i \notin Where(s, p),
         Weight(r, i) \in Nat, Where(r, p) = Where(s, p) \cup {i},
         r.bytes[p] = s.bytes[p] + Weight(r, i),
         \A j \in Where(s, p) : Weight(r, j) = Weight(s, j)
  PROVE  Paid(r, p)
<1> DEFINE I == Where(s, p)
<1>1. p \in Homes /\ s.bytes[p] = Mass(s, I)
  BY DEF Counted, Good, Booked, Paid
<1>2. IsFiniteSet(I) /\ \A j \in I : Weight(s, j) \in Nat
  BY <1>1, PlaceFacts
<1>3. Mass(r, I) = Mass(s, I) /\ \A j \in I \cup {i} : Weight(r, j) \in Nat
  BY <1>2, MassAlike
<1>4. i \notin I /\ Where(r, p) = I \cup {i}
  OBVIOUS
<1> HIDE DEF I
<1>5. Mass(r, I \cup {i}) = Mass(r, I) + Weight(r, i)
  BY <1>2, <1>3, <1>4, MassPut
<1>6. QED BY <1>1, <1>3, <1>4, <1>5 DEF Paid

(* A page of a place changes its weight.                                     *)
LEMMA PaidChange ==
  ASSUME NEW s, NEW H, Good(s, H), NEW p \in Counted, NEW i \in Where(s, p), NEW r,
         Where(r, p) = Where(s, p), Weight(r, i) \in Nat,
         r.bytes[p] = s.bytes[p] + (Weight(r, i) - Weight(s, i)),
         \A j \in Where(s, p) \ {i} : Weight(r, j) = Weight(s, j)
  PROVE  Paid(r, p)
<1> DEFINE I == Where(s, p) \ {i}
<1>1. p \in Homes /\ s.bytes[p] = Mass(s, Where(s, p))
  BY DEF Counted, Good, Booked, Paid
<1>2. IsFiniteSet(Where(s, p)) /\ \A j \in Where(s, p) : Weight(s, j) \in Nat
  BY <1>1, PlaceFacts
<1>3. /\ i \notin I /\ Where(s, p) = I \cup {i} /\ Where(r, p) = I \cup {i} /\ IsFiniteSet(I)
      /\ \A j \in I \cup {i} : Weight(s, j) \in Nat /\ Weight(r, j) \in Nat
      /\ \A j \in I : Weight(s, j) \in Nat
  <2>1. I \subseteq Where(s, p)
    OBVIOUS
  <2>2. IsFiniteSet(I)
    BY <1>2, <2>1, FS_Subset
  <2>3. QED BY <1>2, <2>2
<1>4. Mass(r, I) = Mass(s, I)
  BY MassAlike
<1> HIDE DEF I
<1>5. Mass(s, I \cup {i}) = Mass(s, I) + Weight(s, i)
  BY <1>3, MassPut
<1>6. Mass(r, I \cup {i}) = Mass(r, I) + Weight(r, i)
  BY <1>3, MassPut
<1>7. Mass(s, I) \in Nat /\ Weight(s, i) \in Nat
  BY <1>3, MassFacts
<1>8. r.bytes[p] = Mass(r, I \cup {i})
  BY <1>1, <1>3, <1>4, <1>5, <1>6, <1>7
<1>9. QED BY <1>3, <1>8 DEF Paid

(* Some pages of a place fall to one frame.                                  *)
LEMMA PaidStills ==
  ASSUME NEW s, NEW H, Good(s, H), NEW p \in Counted, NEW F \in SUBSET Where(s, p), NEW r,
         Where(r, p) = Where(s, p), r.bytes[p] = s.bytes[p] - Lost(s, F),
         \A j \in F : Weight(r, j) = 1,
         \A j \in Where(s, p) \ F : Weight(r, j) = Weight(s, j)
  PROVE  Paid(r, p)
<1> DEFINE I == Where(s, p) \ F
<1>1. p \in Homes /\ s.bytes[p] = Mass(s, Where(s, p))
  BY DEF Counted, Good, Booked, Paid
<1>2. IsFiniteSet(Where(s, p)) /\ \A j \in Where(s, p) : Weight(s, j) \in Nat
  BY <1>1, PlaceFacts
<1>3. /\ I \cap F = {} /\ Where(s, p) = I \cup F /\ IsFiniteSet(I) /\ IsFiniteSet(F)
      /\ \A j \in I \cup F : Weight(s, j) \in Nat
  <2>1. I \subseteq Where(s, p) /\ F \subseteq Where(s, p)
    OBVIOUS
  <2>2. IsFiniteSet(I) /\ IsFiniteSet(F)
    BY <1>2, <2>1, FS_Subset
  <2>3. QED BY <1>2, <2>2
<1>3a. \A j \in I \cup F : Weight(r, j) \in Nat
  <2>1. \A j \in I : Weight(r, j) \in Nat
    BY <1>2
  <2>2. 1 \in Nat
    OBVIOUS
  <2>3. QED BY <2>1, <2>2
<1>4. Mass(r, I) = Mass(s, I)
  BY MassAlike
<1> HIDE DEF I
<1>5. Mass(s, I \cup F) = Mass(s, I) + Mass(s, F)
  BY <1>3, MassUnion
<1>6. Mass(r, I \cup F) = Mass(r, I) + Mass(r, F)
  BY <1>3, <1>3a, MassUnion
<1>7. Mass(r, F) = Cardinality(F)
  BY <1>3, MassOfStills
<1>8. Mass(s, I) \in Nat /\ Mass(s, F) \in Nat /\ Cardinality(F) \in Nat
  <2>1. Mass(s, I) \in Nat
    BY <1>3, MassFacts
  <2>2. Mass(s, F) \in Nat
    BY <1>3, MassFacts
  <2>3. QED BY <1>3, <2>1, <2>2, FS_CardinalityType
<1>9. r.bytes[p] = Mass(r, I \cup F)
  BY <1>1, <1>3, <1>4, <1>5, <1>6, <1>7, <1>8 DEF Lost
<1>10. QED BY <1>3, <1>9 DEF Paid

(* Nothing that is counted moves.                                            *)
LEMMA BookedSame ==
  ASSUME NEW s, NEW H, Good(s, H), NEW r,
         r.bytes = s.bytes, r.lru = s.lru, r.over = s.over, r.held = s.held,
         \A p \in Counted : \A i \in Where(s, p) : r.page[i] = s.page[i]
  PROVE  Booked(r)
<1>1. Booked(s)
  BY DEF Good
<1>2. \A p \in Counted : Where(r, p) = Where(s, p)
  BY UnmovedPlaces DEF Counted
<1>3. \A p \in Counted : \A i \in Where(s, p) : Weight(r, i) = Weight(s, i)
  BY DEF Weight
<1>4. \A p \in Counted : Paid(r, p)
  BY <1>1, <1>2, <1>3, PaidSame DEF Booked
<1>5. Sized(r)
  <2>1. \A t \in Tiers : \A k \in DOMAIN s.lru[t] : t \in Counted /\ s.lru[t][k].id \in Where(s, t)
    BY WherePlaces DEF Tiers, Homes, Counted, TierIds
  <2>2. QED BY <1>1, <1>3, <2>1 DEF Booked, Sized
<1>6. Lone(r)
  <2>1. "over" \in Counted /\ \A k \in DOMAIN s.over : s.over[k] \in Where(s, "over")
    BY WherePlaces DEF Homes, Counted, ToSet
  <2>2. \A k \in DOMAIN s.over : r.page[s.over[k]] = s.page[s.over[k]]
    BY <2>1
  <2>3. QED BY <1>1, <2>2 DEF Booked, Lone
<1>7. QED BY <1>4, <1>5, <1>6 DEF Booked

LEMMA DestroyGood ==
  ASSUME NEW s, NEW H, Good(s, H), NEW i \in H
  PROVE  Good(Destroy(s, i), H \ {i})
<1> DEFINE r == Destroy(s, i)
<1>1. s \in Stores /\ i \in Ids /\ Whole(s, H)
  BY DEF Good, Whole
<1>2. r.page \in [Ids -> Page \cup {NoPage}]
  BY <1>1, StoreFields DEF Destroy, Stores
<1>3. /\ r.page[i] = NoPage /\ \A j \in Ids \ {i} : r.page[j] = s.page[j]
      /\ r.lru = s.lru /\ r.over = s.over /\ r.held = s.held /\ r.queue = s.queue
      /\ r.bytes = s.bytes
  BY <1>1, StoreFields DEF Destroy, Stores
<1>4. r \in Stores
  BY <1>1, StoreFields DEF Destroy, Stores
<1> HIDE DEF r
<1>5. \A p \in Homes : Where(r, p) = Where(s, p)
  BY <1>3 DEF Where, TierIds, Bridged
<1>6. Whole(r, H \ {i})
  BY <1>1, <1>3, <1>5, DeathFacts
<1>7. i \notin Shelved(s) /\ Shelved(r) = Shelved(s) /\ Shelved(s) \subseteq Ids
  <2>1. \A p \in Homes : i \notin Where(s, p)
    BY <1>1 DEF Whole
  <2>2. i \notin Where(s, "main") /\ i \notin Where(s, "small") /\ i \notin Where(s, "over")
    BY <2>1 DEF Homes
  <2>3. i \notin Shelved(s)
    BY <2>2, WherePlaces DEF Shelved, Tiers
  <2>4. Shelved(r) = Shelved(s)
    BY <1>3 DEF Shelved, TierIds
  <2>5. QED BY <1>1, <2>3, <2>4, ShelvedIds
<1>8. Drawn(r)
  BY <1>3, <1>7 DEF Good, Drawn
<1>9. Once(r) /\ Len(r.queue) <= QueueCap
  BY <1>3 DEF Good, Once
<1>10. IsFiniteSet({j \in Ids : r.page[j] # NoPage})
  <2>1. {j \in Ids : r.page[j] # NoPage} \subseteq {j \in Ids : s.page[j] # NoPage}
    BY <1>3
  <2>2. QED BY <2>1, FS_Subset DEF Good
<1>11. Booked(r)
  <2>1. \A p \in Counted : \A j \in Where(s, p) : j \in Ids \ {i}
    BY <1>1, ShelvedIds DEF Whole, Counted
  <2>2. QED BY <1>3, <2>1, BookedSame
<1>12. QED BY <1>4, <1>6, <1>8, <1>9, <1>10, <1>11 DEF Good, r

LEMMA QueueDestroyGood ==
  ASSUME NEW s, NEW H, Good(s, H), NEW i \in H
  PROVE  /\ Good(QueueDestroy(s, i), H \ {i}) /\ Keeps(s, QueueDestroy(s, i), Ids \ {i})
         /\ QueueDestroy(s, i).lru = s.lru /\ QueueDestroy(s, i).over = s.over
         /\ QueueDestroy(s, i).held = s.held /\ QueueDestroy(s, i).ring = s.ring
         /\ QueueDestroy(s, i).next = s.next /\ QueueDestroy(s, i).bytes = s.bytes
<1> DEFINE r == [s EXCEPT !.queue = Append(@, i)]
<1>1. s \in Stores /\ i \in Ids /\ Whole(s, H) /\ i \notin ToSet(s.queue) /\ IsInjective(s.queue)
  <2>1. i \notin Where(s, "queue")
    BY DEF Good, Whole, Homes
  <2>2. QED BY <2>1, WherePlaces DEF Good, Whole, Once
<1>2. CASE Len(s.queue) < QueueCap
  <2>1. Append(s.queue, i) \in Seq(Ids) /\ IsInjective(Append(s.queue, i))
        /\ ToSet(Append(s.queue, i)) = ToSet(s.queue) \cup {i}
    BY <1>1, StoreFields, AppendedOnes
  <2>2. Len(Append(s.queue, i)) <= QueueCap
    BY <1>1, <1>2, StoreFields, TextureConstants
  <2>3. /\ r.page = s.page /\ r.lru = s.lru /\ r.over = s.over /\ r.held = s.held
        /\ r.ring = s.ring /\ r.next = s.next /\ r.moved = s.moved
        /\ r.queue = Append(s.queue, i) /\ r.bytes = s.bytes
    BY <1>1 DEF Stores
  <2>4. r \in Stores
    BY <1>1, <2>1, StoreFields DEF Stores
  <2> HIDE DEF r
  <2>5. \A p \in Homes : Where(r, p) = IF p = "queue" THEN Where(s, p) \cup {i} ELSE Where(s, p)
    <3>1. \A p \in Homes \ {"queue"} : Where(r, p) = Where(s, p)
      BY <2>3, UnmovedPlaces
    <3>2. Where(r, "queue") = Where(s, "queue") \cup {i}
      BY <2>1, <2>3, WherePlaces
    <3>3. QED BY <3>1, <3>2
  <2>6. Whole(r, H \ {i})
    <3>1. SameLife(s, r) /\ "queue" \in Homes
      BY <2>3 DEF SameLife, Homes
    <3>2. QED BY <1>1, <2>5, <3>1, PutFacts
  <2>7. Once(r) /\ Drawn(r)
    BY <2>1, <2>3 DEF Good, Once, Drawn, Shelved, TierIds
  <2>8. Good(r, H \ {i})
    <3>1. Booked(r)
      BY <2>3, BookedSame
    <3>2. QED BY <2>2, <2>3, <2>4, <2>6, <2>7, <3>1 DEF Good
  <2>9. QueueDestroy(s, i) = r
    BY <1>2 DEF QueueDestroy, r
  <2>10. QED BY <2>3, <2>8, <2>9 DEF Keeps
<1>3. CASE ~(Len(s.queue) < QueueCap)
  <2>1. QueueDestroy(s, i) = Destroy(s, i)
    BY <1>3 DEF QueueDestroy
  <2>2. /\ \A j \in Ids \ {i} : Destroy(s, i).page[j] = s.page[j]
        /\ Destroy(s, i).lru = s.lru /\ Destroy(s, i).over = s.over /\ Destroy(s, i).held = s.held
        /\ Destroy(s, i).ring = s.ring /\ Destroy(s, i).next = s.next
        /\ Destroy(s, i).moved = s.moved /\ Destroy(s, i).bytes = s.bytes
    BY <1>1, StoreFields DEF Destroy, Stores
  <2>3. QED BY <2>1, <2>2, DestroyGood DEF Keeps
<1>4. QED BY <1>2, <1>3

-----------------------------------------------------------------------------
(* The bridge of held frames                                                 *)

LEMMA UnholdGood ==
  ASSUME NEW s, NEW H, Good(s, H), NEW b \in Bases, s.held[b] # NoId
  PROVE  /\ Good(Unhold(s, b), H) /\ Keeps(s, Unhold(s, b), H)
         /\ Unhold(s, b).lru = s.lru /\ Unhold(s, b).over = s.over
         /\ Unhold(s, b).held = [s.held EXCEPT ![b] = NoId]
         /\ Unhold(s, b).ring = s.ring /\ Unhold(s, b).next = s.next
         /\ Even(s, Unhold(s, b))
<1> DEFINE h == s.held[b]
           r == [s EXCEPT !.held[b] = NoId, !.bytes["held"] = @ - Weight(s, s.held[b])]
<1>1. s \in Stores /\ Whole(s, H) /\ Once(s) /\ Drawn(s)
  BY DEF Good
<1>2. h \in Ids /\ h \in Bridged(s)
  BY <1>1, StoreFields DEF Bridged
<1>3. h \in Where(s, "held") /\ "held" \in Homes /\ h \notin H /\ s.page[h] \in Page
  <2>1. h \in Where(s, "held") /\ "held" \in Homes
    BY <1>2, WherePlaces DEF Homes
  <2>2. QED BY <2>1, AlivePages
<1>4. /\ r.page = s.page /\ r.lru = s.lru /\ r.over = s.over /\ r.ring = s.ring
      /\ r.next = s.next /\ r.moved = s.moved /\ r.queue = s.queue
      /\ r.held = [s.held EXCEPT ![b] = NoId]
  BY <1>1 DEF Stores
<1>4a. /\ r.bytes["held"] = s.bytes["held"] - Weight(s, h)
       /\ \A p \in {"main", "small", "over"} : r.bytes[p] = s.bytes[p]
  BY <1>1, StoreFields DEF Stores
<1>5. r \in Stores
  <2>1. Weight(s, h) \in Nat
    BY <1>3, PageFields DEF Weight
  <2>2. [s.held EXCEPT ![b] = NoId] \in [Bases -> Ids \cup {NoId}]
    BY <1>1, StoreFields
  <2>3. [s.bytes EXCEPT !["held"] = @ - Weight(s, h)] \in [{"main", "small", "over", "held"} -> Int]
    <3>1. s.bytes \in [{"main", "small", "over", "held"} -> Int] /\ s.bytes["held"] \in Int
      BY <1>1, StoreFields
    <3>2. s.bytes["held"] - Weight(s, h) \in Int
      BY <2>1, <3>1
    <3>3. QED BY <3>1, <3>2
  <2>4. QED BY <1>1, <2>2, <2>3, StoreFields DEF Stores
<1> HIDE DEF r
<1>6. Bridged(r) = Bridged(s) \ {h}
  <2>1. \A c \in Bases : r.held[c] = IF c = b THEN NoId ELSE s.held[c]
    BY <1>1, <1>4, StoreFields
  <2>2. \A c \in Bases : c # b /\ s.held[c] # NoId => s.held[c] # h
    BY <1>1 DEF Once
  <2>3. QED BY <2>1, <2>2 DEF Bridged
<1>7. \A p \in Homes : Where(r, p) = IF p = "held" THEN Where(s, p) \ {h} ELSE Where(s, p)
  <2>1. Where(r, "held") = Where(s, "held") \ {h}
    BY <1>6, WherePlaces
  <2>2. \A p \in Homes \ {"held"} : Where(r, p) = Where(s, p)
    BY <1>4, UnmovedPlaces
  <2>3. QED BY <2>1, <2>2
<1>8. Whole(r, H \cup {h})
  <2>1. SameLife(s, r)
    BY <1>4 DEF SameLife
  <2>2. QED BY <1>1, <1>2, <1>3, <1>7, <2>1, TakeFacts
<1>9. Once(r) /\ Drawn(r)
  <2>1. \A c \in Bases : r.held[c] = IF c = b THEN NoId ELSE s.held[c]
    BY <1>1, <1>4, StoreFields
  <2>2. \A c, d \in Bases : r.held[c] = r.held[d] => c = d \/ r.held[c] = NoId
    BY <1>1, <2>1 DEF Once
  <2>3. QED BY <1>1, <1>4, <2>2 DEF Once, Drawn, Shelved, TierIds
<1>9a. Booked(r)
  <2>1. \A j \in Ids : Weight(r, j) = Weight(s, j)
    BY <1>4 DEF Weight
  <2>2. \A p \in Homes : Where(s, p) \subseteq Ids
    BY <1>1, ShelvedIds
  <2>3. "held" \in Counted /\ Where(r, "held") = Where(s, "held") \ {h}
    BY <1>3, <1>7 DEF Counted
  <2>4. Paid(r, "held")
    BY <1>3, <1>4a, <2>1, <2>2, <2>3, PaidTake
  <2>5. ASSUME NEW p \in {"main", "small", "over"} PROVE Paid(r, p)
    <3>1. p \in Homes /\ p \in Counted /\ p # "held"
      BY DEF Homes, Counted
    <3>2. Paid(s, p)
      BY <3>1 DEF Good, Booked
    <3>3. QED BY <1>4a, <1>7, <2>1, <2>2, <3>1, <3>2, PaidSame
  <2>6. Sized(r) /\ Lone(r)
    BY <1>4 DEF Good, Booked, Sized, Lone, Weight
  <2>7. QED BY <2>4, <2>5, <2>6 DEF Booked, Counted, Homes
<1>10. Good(r, H \cup {h})
  BY <1>4, <1>5, <1>8, <1>9, <1>9a DEF Good
<1>11. Unhold(s, b) = QueueDestroy(r, h) /\ h \in H \cup {h} /\ (H \cup {h}) \ {h} = H
  BY <1>3 DEF Unhold, r
<1>12. /\ Good(Unhold(s, b), H) /\ Keeps(r, Unhold(s, b), Ids \ {h})
       /\ Unhold(s, b).lru = r.lru /\ Unhold(s, b).over = r.over
       /\ Unhold(s, b).held = r.held /\ Unhold(s, b).ring = r.ring /\ Unhold(s, b).next = r.next
       /\ Unhold(s, b).bytes = r.bytes
  <2> DEFINE q == QueueDestroy(r, h)
             K == H \cup {h}
  <2>1. Good(r, K) /\ h \in K
    BY <1>10, <1>11
  <2> HIDE DEF K
  <2>2. /\ Good(q, K \ {h}) /\ Keeps(r, q, Ids \ {h}) /\ q.lru = r.lru /\ q.over = r.over
        /\ q.held = r.held /\ q.ring = r.ring /\ q.next = r.next
        /\ q.bytes = r.bytes
    BY <2>1, QueueDestroyGood
  <2>3. K \ {h} = H /\ Unhold(s, b) = q
    BY <1>11 DEF K
  <2> HIDE DEF q
  <2>4. QED BY <2>2, <2>3
<1>13. Keeps(s, Unhold(s, b), H)
  <2>1. H \subseteq Ids \ {h}
    BY <1>1, <1>3 DEF Whole
  <2>2. QED BY <1>4, <1>12, <2>1 DEF Keeps
<1>14. Even(s, Unhold(s, b))
  BY <1>4, <1>4a, <1>12 DEF Even, Shelves
<1>15. QED BY <1>4, <1>12, <1>13, <1>14

(* Only the ring turns.                                                      *)
LEMMA RingTurns ==
  ASSUME NEW s, NEW H, Good(s, H),
         NEW ring \in [0 .. HeldMax - 1 -> Bases \cup {NoBase}], NEW next \in 0 .. HeldMax - 1
  PROVE  /\ Good([s EXCEPT !.ring = ring, !.next = next], H)
         /\ Keeps(s, [s EXCEPT !.ring = ring, !.next = next], Ids)
         /\ [s EXCEPT !.ring = ring, !.next = next].lru = s.lru
         /\ [s EXCEPT !.ring = ring, !.next = next].over = s.over
         /\ [s EXCEPT !.ring = ring, !.next = next].held = s.held
         /\ Even(s, [s EXCEPT !.ring = ring, !.next = next])
<1> DEFINE r == [s EXCEPT !.ring = ring, !.next = next]
<1>1. s \in Stores /\ Whole(s, H)
  BY DEF Good
<1>2. /\ r \in Stores /\ r.page = s.page /\ r.lru = s.lru /\ r.over = s.over
      /\ r.held = s.held /\ r.queue = s.queue /\ r.moved = s.moved
      /\ r.bytes = s.bytes
  BY <1>1 DEF Stores
<1> HIDE DEF r
<1>3. \A p \in Homes : Where(r, p) = Where(s, p)
  BY <1>2, UnmovedPlaces
<1>4. Whole(r, H)
  BY <1>1, <1>2, <1>3 DEF Whole
<1>5. Once(r) /\ Drawn(r)
  BY <1>2 DEF Good, Once, Drawn, Shelved, TierIds
<1>5a. Booked(r)
  BY <1>2, BookedSame
<1>6. Good(r, H) /\ Keeps(s, r, Ids)
  BY <1>2, <1>4, <1>5, <1>5a DEF Good, Keeps
<1>7. Even(s, r)
  BY <1>2 DEF Even
<1>8. QED BY <1>2, <1>6, <1>7 DEF r

LEMMA ReleaseHeldGood ==
  ASSUME NEW s, NEW H, Good(s, H), NEW b \in Bases
  PROVE  Good(ReleaseHeld(s, b), H) /\ Keeps(s, ReleaseHeld(s, b), H) /\ Even(s, ReleaseHeld(s, b))
<1>1. CASE s.held[b] = NoId
  BY <1>1 DEF ReleaseHeld, Keeps, Even
<1>2. CASE s.held[b] # NoId
  <2> DEFINE u == Unhold(s, b)
             ring == [k \in DOMAIN u.ring |-> IF u.ring[k] = b THEN NoBase ELSE u.ring[k]]
             r == [u EXCEPT !.ring = ring, !.next = u.next]
  <2>0. Good(u, H) /\ Keeps(s, u, H) /\ Even(s, u)
    BY <1>2, UnholdGood
  <2>1. Good(u, H) /\ Keeps(s, u, H) /\ u \in Stores
    BY <2>0 DEF Good
  <2>2. u.ring \in [0 .. HeldMax - 1 -> Bases \cup {NoBase}] /\ u.next \in 0 .. HeldMax - 1
    BY <2>1, StoreFields
  <2>3. ring \in [0 .. HeldMax - 1 -> Bases \cup {NoBase}]
    BY <2>2
  <2>4. ReleaseHeld(s, b) = r
    <3>1. ReleaseHeld(s, b) = [u EXCEPT !.ring = ring]
      BY <1>2 DEF ReleaseHeld
    <3>2. [u EXCEPT !.ring = ring] = r
      BY <2>1 DEF Stores
    <3>3. QED BY <3>1, <3>2
  <2> HIDE DEF u, ring
  <2>5. Good(r, H) /\ Keeps(u, r, Ids) /\ Even(u, r)
    BY <2>1, <2>2, <2>3, RingTurns
  <2>6. H \subseteq Ids
    BY <2>1 DEF Good, Whole
  <2> HIDE DEF r
  <2>7. Keeps(s, r, H)
    BY <2>1, <2>5, <2>6 DEF Keeps
  <2>8. Even(s, r)
    BY <2>0, <2>5 DEF Even
  <2>9. QED BY <2>4, <2>5, <2>7, <2>8
<1>3. QED BY <1>1, <1>2

LEMMA ClaimSlotGood ==
  ASSUME NEW s, NEW H, Good(s, H), NEW b \in Bases, s.held[b] = NoId
  PROVE  /\ Good(ClaimSlot(s, b), H) /\ Keeps(s, ClaimSlot(s, b), H)
         /\ ClaimSlot(s, b).lru = s.lru /\ ClaimSlot(s, b).over = s.over
         /\ ClaimSlot(s, b).held[b] = NoId /\ Even(s, ClaimSlot(s, b))
<1> DEFINE prev == s.ring[s.next]
           free == IF prev = NoBase \/ s.held[prev] = NoId THEN s ELSE Unhold(s, prev)
           ring == [free.ring EXCEPT ![free.next] = b]
           next == (free.next + 1) % HeldMax
           r == [free EXCEPT !.ring = ring, !.next = next]
<1>1. s \in Stores /\ H \subseteq Ids
  BY DEF Good, Whole
<1>2. prev \in Bases \cup {NoBase} /\ s.held \in [Bases -> Ids \cup {NoId}]
  BY <1>1, StoreFields
<1>3. /\ Good(free, H) /\ Keeps(s, free, H) /\ free.lru = s.lru /\ free.over = s.over
      /\ free.held[b] = NoId /\ free.ring = s.ring /\ free.next = s.next /\ Even(s, free)
  <2>1. CASE prev = NoBase \/ s.held[prev] = NoId
    BY <2>1 DEF Keeps, Even
  <2>2. CASE ~(prev = NoBase \/ s.held[prev] = NoId)
    <3>1. free = Unhold(s, prev) /\ prev \in Bases /\ s.held[prev] # NoId
      BY <1>2, <2>2
    <3> HIDE DEF prev, free
    <3>2. /\ Good(free, H) /\ Keeps(s, free, H) /\ free.lru = s.lru /\ free.over = s.over
          /\ free.held = [s.held EXCEPT ![prev] = NoId] /\ free.ring = s.ring /\ free.next = s.next
          /\ Even(s, free)
      BY <3>1, UnholdGood
    <3>3. free.held[b] = NoId
      BY <1>2, <3>1, <3>2
    <3>4. QED BY <3>2, <3>3
  <2>3. QED BY <2>1, <2>2
<1>4. ClaimSlot(s, b) = r
  <2>1. free.ring = s.ring /\ free.next = s.next /\ free \in Stores
    BY <1>3 DEF Good
  <2>2. ClaimSlot(s, b) = [free EXCEPT !.ring[s.next] = b, !.next = (@ + 1) % HeldMax]
    BY DEF ClaimSlot
  <2> HIDE DEF free
  <2>3. [free EXCEPT !.ring[s.next] = b, !.next = (@ + 1) % HeldMax] = r
    BY <2>1 DEF Stores
  <2>4. QED BY <2>2, <2>3
<1> HIDE DEF prev, free
<1>5. free.ring \in [0 .. HeldMax - 1 -> Bases \cup {NoBase}] /\ free.next \in 0 .. HeldMax - 1
  BY <1>3, StoreFields DEF Good
<1>6. ring \in [0 .. HeldMax - 1 -> Bases \cup {NoBase}] /\ next \in 0 .. HeldMax - 1
  <2>1. next \in 0 .. HeldMax - 1
    BY <1>5, TextureConstants
  <2>2. QED BY <1>5, <2>1
<1> HIDE DEF ring, next
<1>7. /\ Good(r, H) /\ Keeps(free, r, Ids) /\ r.lru = free.lru /\ r.over = free.over
      /\ r.held = free.held /\ Even(free, r)
  <2>1. Good(free, H)
    BY <1>3
  <2>2. /\ Good([free EXCEPT !.ring = ring, !.next = next], H)
        /\ Keeps(free, [free EXCEPT !.ring = ring, !.next = next], Ids)
        /\ [free EXCEPT !.ring = ring, !.next = next].lru = free.lru
        /\ [free EXCEPT !.ring = ring, !.next = next].over = free.over
        /\ [free EXCEPT !.ring = ring, !.next = next].held = free.held
        /\ Even(free, [free EXCEPT !.ring = ring, !.next = next])
    BY <1>6, <2>1, RingTurns
  <2>3. QED BY <2>2
<1> HIDE DEF r
<1>8. Keeps(s, r, H)
  BY <1>1, <1>3, <1>7 DEF Keeps
<1>9. Even(s, r)
  BY <1>3, <1>7 DEF Even
<1>10. QED BY <1>3, <1>4, <1>7, <1>8, <1>9

(* Identities are never used up, so a new one is found.                      *)
LEMMA NewIdFacts ==
  ASSUME NEW s, NEW H, Good(s, H), ~IsFiniteSet(Ids)
  PROVE  NewId(s) \in Ids /\ s.page[NewId(s)] = NoPage
<1> DEFINE alive == {i \in Ids : s.page[i] # NoPage}
           seen == {view["bg"].id, view["speaker"].id}
<1>1. IsFiniteSet(alive) /\ IsFiniteSet(seen)
  <2>1. IsFiniteSet({view["bg"].id})
    BY FS_Singleton
  <2>2. IsFiniteSet({view["bg"].id} \cup {view["speaker"].id})
    BY <2>1, FS_AddElement
  <2>3. seen = {view["bg"].id} \cup {view["speaker"].id}
    OBVIOUS
  <2>4. QED BY <2>2, <2>3 DEF Good
<1>2. IsFiniteSet(alive \cup seen)
  BY <1>1, FS_Union
<1>3. ~(Ids \subseteq alive \cup seen)
  BY <1>2, FS_Subset
<1>4. PICK i \in Ids : i \notin alive \cup seen
  BY <1>3
<1>5. s.page[i] = NoPage /\ \A l \in Layers : view[l].id # i
  BY <1>4 DEF Layers
<1>6. QED BY <1>5 DEF NewId

LEMMA HoldFrameGood ==
  ASSUME NEW s, NEW H, Good(s, H), NEW i \in H, ~IsFiniteSet(Ids)
  PROVE  /\ Good(HoldFrame(s, i), H) /\ Keeps(s, HoldFrame(s, i), H \ {i})
         /\ HoldFrame(s, i).lru = s.lru /\ HoldFrame(s, i).over = s.over
         /\ Even(s, HoldFrame(s, i))
<1> DEFINE b == s.page[i].base
           room == IF s.held[b] = NoId THEN ClaimSlot(s, b) ELSE Unhold(s, b)
           h == NewId(room)
           first == Built(b, <<s.page[i].art[1]>>, FALSE, FALSE)
           robbed == [s.page[i] EXCEPT !.art[1] = Nil]
           page == [room.page EXCEPT ![h] = first, ![i] = robbed]
           r == [room EXCEPT !.page = page, !.held[b] = h, !.bytes["held"] = @ + 1]
<1>1. s \in Stores /\ i \in Ids /\ s.page[i] \in Page /\ H \subseteq Ids
  BY AlivePages DEF Good, Whole
<1>2. CASE s.page[i].art = <<>> \/ s.page[i].art[1] = Nil
  BY <1>2 DEF HoldFrame, Keeps, Even
<1>3. CASE ~(s.page[i].art = <<>> \/ s.page[i].art[1] = Nil)
  <2>1. b \in Bases
    BY <1>1, PageFields
  <2>2. /\ Good(room, H) /\ Keeps(s, room, H) /\ room.lru = s.lru /\ room.over = s.over
        /\ room.held[b] = NoId /\ Even(s, room)
    <3>1. CASE s.held[b] = NoId
      <4>1. room = ClaimSlot(s, b)
        BY <3>1
      <4> HIDE DEF b, room
      <4>2. QED BY <2>1, <3>1, <4>1, ClaimSlotGood
    <3>2. CASE s.held[b] # NoId
      <4>1. room = Unhold(s, b)
        BY <3>2
      <4>2. s.held \in [Bases -> Ids \cup {NoId}]
        BY <1>1, StoreFields
      <4> HIDE DEF b, room
      <4>3. /\ Good(room, H) /\ Keeps(s, room, H) /\ room.lru = s.lru /\ room.over = s.over
            /\ room.held = [s.held EXCEPT ![b] = NoId] /\ Even(s, room)
        BY <2>1, <3>2, <4>1, UnholdGood
      <4>4. QED BY <2>1, <4>2, <4>3
    <3>3. QED BY <3>1, <3>2
  <2>3. HoldFrame(s, i) = [room EXCEPT !.page = [@ EXCEPT ![h] = first, ![i].art[1] = Nil],
                                       !.held[b] = h, !.bytes["held"] = @ + 1]
    BY <1>3 DEF HoldFrame
  <2>4. robbed \in Page /\ first \in Page
    <3>1. s.page[i].art \in Seq(Sources \cup {Nil}) /\ 1 \in DOMAIN s.page[i].art
      BY <1>1, <1>3, PageFields
    <3>2. [s.page[i].art EXCEPT ![1] = Nil] \in Seq(Sources \cup {Nil})
      BY <3>1
    <3>3. s.page[i].art[1] \in Sources \cup {Nil}
      BY <3>1
    <3>4. <<s.page[i].art[1]>> \in Seq(Sources \cup {Nil})
      BY <3>3
    <3>5. QED BY <1>1, <2>1, <3>2, <3>4 DEF Page, Built
  <2> HIDE DEF b, room, first
  <2>5. h \in Ids /\ room.page[h] = NoPage
    BY <2>2, NewIdFacts
  <2>6. room \in Stores /\ Whole(room, H) /\ Once(room) /\ Drawn(room)
        /\ IsFiniteSet({j \in Ids : room.page[j] # NoPage})
    BY <2>2 DEF Good
  <2>7. room.page[i] = s.page[i] /\ h # i /\ h \notin H
    <3>1. room.page[i] = s.page[i] /\ \A j \in H : room.page[j] = s.page[j]
      BY <2>2 DEF Keeps
    <3>2. \A j \in H : s.page[j] \in Page
      BY AlivePages
    <3>3. QED BY <1>1, <2>5, <3>1, <3>2, TextureConstants
  <2> HIDE DEF h
  <2>8. HoldFrame(s, i) = r
    <3>1. [room EXCEPT !.page = [@ EXCEPT ![h] = first, ![i].art[1] = Nil],
                       !.held[b] = h, !.bytes["held"] = @ + 1] = r
      <4>1. room.page \in [Ids -> Page \cup {NoPage}]
        BY <2>6, StoreFields
      <4>2. [room.page EXCEPT ![h] = first, ![i].art[1] = Nil] = page
        BY <1>1, <2>5, <2>7, <4>1
      <4>3. QED BY <4>2
    <3>2. QED BY <2>3, <3>1
  <2> HIDE DEF robbed
  <2>9. /\ page \in [Ids -> Page \cup {NoPage}] /\ page[h] = first /\ page[i] = robbed
        /\ \A j \in Ids \ {h, i} : page[j] = room.page[j]
    BY <1>1, <2>4, <2>5, <2>6, <2>7, StoreFields
  <2> HIDE DEF page
  <2>10. /\ r.page = page /\ r.lru = room.lru /\ r.over = room.over /\ r.queue = room.queue
         /\ r.held = [room.held EXCEPT ![b] = h] /\ r.moved = room.moved
    BY <2>6 DEF Stores
  <2>10a. /\ r.bytes["held"] = room.bytes["held"] + 1
          /\ \A p \in {"main", "small", "over"} : r.bytes[p] = room.bytes[p]
    BY <2>6, StoreFields DEF Stores
  <2>11. r \in Stores
    <3>1. [room.held EXCEPT ![b] = h] \in [Bases -> Ids \cup {NoId}]
      BY <2>5, <2>6, StoreFields
    <3>2. room.bytes \in [{"main", "small", "over", "held"} -> Int] /\ room.bytes["held"] \in Int
      BY <2>6, StoreFields
    <3>3. room.bytes["held"] + 1 \in Int
      BY <3>2
    <3>4. [room.bytes EXCEPT !["held"] = @ + 1] \in [{"main", "small", "over", "held"} -> Int]
      BY <3>2, <3>3
    <3>5. QED BY <2>6, <2>9, <3>1, <3>4, StoreFields DEF Stores
  <2> HIDE DEF r
  <2> DEFINE m == [room EXCEPT !.page = page]
  <2>12. Whole(m, H \cup {h})
    <3>1. /\ m.page = page /\ m.lru = room.lru /\ m.over = room.over /\ m.queue = room.queue
          /\ m.held = room.held
      BY <2>6 DEF Stores
    <3> HIDE DEF m
    <3>2. \A p \in Homes : Where(m, p) = Where(room, p)
      BY <3>1, UnmovedPlaces
    <3>3. m.page[h] # NoPage /\ \A j \in Ids \ {h} : m.page[j] # NoPage <=> room.page[j] # NoPage
      <4>1. m.page[h] # NoPage /\ m.page[i] # NoPage
        BY <2>4, <2>9, <3>1, TextureConstants
      <4>2. room.page[i] # NoPage
        BY <1>1, <2>7, TextureConstants
      <4>3. QED BY <2>9, <3>1, <4>1, <4>2
    <3>4. QED BY <2>5, <2>6, <3>2, <3>3, BirthFacts
  <2>12a. \A p \in Homes : Where(m, p) = Where(room, p)
    <3>1. /\ m.lru = room.lru /\ m.over = room.over /\ m.queue = room.queue /\ m.held = room.held
      BY <2>6 DEF Stores
    <3> HIDE DEF m
    <3>2. QED BY <3>1, UnmovedPlaces
  <2>13. /\ \A p \in Homes : Where(r, p) = IF p = "held" THEN Where(m, p) \cup {h} ELSE Where(m, p)
         /\ SameLife(m, r)
    <3>1. /\ m.page = page /\ m.lru = room.lru /\ m.over = room.over /\ m.queue = room.queue
          /\ m.held = room.held
      BY <2>6 DEF Stores
    <3> HIDE DEF m
    <3>2. \A p \in Homes \ {"held"} : Where(r, p) = Where(m, p)
      BY <2>10, <3>1, UnmovedPlaces
    <3>3. Bridged(r) = Bridged(m) \cup {h}
      <4>1. \A c \in Bases : r.held[c] = IF c = b THEN h ELSE m.held[c]
        BY <2>6, <2>10, <3>1, StoreFields
      <4>2. m.held[b] = NoId /\ h # NoId
        BY <2>2, <2>5, <3>1, TextureConstants
      <4>3. QED BY <2>1, <4>1, <4>2 DEF Bridged
    <3>4. Where(r, "held") = Where(m, "held") \cup {h}
      BY <3>3, WherePlaces
    <3>5. SameLife(m, r)
      BY <2>10, <3>1 DEF SameLife
    <3>6. QED BY <3>2, <3>4, <3>5
  <2> HIDE DEF m
  <2>14. Whole(r, H)
    <3>1. "held" \in Homes /\ h \in H \cup {h}
      BY DEF Homes
    <3>2. Whole(r, (H \cup {h}) \ {h})
      <4> DEFINE K == H \cup {h}
      <4>1. Whole(m, K) /\ h \in K
        BY <2>12
      <4> HIDE DEF K
      <4>2. Whole(r, K \ {h})
        BY <2>13, <3>1, <4>1, PutFacts
      <4>3. QED BY <4>2 DEF K
    <3>3. (H \cup {h}) \ {h} = H
      BY <2>7
    <3>4. QED BY <3>2, <3>3
  <2>15. Once(r)
    <3>1. \A c \in Bases : r.held[c] = IF c = b THEN h ELSE room.held[c]
      BY <2>6, <2>10, StoreFields
    <3>2. \A c \in Bases : room.held[c] # h
      <4>1. h \notin Where(room, "held")
        BY <2>5, <2>6 DEF Whole, Homes
      <4>2. h \notin Bridged(room) /\ h # NoId
        BY <2>5, <4>1, WherePlaces, TextureConstants
      <4>3. QED BY <4>2 DEF Bridged
    <3>3. \A c, d \in Bases : room.held[c] = room.held[d] => c = d \/ room.held[c] = NoId
      BY <2>6 DEF Once
    <3>4. \A c, d \in Bases : r.held[c] = r.held[d] => c = d \/ r.held[c] = NoId
      BY <3>1, <3>2, <3>3
    <3>5. QED BY <2>6, <2>10, <3>4 DEF Once
  <2>16. Drawn(r)
    <3>1. Shelved(r) = Shelved(room)
      BY <2>10 DEF Shelved, TierIds
    <3>2. i \notin Shelved(room) /\ h \notin Shelved(room)
      <4>1. \A p \in Homes : i \notin Where(room, p) /\ h \notin Where(room, p)
        BY <2>5, <2>6 DEF Whole
      <4>2. QED BY <4>1, WherePlaces DEF Shelved, Tiers, Homes
    <3>3. \A j \in Shelved(room) : r.page[j] = room.page[j]
      BY <2>6, <2>9, <2>10, <3>2, ShelvedIds
    <3>4. QED BY <2>6, <3>1, <3>3 DEF Drawn
  <2>17. IsFiniteSet({j \in Ids : r.page[j] # NoPage})
    <3>1. IsFiniteSet({j \in Ids : room.page[j] # NoPage} \cup {h})
      BY <2>6, FS_AddElement
    <3>2. {j \in Ids : r.page[j] # NoPage} \subseteq {j \in Ids : room.page[j] # NoPage} \cup {h}
      <4>1. room.page[i] # NoPage
        BY <1>1, <2>7, TextureConstants
      <4>2. QED BY <2>9, <2>10, <4>1
    <3>3. QED BY <3>1, <3>2, FS_Subset
  <2>17a. Booked(r)
    <3>1. /\ Where(r, "held") = Where(room, "held") \cup {h}
          /\ \A p \in {"main", "small", "over"} : Where(r, p) = Where(room, p)
      <4>1. Where(m, "held") = Where(room, "held")
        BY <2>12a DEF Homes
      <4>2. \A p \in {"main", "small", "over"} : Where(m, p) = Where(room, p) /\ p \in Homes /\ p # "held"
        BY <2>12a DEF Homes
      <4>3. "held" \in Homes
        BY DEF Homes
      <4>4. QED BY <2>13, <4>1, <4>2, <4>3
    <3>2. /\ \A p \in Homes : i \notin Where(room, p) /\ h \notin Where(room, p)
          /\ \A p \in Homes : Where(room, p) \subseteq Ids
      BY <2>5, <2>6, ShelvedIds DEF Whole
    <3>3. \A p \in Homes : \A j \in Where(room, p) : r.page[j] = room.page[j]
      BY <2>9, <2>10, <3>2
    <3>4. \A p \in Homes : \A j \in Where(room, p) : Weight(r, j) = Weight(room, j)
      BY <3>3 DEF Weight
    <3>5. Weight(r, h) = 1
      BY <2>9, <2>10 DEF Weight, Built, first
    <3>6. Paid(r, "held")
      <4>1. "held" \in Counted /\ "held" \in Homes /\ Weight(r, h) \in Nat
        BY <3>5 DEF Counted, Homes
      <4>2. h \notin Where(room, "held") /\ \A j \in Where(room, "held") : Weight(r, j) = Weight(room, j)
        BY <3>2, <3>4, <4>1
      <4>3. r.bytes["held"] = room.bytes["held"] + Weight(r, h)
        BY <2>10a, <3>5
      <4>4. QED BY <2>2, <3>1, <4>1, <4>2, <4>3, PaidPut
    <3>7. ASSUME NEW p \in {"main", "small", "over"} PROVE Paid(r, p)
      <4>1. p \in Homes /\ p \in Counted
        BY DEF Homes, Counted
      <4>2. Paid(room, p)
        BY <2>2, <4>1 DEF Good, Booked
      <4>3. QED BY <2>10a, <3>1, <3>4, <4>1, <4>2, PaidSame
    <3>8. Sized(r)
      <4>1. \A t \in Tiers : \A k \in DOMAIN room.lru[t] :
              t \in Homes /\ room.lru[t][k].id \in Where(room, t)
        BY WherePlaces DEF Tiers, Homes, TierIds
      <4>2. Sized(room)
        BY <2>2 DEF Good, Booked
      <4>3. QED BY <2>10, <3>4, <4>1, <4>2 DEF Sized
    <3>9. Lone(r)
      <4>1. "over" \in Homes /\ \A k \in DOMAIN room.over : room.over[k] \in Where(room, "over")
        BY WherePlaces DEF Homes, ToSet
      <4>2. Lone(room)
        BY <2>2 DEF Good, Booked
      <4>3. \A k \in DOMAIN room.over : r.page[room.over[k]] = room.page[room.over[k]]
        BY <3>3, <4>1
      <4>4. QED BY <2>10, <4>2, <4>3 DEF Lone
    <3>10. QED BY <3>6, <3>7, <3>8, <3>9 DEF Booked, Counted, Homes
  <2>18. Good(r, H)
    BY <2>2, <2>10, <2>11, <2>14, <2>15, <2>16, <2>17, <2>17a DEF Good
  <2>19. Keeps(s, r, H \ {i})
    <3>1. \A j \in H \ {i} : j \in Ids \ {h, i}
      BY <1>1, <2>7
    <3>2. QED BY <2>2, <2>9, <2>10, <3>1 DEF Keeps
  <2>20. Even(s, r)
    BY <2>2, <2>10, <2>10a DEF Even, Shelves
  <2>21. QED BY <2>2, <2>8, <2>10, <2>18, <2>19, <2>20
<1>4. QED BY <1>2, <1>3

-----------------------------------------------------------------------------
(* The LRU tiers                                                             *)

LEMMA EvictGood ==
  ASSUME NEW s, NEW H, Good(s, H), NEW t \in Tiers, NEW k \in DOMAIN s.lru[t], ~IsFiniteSet(Ids)
  PROVE  /\ Good(Evict(s, t, k), H) /\ Keeps(s, Evict(s, t, k), H) /\ Evict(s, t, k).moved
         /\ Lean(s, Evict(s, t, k)) /\ Len(Evict(s, t, k).lru[t]) = Len(s.lru[t]) - 1
<1> DEFINE e == s.lru[t][k]
           i == e.id
           lru == [s.lru EXCEPT ![t] = RemoveAt(s.lru[t], k)]
           bytes == [s.bytes EXCEPT ![t] = @ - e.size]
           out == [s EXCEPT !.lru = lru, !.bytes = bytes, !.moved = TRUE]
           K == H \cup {i}
           held == IF Live(s.page[i].base) THEN HoldFrame(out, i) ELSE out
<1>1. s \in Stores /\ Whole(s, H) /\ Once(s) /\ Drawn(s) /\ H \subseteq Ids
  BY DEF Good, Whole
<1>2. s.lru \in [Tiers -> Seq(Entry)] /\ s.lru[t] \in Seq(Entry) /\ e \in Entry
  <2>1. s.lru \in [Tiers -> Seq(Entry)] /\ s.lru[t] \in Seq(Entry)
    BY <1>1, StoreFields
  <2>2. QED BY <2>1
<1>3. i \in TierIds(s, t) /\ e.size \in Nat /\ t \in Homes
  BY <1>2 DEF TierIds, Entry, Tiers, Homes
<1>4. i \in Where(s, t) /\ i \in Ids /\ i \notin H
  <2>1. i \in Where(s, t)
    BY <1>3, WherePlaces
  <2>2. QED BY <1>3, <2>1, AlivePages
<1>5. /\ RemoveAt(s.lru[t], k) \in Seq(Entry) /\ OnceIn(RemoveAt(s.lru[t], k))
      /\ IdsOf(RemoveAt(s.lru[t], k)) = IdsOf(s.lru[t]) \ {i}
  BY <1>1, <1>2, RemovedIds DEF Once
<1>6. /\ lru \in [Tiers -> Seq(Entry)] /\ lru[t] = RemoveAt(s.lru[t], k)
      /\ \A u \in Tiers \ {t} : lru[u] = s.lru[u]
  BY <1>2, <1>5
<1>7. bytes \in [{"main", "small", "over", "held"} -> Int]
  <2>1. s.bytes \in [{"main", "small", "over", "held"} -> Int] /\ s.bytes[t] \in Int
    BY <1>1, StoreFields DEF Tiers
  <2>2. s.bytes[t] - e.size \in Int
    BY <1>3, <2>1
  <2>3. QED BY <2>1, <2>2
<1>7a. /\ bytes[t] = s.bytes[t] - e.size
       /\ \A p \in {"main", "small", "over", "held"} \ {t} : bytes[p] = s.bytes[p]
  BY <1>1, StoreFields DEF Tiers
<1>7b. /\ e.size = Weight(s, i)
       /\ \A u \in Tiers : \A m \in DOMAIN s.lru[u] : s.lru[u][m].size = Weight(s, s.lru[u][m].id)
  BY DEF Good, Booked, Sized
<1>8. Evict(s, t, k) = QueueDestroy(held, i)
  <2>1. [s EXCEPT !.lru[t] = RemoveAt(@, k), !.bytes[t] = @ - e.size, !.moved = TRUE] = out
    BY <1>1 DEF Stores
  <2>2. QED BY <2>1 DEF Evict
<1> HIDE DEF lru, bytes
<1>9. /\ out.page = s.page /\ out.lru = lru /\ out.over = s.over /\ out.held = s.held
      /\ out.queue = s.queue /\ out.moved = TRUE /\ out \in Stores /\ out.bytes = bytes
  BY <1>1, <1>6, <1>7 DEF Stores
<1> HIDE DEF out
<1>10. TierIds(out, t) = TierIds(s, t) \ {i}
  BY <1>5, <1>6, <1>9 DEF TierIds, IdsOf
<1>11. \A p \in Homes : Where(out, p) = IF p = t THEN Where(s, p) \ {i} ELSE Where(s, p)
  <2>1. Where(out, t) = Where(s, t) \ {i}
    BY <1>10, WherePlaces
  <2>2. \A u \in Tiers \ {t} : Where(out, u) = Where(s, u)
    BY <1>6, <1>9, UnmovedPlaces
  <2>3. \A p \in {"over", "held", "queue"} : Where(out, p) = Where(s, p)
    BY <1>9, UnmovedPlaces
  <2>4. \A p \in Homes : p \in Tiers \/ p \in {"over", "held", "queue"}
    BY UnmovedPlaces
  <2>5. t \notin {"over", "held", "queue"}
    BY DEF Tiers
  <2>6. QED BY <2>1, <2>2, <2>3, <2>4, <2>5
<1>12. Whole(out, K)
  <2>1. SameLife(s, out)
    BY <1>9 DEF SameLife
  <2>2. QED BY <1>1, <1>3, <1>4, <1>11, <2>1, TakeFacts
<1>13. Once(out)
  <2>1. \A u \in Tiers : OnceIn(out.lru[u])
    BY <1>1, <1>5, <1>6, <1>9 DEF Once
  <2>2. QED BY <1>1, <1>9, <2>1 DEF Once
<1>14. Drawn(out)
  <2>1. \A u \in Tiers : TierIds(out, u) \subseteq TierIds(s, u)
    <3>1. \A u \in Tiers \ {t} : TierIds(out, u) = TierIds(s, u)
      BY <1>6, <1>9 DEF TierIds
    <3>2. QED BY <1>10, <3>1
  <2>2. Shelved(out) \subseteq Shelved(s)
    BY <1>9, <2>1 DEF Shelved, Tiers
  <2>3. QED BY <1>1, <1>9, <2>2 DEF Drawn
<1>14a. Booked(out)
  <2>1. \A j : Weight(out, j) = Weight(s, j)
    BY <1>9 DEF Weight
  <2>2. t \in Counted /\ Where(out, t) = Where(s, t) \ {i}
    BY <1>3, <1>11 DEF Counted, Tiers
  <2>3. out.bytes[t] = s.bytes[t] - Weight(s, i)
    BY <1>7a, <1>7b, <1>9
  <2>4. Paid(out, t)
    BY <1>4, <2>1, <2>2, <2>3, PaidTake
  <2>5. ASSUME NEW p \in Counted, p # t PROVE Paid(out, p)
    <3>1. p \in Homes /\ out.bytes[p] = s.bytes[p]
      BY <1>7a, <1>9, <2>5 DEF Counted, Homes
    <3>2. Where(out, p) = Where(s, p) /\ Paid(s, p)
      BY <1>11, <2>5, <3>1 DEF Good, Booked
    <3>3. QED BY <2>1, <3>1, <3>2, PaidSame
  <2>6. Sized(out)
    <3> SUFFICES ASSUME NEW u \in Tiers, NEW j \in DOMAIN out.lru[u]
                 PROVE  out.lru[u][j].size = Weight(s, out.lru[u][j].id)
      BY <2>1 DEF Sized
    <3>1. CASE u # t
      BY <1>6, <1>7b, <1>9, <3>1
    <3>2. CASE u = t
      <4>1. j \in DOMAIN RemoveAt(s.lru[t], k) /\ out.lru[u] = RemoveAt(s.lru[t], k)
        BY <1>6, <1>9, <3>2
      <4>2. PICK m \in DOMAIN s.lru[t] : RemoveAt(s.lru[t], k)[j] = s.lru[t][m]
        BY <1>2, <4>1, RemovedFacts
      <4>3. QED BY <1>7b, <4>1, <4>2
    <3>3. QED BY <3>1, <3>2
  <2>7. Lone(out)
    BY <1>9 DEF Good, Booked, Lone
  <2>8. QED BY <2>4, <2>5, <2>6, <2>7 DEF Booked
<1>15. Good(out, K)
  BY <1>9, <1>12, <1>13, <1>14, <1>14a DEF Good
<1>16. i \in K /\ K \ {i} = H
  BY <1>4
<1> HIDE DEF K, i
<1>17. Good(held, K) /\ Keeps(out, held, K \ {i}) /\ Even(out, held)
  <2>1. /\ Good(HoldFrame(out, i), K) /\ Keeps(out, HoldFrame(out, i), K \ {i})
        /\ Even(out, HoldFrame(out, i))
    BY <1>15, <1>16, HoldFrameGood
  <2>2. Keeps(out, out, K \ {i}) /\ Even(out, out)
    BY DEF Keeps, Even
  <2>3. QED BY <1>15, <2>1, <2>2
<1> HIDE DEF held
<1>18. /\ Good(QueueDestroy(held, i), K \ {i}) /\ Keeps(held, QueueDestroy(held, i), Ids \ {i})
       /\ QueueDestroy(held, i).bytes = held.bytes /\ QueueDestroy(held, i).lru = held.lru
       /\ QueueDestroy(held, i).over = held.over
  BY <1>16, <1>17, QueueDestroyGood
<1>19. H \subseteq Ids \ {i}
  BY <1>1, <1>4
<1>20. Keeps(s, Evict(s, t, k), H) /\ Evict(s, t, k).moved
  BY <1>8, <1>9, <1>16, <1>17, <1>18, <1>19 DEF Keeps
<1>21. Lean(s, Evict(s, t, k))
  <2> DEFINE x == Evict(s, t, k)
  <2>1. (\A p \in Shelves : x.bytes[p] = bytes[p]) /\ x.over = s.over
    BY <1>8, <1>9, <1>17, <1>18 DEF Even
  <2> HIDE DEF x
  <2>2. ASSUME NEW p \in Shelves PROVE x.bytes[p] <= s.bytes[p]
    <3>1. s.bytes[p] \in Int
      BY <1>1, Counters
    <3>2. CASE p = t
      BY <1>3, <1>7a, <2>1, <3>1, <3>2
    <3>3. CASE p # t
      <4>1. x.bytes[p] = s.bytes[p]
        BY <1>7a, <2>1, <3>3 DEF Shelves
      <4>2. QED BY <3>1, <4>1
    <3>4. QED BY <3>2, <3>3
  <2>3. Len(x.over) <= Len(s.over)
    BY <1>1, <2>1, Counters
  <2>4. QED BY <2>2, <2>3 DEF Lean, x
<1>22. Len(Evict(s, t, k).lru[t]) = Len(s.lru[t]) - 1
  <2>1. Evict(s, t, k).lru = lru
    BY <1>8, <1>9, <1>17, <1>18 DEF Even
  <2>2. Len(RemoveAt(s.lru[t], k)) = Len(s.lru[t]) - 1
    BY <1>2, RemovedFacts
  <2>3. QED BY <1>6, <2>1, <2>2
<1>23. QED BY <1>8, <1>16, <1>18, <1>20, <1>21, <1>22

LEMMA DropGood ==
  ASSUME NEW s, NEW H, Good(s, H), NEW t \in Tiers, NEW b, ~IsFiniteSet(Ids)
  PROVE  /\ Good(Drop(s, t, b), H) /\ Keeps(s, Drop(s, t, b), H)
         /\ Drop(s, t, b) = s \/ Drop(s, t, b).moved
         /\ Lean(s, Drop(s, t, b))
<1>1. CASE At(s, t, b) = {}
  <2>1. Lean(s, s)
    BY LeanSame DEF Good
  <2>2. QED BY <1>1, <2>1 DEF Drop, Keeps
<1>2. CASE At(s, t, b) # {}
  <2>1. Pos(s, t, b) \in DOMAIN s.lru[t]
    BY <1>2 DEF Pos, At
  <2>2. Drop(s, t, b) = Evict(s, t, Pos(s, t, b))
    BY <1>2 DEF Drop
  <2>3. QED BY <2>1, <2>2, EvictGood
<1>3. QED BY <1>1, <1>2

(* A page in hand is added to a tier as its newest entry.                    *)
(* The page i joins tier t; the page i joins the oversized ones. *)
LruAdded(s, t, i) ==
  [s EXCEPT !.lru[t] = Append(@, [id |-> i, size |-> Weight(s, i)]), !.bytes[t] = @ + Weight(s, i)]
OverAdded(s, i) == [s EXCEPT !.over = Append(@, i), !.bytes["over"] = @ + Weight(s, i)]

LEMMA AddGood ==
  ASSUME NEW s, NEW H, Good(s, H), NEW t \in Tiers, NEW i \in H,
         s.page[i].art # <<>>, s.page[i].art[1] # Nil
  PROVE  /\ Good(LruAdded(s, t, i), H \ {i}) /\ Keeps(s, LruAdded(s, t, i), Ids)
         /\ LruAdded(s, t, i).over = s.over
         /\ \A p \in Shelves \ {t} : LruAdded(s, t, i).bytes[p] = s.bytes[p]
<1> DEFINE e == [id |-> i, size |-> Weight(s, i)]
           q == Append(s.lru[t], e)
           lru == [s.lru EXCEPT ![t] = q]
           bytes == [s.bytes EXCEPT ![t] = @ + Weight(s, i)]
           r == [s EXCEPT !.lru = lru, !.bytes = bytes]
<1>1. s \in Stores /\ Whole(s, H) /\ Once(s) /\ Drawn(s) /\ i \in Ids /\ s.page[i] \in Page
  BY AlivePages DEF Good
<1>2. Weight(s, i) \in Nat
  BY <1>1, PageFields DEF Weight
<1>3. e \in Entry /\ e.id = i
  BY <1>1, <1>2 DEF Entry
<1>4. s.lru \in [Tiers -> Seq(Entry)] /\ s.lru[t] \in Seq(Entry)
  BY <1>1, StoreFields
<1>5. t \in Homes /\ i \notin Where(s, t)
  BY <1>1 DEF Whole, Homes, Tiers
<1>6. i \notin IdsOf(s.lru[t]) /\ OnceIn(s.lru[t])
  <2>1. Where(s, t) = TierIds(s, t)
    BY WherePlaces
  <2>2. QED BY <1>1, <1>5, <2>1 DEF TierIds, IdsOf, Once
<1>7. LruAdded(s, t, i) = r
  BY <1>1 DEF Stores, LruAdded
<1> HIDE DEF e
<1>8. q \in Seq(Entry) /\ OnceIn(q) /\ IdsOf(q) = IdsOf(s.lru[t]) \cup {i}
  BY <1>3, <1>4, <1>6, AppendedIds
<1> HIDE DEF q
<1>9. /\ lru \in [Tiers -> Seq(Entry)] /\ lru[t] = q
      /\ \A u \in Tiers \ {t} : lru[u] = s.lru[u]
  BY <1>4, <1>8
<1>10. bytes \in [{"main", "small", "over", "held"} -> Int]
  <2>1. s.bytes \in [{"main", "small", "over", "held"} -> Int] /\ s.bytes[t] \in Int
    BY <1>1, StoreFields DEF Tiers
  <2>2. s.bytes[t] + Weight(s, i) \in Int
    BY <1>2, <2>1
  <2>3. QED BY <2>1, <2>2
<1>10a. /\ bytes[t] = s.bytes[t] + Weight(s, i)
        /\ \A p \in {"main", "small", "over", "held"} \ {t} : bytes[p] = s.bytes[p]
  BY <1>1, StoreFields DEF Tiers
<1>10b. q = Append(s.lru[t], e) /\ e.size = Weight(s, i) /\ e.id = i
  BY DEF q, e
<1> HIDE DEF lru, bytes
<1>11. /\ r.page = s.page /\ r.lru = lru /\ r.over = s.over /\ r.held = s.held
       /\ r.queue = s.queue /\ r.moved = s.moved /\ r \in Stores
       /\ r.bytes = bytes
  BY <1>1, <1>9, <1>10 DEF Stores
<1> HIDE DEF r
<1>12. TierIds(r, t) = TierIds(s, t) \cup {i}
  BY <1>8, <1>9, <1>11 DEF TierIds, IdsOf
<1>13. \A p \in Homes : Where(r, p) = IF p = t THEN Where(s, p) \cup {i} ELSE Where(s, p)
  <2>1. Where(r, t) = Where(s, t) \cup {i}
    BY <1>12, WherePlaces
  <2>2. \A u \in Tiers \ {t} : Where(r, u) = Where(s, u)
    <3>1. \A u \in Tiers \ {t} : r.lru[u] = s.lru[u]
      BY <1>9, <1>11
    <3>2. QED BY <3>1, UnmovedPlaces
  <2>3. \A p \in {"over", "held", "queue"} : Where(r, p) = Where(s, p)
    BY <1>11, UnmovedPlaces
  <2>4. \A p \in Homes : p \in Tiers \/ p \in {"over", "held", "queue"}
    BY UnmovedPlaces
  <2>5. t \notin {"over", "held", "queue"}
    BY DEF Tiers
  <2>6. QED BY <2>1, <2>2, <2>3, <2>4, <2>5
<1>14. Whole(r, H \ {i})
  <2>1. SameLife(s, r)
    BY <1>11 DEF SameLife
  <2>2. QED BY <1>1, <1>5, <1>13, <2>1, PutFacts
<1>15. Once(r)
  <2>1. \A u \in Tiers : OnceIn(r.lru[u])
    BY <1>1, <1>8, <1>9, <1>11 DEF Once
  <2>2. QED BY <1>1, <1>11, <2>1 DEF Once
<1>16. Drawn(r)
  <2>1. \A u \in Tiers : TierIds(r, u) \subseteq TierIds(s, u) \cup {i}
    <3>1. \A u \in Tiers \ {t} : TierIds(r, u) = TierIds(s, u)
      BY <1>9, <1>11 DEF TierIds
    <3>2. QED BY <1>12, <3>1
  <2>2. Shelved(r) \subseteq Shelved(s) \cup {i}
    BY <1>11, <2>1 DEF Shelved, Tiers
  <2>3. QED BY <1>1, <1>11, <2>2 DEF Drawn
<1>16a. Booked(r)
  <2>1. \A j : Weight(r, j) = Weight(s, j)
    BY <1>11 DEF Weight
  <2>2. t \in Counted /\ Where(r, t) = Where(s, t) \cup {i}
    BY <1>5, <1>13 DEF Counted, Tiers
  <2>3. r.bytes[t] = s.bytes[t] + Weight(r, i) /\ Weight(r, i) \in Nat
    BY <1>2, <1>10a, <1>11, <2>1
  <2>4. Paid(r, t)
    BY <1>5, <2>1, <2>2, <2>3, PaidPut
  <2>5. ASSUME NEW p \in Counted, p # t PROVE Paid(r, p)
    <3>1. p \in Homes /\ r.bytes[p] = s.bytes[p]
      BY <1>10a, <1>11, <2>5 DEF Counted, Homes
    <3>2. Where(r, p) = Where(s, p) /\ Paid(s, p)
      BY <1>13, <2>5, <3>1 DEF Good, Booked
    <3>3. QED BY <2>1, <3>1, <3>2, PaidSame
  <2>6. Sized(r)
    <3>0. \A u \in Tiers : \A m \in DOMAIN s.lru[u] : s.lru[u][m].size = Weight(s, s.lru[u][m].id)
      BY DEF Good, Booked, Sized
    <3> SUFFICES ASSUME NEW u \in Tiers, NEW j \in DOMAIN r.lru[u]
                 PROVE  r.lru[u][j].size = Weight(s, r.lru[u][j].id)
      BY <2>1 DEF Sized
    <3>1. CASE u # t
      BY <1>9, <1>11, <3>0, <3>1
    <3>2. CASE u = t
      <4>1. j \in DOMAIN q /\ r.lru[u] = q
        BY <1>9, <1>11, <3>2
      <4>2. \/ j \in DOMAIN s.lru[t] /\ q[j] = s.lru[t][j]
            \/ q[j] = e
        BY <1>3, <1>4, <1>10b, <4>1
      <4>3. QED BY <1>10b, <3>0, <4>1, <4>2
    <3>3. QED BY <3>1, <3>2
  <2>7. Lone(r)
    BY <1>11 DEF Good, Booked, Lone
  <2>8. QED BY <2>4, <2>5, <2>6, <2>7 DEF Booked
<1>17. Good(r, H \ {i}) /\ Keeps(s, r, Ids)
  BY <1>11, <1>14, <1>15, <1>16, <1>16a DEF Good, Keeps
<1>18. r.over = s.over /\ \A p \in Shelves \ {t} : r.bytes[p] = s.bytes[p]
  BY <1>10a, <1>11 DEF Shelves
<1>19. QED BY <1>7, <1>17, <1>18

-----------------------------------------------------------------------------
(* Loops                                                                     *)

LEMMA Least == ASSUME NEW T, T \subseteq Nat, T # {} PROVE \E x \in T : \A y \in T : x <= y
<1> DEFINE R == OpToRel(<, Nat)
<1>1. IsWellFoundedOn(R, Nat)
  BY NatLessThanWellFounded, Zenon
<1>2. \A x, y \in Nat : y < x => <<y, x>> \in R
  BY DEF OpToRel
<1> HIDE DEF R
<1>3. \E x \in T : \A y \in T : ~ (<<y, x>> \in R)
  BY <1>1, WFMin
<1>4. PICK x \in T : \A y \in T : ~ (<<y, x>> \in R)
  BY <1>3
<1>5. ASSUME NEW y \in T PROVE x <= y
  <2>1. x \in Nat /\ y \in Nat /\ ~(y < x)
    BY <1>2, <1>4
  <2>2. QED BY <2>1
<1>6. QED BY <1>5

(* Induction: the library's minimum of a set does not need an operator. *)
LEMMA SetInduction ==
  ASSUME NEW n \in Nat, NEW T, 0 \in T, \A i \in 0 .. n - 1 : i \in T => i + 1 \in T
  PROVE  \A i \in 0 .. n : i \in T
<1> DEFINE Out == {i \in 0 .. n : i \notin T}
<1>0. Out \subseteq Nat /\ \A i : i \in Out <=> i \in 0 .. n /\ i \notin T
  OBVIOUS
<1> HIDE DEF Out
<1>1. ASSUME Out # {} PROVE FALSE
  <2>1. PICK x \in Out : \A y \in Out : x <= y
    BY <1>0, <1>1, Least
  <2>2. x \in 0 .. n /\ x \notin T /\ x # 0
    BY <1>0
  <2>3. x - 1 \in 0 .. n - 1 /\ (x - 1) + 1 = x /\ ~(x <= x - 1) /\ x - 1 \in 0 .. n
    BY <2>2
  <2>4. x - 1 \in T
    BY <1>0, <2>1, <2>3
  <2>5. QED BY <2>2, <2>3, <2>4
<1>2. QED BY <1>0, <1>1

(* A loop of m steps phi that leads from s through G.                        *)
Chain(G, s, phi, m, f) ==
  f \in [0 .. m -> G] /\ f[0] = s /\ \A k \in 1 .. m : f[k] = phi[k][f[k - 1]]

LEMMA ChainExists ==
  ASSUME NEW n \in Nat, NEW G, NEW s \in G, NEW phi \in [1 .. n -> [G -> G]]
  PROVE  \E f : Chain(G, s, phi, n, f)
<1> DEFINE T == {m \in 0 .. n : \E f : Chain(G, s, phi, m, f)}
<1>1. 0 \in T
  <2> DEFINE f == [k \in 0 .. 0 |-> s]
  <2>1. Chain(G, s, phi, 0, f)
    BY DEF Chain
  <2>2. 0 \in 0 .. n
    OBVIOUS
  <2>3. QED BY <2>1, <2>2
<1>2. ASSUME NEW m \in 0 .. n - 1, m \in T PROVE m + 1 \in T
  <2>1. PICK f : Chain(G, s, phi, m, f)
    BY <1>2
  <2> DEFINE x == phi[m + 1][f[m]]
             g == [k \in 0 .. m + 1 |-> IF k = m + 1 THEN x ELSE f[k]]
  <2>2. m \in Nat /\ m + 1 \in 1 .. n /\ m \in 0 .. m /\ m + 1 \in 0 .. n
    OBVIOUS
  <2>3. x \in G
    BY <2>1, <2>2 DEF Chain
  <2>4. \A k \in 0 .. m + 1 : k = m + 1 \/ k \in 0 .. m
    BY <2>2
  <2>5. g \in [0 .. m + 1 -> G]
    BY <2>1, <2>3, <2>4 DEF Chain
  <2>6. g[m + 1] = x /\ \A k \in 0 .. m : g[k] = f[k]
    BY <2>2
  <2> HIDE DEF g
  <2>7. g[0] = s
    BY <2>1, <2>2, <2>6 DEF Chain
  <2>8. ASSUME NEW k \in 1 .. m + 1 PROVE g[k] = phi[k][g[k - 1]]
    <3>1. CASE k = m + 1
      <4>1. k - 1 = m
        BY <2>2, <3>1
      <4>2. QED BY <2>2, <2>6, <3>1, <4>1
    <3>2. CASE k # m + 1
      <4>1. k \in 1 .. m /\ k \in 0 .. m /\ k - 1 \in 0 .. m
        BY <2>2, <2>8, <3>2
      <4>2. QED BY <2>1, <2>6, <4>1 DEF Chain
    <3>3. QED BY <3>1, <3>2
  <2>9. Chain(G, s, phi, m + 1, g)
    BY <2>5, <2>7, <2>8 DEF Chain
  <2>10. QED BY <2>2, <2>9
<1> HIDE DEF T
<1>3. n \in T
  <2>1. \A i \in 0 .. n : i \in T
    BY <1>1, <1>2, SetInduction
  <2>2. QED BY <2>1
<1>4. QED BY <1>3 DEF T

(* The tier a loop of Shrink has after m entries.                            *)
ShrinkLoop(s, t, n, g) == g = [m \in 0 .. n |->
  IF m = 0 THEN s ELSE IF Over(g[m - 1], t) THEN Evict(g[m - 1], t, 1) ELSE g[m - 1]]

LEMMA ShrinkGood ==
  ASSUME NEW s, NEW H, Good(s, H), NEW t \in Tiers, ~IsFiniteSet(Ids)
  PROVE  /\ Good(Shrink(s, t), H) /\ Keeps(s, Shrink(s, t), H) /\ Lean(s, Shrink(s, t))
         /\ Shrink(s, t).bytes[t] <= Budget(t)
<1> DEFINE G == {x \in Stores : Good(x, H) /\ Keeps(s, x, H) /\ Lean(s, x)}
           step(x) == IF Over(x, t) THEN Evict(x, t, 1) ELSE x
           n == Len(s.lru[t])
           phi == [m \in 1 .. n |-> [x \in G |-> step(x)]]
           after == CHOOSE g : ShrinkLoop(s, t, n, g)
<1>1. s \in G /\ n \in Nat
  <2>1. s \in Stores
    BY DEF Good
  <2>2. s.lru[t] \in Seq(Entry)
    BY <2>1, StoreFields
  <2>3. Lean(s, s)
    BY <2>1, LeanSame
  <2>4. QED BY <2>1, <2>2, <2>3 DEF Keeps
<1>2. ASSUME NEW x \in G PROVE step(x) \in G
  <2>1. CASE Over(x, t)
    <3>1. s \in Stores /\ x \in Stores /\ Good(x, H) /\ Keeps(s, x, H) /\ Lean(s, x)
      BY <1>2 DEF Good
    <3>2. x.lru[t] \in Seq(Entry) /\ x.lru[t] # <<>>
      BY <2>1, <3>1, StoreFields DEF Over
    <3>3. 1 \in DOMAIN x.lru[t]
      BY <3>2
    <3>4. Good(Evict(x, t, 1), H) /\ Keeps(x, Evict(x, t, 1), H) /\ Lean(x, Evict(x, t, 1))
      BY <3>1, <3>3, EvictGood
    <3>5. Evict(x, t, 1) \in Stores
      BY <3>4 DEF Good
    <3>6. Keeps(s, Evict(x, t, 1), H)
      BY <3>1, <3>4 DEF Keeps
    <3>7. Lean(s, Evict(x, t, 1))
      BY <3>1, <3>4, <3>5, LeanTrans
    <3>8. QED BY <2>1, <3>4, <3>5, <3>6, <3>7
  <2>2. CASE ~Over(x, t)
    BY <1>2, <2>2
  <2>3. QED BY <2>1, <2>2
  (* An entry less at every turn that finds the tier over its budget. *)
<1>2a. ASSUME NEW x \in G, Over(step(x), t)
       PROVE  Over(x, t) /\ Len(step(x).lru[t]) = Len(x.lru[t]) - 1
  <2>1. Over(x, t)
    BY <1>2a
  <2>2. x \in Stores /\ Good(x, H) /\ step(x) = Evict(x, t, 1)
    BY <2>1
  <2>3. x.lru[t] \in Seq(Entry) /\ x.lru[t] # <<>>
    BY <2>1, <2>2, StoreFields DEF Over
  <2>4. 1 \in DOMAIN x.lru[t]
    BY <2>3
  <2>5. Len(Evict(x, t, 1).lru[t]) = Len(x.lru[t]) - 1
    BY <2>2, <2>4, EvictGood
  <2>6. QED BY <2>1, <2>2, <2>5
<1>2b. \A x \in G : x \in Stores /\ Len(x.lru[t]) \in Nat /\ x.lru[t] \in Seq(Entry)
  <2>1. ASSUME NEW x \in G PROVE x \in Stores /\ x.lru[t] \in Seq(Entry)
    BY <2>1, StoreFields
  <2>2. QED BY <2>1
<1>2c. n = Len(s.lru[t])
  OBVIOUS
<1>3. Shrink(s, t) = after[n]
  BY DEF Shrink, ShrinkLoop
<1> HIDE DEF G, n, step
<1>4. phi \in [1 .. n -> [G -> G]] /\ \A m \in 1 .. n : \A x \in G : phi[m][x] = step(x)
  BY <1>2
<1> HIDE DEF phi
<1>5. PICK f : f \in [0 .. n -> G] /\ f[0] = s /\ \A m \in 1 .. n : f[m] = phi[m][f[m - 1]]
  <2>1. s \in G /\ n \in Nat /\ phi \in [1 .. n -> [G -> G]]
    BY <1>1, <1>4
  <2>2. \E f : Chain(G, s, phi, n, f)
    BY <2>1, ChainExists
  <2>3. QED BY <2>2 DEF Chain
<1>6. \A m \in 0 .. n : f[m] = IF m = 0 THEN s ELSE step(f[m - 1])
  <2> TAKE m \in 0 .. n
  <2>1. CASE m # 0
    <3>1. m \in 1 .. n /\ m - 1 \in 0 .. n
      BY <1>1, <2>1
    <3>2. QED BY <1>4, <1>5, <2>1, <3>1
  <2>2. QED BY <1>5, <2>1
<1>7. ShrinkLoop(s, t, n, f)
  <2>1. f = [m \in 0 .. n |-> f[m]]
    BY <1>5
  <2>2. f = [m \in 0 .. n |-> IF m = 0 THEN s ELSE step(f[m - 1])]
    BY <1>6, <2>1
  <2>3. QED BY <2>2 DEF ShrinkLoop, step
<1>8. ShrinkLoop(s, t, n, after)
  BY <1>7
<1> HIDE DEF after
<1>9. \A m \in 0 .. n : after[m] = IF m = 0 THEN s ELSE step(after[m - 1])
  BY <1>8 DEF ShrinkLoop, step
<1> DEFINE T == {m \in 0 .. n : after[m] \in G /\ (Over(after[m], t) => Len(after[m].lru[t]) <= n - m)}
<1>10. 0 \in T
  <2>1. after[0] = s /\ 0 \in 0 .. n
    BY <1>1, <1>9
  <2>2. Len(s.lru[t]) <= n - 0
    BY <1>1, <1>2c
  <2>3. QED BY <1>1, <2>1, <2>2
<1>11. ASSUME NEW m \in 0 .. n - 1, m \in T PROVE m + 1 \in T
  <2>1. m + 1 \in 0 .. n /\ m + 1 # 0 /\ (m + 1) - 1 = m
    BY <1>1
  <2>2. after[m + 1] = step(after[m]) /\ after[m] \in G
    BY <1>9, <1>11, <2>1
  <2>3. after[m + 1] \in G
    BY <1>2, <2>2
  <2>4. ASSUME Over(after[m + 1], t) PROVE Len(after[m + 1].lru[t]) <= n - (m + 1)
    <3>1. Over(after[m], t) /\ Len(after[m + 1].lru[t]) = Len(after[m].lru[t]) - 1
      BY <1>2a, <2>2, <2>4
    <3>2. Len(after[m].lru[t]) <= n - m /\ Len(after[m].lru[t]) \in Nat
      BY <1>2b, <1>11, <2>2, <3>1
    <3>3. QED BY <1>1, <3>1, <3>2
  <2>5. QED BY <2>1, <2>3, <2>4
<1> HIDE DEF T
<1>12. n \in T
  <2>1. n \in Nat
    BY <1>1
  <2>2. \A m \in 0 .. n : m \in T
    BY <1>10, <1>11, <2>1, SetInduction
  <2>3. QED BY <2>1, <2>2
<1>13. Shrink(s, t) \in G /\ (Over(Shrink(s, t), t) => Len(Shrink(s, t).lru[t]) <= n - n)
  BY <1>3, <1>12 DEF T
<1>14. ~Over(Shrink(s, t), t)
  <2>1. Over(Shrink(s, t), t) => Shrink(s, t).lru[t] # <<>>
    BY DEF Over
  <2>2. Shrink(s, t).lru[t] \in Seq(Entry)
    BY <1>2b, <1>13
  <2>3. Shrink(s, t).lru[t] # <<>> => ~(Len(Shrink(s, t).lru[t]) <= 0)
    BY <2>2
  <2>4. n - n = 0
    BY <1>1
  <2>5. QED BY <1>13, <2>1, <2>3, <2>4
<1>15. /\ Good(Shrink(s, t), H) /\ Keeps(s, Shrink(s, t), H) /\ Lean(s, Shrink(s, t))
       /\ Shrink(s, t) \in Stores
  BY <1>13 DEF G
<1>16. Shrink(s, t).bytes[t] <= Budget(t)
  <2> DEFINE x == Shrink(s, t)
  <2>1. x.bytes[t] \in Int /\ Budget(t) \in Nat
    BY <1>15, Counters, BudgetFacts
  <2>2. CASE x.lru[t] = <<>>
    <3>1. t \in Counted /\ Where(x, t) = TierIds(x, t)
      BY WherePlaces DEF Counted, Homes, Tiers
    <3>2. TierIds(x, t) = {}
      BY <2>2 DEF TierIds
    <3>3. x.bytes[t] = 0
      BY <1>15, <3>1, <3>2, MassOfNone DEF Good, Booked, Paid
    <3>4. QED BY <2>1, <3>3
  <2>3. CASE ~(x.bytes[t] > Budget(t))
    BY <2>1, <2>3
  <2>4. QED BY <1>14, <2>2, <2>3 DEF Over
<1>17. QED BY <1>15, <1>16

LEMMA LruAddGood ==
  ASSUME NEW s, NEW H, Good(s, H), NEW t \in Tiers, NEW i \in H, ~IsFiniteSet(Ids),
         s.page[i].art # <<>>, s.page[i].art[1] # Nil
  PROVE  /\ Good(LruAdd(s, t, i), H \ {i}) /\ Keeps(s, LruAdd(s, t, i), H \ {i})
         /\ Slim(s) => Slim(LruAdd(s, t, i))
<1> DEFINE gone == Drop(s, t, s.page[i].base)
           r == LruAdded(gone, t, i)
<1>1. Good(gone, H) /\ Keeps(s, gone, H) /\ Lean(s, gone)
  BY DropGood
<1>2. gone.page[i] = s.page[i] /\ Weight(gone, i) = Weight(s, i) /\ H \subseteq Ids
  BY <1>1 DEF Keeps, Weight, Good, Whole
<1>3. LruAdd(s, t, i) = Shrink(r, t)
  BY <1>2 DEF LruAdd, LruAdded
<1> HIDE DEF gone
<1>4. /\ Good(r, H \ {i}) /\ Keeps(gone, r, Ids) /\ r.over = gone.over
      /\ \A p \in Shelves \ {t} : r.bytes[p] = gone.bytes[p]
  <2>1. Good(gone, H)
    BY <1>1
  <2>2. gone.page[i].art # <<>> /\ gone.page[i].art[1] # Nil
    BY <1>2
  <2>3. Good(r, H \ {i}) /\ Keeps(gone, r, Ids)
    BY <2>1, <2>2, AddGood
  <2>4. r.over = gone.over
    BY <2>1, <2>2, AddGood
  <2>5. \A p \in Shelves \ {t} : r.bytes[p] = gone.bytes[p]
    BY <2>1, <2>2, AddGood
  <2>6. QED BY <2>3, <2>4, <2>5
<1> HIDE DEF r
<1>5. /\ Good(Shrink(r, t), H \ {i}) /\ Keeps(r, Shrink(r, t), H \ {i}) /\ Lean(r, Shrink(r, t))
      /\ Shrink(r, t).bytes[t] <= Budget(t)
  BY <1>4, ShrinkGood
<1>6. Keeps(s, Shrink(r, t), H \ {i})
  BY <1>1, <1>2, <1>4, <1>5 DEF Keeps
<1>7. ASSUME Slim(s) PROVE Slim(Shrink(r, t))
  <2> DEFINE x == Shrink(r, t)
  <2>1. s \in Stores /\ gone \in Stores /\ r \in Stores /\ x \in Stores
    BY <1>1, <1>4, <1>5 DEF Good
  <2> HIDE DEF x
  <2>2. Slim(gone)
    BY <1>1, <1>7, <2>1, SlimKept
  <2>3. Fed(x)
    <3> SUFFICES ASSUME NEW u \in Tiers PROVE x.bytes[u] <= Budget(u)
      BY DEF Fed
    <3>1. CASE u = t
      BY <1>5, <3>1 DEF x
    <3>2. CASE u # t
      <4>1. u \in Shelves /\ gone.bytes[u] \in Int /\ x.bytes[u] \in Int /\ Budget(u) \in Nat
        BY <2>1, Counters, BudgetFacts
      <4>2. x.bytes[u] <= gone.bytes[u]
        BY <1>4, <1>5, <3>2, <4>1 DEF Lean, x
      <4>3. gone.bytes[u] <= Budget(u)
        BY <2>2 DEF Slim, Fed
      <4>4. QED BY <4>1, <4>2, <4>3
    <3>3. QED BY <3>1, <3>2
  <2>4. x.bytes["over"] <= OverCap \/ Len(x.over) <= 1
    <3>1. "over" \in Shelves \ {t}
      BY DEF Tiers, Shelves
    <3>2. /\ gone.bytes["over"] \in Int /\ x.bytes["over"] \in Int /\ OverCap \in Nat
          /\ Len(gone.over) \in Nat /\ Len(x.over) \in Nat
      BY <2>1, <3>1, Counters, TextureConstants
    <3>3. x.bytes["over"] <= gone.bytes["over"] /\ Len(x.over) <= Len(gone.over)
      BY <1>4, <1>5, <3>1 DEF Lean, x
    <3>4. gone.bytes["over"] <= OverCap \/ Len(gone.over) <= 1
      BY <2>2 DEF Slim
    <3>5. QED BY <3>2, <3>3, <3>4
  <2>5. QED BY <2>3, <2>4 DEF Slim, x
<1>8. QED BY <1>3, <1>5, <1>6, <1>7

(* Where an entry stands in its tier is all that Touch changes.              *)
LEMMA TouchGood ==
  ASSUME NEW s, NEW H, Good(s, H), NEW t \in Tiers, NEW k \in DOMAIN s.lru[t]
  PROVE  /\ Good(Touch(s, t, k), H) /\ Touch(s, t, k).page = s.page
         /\ Shelved(Touch(s, t, k)) = Shelved(s) /\ Touch(s, t, k).moved = s.moved
         /\ Lean(s, Touch(s, t, k))
<1> DEFINE e == s.lru[t][k]
           p == RemoveAt(s.lru[t], k)
           q == Append(p, e)
           lru == [s.lru EXCEPT ![t] = q]
           r == [s EXCEPT !.lru = lru]
<1>1. s \in Stores /\ Whole(s, H) /\ Once(s) /\ Drawn(s)
  BY DEF Good
<1>2. s.lru \in [Tiers -> Seq(Entry)] /\ s.lru[t] \in Seq(Entry) /\ e \in Entry
  <2>1. s.lru \in [Tiers -> Seq(Entry)] /\ s.lru[t] \in Seq(Entry)
    BY <1>1, StoreFields
  <2>2. QED BY <2>1
<1>3. Touch(s, t, k) = r
  BY <1>1 DEF Touch, Stores
<1>4. p \in Seq(Entry) /\ OnceIn(p) /\ IdsOf(p) = IdsOf(s.lru[t]) \ {e.id}
  BY <1>1, <1>2, RemovedIds DEF Once
<1>4a. e.id \in IdsOf(s.lru[t])
  BY DEF IdsOf
<1>4b. \A j \in DOMAIN p : \E m \in DOMAIN s.lru[t] : p[j] = s.lru[t][m]
  BY <1>2, RemovedFacts
<1>4c. \E m \in DOMAIN s.lru[t] : e = s.lru[t][m]
  OBVIOUS
<1> HIDE DEF e, p
<1>5. q \in Seq(Entry) /\ OnceIn(q) /\ IdsOf(q) = IdsOf(p) \cup {e.id}
  BY <1>2, <1>4, AppendedIds
<1>5a. \A j \in DOMAIN q : \E m \in DOMAIN s.lru[t] : q[j] = s.lru[t][m]
  <2>1. ASSUME NEW j \in DOMAIN q PROVE (j \in DOMAIN p /\ q[j] = p[j]) \/ q[j] = e
    BY <1>2, <1>4
  <2>2. QED BY <1>4b, <1>4c, <2>1
<1> HIDE DEF q
<1>6. IdsOf(q) = IdsOf(s.lru[t])
  BY <1>4, <1>4a, <1>5
<1>7. lru \in [Tiers -> Seq(Entry)] /\ lru[t] = q /\ \A u \in Tiers \ {t} : lru[u] = s.lru[u]
  BY <1>2, <1>5
<1> HIDE DEF lru
<1>8. /\ r.page = s.page /\ r.lru = lru /\ r.over = s.over /\ r.held = s.held
      /\ r.queue = s.queue /\ r.moved = s.moved /\ r \in Stores
      /\ r.bytes = s.bytes
  BY <1>1, <1>7 DEF Stores
<1> HIDE DEF r
<1>9. \A u \in Tiers : TierIds(r, u) = TierIds(s, u)
  <2>1. TierIds(r, t) = TierIds(s, t)
    BY <1>6, <1>7, <1>8 DEF TierIds, IdsOf
  <2>2. \A u \in Tiers \ {t} : TierIds(r, u) = TierIds(s, u)
    BY <1>7, <1>8 DEF TierIds
  <2>3. QED BY <2>1, <2>2
<1>10. \A p1 \in Homes : Where(r, p1) = Where(s, p1)
  <2>1. \A u \in Tiers : Where(r, u) = Where(s, u)
    BY <1>9, WherePlaces
  <2>2. \A p1 \in {"over", "held", "queue"} : Where(r, p1) = Where(s, p1)
    BY <1>8, UnmovedPlaces
  <2>3. \A p1 \in Homes : p1 \in Tiers \/ p1 \in {"over", "held", "queue"}
    BY UnmovedPlaces
  <2>4. QED BY <2>1, <2>2, <2>3
<1>11. Whole(r, H)
  BY <1>1, <1>8, <1>10 DEF Whole
<1>12. Once(r)
  <2>1. \A u \in Tiers : OnceIn(r.lru[u])
    BY <1>1, <1>5, <1>7, <1>8 DEF Once
  <2>2. QED BY <1>1, <1>8, <2>1 DEF Once
<1>13. Shelved(r) = Shelved(s)
  BY <1>8, <1>9 DEF Shelved, Tiers
<1>14. Drawn(r)
  BY <1>1, <1>8, <1>13 DEF Drawn
<1>14a. Booked(r)
  <2>1. \A j : Weight(r, j) = Weight(s, j)
    BY <1>8 DEF Weight
  <2>2. \A x \in Counted : x \in Homes /\ Paid(s, x)
    BY DEF Good, Booked, Counted
  <2>3. \A x \in Counted : Paid(r, x)
    BY <1>8, <1>10, <2>1, <2>2, PaidSame
  <2>4. Sized(r)
    <3>0. \A u \in Tiers : \A m \in DOMAIN s.lru[u] : s.lru[u][m].size = Weight(s, s.lru[u][m].id)
      BY DEF Good, Booked, Sized
    <3> SUFFICES ASSUME NEW u \in Tiers, NEW j \in DOMAIN r.lru[u]
                 PROVE  r.lru[u][j].size = Weight(s, r.lru[u][j].id)
      BY <2>1 DEF Sized
    <3>1. CASE u # t
      BY <1>7, <1>8, <3>0, <3>1
    <3>2. CASE u = t
      <4>1. PICK m \in DOMAIN s.lru[t] : r.lru[u][j] = s.lru[t][m]
        BY <1>5a, <1>7, <1>8, <3>2
      <4>2. QED BY <3>0, <4>1
    <3>3. QED BY <3>1, <3>2
  <2>5. Lone(r)
    BY <1>8 DEF Good, Booked, Lone
  <2>6. QED BY <2>3, <2>4, <2>5 DEF Booked
<1>15. Good(r, H)
  BY <1>8, <1>11, <1>12, <1>14, <1>14a DEF Good
<1>16. Lean(s, r)
  BY <1>1, <1>8, LeanSame
<1>17. QED BY <1>3, <1>8, <1>13, <1>15, <1>16

-----------------------------------------------------------------------------
(* The oversized pages                                                       *)

LEMMA DropOverGood ==
  ASSUME NEW s, NEW H, Good(s, H), NEW k \in DOMAIN s.over
  PROVE  /\ Good(DropOver(s, k), H) /\ Keeps(s, DropOver(s, k), H)
         /\ Len(DropOver(s, k).over) = Len(s.over) - 1
         /\ Lean(s, DropOver(s, k))
         /\ OverAt(DropOver(s, k), s.page[s.over[k]].base) = {}
<1> DEFINE i == s.over[k]
           over == RemoveAt(s.over, k)
           bytes == [s.bytes EXCEPT !["over"] = @ - Weight(s, i)]
           r == [s EXCEPT !.over = over, !.bytes = bytes]
           K == H \cup {i}
<1>1. s \in Stores /\ Whole(s, H) /\ Once(s) /\ Drawn(s) /\ H \subseteq Ids /\ s.over \in Seq(Ids)
  <2>1. s \in Stores /\ Whole(s, H) /\ Once(s) /\ Drawn(s) /\ H \subseteq Ids
    BY DEF Good, Whole
  <2>2. QED BY <2>1, StoreFields
<1>2. i \in ToSet(s.over)
  BY DEF ToSet
<1>3. i \in Where(s, "over") /\ "over" \in Homes /\ i \in Ids /\ i \notin H /\ s.page[i] \in Page
  <2>1. i \in Where(s, "over") /\ "over" \in Homes
    BY <1>2, WherePlaces DEF Homes
  <2>2. QED BY <2>1, AlivePages
<1>4. over \in Seq(Ids) /\ IsInjective(over) /\ ToSet(over) = ToSet(s.over) \ {i}
  BY <1>1, RemovedOnes DEF Once
<1>5. bytes \in [{"main", "small", "over", "held"} -> Int]
  <2>1. s.bytes \in [{"main", "small", "over", "held"} -> Int] /\ s.bytes["over"] \in Int
    BY <1>1, StoreFields
  <2>2. Weight(s, i) \in Nat
    BY <1>3, PageFields DEF Weight
  <2>3. s.bytes["over"] - Weight(s, i) \in Int
    BY <2>1, <2>2
  <2>4. QED BY <2>1, <2>3
<1>5a. /\ bytes["over"] = s.bytes["over"] - Weight(s, i)
       /\ \A p \in {"main", "small", "held"} : bytes[p] = s.bytes[p]
  BY <1>1, StoreFields
<1>5b. /\ \A j \in DOMAIN over : \E m \in DOMAIN s.over : m # k /\ over[j] = s.over[m]
       /\ \A j, l \in DOMAIN over : j # l =>
            \E m, n \in DOMAIN s.over : m # n /\ over[j] = s.over[m] /\ over[l] = s.over[n]
       /\ Len(over) = Len(s.over) - 1 /\ i = s.over[k]
  <2> DEFINE q == s.over
  <2>1. q \in Seq(Ids) /\ k \in DOMAIN q /\ over = RemoveAt(q, k) /\ i = q[k]
    BY <1>1
  <2> HIDE DEF over, i, q
  <2>2. \A j, l \in DOMAIN RemoveAt(q, k) : j # l =>
          \E m, n \in DOMAIN q : m # n /\ RemoveAt(q, k)[j] = q[m] /\ RemoveAt(q, k)[l] = q[n]
    BY <2>1, RemovedFacts
  <2>3. /\ \A j \in DOMAIN RemoveAt(q, k) : \E m \in DOMAIN q : m # k /\ RemoveAt(q, k)[j] = q[m]
        /\ Len(RemoveAt(q, k)) = Len(q) - 1
    BY <2>1, RemovedFacts
  <2>4. QED BY <2>1, <2>2, <2>3 DEF q
<1>6. DropOver(s, k) = QueueDestroy(r, i)
  <2>1. [s EXCEPT !.over = RemoveAt(@, k), !.bytes["over"] = @ - Weight(s, s.over[k])] = r
    BY <1>1 DEF Stores
  <2>2. QED BY <2>1 DEF DropOver
<1> HIDE DEF over, bytes, i
<1>7. /\ r.page = s.page /\ r.lru = s.lru /\ r.over = over /\ r.held = s.held
      /\ r.queue = s.queue /\ r.moved = s.moved /\ r \in Stores
      /\ r.bytes = bytes
  BY <1>1, <1>4, <1>5 DEF Stores
<1> HIDE DEF r
<1>8. \A p \in Homes : Where(r, p) = IF p = "over" THEN Where(s, p) \ {i} ELSE Where(s, p)
  <2>1. Where(r, "over") = Where(s, "over") \ {i}
    BY <1>4, <1>7, WherePlaces
  <2>2. \A p \in Homes \ {"over"} : Where(r, p) = Where(s, p)
    BY <1>7, UnmovedPlaces
  <2>3. QED BY <2>1, <2>2
<1>9. Whole(r, K)
  <2>1. SameLife(s, r)
    BY <1>7 DEF SameLife
  <2>2. QED BY <1>1, <1>3, <1>8, <2>1, TakeFacts
<1>10. Once(r)
  BY <1>1, <1>4, <1>7 DEF Once
<1>11. Drawn(r)
  <2>1. Shelved(r) \subseteq Shelved(s)
    BY <1>4, <1>7 DEF Shelved, TierIds
  <2>2. QED BY <1>1, <1>7, <2>1 DEF Drawn
<1>11a. \A j, l \in DOMAIN s.over : s.page[s.over[j]].base = s.page[s.over[l]].base => j = l
  BY DEF Good, Booked, Lone
<1>11b. Booked(r)
  <2>1. \A j : Weight(r, j) = Weight(s, j)
    BY <1>7 DEF Weight
  <2>2. "over" \in Counted /\ Where(r, "over") = Where(s, "over") \ {i}
    BY <1>3, <1>8 DEF Counted
  <2>3. Paid(r, "over")
    BY <1>3, <1>5a, <1>7, <2>1, <2>2, PaidTake
  <2>4. ASSUME NEW p \in {"main", "small", "held"} PROVE Paid(r, p)
    <3>1. p \in Homes /\ p \in Counted /\ p # "over"
      BY DEF Homes, Counted
    <3>2. Where(r, p) = Where(s, p) /\ Paid(s, p) /\ r.bytes[p] = s.bytes[p]
      BY <1>5a, <1>7, <1>8, <3>1 DEF Good, Booked
    <3>3. QED BY <2>1, <3>2, PaidSame
  <2>5. Sized(r)
    BY <1>7, <2>1 DEF Good, Booked, Sized
  <2>6. Lone(r)
    <3> SUFFICES ASSUME NEW j \in DOMAIN over, NEW l \in DOMAIN over, j # l,
                        s.page[over[j]].base = s.page[over[l]].base
                 PROVE  FALSE
      BY <1>7 DEF Lone
    <3>1. PICK m, n \in DOMAIN s.over : m # n /\ over[j] = s.over[m] /\ over[l] = s.over[n]
      BY <1>5b
    <3>2. QED BY <1>11a, <3>1
  <2>7. QED BY <2>3, <2>4, <2>5, <2>6 DEF Booked, Counted, Homes
<1>12. Good(r, K)
  BY <1>7, <1>9, <1>10, <1>11, <1>11b DEF Good
<1>13. i \in K /\ K \ {i} = H /\ H \subseteq Ids \ {i}
  BY <1>1, <1>3
<1> HIDE DEF K
<1>14. Good(QueueDestroy(r, i), K \ {i}) /\ Keeps(r, QueueDestroy(r, i), Ids \ {i})
  BY <1>12, <1>13, QueueDestroyGood
<1>15. Keeps(s, QueueDestroy(r, i), H)
  BY <1>7, <1>13, <1>14 DEF Keeps
<1>16. QueueDestroy(r, i).over = over /\ QueueDestroy(r, i).bytes = bytes
  BY <1>7, <1>12, <1>13, QueueDestroyGood
<1>17. OverAt(QueueDestroy(r, i), s.page[s.over[k]].base) = {}
  <2>1. ASSUME NEW j \in DOMAIN over PROVE QueueDestroy(r, i).page[over[j]].base # s.page[s.over[k]].base
    <3>1. PICK m \in DOMAIN s.over : m # k /\ over[j] = s.over[m]
      BY <1>5b
    <3>2. over[j] \in Ids /\ over[j] # i
      BY <1>1, <1>5b, <3>1 DEF Once, IsInjective
    <3>3. QueueDestroy(r, i).page[over[j]] = s.page[over[j]]
      BY <1>7, <1>14, <3>2 DEF Keeps
    <3>4. QED BY <1>11a, <3>1, <3>3
  <2>2. QED BY <1>16, <2>1 DEF OverAt
<1>18. Len(QueueDestroy(r, i).over) = Len(s.over) - 1
  BY <1>5b, <1>16
<1>19. Lean(s, QueueDestroy(r, i))
  <2>1. Len(s.over) \in Nat /\ s.bytes["over"] \in Int /\ Weight(s, i) \in Nat
    BY <1>1, <1>3, Counters, PageFields DEF Shelves, Weight
  <2>2. Len(QueueDestroy(r, i).over) <= Len(s.over)
    BY <1>18, <2>1
  <2>3. ASSUME NEW p \in Shelves PROVE bytes[p] <= s.bytes[p]
    <3>1. CASE p = "over"
      BY <1>5a, <2>1, <3>1
    <3>2. CASE p # "over"
      <4>1. s.bytes[p] \in Int /\ bytes[p] = s.bytes[p]
        BY <1>1, <1>5a, <3>2, Counters DEF Shelves
      <4>2. QED BY <4>1
    <3>3. QED BY <3>1, <3>2
  <2>4. QED BY <1>16, <2>2, <2>3 DEF Lean
<1>20. QED BY <1>6, <1>13, <1>14, <1>15, <1>17, <1>18, <1>19

LEMMA AddOverGood ==
  ASSUME NEW s, NEW H, Good(s, H), NEW i \in H, s.page[i].art # <<>>, s.page[i].art[1] # Nil,
         OverAt(s, s.page[i].base) = {}
  PROVE  /\ Good(OverAdded(s, i), H \ {i}) /\ Keeps(s, OverAdded(s, i), Ids)
         /\ \A t \in Tiers : OverAdded(s, i).bytes[t] = s.bytes[t]
<1> DEFINE over == Append(s.over, i)
           bytes == [s.bytes EXCEPT !["over"] = @ + Weight(s, i)]
           r == [s EXCEPT !.over = over, !.bytes = bytes]
<1>1. s \in Stores /\ Whole(s, H) /\ Once(s) /\ Drawn(s) /\ i \in Ids /\ s.page[i] \in Page
  BY AlivePages DEF Good
<1>2. s.over \in Seq(Ids)
  BY <1>1, StoreFields
<1>3. i \notin ToSet(s.over) /\ "over" \in Homes
  <2>1. "over" \in Homes /\ i \notin Where(s, "over")
    BY <1>1 DEF Whole, Homes
  <2>2. QED BY <2>1, WherePlaces
<1>4. over \in Seq(Ids) /\ IsInjective(over) /\ ToSet(over) = ToSet(s.over) \cup {i}
  BY <1>1, <1>2, <1>3, AppendedOnes DEF Once
<1>5. bytes \in [{"main", "small", "over", "held"} -> Int]
  <2>1. s.bytes \in [{"main", "small", "over", "held"} -> Int] /\ s.bytes["over"] \in Int
    BY <1>1, StoreFields
  <2>2. Weight(s, i) \in Nat
    BY <1>1, PageFields DEF Weight
  <2>3. s.bytes["over"] + Weight(s, i) \in Int
    BY <2>1, <2>2
  <2>4. QED BY <2>1, <2>3
<1>6. OverAdded(s, i) = r
  BY <1>1 DEF Stores, OverAdded
<1>6a. /\ bytes["over"] = s.bytes["over"] + Weight(s, i) /\ Weight(s, i) \in Nat
       /\ \A p \in {"main", "small", "held"} : bytes[p] = s.bytes[p]
  BY <1>1, StoreFields, PageFields DEF Weight
<1>6b. /\ Len(s.over) \in Nat /\ DOMAIN s.over = 1 .. Len(s.over)
       /\ DOMAIN over = 1 .. Len(s.over) + 1 /\ over[Len(s.over) + 1] = i
       /\ \A j \in 1 .. Len(s.over) : over[j] = s.over[j]
  BY <1>1, <1>2
<1> HIDE DEF over, bytes
<1>7. /\ r.page = s.page /\ r.lru = s.lru /\ r.over = over /\ r.held = s.held
      /\ r.queue = s.queue /\ r.moved = s.moved /\ r \in Stores
      /\ r.bytes = bytes
  BY <1>1, <1>4, <1>5 DEF Stores
<1> HIDE DEF r
<1>8. \A p \in Homes : Where(r, p) = IF p = "over" THEN Where(s, p) \cup {i} ELSE Where(s, p)
  <2>1. Where(r, "over") = Where(s, "over") \cup {i}
    BY <1>4, <1>7, WherePlaces
  <2>2. \A p \in Homes \ {"over"} : Where(r, p) = Where(s, p)
    BY <1>7, UnmovedPlaces
  <2>3. QED BY <2>1, <2>2
<1>9. Whole(r, H \ {i})
  <2>1. SameLife(s, r)
    BY <1>7 DEF SameLife
  <2>2. QED BY <1>1, <1>3, <1>8, <2>1, PutFacts
<1>10. Once(r)
  BY <1>1, <1>4, <1>7 DEF Once
<1>11. Drawn(r)
  <2>1. Shelved(r) \subseteq Shelved(s) \cup {i}
    BY <1>4, <1>7 DEF Shelved, TierIds
  <2>2. QED BY <1>1, <1>7, <2>1 DEF Drawn
<1>11a. Booked(r)
  <2>1. \A j : Weight(r, j) = Weight(s, j)
    BY <1>7 DEF Weight
  <2>2. /\ "over" \in Counted /\ Where(r, "over") = Where(s, "over") \cup {i}
        /\ i \notin Where(s, "over")
    BY <1>1, <1>3, <1>8 DEF Counted, Whole
  <2>3. r.bytes["over"] = s.bytes["over"] + Weight(r, i) /\ Weight(r, i) \in Nat
    BY <1>6a, <1>7, <2>1
  <2>4. Paid(r, "over")
    BY <2>1, <2>2, <2>3, PaidPut
  <2>5. ASSUME NEW p \in {"main", "small", "held"} PROVE Paid(r, p)
    <3>1. p \in Homes /\ p \in Counted /\ p # "over"
      BY DEF Homes, Counted
    <3>2. Where(r, p) = Where(s, p) /\ Paid(s, p) /\ r.bytes[p] = s.bytes[p]
      BY <1>6a, <1>7, <1>8, <3>1 DEF Good, Booked
    <3>3. QED BY <2>1, <3>2, PaidSame
  <2>6. Sized(r)
    BY <1>7, <2>1 DEF Good, Booked, Sized
  <2>7. Lone(r)
    <3>1. \A j, l \in DOMAIN s.over : s.page[s.over[j]].base = s.page[s.over[l]].base => j = l
      BY DEF Good, Booked, Lone
    <3>2. \A j \in DOMAIN s.over : s.page[s.over[j]].base # s.page[i].base
      BY DEF OverAt
    <3>3. \A j \in DOMAIN over : j = Len(s.over) + 1 \/ j \in DOMAIN s.over
      BY <1>6b
    <3> SUFFICES ASSUME NEW j \in DOMAIN over, NEW l \in DOMAIN over,
                        s.page[over[j]].base = s.page[over[l]].base
                 PROVE  j = l
      BY <1>7 DEF Lone
    <3>4. CASE j \in DOMAIN s.over /\ l \in DOMAIN s.over
      BY <1>6b, <3>1, <3>4
    <3>5. CASE j = Len(s.over) + 1 /\ l \in DOMAIN s.over
      BY <1>6b, <3>2, <3>5
    <3>6. CASE j \in DOMAIN s.over /\ l = Len(s.over) + 1
      BY <1>6b, <3>2, <3>6
    <3>7. QED BY <3>3, <3>4, <3>5, <3>6
  <2>8. QED BY <2>4, <2>5, <2>6, <2>7 DEF Booked, Counted, Homes
<1>12. Good(r, H \ {i}) /\ Keeps(s, r, Ids)
  BY <1>7, <1>9, <1>10, <1>11, <1>11a DEF Good, Keeps
<1>13. \A t \in Tiers : r.bytes[t] = s.bytes[t]
  BY <1>6a, <1>7 DEF Tiers
<1>14. QED BY <1>6, <1>12, <1>13

CapLoop(s, keep, n, g) == g = [m \in 0 .. n |->
  IF m = 0 THEN s
  ELSE IF OverFull(g[m - 1], keep) THEN DropOver(g[m - 1], Oldest(g[m - 1], keep)) ELSE g[m - 1]]

LEMMA EnforceCapGood ==
  ASSUME NEW s, NEW H, Good(s, H), NEW keep
  PROVE  /\ Good(EnforceCap(s, keep), H) /\ Keeps(s, EnforceCap(s, keep), H)
         /\ Fed(s) => Slim(EnforceCap(s, keep))
<1> DEFINE G == {x \in Stores : Good(x, H) /\ Keeps(s, x, H) /\ Lean(s, x)}
           step(x) == IF OverFull(x, keep) THEN DropOver(x, Oldest(x, keep)) ELSE x
           n == Len(s.over)
           phi == [m \in 1 .. n |-> [x \in G |-> step(x)]]
           after == CHOOSE g : CapLoop(s, keep, n, g)
<1>1. s \in G /\ n \in Nat
  <2>1. s \in Stores
    BY DEF Good
  <2>2. s.over \in Seq(Ids)
    BY <2>1, StoreFields
  <2>3. Lean(s, s)
    BY <2>1, LeanSame
  <2>4. QED BY <2>1, <2>2, <2>3 DEF Keeps
<1>1a. ASSUME NEW x \in Stores, OverFull(x, keep) PROVE Oldest(x, keep) \in DOMAIN x.over
  <2>1. x.over \in Seq(Ids) /\ Others(x, keep) # {} /\ Others(x, keep) \subseteq DOMAIN x.over
    BY <1>1a, StoreFields DEF OverFull, Others
  <2>2. Others(x, keep) \subseteq Nat
    BY <2>1
  <2>3. \E k \in Others(x, keep) : \A m \in Others(x, keep) : k <= m
    BY <2>1, <2>2, Least
  <2>4. QED BY <2>1, <2>3 DEF Oldest
<1>2. ASSUME NEW x \in G PROVE step(x) \in G
  <2>1. CASE OverFull(x, keep)
    <3>1. s \in Stores /\ x \in Stores /\ Good(x, H) /\ Keeps(s, x, H) /\ Lean(s, x)
      BY <1>2 DEF Good
    <3>2. Oldest(x, keep) \in DOMAIN x.over
      BY <1>1a, <2>1, <3>1
    <3>3. /\ Good(DropOver(x, Oldest(x, keep)), H) /\ Keeps(x, DropOver(x, Oldest(x, keep)), H)
          /\ Lean(x, DropOver(x, Oldest(x, keep)))
      BY <3>1, <3>2, DropOverGood
    <3>4. DropOver(x, Oldest(x, keep)) \in Stores
      BY <3>3 DEF Good
    <3>5. Keeps(s, DropOver(x, Oldest(x, keep)), H)
      BY <3>1, <3>3 DEF Keeps
    <3>6. Lean(s, DropOver(x, Oldest(x, keep)))
      BY <3>1, <3>3, <3>4, LeanTrans
    <3>7. QED BY <2>1, <3>3, <3>4, <3>5, <3>6
  <2>2. CASE ~OverFull(x, keep)
    BY <1>2, <2>2
  <2>3. QED BY <2>1, <2>2
  (* A page less at every turn that finds the map over its cap. *)
<1>2a. ASSUME NEW x \in G, OverFull(step(x), keep)
       PROVE  OverFull(x, keep) /\ Len(step(x).over) = Len(x.over) - 1
  <2>1. OverFull(x, keep)
    BY <1>2a
  <2>2. x \in Stores /\ Good(x, H) /\ step(x) = DropOver(x, Oldest(x, keep))
    BY <2>1
  <2>3. Oldest(x, keep) \in DOMAIN x.over
    BY <1>1a, <2>1, <2>2
  <2>4. Len(DropOver(x, Oldest(x, keep)).over) = Len(x.over) - 1
    BY <2>2, <2>3, DropOverGood
  <2>5. QED BY <2>1, <2>2, <2>4
<1>2b. \A x \in G : x \in Stores /\ Len(x.over) \in Nat /\ x.over \in Seq(Ids)
  <2>1. ASSUME NEW x \in G PROVE x \in Stores /\ x.over \in Seq(Ids)
    BY <2>1, StoreFields
  <2>2. QED BY <2>1
<1>2c. n = Len(s.over)
  OBVIOUS
<1>3. EnforceCap(s, keep) = after[n]
  BY DEF EnforceCap, CapLoop
<1> HIDE DEF G, n, step
<1>4. phi \in [1 .. n -> [G -> G]] /\ \A m \in 1 .. n : \A x \in G : phi[m][x] = step(x)
  BY <1>2
<1> HIDE DEF phi
<1>5. PICK f : f \in [0 .. n -> G] /\ f[0] = s /\ \A m \in 1 .. n : f[m] = phi[m][f[m - 1]]
  <2>1. s \in G /\ n \in Nat /\ phi \in [1 .. n -> [G -> G]]
    BY <1>1, <1>4
  <2>2. \E f : Chain(G, s, phi, n, f)
    BY <2>1, ChainExists
  <2>3. QED BY <2>2 DEF Chain
<1>6. \A m \in 0 .. n : f[m] = IF m = 0 THEN s ELSE step(f[m - 1])
  <2> TAKE m \in 0 .. n
  <2>1. CASE m # 0
    <3>1. m \in 1 .. n /\ m - 1 \in 0 .. n
      BY <1>1, <2>1
    <3>2. QED BY <1>4, <1>5, <2>1, <3>1
  <2>2. QED BY <1>5, <2>1
<1>7. CapLoop(s, keep, n, f)
  <2>1. f = [m \in 0 .. n |-> f[m]]
    BY <1>5
  <2>2. f = [m \in 0 .. n |-> IF m = 0 THEN s ELSE step(f[m - 1])]
    BY <1>6, <2>1
  <2>3. QED BY <2>2 DEF CapLoop, step
<1>8. CapLoop(s, keep, n, after)
  BY <1>7
<1> HIDE DEF after
<1>9. \A m \in 0 .. n : after[m] = IF m = 0 THEN s ELSE step(after[m - 1])
  BY <1>8 DEF CapLoop, step
<1> DEFINE T == {m \in 0 .. n :
                  after[m] \in G /\ (OverFull(after[m], keep) => Len(after[m].over) <= n - m)}
<1>10. 0 \in T
  <2>1. after[0] = s /\ 0 \in 0 .. n
    BY <1>1, <1>9
  <2>2. Len(s.over) <= n - 0
    BY <1>1, <1>2c
  <2>3. QED BY <1>1, <2>1, <2>2
<1>11. ASSUME NEW m \in 0 .. n - 1, m \in T PROVE m + 1 \in T
  <2>1. m + 1 \in 0 .. n /\ m + 1 # 0 /\ (m + 1) - 1 = m
    BY <1>1
  <2>2. after[m + 1] = step(after[m]) /\ after[m] \in G
    BY <1>9, <1>11, <2>1
  <2>3. after[m + 1] \in G
    BY <1>2, <2>2
  <2>4. ASSUME OverFull(after[m + 1], keep) PROVE Len(after[m + 1].over) <= n - (m + 1)
    <3>1. OverFull(after[m], keep) /\ Len(after[m + 1].over) = Len(after[m].over) - 1
      BY <1>2a, <2>2, <2>4
    <3>2. Len(after[m].over) <= n - m /\ Len(after[m].over) \in Nat
      BY <1>2b, <1>11, <2>2, <3>1
    <3>3. QED BY <1>1, <3>1, <3>2
  <2>5. QED BY <2>1, <2>3, <2>4
<1> HIDE DEF T
<1>12. n \in T
  <2>1. n \in Nat
    BY <1>1
  <2>2. \A m \in 0 .. n : m \in T
    BY <1>10, <1>11, <2>1, SetInduction
  <2>3. QED BY <2>1, <2>2
<1>13. /\ EnforceCap(s, keep) \in G
       /\ OverFull(EnforceCap(s, keep), keep) => Len(EnforceCap(s, keep).over) <= n - n
  BY <1>3, <1>12 DEF T
<1>14. ~OverFull(EnforceCap(s, keep), keep)
  <2> DEFINE x == EnforceCap(s, keep)
  <2>1. x.over \in Seq(Ids) /\ n - n = 0
    BY <1>1, <1>2b, <1>13
  <2>2. OverFull(x, keep) => DOMAIN x.over # {}
    BY DEF OverFull, Others
  <2> HIDE DEF x
  <2>3. DOMAIN x.over # {} => ~(Len(x.over) <= 0)
    BY <2>1
  <2>4. QED BY <1>13, <2>1, <2>2, <2>3 DEF x
<1>15. /\ Good(EnforceCap(s, keep), H) /\ Keeps(s, EnforceCap(s, keep), H)
       /\ Lean(s, EnforceCap(s, keep)) /\ EnforceCap(s, keep) \in Stores
  BY <1>13 DEF G
<1>16. ASSUME Fed(s) PROVE Slim(EnforceCap(s, keep))
  <2> DEFINE x == EnforceCap(s, keep)
  <2>0. Good(x, H) /\ x \in Stores /\ Lean(s, x) /\ s \in Stores /\ ~OverFull(x, keep)
    BY <1>14, <1>15 DEF Good
  <2> HIDE DEF x
  <2>1. Fed(x)
    BY <1>16, <2>0, FedKept, BudgetFacts DEF Lean
  <2>2. x.bytes["over"] \in Int /\ OverCap \in Nat /\ x.over \in Seq(Ids)
    BY <2>0, Counters, StoreFields, TextureConstants DEF Shelves
  <2>3. CASE Others(x, keep) = {}
    <3>1. \A k \in DOMAIN x.over : x.page[x.over[k]].base = keep
      BY <2>3 DEF Others
    <3>2. \A j, l \in DOMAIN x.over : x.page[x.over[j]].base = x.page[x.over[l]].base => j = l
      BY <2>0 DEF Good, Booked, Lone
    <3>3. \A j, l \in DOMAIN x.over : j = l
      BY <3>1, <3>2
    <3>4. Len(x.over) <= 1
      <4>1. Len(x.over) \in Nat /\ DOMAIN x.over = 1 .. Len(x.over)
        BY <2>2
      <4>2. SUFFICES ASSUME Len(x.over) > 1 PROVE FALSE
        BY <4>1
      <4>3. 1 \in DOMAIN x.over /\ 2 \in DOMAIN x.over
        BY <4>1, <4>2
      <4>4. 1 = 2
        BY <3>3, <4>3
      <4>5. QED BY <4>4
    <3>5. QED BY <2>1, <3>4 DEF Slim, x
  <2>4. CASE ~(x.bytes["over"] > OverCap)
    <3>1. x.bytes["over"] <= OverCap
      BY <2>2, <2>4
    <3>2. QED BY <2>1, <3>1 DEF Slim, x
  <2>5. QED BY <2>0, <2>3, <2>4 DEF OverFull, x
<1>17. QED BY <1>15, <1>16

LEMMA StoreOversizedGood ==
  ASSUME NEW s, NEW H, Good(s, H), NEW i \in H, s.page[i].art # <<>>, s.page[i].art[1] # Nil
  PROVE  /\ Good(StoreOversized(s, i), H \ {i}) /\ Keeps(s, StoreOversized(s, i), H \ {i})
         /\ Fed(s) => Slim(StoreOversized(s, i))
<1> DEFINE b == s.page[i].base
           gone == IF OverAt(s, b) = {} THEN s ELSE DropOver(s, OverPos(s, b))
           r == OverAdded(gone, i)
<1>1. Good(gone, H) /\ Keeps(s, gone, H) /\ OverAt(gone, b) = {} /\ Lean(s, gone)
  <2>1. CASE OverAt(s, b) = {}
    <3>1. Lean(s, s)
      BY LeanSame DEF Good
    <3>2. QED BY <2>1, <3>1 DEF Keeps
  <2>2. CASE OverAt(s, b) # {}
    <3>1. OverPos(s, b) \in DOMAIN s.over /\ s.page[s.over[OverPos(s, b)]].base = b
      BY <2>2 DEF OverPos, OverAt
    <3>2. gone = DropOver(s, OverPos(s, b))
      BY <2>2
    <3> HIDE DEF gone, b
    <3>3. QED BY <3>1, <3>2, DropOverGood
  <2>3. QED BY <2>1, <2>2
<1>2. gone.page[i] = s.page[i] /\ Weight(gone, i) = Weight(s, i) /\ H \subseteq Ids
  BY <1>1 DEF Keeps, Weight, Good, Whole
<1>3. StoreOversized(s, i) = EnforceCap(r, b)
  BY <1>2 DEF StoreOversized, OverAdded
<1>3a. OverAt(gone, gone.page[i].base) = {}
  BY <1>1, <1>2
<1> HIDE DEF gone, b
<1>4. /\ Good(r, H \ {i}) /\ Keeps(gone, r, Ids)
      /\ \A t \in Tiers : r.bytes[t] = gone.bytes[t]
  <2>1. Good(gone, H)
    BY <1>1
  <2>2. gone.page[i].art # <<>> /\ gone.page[i].art[1] # Nil
    BY <1>2
  <2>3. Good(r, H \ {i}) /\ Keeps(gone, r, Ids)
    BY <1>3a, <2>1, <2>2, AddOverGood
  <2>4. \A t \in Tiers : r.bytes[t] = gone.bytes[t]
    BY <1>3a, <2>1, <2>2, AddOverGood
  <2>5. QED BY <2>3, <2>4
<1> HIDE DEF r
<1>5. /\ Good(EnforceCap(r, b), H \ {i}) /\ Keeps(r, EnforceCap(r, b), H \ {i})
      /\ Fed(r) => Slim(EnforceCap(r, b))
  BY <1>4, EnforceCapGood
<1>6. Keeps(s, EnforceCap(r, b), H \ {i})
  BY <1>1, <1>2, <1>4, <1>5 DEF Keeps
<1>7. ASSUME Fed(s) PROVE Fed(r)
  <2>1. s \in Stores /\ gone \in Stores
    BY <1>1 DEF Good
  <2>2. Fed(gone)
    BY <1>1, <1>7, <2>1, FedKept, BudgetFacts DEF Lean
  <2>3. QED BY <1>4, <2>2 DEF Fed
<1>8. QED BY <1>3, <1>5, <1>6, <1>7

-----------------------------------------------------------------------------
(* The operations of the store                                               *)

LEMMA BumpGood ==
  ASSUME NEW s, NEW H, Good(s, H)
  PROVE  Good(Bump(s), H) /\ Keeps(s, Bump(s), Ids) /\ Bump(s).moved /\ Even(s, Bump(s))
<1> DEFINE r == Bump(s)
<1>1. s \in Stores /\ Whole(s, H) /\ Once(s) /\ Drawn(s)
  BY DEF Good
<1>2. /\ r.page = s.page /\ r.lru = s.lru /\ r.over = s.over /\ r.held = s.held
      /\ r.queue = s.queue /\ r.moved = TRUE /\ r \in Stores
      /\ r.bytes = s.bytes
  BY <1>1 DEF Stores, Bump
<1> HIDE DEF r
<1>3. \A p \in Homes : Where(r, p) = Where(s, p)
  BY <1>2, UnmovedPlaces
<1>4. Whole(r, H)
  BY <1>1, <1>2, <1>3 DEF Whole
<1>5. Once(r) /\ Drawn(r)
  BY <1>1, <1>2 DEF Once, Drawn, Shelved, TierIds
<1>5a. Booked(r)
  BY <1>2, BookedSame
<1>6. Good(r, H)
  BY <1>2, <1>4, <1>5, <1>5a DEF Good
<1>7. Even(s, r)
  BY <1>2 DEF Even
<1>8. QED BY <1>2, <1>6, <1>7 DEF Keeps, r

LEMMA BirthGood ==
  ASSUME NEW s, NEW H, Good(s, H), NEW p \in Page, ~IsFiniteSet(Ids)
  PROVE  LET i == NewId(s)
             r == [s EXCEPT !.page[i] = p]
         IN /\ Good(r, H \cup {i}) /\ Keeps(s, r, H) /\ r.page[i] = p /\ i \notin H
            /\ r.over = s.over
<1> DEFINE i == NewId(s)
           page == [s.page EXCEPT ![i] = p]
           r == [s EXCEPT !.page = page]
<1>1. s \in Stores /\ Whole(s, H) /\ Once(s) /\ Drawn(s) /\ H \subseteq Ids
  BY DEF Good, Whole
<1>2. i \in Ids /\ s.page[i] = NoPage
  BY NewIdFacts
<1> HIDE DEF i
<1>3. /\ page \in [Ids -> Page \cup {NoPage}] /\ page[i] = p
      /\ \A j \in Ids \ {i} : page[j] = s.page[j]
  BY <1>1, <1>2, StoreFields
<1>4. [s EXCEPT !.page[i] = p] = r
  BY <1>1 DEF Stores
<1> HIDE DEF page
<1>5. /\ r.page = page /\ r.lru = s.lru /\ r.over = s.over /\ r.held = s.held
      /\ r.queue = s.queue /\ r.moved = s.moved /\ r \in Stores
      /\ r.bytes = s.bytes
  BY <1>1, <1>3 DEF Stores
<1> HIDE DEF r
<1>6. \A q \in Homes : Where(r, q) = Where(s, q)
  BY <1>5, UnmovedPlaces
<1>7. Whole(r, H \cup {i})
  <2>1. r.page[i] # NoPage /\ \A j \in Ids \ {i} : r.page[j] # NoPage <=> s.page[j] # NoPage
    BY <1>3, <1>5, TextureConstants
  <2>2. QED BY <1>1, <1>2, <1>6, <2>1, BirthFacts
<1>8. i \notin H /\ i \notin Shelved(s)
  <2>1. i \notin H /\ \A q \in Homes : i \notin Where(s, q)
    BY <1>1, <1>2 DEF Whole
  <2>2. QED BY <2>1, WherePlaces DEF Shelved, Tiers, Homes
<1>9. Once(r)
  BY <1>1, <1>5 DEF Once
<1>10. Drawn(r)
  <2>1. Shelved(r) = Shelved(s) /\ Shelved(s) \subseteq Ids
    BY <1>1, <1>5, ShelvedIds DEF Shelved, TierIds
  <2>2. QED BY <1>1, <1>3, <1>5, <1>8, <2>1 DEF Drawn
<1>11. IsFiniteSet({j \in Ids : r.page[j] # NoPage})
  <2>1. IsFiniteSet({j \in Ids : s.page[j] # NoPage} \cup {i})
    BY FS_AddElement DEF Good
  <2>2. {j \in Ids : r.page[j] # NoPage} \subseteq {j \in Ids : s.page[j] # NoPage} \cup {i}
    BY <1>3, <1>5
  <2>3. QED BY <2>1, <2>2, FS_Subset
<1>12. Len(r.queue) <= QueueCap
  BY <1>5 DEF Good
<1>12a. Booked(r)
  <2>1. \A q \in Counted : q \in Homes /\ Where(s, q) \subseteq Ids /\ i \notin Where(s, q)
    BY <1>1, <1>2, ShelvedIds DEF Whole, Counted
  <2>2. \A q \in Counted : \A j \in Where(s, q) : r.page[j] = s.page[j]
    BY <1>3, <1>5, <2>1
  <2>3. QED BY <1>5, <2>2, BookedSame
<1>13. Good(r, H \cup {i})
  BY <1>5, <1>7, <1>9, <1>10, <1>11, <1>12, <1>12a DEF Good
<1>14. Keeps(s, r, H)
  BY <1>1, <1>3, <1>5, <1>8 DEF Keeps
<1>15. QED BY <1>3, <1>4, <1>5, <1>8, <1>13, <1>14 DEF i

(* A page the pump makes has frames of its own.                              *)
OwnArt(p) == p \in Page /\ p.art # <<>> /\ p.art[1] # Nil

LEMMA UploadTierGood ==
  ASSUME NEW s, Good(s, {}), NEW t \in Tiers, NEW p, OwnArt(p), ~IsFiniteSet(Ids)
  PROVE  /\ Good(UploadTier(s, t, p), {}) /\ UploadTier(s, t, p).moved
         /\ Slim(s) => Slim(UploadTier(s, t, p))
<1> DEFINE i == NewId(s)
           built == [s EXCEPT !.page[i] = p]
           fits == LruAdd(built, t, i)
           rest == Drop(built, t, p.base)
           big == StoreOversized(rest, i)
           put == IF Len(p.art) <= Budget(t) THEN fits ELSE big
<1>1. p \in Page /\ p.base \in Bases /\ p.art # <<>> /\ p.art[1] # Nil
  BY PageFields DEF OwnArt
<1>2. Good(built, {} \cup {i}) /\ built.page[i] = p
  BY <1>1, BirthGood
<1>2a. Slim(s) => Slim(built)
  <2>1. Even(s, built)
    BY DEF Good, Stores, Even
  <2>2. QED BY <2>1, EvenKept
<1>3. {} \cup {i} = {i} /\ {i} \ {i} = {} /\ i \in {i}
  OBVIOUS
<1> HIDE DEF i, built
<1>4. Good(built, {i})
  BY <1>2, <1>3
<1>5. Good(fits, {}) /\ (Slim(built) => Slim(fits))
  BY <1>1, <1>2, <1>3, <1>4, LruAddGood
<1>6. Good(rest, {i}) /\ Keeps(built, rest, {i}) /\ Lean(built, rest)
  BY <1>4, DropGood
<1>6a. Slim(built) => Fed(rest)
  <2>1. built \in Stores /\ rest \in Stores
    BY <1>4, <1>6 DEF Good
  <2> HIDE DEF rest
  <2>2. QED BY <1>6, <2>1, SlimKept DEF Slim
<1>7. rest.page[i].art # <<>> /\ rest.page[i].art[1] # Nil
  BY <1>1, <1>2, <1>6 DEF Keeps
<1> HIDE DEF rest
<1>8. Good(big, {}) /\ (Fed(rest) => Slim(big))
  BY <1>3, <1>6, <1>7, StoreOversizedGood
<1>9. Good(put, {}) /\ (Slim(s) => Slim(put))
  BY <1>2a, <1>5, <1>6a, <1>8
<1>10. UploadTier(s, t, p) = ReleaseHeld(Bump(put), p.base)
  BY DEF UploadTier, i, built, rest
<1> HIDE DEF put
<1>11. Good(Bump(put), {}) /\ Bump(put).moved /\ Even(put, Bump(put))
  BY <1>9, BumpGood
<1>12. /\ Good(ReleaseHeld(Bump(put), p.base), {}) /\ Keeps(Bump(put), ReleaseHeld(Bump(put), p.base), {})
       /\ Even(Bump(put), ReleaseHeld(Bump(put), p.base))
  BY <1>1, <1>11, ReleaseHeldGood
<1>13. ReleaseHeld(Bump(put), p.base).moved
  BY <1>11, <1>12 DEF Keeps
<1>14. Slim(s) => Slim(ReleaseHeld(Bump(put), p.base))
  BY <1>9, <1>11, <1>12, EvenKept
<1>15. QED BY <1>10, <1>12, <1>13, <1>14

LEMMA UploadPageGood ==
  ASSUME NEW s, Good(s, {}), NEW p, OwnArt(p), ~IsFiniteSet(Ids)
  PROVE  /\ Good(UploadPage(s, p), {}) /\ UploadPage(s, p).moved
         /\ Slim(s) => Slim(UploadPage(s, p))
<1>1. "main" \in Tiers /\ "small" \in Tiers
  BY DEF Tiers
<1>2. Good(Drop(s, "main", p.base), {}) /\ Lean(s, Drop(s, "main", p.base))
  BY <1>1, DropGood
<1>2a. Slim(s) => Slim(Drop(s, "main", p.base))
  BY <1>2, SlimKept DEF Good
<1>3. /\ Good(UploadTier(s, "main", p), {}) /\ UploadTier(s, "main", p).moved
      /\ Slim(s) => Slim(UploadTier(s, "main", p))
  BY <1>1, UploadTierGood
<1>4. /\ Good(UploadTier(Drop(s, "main", p.base), "small", p), {})
      /\ UploadTier(Drop(s, "main", p.base), "small", p).moved
      /\ Slim(Drop(s, "main", p.base)) => Slim(UploadTier(Drop(s, "main", p.base), "small", p))
  BY <1>1, <1>2, UploadTierGood
<1>5. QED BY <1>2a, <1>3, <1>4 DEF UploadPage

LEMMA EstablishGood ==
  ASSUME NEW s, Good(s, {}), NEW p, OwnArt(p), ~IsFiniteSet(Ids)
  PROVE  /\ Good(Establish(s, p), {}) /\ (Establish(s, p) = s \/ Establish(s, p).moved)
         /\ Slim(s) => Slim(Establish(s, p))
<1>1. CASE OverAt(s, p.base) # {}
  BY <1>1 DEF Establish
<1>2. CASE OverAt(s, p.base) = {}
  <2> DEFINE i == NewId(s)
             built == [s EXCEPT !.page[i] = p]
             big == StoreOversized(built, i)
             freed == ReleaseHeld(big, p.base)
  <2>1. p \in Page /\ p.base \in Bases /\ p.art # <<>> /\ p.art[1] # Nil
    BY PageFields DEF OwnArt
  <2>2. Good(built, {} \cup {i}) /\ built.page[i] = p
    BY <2>1, BirthGood
  <2>2a. Slim(s) => Fed(built)
    <3>1. Even(s, built)
      BY DEF Good, Stores, Even
    <3>2. QED BY <3>1, EvenKept DEF Slim
  <2>3. {} \cup {i} = {i} /\ {i} \ {i} = {} /\ i \in {i}
    OBVIOUS
  <2>4. Establish(s, p) = Bump(freed)
    BY <1>2 DEF Establish
  <2> HIDE DEF i, built
  <2>5. Good(built, {i})
    BY <2>2, <2>3
  <2>6. Good(big, {}) /\ (Fed(built) => Slim(big))
    BY <2>1, <2>2, <2>3, <2>5, StoreOversizedGood
  <2> HIDE DEF big
  <2>7. Good(freed, {}) /\ Even(big, freed)
    BY <2>1, <2>6, ReleaseHeldGood
  <2> HIDE DEF freed
  <2>8. Good(Bump(freed), {}) /\ Bump(freed).moved /\ Even(freed, Bump(freed))
    BY <2>7, BumpGood
  <2>9. Slim(s) => Slim(Bump(freed))
    BY <2>2a, <2>6, <2>7, <2>8, EvenKept
  <2>10. QED BY <2>4, <2>8, <2>9
<1>3. QED BY <1>1, <1>2

(* The pages change under a store but are drawn still, entries change their  *)
(* weight but not their page.                                                *)
LEMMA RedrawGood ==
  ASSUME NEW s, NEW H, Good(s, H), NEW page \in [Ids -> Page \cup {NoPage}],
         \A j \in Ids : page[j] # NoPage <=> s.page[j] # NoPage,
         \A j \in Shelved(s) : page[j].art # <<>> /\ page[j].art[1] # Nil,
         NEW lru \in [Tiers -> Seq(Entry)],
         \A t \in Tiers : OnceIn(lru[t]) /\ IdsOf(lru[t]) = IdsOf(s.lru[t]),
         NEW w \in [{"main", "small", "over", "held"} -> Int],
         Booked([s EXCEPT !.page = page, !.lru = lru, !.bytes = w])
  PROVE  LET r == [s EXCEPT !.page = page, !.lru = lru, !.bytes = w]
         IN Good(r, H) /\ Shelved(r) = Shelved(s) /\ r.page = page /\ r.moved = s.moved
<1> DEFINE r == [s EXCEPT !.page = page, !.lru = lru, !.bytes = w]
<1>1. s \in Stores /\ Whole(s, H) /\ Once(s) /\ Drawn(s)
  BY DEF Good
<1>2. /\ r.page = page /\ r.lru = lru /\ r.over = s.over /\ r.held = s.held
      /\ r.queue = s.queue /\ r.moved = s.moved /\ r \in Stores
  BY <1>1 DEF Stores
<1>2b. Booked(r)
  OBVIOUS
<1> HIDE DEF r
<1>2a. \A t \in Tiers : TierIds(r, t) = TierIds(s, t)
  <2>1. \A x : \A t \in Tiers : TierIds(x, t) = IdsOf(x.lru[t])
    BY DEF TierIds, IdsOf
  <2>2. \A t \in Tiers : IdsOf(r.lru[t]) = IdsOf(s.lru[t])
    BY <1>2
  <2>3. QED BY <2>1, <2>2
<1>3. \A p \in Homes : Where(r, p) = Where(s, p)
  <2>1. \A t \in Tiers : Where(r, t) = Where(s, t)
    BY <1>2a, WherePlaces
  <2>2. \A p \in {"over", "held", "queue"} : Where(r, p) = Where(s, p)
    <3>1. r.over = s.over /\ r.held = s.held /\ r.queue = s.queue
      BY <1>2
    <3>2. Where(r, "over") = Where(s, "over")
      BY <3>1, UnmovedPlaces
    <3>3. Where(r, "held") = Where(s, "held")
      BY <3>1, UnmovedPlaces
    <3>4. Where(r, "queue") = Where(s, "queue")
      BY <3>1, UnmovedPlaces
    <3>5. QED BY <3>2, <3>3, <3>4
  <2>3. \A p \in Homes : p \in Tiers \/ p \in {"over", "held", "queue"}
    BY UnmovedPlaces
  <2>4. QED BY <2>1, <2>2, <2>3
<1>4. Whole(r, H)
  BY <1>1, <1>2, <1>3 DEF Whole
<1>5. Once(r)
  <2>1. \A t \in Tiers : OnceIn(r.lru[t])
    BY <1>2
  <2>2. QED BY <1>1, <1>2, <2>1 DEF Once
<1>6. Shelved(r) = Shelved(s)
  BY <1>2, <1>2a DEF Shelved, Tiers
<1>6a. Drawn(r)
  BY <1>2, <1>6 DEF Drawn
<1>7. IsFiniteSet({j \in Ids : r.page[j] # NoPage})
  <2>1. {j \in Ids : r.page[j] # NoPage} = {j \in Ids : s.page[j] # NoPage}
    BY <1>2
  <2>2. QED BY <2>1 DEF Good
<1>8. Len(r.queue) <= QueueCap
  BY <1>2 DEF Good
<1>9. Good(r, H)
  BY <1>2, <1>2b, <1>4, <1>5, <1>6a, <1>7, <1>8 DEF Good
<1>10. QED BY <1>2, <1>6, <1>9 DEF r

(* A page of the oversized map changes.                                      *)
LEMMA ChangeGood ==
  ASSUME NEW s, NEW H, Good(s, H), NEW i \in ToSet(s.over), NEW p, OwnArt(p),
         p.base = s.page[i].base,
         NEW w \in [{"main", "small", "over", "held"} -> Int],
         w["over"] = s.bytes["over"] + (Len(p.art) - Weight(s, i)),
         \A q \in {"main", "small", "held"} : w[q] = s.bytes[q]
  PROVE  Good([s EXCEPT !.page[i] = p, !.bytes = w], H)
<1> DEFINE page == [s.page EXCEPT ![i] = p]
<1>1. s \in Stores /\ Drawn(s) /\ Once(s)
  BY DEF Good
<1>2. i \in Ids /\ s.page[i] \in Page
  <2>1. i \in Where(s, "over") /\ "over" \in Homes
    BY WherePlaces DEF Homes
  <2>2. QED BY <2>1, AlivePages
<1>3. /\ page \in [Ids -> Page \cup {NoPage}] /\ page[i] = p
      /\ \A j \in Ids \ {i} : page[j] = s.page[j]
  BY <1>1, <1>2, StoreFields DEF OwnArt
<1>4. [s EXCEPT !.page[i] = p, !.bytes = w] = [s EXCEPT !.page = page, !.lru = s.lru, !.bytes = w]
  BY <1>1 DEF Stores
<1> HIDE DEF page
<1>5. \A j \in Ids : page[j] # NoPage <=> s.page[j] # NoPage
  BY <1>2, <1>3, TextureConstants DEF OwnArt
<1>6. \A j \in Shelved(s) : page[j].art # <<>> /\ page[j].art[1] # Nil
  <2>1. Shelved(s) \subseteq Ids
    BY <1>1, ShelvedIds
  <2>2. QED BY <1>1, <1>3, <2>1 DEF Drawn, OwnArt
<1>7. s.lru \in [Tiers -> Seq(Entry)] /\ \A t \in Tiers : OnceIn(s.lru[t])
  BY <1>1, StoreFields DEF Once
<1>8. \A t \in Tiers : OnceIn(s.lru[t]) /\ IdsOf(s.lru[t]) = IdsOf(s.lru[t])
  BY <1>7
<1>9. page \in [Ids -> Page \cup {NoPage}] /\ s.lru \in [Tiers -> Seq(Entry)]
  BY <1>3, <1>7
<1> DEFINE r == [s EXCEPT !.page = page, !.lru = s.lru, !.bytes = w]
<1>9a. /\ r.page = page /\ r.lru = s.lru /\ r.over = s.over /\ r.held = s.held /\ r.bytes = w
  BY <1>1 DEF Stores
<1> HIDE DEF r
<1>9b. Booked(r)
  <2>1. /\ \A q \in Homes \ {"queue"} : Where(r, q) = Where(s, q)
        /\ \A q \in Homes : Where(s, q) \subseteq Ids
    BY <1>1, <1>9a, UnmovedPlaces, ShelvedIds
  <2>2. "over" \in Homes /\ "over" \in Counted /\ i \in Where(s, "over")
    BY WherePlaces DEF Homes, Counted
  <2>3. \A q \in Homes \ {"over"} : i \notin Where(s, q)
    BY <1>2, <2>2 DEF Good, Whole
  <2>4. \A j \in Ids \ {i} : Weight(r, j) = Weight(s, j)
    BY <1>3, <1>9a DEF Weight
  <2>5. Weight(r, i) = Len(p.art) /\ Weight(r, i) \in Nat
    BY <1>3, <1>9a, PageFields DEF Weight, OwnArt
  <2>6. Paid(r, "over")
    <3>1. Where(r, "over") = Where(s, "over") /\ \A j \in Where(s, "over") \ {i} : Weight(r, j) = Weight(s, j)
      BY <2>1, <2>2, <2>4
    <3>2. r.bytes["over"] = s.bytes["over"] + (Weight(r, i) - Weight(s, i))
      BY <1>9a, <2>5
    <3>3. QED BY <2>2, <2>5, <3>1, <3>2, PaidChange
  <2>7. ASSUME NEW q \in {"main", "small", "held"} PROVE Paid(r, q)
    <3>1. q \in Homes \ {"queue"} /\ q \in Homes \ {"over"} /\ q \in Counted /\ Paid(s, q)
      BY DEF Homes, Counted, Good, Booked
    <3>2. \A j \in Where(s, q) : Weight(r, j) = Weight(s, j)
      BY <2>1, <2>3, <2>4, <3>1
    <3>3. QED BY <1>9a, <2>1, <3>1, <3>2, PaidSame
  <2>8. Sized(r)
    <3>1. \A t \in Tiers : \A k \in DOMAIN s.lru[t] :
            t \in Homes \ {"over"} /\ s.lru[t][k].id \in Where(s, t)
      BY WherePlaces DEF Tiers, Homes, TierIds
    <3>2. \A t \in Tiers : \A k \in DOMAIN s.lru[t] : Weight(r, s.lru[t][k].id) = Weight(s, s.lru[t][k].id)
      BY <2>1, <2>3, <2>4, <3>1
    <3>3. QED BY <1>9a, <3>2 DEF Sized, Good, Booked
  <2>9. Lone(r)
    <3>1. \A k \in DOMAIN s.over : s.over[k] \in Ids
      BY <1>1, StoreFields
    <3>2. \A k \in DOMAIN s.over : r.page[s.over[k]].base = s.page[s.over[k]].base
      BY <1>3, <1>9a, <3>1
    <3>3. Lone(s)
      BY DEF Good, Booked
    <3>4. QED BY <1>9a, <3>2, <3>3 DEF Lone
  <2>10. QED BY <2>6, <2>7, <2>8, <2>9 DEF Booked, Counted, Homes
<1>10. Good([s EXCEPT !.page = page, !.lru = s.lru, !.bytes = w], H)
  BY <1>5, <1>6, <1>8, <1>9, <1>9b, RedrawGood DEF r
<1>11. QED BY <1>4, <1>10

LEMMA OverPosFacts ==
  ASSUME NEW s, NEW H, Good(s, H), NEW b, OverAt(s, b) # {}
  PROVE  /\ OverPos(s, b) \in DOMAIN s.over /\ s.over[OverPos(s, b)] \in ToSet(s.over)
         /\ s.over[OverPos(s, b)] \in Ids /\ s.page[s.over[OverPos(s, b)]] \in Page
         /\ s.page[s.over[OverPos(s, b)]].base = b
         /\ OwnArt(s.page[s.over[OverPos(s, b)]])
<1> DEFINE k == OverPos(s, b)
<1>1. k \in DOMAIN s.over /\ s.page[s.over[k]].base = b
  BY DEF OverPos, OverAt
<1> HIDE DEF k
<1>2. s.over[k] \in ToSet(s.over)
  BY <1>1 DEF ToSet
<1>3. s.over[k] \in Ids /\ s.page[s.over[k]] \in Page
  <2>1. s.over[k] \in Where(s, "over") /\ "over" \in Homes
    BY <1>2, WherePlaces DEF Homes
  <2>2. QED BY <2>1, AlivePages
<1>4. OwnArt(s.page[s.over[k]])
  BY <1>2, <1>3 DEF Good, Drawn, Shelved, OwnArt
<1>5. QED BY <1>1, <1>2, <1>3, <1>4 DEF k

LEMMA AppendFrameGood ==
  ASSUME NEW s, NEW H, Good(s, H), NEW b, NEW src \in Sources, NEW offset
  PROVE  /\ Good(AppendFrame(s, b, src, offset), H)
         /\ AppendFrame(s, b, src, offset) = s \/ AppendFrame(s, b, src, offset).moved
         /\ Slim(s) => Slim(AppendFrame(s, b, src, offset))
<1> DEFINE i == s.over[OverPos(s, b)]
           p == [s.page[i] EXCEPT !.art = Append(@, src)]
           w == [s.bytes EXCEPT !["over"] = @ + 1]
           longer == [s EXCEPT !.page[i] = p, !.bytes = w]
<1>1. CASE OverAt(s, b) = {} \/ Weight(s, i) # offset
  BY <1>1 DEF AppendFrame
<1>2. CASE ~(OverAt(s, b) = {} \/ Weight(s, i) # offset)
  <2>1. /\ i \in ToSet(s.over) /\ i \in Ids /\ s.page[i] \in Page /\ OwnArt(s.page[i])
        /\ s \in Stores
    BY <1>2, OverPosFacts DEF Good
  <2>2. AppendFrame(s, b, src, offset) =
          Bump(EnforceCap([s EXCEPT !.page[i].art = Append(@, src), !.bytes["over"] = @ + 1], b))
    BY <1>2 DEF AppendFrame
  <2> HIDE DEF i
  <2>3. [s EXCEPT !.page[i].art = Append(@, src), !.bytes["over"] = @ + 1] = longer
    <3>1. s.page \in [Ids -> Page \cup {NoPage}]
      BY <2>1, StoreFields
    <3>2. [s.page EXCEPT ![i].art = Append(@, src)] = [s.page EXCEPT ![i] = p]
      BY <2>1, <3>1
    <3>3. QED BY <2>1, <3>2 DEF Stores
  <2>4. OwnArt(p)
    <3>1. s.page[i].art \in Seq(Sources \cup {Nil}) /\ s.page[i].art # <<>> /\ s.page[i].art[1] # Nil
      BY <2>1, PageFields DEF OwnArt
    <3>2. /\ Append(s.page[i].art, src) \in Seq(Sources \cup {Nil})
          /\ Append(s.page[i].art, src) # <<>> /\ Append(s.page[i].art, src)[1] # Nil
      BY <3>1
    <3>3. p \in Page /\ p.art = Append(s.page[i].art, src)
      BY <2>1, <3>2 DEF Page
    <3>4. QED BY <3>2, <3>3 DEF OwnArt
  <2>5. w \in [{"main", "small", "over", "held"} -> Int]
    <3>1. s.bytes \in [{"main", "small", "over", "held"} -> Int] /\ s.bytes["over"] \in Int
      BY <2>1, StoreFields
    <3>2. s.bytes["over"] + 1 \in Int
      BY <3>1
    <3>3. QED BY <3>1, <3>2
  <2>5a. /\ w["over"] = s.bytes["over"] + (Len(p.art) - Weight(s, i)) /\ p.base = s.page[i].base
         /\ \A q \in {"main", "small", "held"} : w[q] = s.bytes[q]
    <3>1. s.bytes \in [{"main", "small", "over", "held"} -> Int] /\ s.bytes["over"] \in Int
      BY <2>1, StoreFields
    <3>2. s.page[i].art \in Seq(Sources \cup {Nil}) /\ p.art = Append(s.page[i].art, src) /\ p.base = s.page[i].base
      BY <2>1, PageFields DEF Page
    <3>3. Len(p.art) - Weight(s, i) = 1
      BY <3>2 DEF Weight
    <3>4. QED BY <3>1, <3>2, <3>3
  <2> HIDE DEF p, w
  <2>6. Good(longer, H)
    BY <2>1, <2>4, <2>5, <2>5a, ChangeGood
  <2>6a. Slim(s) => Fed(longer)
    <3>1. \A t \in Tiers : longer.bytes[t] = s.bytes[t]
      BY <2>1, <2>5a DEF Stores, Tiers
    <3>2. QED BY <3>1 DEF Slim, Fed
  <2> HIDE DEF longer
  <2>7. Good(EnforceCap(longer, b), H) /\ (Fed(longer) => Slim(EnforceCap(longer, b)))
    BY <2>6, EnforceCapGood
  <2>8. /\ Good(Bump(EnforceCap(longer, b)), H) /\ Bump(EnforceCap(longer, b)).moved
        /\ Even(EnforceCap(longer, b), Bump(EnforceCap(longer, b)))
    BY <2>7, BumpGood
  <2>9. Slim(s) => Slim(Bump(EnforceCap(longer, b)))
    BY <2>6a, <2>7, <2>8, EvenKept
  <2>10. QED BY <2>2, <2>3, <2>8, <2>9
<1>3. QED BY <1>1, <1>2

LEMMA FinalizeGood ==
  ASSUME NEW s, NEW H, Good(s, H), NEW b
  PROVE  /\ Good(Finalize(s, b), H) /\ (Finalize(s, b) = s \/ Finalize(s, b).moved)
         /\ Slim(s) => Slim(Finalize(s, b))
<1> DEFINE i == s.over[OverPos(s, b)]
           p == [s.page[i] EXCEPT !.partial = FALSE]
           done == [s EXCEPT !.page[i] = p, !.bytes = s.bytes]
<1>1. CASE OverAt(s, b) = {}
  BY <1>1 DEF Finalize
<1>2. CASE OverAt(s, b) # {}
  <2>1. /\ i \in ToSet(s.over) /\ i \in Ids /\ s.page[i] \in Page /\ OwnArt(s.page[i])
        /\ s \in Stores
    BY <1>2, OverPosFacts DEF Good
  <2>2. Finalize(s, b) = Bump([s EXCEPT !.page[i].partial = FALSE])
    BY <1>2 DEF Finalize
  <2> HIDE DEF i
  <2>3. [s EXCEPT !.page[i].partial = FALSE] = done
    <3>1. s.page \in [Ids -> Page \cup {NoPage}]
      BY <2>1, StoreFields
    <3>2. [s.page EXCEPT ![i].partial = FALSE] = [s.page EXCEPT ![i] = p]
      BY <2>1, <3>1
    <3>3. QED BY <2>1, <3>2 DEF Stores
  <2>4. OwnArt(p)
    BY <2>1 DEF OwnArt, Page
  <2>4a. s.bytes["over"] = s.bytes["over"] + (Len(p.art) - Weight(s, i)) /\ p.base = s.page[i].base
    <3>1. p.art = s.page[i].art /\ p.base = s.page[i].base
      BY <2>1 DEF Page
    <3>2. Weight(s, i) \in Nat /\ s.bytes["over"] \in Int
      BY <2>1, PageFields, StoreFields DEF Weight
    <3>3. Len(p.art) = Weight(s, i)
      BY <3>1 DEF Weight
    <3>4. QED BY <3>1, <3>2, <3>3
  <2> HIDE DEF p
  <2>5. Good(done, H)
    <3>1. \A q \in {"main", "small", "held"} : s.bytes[q] = s.bytes[q]
      OBVIOUS
    <3>2. s.bytes \in [{"main", "small", "over", "held"} -> Int]
      BY <2>1, StoreFields
    <3>3. QED BY <2>1, <2>4, <2>4a, <3>1, <3>2, ChangeGood
  <2>6. Even(s, done)
    BY <2>1 DEF Stores, Even
  <2> HIDE DEF done
  <2>7. Good(Bump(done), H) /\ Bump(done).moved /\ Even(done, Bump(done))
    BY <2>5, BumpGood
  <2>8. Slim(s) => Slim(Bump(done))
    BY <2>6, <2>7, EvenKept
  <2>9. QED BY <2>2, <2>3, <2>7, <2>8
<1>3. QED BY <1>1, <1>2

LEMMA RemoveBaseGood ==
  ASSUME NEW s, NEW H, Good(s, H), NEW b, ~IsFiniteSet(Ids)
  PROVE  /\ Good(RemoveBase(s, b), H)
         /\ RemoveBase(s, b) = s \/ RemoveBase(s, b).moved
         /\ Lean(s, RemoveBase(s, b))
<1>1. CASE OverAt(s, b) # {}
  <2> DEFINE x == DropOver(s, OverPos(s, b))
  <2>1. Good(x, H) /\ Lean(s, x)
    BY <1>1, OverPosFacts, DropOverGood
  <2>2. RemoveBase(s, b) = Bump(x)
    BY <1>1 DEF RemoveBase
  <2> HIDE DEF x
  <2>3. Good(Bump(x), H) /\ Bump(x).moved /\ Even(x, Bump(x))
    BY <2>1, BumpGood
  <2>4. s \in Stores /\ x \in Stores /\ Bump(x) \in Stores
    BY <2>1, <2>3 DEF Good
  <2>5. Lean(s, Bump(x))
    BY <2>1, <2>3, <2>4, EvenLean, LeanTrans
  <2>6. QED BY <2>2, <2>3, <2>5
<1>2. CASE OverAt(s, b) = {}
  <2> DEFINE x == Drop(s, "small", b)
             y == Drop(x, "main", b)
  <2>1. Good(x, H) /\ (x = s \/ x.moved) /\ Lean(s, x)
    BY DropGood DEF Tiers
  <2> HIDE DEF x
  <2>2. Good(y, H) /\ Keeps(x, y, H) /\ (y = x \/ y.moved) /\ Lean(x, y)
    BY <2>1, DropGood DEF Tiers
  <2>3. RemoveBase(s, b) = y
    BY <1>2 DEF RemoveBase, x
  <2> HIDE DEF y
  <2>4. y = s \/ y.moved
    BY <2>1, <2>2 DEF Keeps
  <2>5. s \in Stores /\ x \in Stores /\ y \in Stores
    BY <2>1, <2>2 DEF Good
  <2>6. Lean(s, y)
    BY <2>1, <2>2, <2>5, LeanTrans
  <2>7. QED BY <2>2, <2>3, <2>4, <2>6
<1>3. QED BY <1>1, <1>2

RemoveLoop(s, K, n, g) == g = [m \in 0 .. n |->
  IF m = 0 THEN s
  ELSE IF Keys(s)[m] \in K THEN RemoveBase(g[m - 1], Keys(s)[m]) ELSE g[m - 1]]

LEMMA RemoveWhereGood ==
  ASSUME NEW s, NEW H, Good(s, H), NEW K, ~IsFiniteSet(Ids)
  PROVE  /\ Good(RemoveWhere(s, K), H)
         /\ RemoveWhere(s, K) = s \/ RemoveWhere(s, K).moved
         /\ Lean(s, RemoveWhere(s, K))
<1> DEFINE G == {x \in Stores : Good(x, H) /\ (x = s \/ x.moved) /\ Lean(s, x)}
           step(m, x) == IF Keys(s)[m] \in K THEN RemoveBase(x, Keys(s)[m]) ELSE x
           n == Len(Keys(s))
           phi == [m \in 1 .. n |-> [x \in G |-> step(m, x)]]
           after == CHOOSE g : RemoveLoop(s, K, n, g)
<1>1. s \in G /\ n \in Nat
  <2>1. s \in Stores
    BY DEF Good
  <2>2. s.over \in Seq(Ids) /\ s.lru["main"] \in Seq(Entry) /\ s.lru["small"] \in Seq(Entry)
    BY <2>1, StoreFields DEF Tiers
  <2> DEFINE X == {s.page[i].base : i \in Ids} \cup {s.page[e.id].base : e \in Entry}
             a == [k \in 1 .. Len(s.over) |-> s.page[s.over[k]].base]
             c == Listed(s, "main")
             d == Listed(s, "small")
  <2>3. a \in Seq(X)
    <3>1. \A k \in 1 .. Len(s.over) : s.page[s.over[k]].base \in X
      BY <2>2
    <3> HIDE DEF X
    <3>2. QED BY <2>2, <3>1
  <2>4. c \in Seq(X) /\ d \in Seq(X)
    <3>1. \A k \in 1 .. Len(s.lru["main"]) : s.page[s.lru["main"][k].id].base \in X
      BY <2>2
    <3>2. \A k \in 1 .. Len(s.lru["small"]) : s.page[s.lru["small"][k].id].base \in X
      BY <2>2
    <3> HIDE DEF X
    <3>3. c \in Seq(X)
      BY <2>2, <3>1 DEF Listed
    <3>4. d \in Seq(X)
      BY <2>2, <3>2 DEF Listed
    <3>5. QED BY <3>3, <3>4
  <2>5. Keys(s) = a \o c \o d
    BY DEF Keys
  <2> HIDE DEF X, a, c, d
  <2>6. Keys(s) \in Seq(X)
    BY <2>3, <2>4, <2>5
  <2>7. n \in Nat
    BY <2>6
  <2>8. Lean(s, s)
    BY <2>1, LeanSame
  <2>9. QED BY <2>1, <2>7, <2>8
<1>2. ASSUME NEW m, NEW x \in G PROVE step(m, x) \in G
  <2>1. s \in Stores /\ x \in Stores /\ Good(x, H) /\ (x = s \/ x.moved) /\ Lean(s, x)
    BY <1>2 DEF Good
  <2>2. /\ Good(RemoveBase(x, Keys(s)[m]), H)
        /\ RemoveBase(x, Keys(s)[m]) = x \/ RemoveBase(x, Keys(s)[m]).moved
        /\ Lean(x, RemoveBase(x, Keys(s)[m]))
    BY <2>1, RemoveBaseGood
  <2>3. RemoveBase(x, Keys(s)[m]) \in Stores
    BY <2>2 DEF Good
  <2>4. RemoveBase(x, Keys(s)[m]) = s \/ RemoveBase(x, Keys(s)[m]).moved
    BY <2>1, <2>2
  <2>4a. Lean(s, RemoveBase(x, Keys(s)[m]))
    BY <2>1, <2>2, <2>3, LeanTrans
  <2>5. RemoveBase(x, Keys(s)[m]) \in G
    BY <2>2, <2>3, <2>4, <2>4a
  <2>6. QED BY <1>2, <2>5
<1>3. RemoveWhere(s, K) = after[n]
  BY DEF RemoveWhere, RemoveLoop
<1> HIDE DEF G, n, step
<1>4. phi \in [1 .. n -> [G -> G]] /\ \A m \in 1 .. n : \A x \in G : phi[m][x] = step(m, x)
  BY <1>2
<1> HIDE DEF phi
<1>5. PICK f : f \in [0 .. n -> G] /\ f[0] = s /\ \A m \in 1 .. n : f[m] = phi[m][f[m - 1]]
  <2>1. s \in G /\ n \in Nat /\ phi \in [1 .. n -> [G -> G]]
    BY <1>1, <1>4
  <2>2. \E f : Chain(G, s, phi, n, f)
    BY <2>1, ChainExists
  <2>3. QED BY <2>2 DEF Chain
<1>6. \A m \in 0 .. n : f[m] = IF m = 0 THEN s ELSE step(m, f[m - 1])
  <2> TAKE m \in 0 .. n
  <2>1. CASE m # 0
    <3>1. m \in 1 .. n /\ m - 1 \in 0 .. n
      BY <1>1, <2>1
    <3>2. QED BY <1>4, <1>5, <2>1, <3>1
  <2>2. QED BY <1>5, <2>1
<1>7. RemoveLoop(s, K, n, f)
  <2>1. f = [m \in 0 .. n |-> f[m]]
    BY <1>5
  <2>2. f = [m \in 0 .. n |-> IF m = 0 THEN s ELSE step(m, f[m - 1])]
    BY <1>6, <2>1
  <2>3. QED BY <2>2 DEF RemoveLoop, step
<1>8. RemoveLoop(s, K, n, after)
  BY <1>7
<1> HIDE DEF after
<1>9. \A m \in 0 .. n : after[m] = IF m = 0 THEN s ELSE step(m, after[m - 1])
  BY <1>8 DEF RemoveLoop, step
<1> DEFINE T == {m \in 0 .. n : after[m] \in G}
<1>10. 0 \in T
  BY <1>1, <1>9
<1>11. ASSUME NEW m \in 0 .. n - 1, m \in T PROVE m + 1 \in T
  <2>1. m + 1 \in 0 .. n /\ m + 1 # 0 /\ (m + 1) - 1 = m
    BY <1>1
  <2>2. after[m + 1] = step(m + 1, after[m]) /\ after[m] \in G
    BY <1>9, <1>11, <2>1
  <2>3. QED BY <1>2, <2>1, <2>2
<1> HIDE DEF T
<1>12. n \in T
  <2>1. n \in Nat
    BY <1>1
  <2>2. \A m \in 0 .. n : m \in T
    BY <1>10, <1>11, <2>1, SetInduction
  <2>3. QED BY <2>1, <2>2
<1>13. RemoveWhere(s, K) \in G
  BY <1>3, <1>12 DEF T
<1>14. QED BY <1>13 DEF G

LEMMA MassNat ==
  ASSUME NEW s, NEW H, Good(s, H), NEW I, \A i \in I : i \in Ids /\ s.page[i] \in Page
  PROVE  Mass(s, I) \in Nat /\ Cardinality(I) \in Nat
<1>1. IsFiniteSet(I)
  <2>1. I \subseteq {i \in Ids : s.page[i] # NoPage}
    BY TextureConstants
  <2>2. QED BY <2>1, FS_Subset DEF Good
<1>2. \A i \in I : Weight(s, i) \in Nat
  BY PageFields DEF Weight
<1>3. QED BY <1>1, <1>2, MassFacts, FS_CardinalityType

(* A page whose weight is at least one loses nothing below nothing.          *)
LEMMA LostNat ==
  ASSUME NEW s, NEW H, Good(s, H), NEW I,
         \A i \in I : i \in Ids /\ s.page[i] \in Page /\ s.page[i].art # <<>>
  PROVE  Lost(s, I) \in Nat
<1>1. IsFiniteSet(I)
  <2>1. I \subseteq {i \in Ids : s.page[i] # NoPage}
    BY TextureConstants
  <2>2. QED BY <2>1, FS_Subset DEF Good
<1>2. \A i \in I : Weight(s, i) \in Nat /\ 1 \in 1 .. Weight(s, i)
  <2> TAKE i \in I
  <2>1. s.page[i].art \in Seq(Sources \cup {Nil}) /\ s.page[i].art # <<>>
    BY PageFields
  <2>2. Len(s.page[i].art) \in Nat /\ Len(s.page[i].art) >= 1
    BY <2>1
  <2>3. QED BY <2>2 DEF Weight
<1> DEFINE U == {1}
           X == UNION {{i} \X (1 .. Weight(s, i)) : i \in I}
<1>3. I \X U \subseteq X
  BY <1>2
<1>4. Mass(s, I) \in Nat /\ IsFiniteSet(X)
  BY <1>1, <1>2, MassFacts
<1>5. Mass(s, I) = Cardinality(X)
  BY DEF Mass
<1>6. IsFiniteSet(U) /\ Cardinality(U) = 1
  BY FS_Singleton
<1> HIDE DEF U, X
<1>7. Cardinality(I \X U) <= Cardinality(X)
  BY <1>3, <1>4, FS_Subset
<1>8. Cardinality(I \X U) = Cardinality(I) * Cardinality(U) /\ Cardinality(I) \in Nat
  BY <1>1, <1>6, FS_Product, FS_CardinalityType
<1>9. Cardinality(I \X U) = Cardinality(I)
  BY <1>6, <1>8
<1>10. QED BY <1>4, <1>5, <1>7, <1>8, <1>9 DEF Lost

LEMMA ReduceGood ==
  ASSUME NEW s, NEW H, Good(s, H), NEW active
  PROVE  LET r == ReduceAnimatedExcept(s, active)
         IN /\ Good(r, H) /\ Shelved(r) = Shelved(s) /\ r.moved = s.moved
            /\ \A i \in Shelved(s) : r.page[i].base = s.page[i].base
            /\ Lean(s, r)
<1> DEFINE fall == Falling(s, active)
           page == Stilled(s, fall)
           q == s.lru["main"]
           main == [k \in DOMAIN q |-> IF q[k].id \in fall THEN [q[k] EXCEPT !.size = 1] ELSE q[k]]
           lru == [s.lru EXCEPT !["main"] = main]
           m == s.bytes["main"] - Lost(s, fall \cap TierIds(s, "main"))
           o == s.bytes["over"] - Lost(s, fall \cap ToSet(s.over))
           w == [s.bytes EXCEPT !["main"] = m, !["over"] = o]
           r == [s EXCEPT !.page = page, !.lru = lru, !.bytes = w]
<1>1. s \in Stores /\ Once(s) /\ Drawn(s)
  BY DEF Good
<1>2. \A i \in Shelved(s) : i \in Ids /\ s.page[i] \in Page
  <2>1. \A p \in Homes : \A i \in Where(s, p) : i \in Ids /\ s.page[i] \in Page
    BY AlivePages
  <2>2. QED BY <2>1, WherePlaces DEF Homes, Tiers, Shelved
<1>3. fall \subseteq Shelved(s) /\ \A i \in fall : Reducible(s.page[i])
  BY DEF Falling, Shelved
<1>3a. fall \subseteq ToSet(s.over) \cup TierIds(s, "main")
  BY DEF Falling
<1>4. ReduceAnimatedExcept(s, active) = r
  <2>1. ReduceAnimatedExcept(s, active) =
          [s EXCEPT !.page = page, !.lru["main"] = main, !.bytes["main"] = m, !.bytes["over"] = o]
    <3>1. s.bytes["over"] = [s.bytes EXCEPT !["main"] = m]["over"]
      BY <1>1, StoreFields
    <3>2. QED BY <1>1, <3>1 DEF ReduceAnimatedExcept, Stores
  <2> HIDE DEF page, main, m, o
  <2>2. QED BY <1>1, <2>1 DEF Stores
<1> HIDE DEF fall
<1>5. w \in [{"main", "small", "over", "held"} -> Int]
  <2>1. s.bytes \in [{"main", "small", "over", "held"} -> Int]
        /\ s.bytes["main"] \in Int /\ s.bytes["over"] \in Int
    BY <1>1, StoreFields
  <2>2. \A I : I \subseteq fall => Lost(s, I) \in Int
    <3> SUFFICES ASSUME NEW I, I \subseteq fall PROVE Lost(s, I) \in Int
      OBVIOUS
    <3>1. Mass(s, I) \in Nat /\ Cardinality(I) \in Nat
      BY <1>2, <1>3, MassNat
    <3>2. QED BY <3>1 DEF Lost
  <2>3. m \in Int /\ o \in Int
    BY <2>1, <2>2
  <2> HIDE DEF m, o
  <2>4. QED BY <2>1, <2>3
<1>5a. /\ w["main"] = s.bytes["main"] - Lost(s, fall \cap TierIds(s, "main"))
       /\ w["over"] = s.bytes["over"] - Lost(s, fall \cap ToSet(s.over))
       /\ w["small"] = s.bytes["small"] /\ w["held"] = s.bytes["held"]
  <2>1. s.bytes \in [{"main", "small", "over", "held"} -> Int]
    BY <1>1, StoreFields
  <2> HIDE DEF m, o
  <2>2. w["main"] = m /\ w["over"] = o /\ w["small"] = s.bytes["small"] /\ w["held"] = s.bytes["held"]
    BY <2>1
  <2>3. QED BY <2>2 DEF m, o
<1> HIDE DEF w
<1>6. \A i \in Ids : page[i] = IF i \in fall THEN [s.page[i] EXCEPT !.art = <<@[1]>>, !.stilled = TRUE]
                               ELSE s.page[i]
  BY DEF Stilled
<1>7. ASSUME NEW i \in fall
      PROVE  page[i] \in Page /\ page[i].base = s.page[i].base /\ page[i].art = <<s.page[i].art[1]>>
  <2>1. i \in Ids /\ s.page[i] \in Page /\ i \in Shelved(s)
    BY <1>2, <1>3, <1>7
  <2>2. s.page[i].art \in Seq(Sources \cup {Nil}) /\ s.page[i].art # <<>>
    BY <1>1, <2>1, PageFields DEF Drawn
  <2>3. s.page[i].art[1] \in Sources \cup {Nil}
    BY <2>2
  <2>4. <<s.page[i].art[1]>> \in Seq(Sources \cup {Nil})
    BY <2>3
  <2>5. page[i] = [s.page[i] EXCEPT !.art = <<@[1]>>, !.stilled = TRUE]
    BY <1>6, <2>1
  <2>6. QED BY <2>1, <2>4, <2>5 DEF Page
<1>8. page \in [Ids -> Page \cup {NoPage}]
  <2>1. page = [i \in Ids |-> page[i]]
    BY DEF Stilled
  <2>2. \A i \in Ids : page[i] \in Page \cup {NoPage}
    <3> TAKE i \in Ids
    <3>1. CASE i \in fall
      BY <1>7, <3>1
    <3>2. CASE i \notin fall
      <4>1. page[i] = s.page[i]
        BY <1>6, <3>2
      <4>2. s.page[i] \in Page \cup {NoPage}
        BY <1>1, StoreFields
      <4>3. QED BY <4>1, <4>2
    <3>3. QED BY <3>1, <3>2
  <2> HIDE DEF page
  <2>3. QED BY <2>1, <2>2
<1> HIDE DEF page
<1>9. \A j \in Ids : page[j] # NoPage <=> s.page[j] # NoPage
  <2> TAKE j \in Ids
  <2>1. CASE j \in fall
    BY <1>2, <1>3, <1>7, <2>1, TextureConstants
  <2>2. CASE j \notin fall
    BY <1>6, <2>2
  <2>3. QED BY <2>1, <2>2
<1>10. ASSUME NEW j \in Shelved(s)
       PROVE  page[j].art # <<>> /\ page[j].art[1] # Nil /\ page[j].base = s.page[j].base
  <2>1. s.page[j].art # <<>> /\ s.page[j].art[1] # Nil /\ j \in Ids
    BY <1>1, <1>2, <1>10 DEF Drawn
  <2>2. CASE j \in fall
    BY <1>7, <2>1, <2>2
  <2>3. CASE j \notin fall
    BY <1>6, <2>1, <2>3
  <2>4. QED BY <2>2, <2>3
<1>11. /\ lru \in [Tiers -> Seq(Entry)]
       /\ \A t \in Tiers : OnceIn(lru[t]) /\ IdsOf(lru[t]) = IdsOf(s.lru[t])
  <2>1. s.lru \in [Tiers -> Seq(Entry)] /\ q \in Seq(Entry) /\ "main" \in Tiers
    BY <1>1, StoreFields DEF Tiers
  <2>2. Len(q) \in Nat /\ DOMAIN q = 1 .. Len(q) /\ \A k \in 1 .. Len(q) : q[k] \in Entry
    BY <2>1
  <2> HIDE DEF q
  <2>3. \A k \in 1 .. Len(q) : main[k] \in Entry /\ main[k].id = q[k].id
    BY <2>2 DEF Entry
  <2>4. main = [k \in 1 .. Len(q) |-> main[k]] /\ DOMAIN main = 1 .. Len(q)
    BY <2>2
  <2> HIDE DEF main
  <2>5. main \in Seq(Entry)
    BY <2>2, <2>3, <2>4
  <2>6. OnceIn(q) /\ \A t \in Tiers : OnceIn(s.lru[t])
    BY <1>1, <2>1 DEF Once, q
  <2>7. OnceIn(main) /\ IdsOf(main) = IdsOf(q)
    BY <2>2, <2>3, <2>4, <2>6 DEF OnceIn, IdsOf
  <2>8. \A t \in Tiers : lru[t] = IF t = "main" THEN main ELSE s.lru[t]
    BY <2>1
  <2>9. lru \in [Tiers -> Seq(Entry)]
    BY <2>1, <2>5
  <2> HIDE DEF lru
  <2>10. QED BY <2>6, <2>7, <2>8, <2>9 DEF q
<1>11a. /\ lru["small"] = s.lru["small"] /\ DOMAIN lru["main"] = DOMAIN s.lru["main"]
        /\ \A k \in DOMAIN s.lru["main"] :
             /\ lru["main"][k].id = s.lru["main"][k].id
             /\ lru["main"][k].size = IF s.lru["main"][k].id \in fall THEN 1 ELSE s.lru["main"][k].size
  <2>1. s.lru \in [Tiers -> Seq(Entry)] /\ q \in Seq(Entry) /\ "main" \in Tiers /\ "small" \in Tiers
    BY <1>1, StoreFields DEF Tiers
  <2>2. \A k \in DOMAIN q : q[k] \in Entry
    BY <2>1
  <2>3. /\ DOMAIN main = DOMAIN q
        /\ \A k \in DOMAIN q : /\ main[k].id = q[k].id
                              /\ main[k].size = IF q[k].id \in fall THEN 1 ELSE q[k].size
    BY <2>2 DEF Entry
  <2> HIDE DEF main
  <2>4. lru["main"] = main /\ lru["small"] = s.lru["small"]
    BY <2>1
  <2>5. QED BY <2>3, <2>4
<1> HIDE DEF lru
<1>12. \A j \in Shelved(s) : page[j].art # <<>> /\ page[j].art[1] # Nil
  BY <1>10
<1>13. Good(r, H) /\ Shelved(r) = Shelved(s) /\ r.page = page /\ r.moved = s.moved
  <2>1. lru \in [Tiers -> Seq(Entry)]
    BY <1>11
  <2>2. \A t \in Tiers : OnceIn(lru[t]) /\ IdsOf(lru[t]) = IdsOf(s.lru[t])
    BY <1>11
  <2>2a. Booked(r)
    <3>1. r.page = page /\ r.lru = lru /\ r.over = s.over /\ r.held = s.held /\ r.bytes = w
      BY <1>1 DEF Stores
    <3> HIDE DEF r
    <3>2. /\ \A i \in fall : Weight(r, i) = 1
          /\ \A i \in Ids \ fall : Weight(r, i) = Weight(s, i)
      <4>1. \A x : Len(<<x>>) = 1
        OBVIOUS
      <4>2. \A i \in fall : Weight(r, i) = 1
        BY <1>7, <3>1, <4>1 DEF Weight
      <4>3. QED BY <1>6, <3>1, <4>2 DEF Weight
    <3>3. \A t \in Tiers : TierIds(r, t) = TierIds(s, t)
      <4>1. \A x : \A t \in Tiers : TierIds(x, t) = IdsOf(x.lru[t])
        BY DEF TierIds, IdsOf
      <4>2. QED BY <2>2, <3>1, <4>1
    <3>4. /\ \A p \in Counted : Where(r, p) = Where(s, p)
          /\ \A p \in Homes : Where(s, p) \subseteq Ids
      <4>1. \A t \in Tiers : Where(r, t) = Where(s, t)
        BY <3>3, WherePlaces
      <4>2. Where(r, "over") = Where(s, "over") /\ Where(r, "held") = Where(s, "held")
        BY <3>1, UnmovedPlaces
      <4>3. \A p \in Counted : p \in Tiers \/ p \in {"over", "held"}
        BY DEF Counted, Homes, Tiers
      <4>4. QED BY <1>1, <4>1, <4>2, <4>3, ShelvedIds
    <3>5. /\ Where(s, "main") = TierIds(s, "main") /\ Where(s, "over") = ToSet(s.over)
          /\ \A p \in {"main", "small", "over", "held"} : p \in Counted /\ p \in Homes
      BY WherePlaces DEF Tiers, Counted, Homes
    <3>6. \A p \in {"small", "held"} : fall \cap Where(s, p) = {}
      <4> SUFFICES ASSUME NEW p \in {"small", "held"}, NEW i \in fall, i \in Where(s, p) PROVE FALSE
        OBVIOUS
      <4>1. i \in Ids /\ (i \in Where(s, "main") \/ i \in Where(s, "over"))
        BY <1>2, <1>3, <1>3a, <3>5
      <4>2. \A a, c \in Homes : i \in Where(s, a) /\ i \in Where(s, c) => a = c
        BY <4>1 DEF Good, Whole
      <4>3. QED BY <3>5, <4>1, <4>2
    <3>7. ASSUME NEW p \in {"main", "over"} PROVE Paid(r, p)
      <4> DEFINE F == fall \cap Where(s, p)
      <4>1. F \in SUBSET Where(s, p) /\ \A j \in F : j \in fall
        OBVIOUS
      <4>2. \A j \in Where(s, p) \ F : j \in Ids \ fall
        BY <3>4, <3>5
      <4>3. r.bytes[p] = s.bytes[p] - Lost(s, F)
        BY <1>5a, <3>1, <3>5
      <4> HIDE DEF F
      <4>4. (\A j \in F : Weight(r, j) = 1) /\ \A j \in Where(s, p) \ F : Weight(r, j) = Weight(s, j)
        BY <3>2, <4>1, <4>2
      <4>5. p \in Counted /\ Where(r, p) = Where(s, p)
        BY <3>4, <3>5
      <4>6. QED BY <4>1, <4>3, <4>4, <4>5, PaidStills
    <3>8. ASSUME NEW p \in {"small", "held"} PROVE Paid(r, p)
      <4>1. p \in Counted /\ Where(r, p) = Where(s, p) /\ \A j \in Where(s, p) : j \in Ids \ fall
        BY <3>4, <3>5, <3>6
      <4>2. Paid(s, p)
        BY <4>1 DEF Good, Booked
      <4>3. r.bytes[p] = s.bytes[p]
        BY <1>5a, <3>1
      <4>4. QED BY <3>2, <4>1, <4>2, <4>3, PaidSame
    <3>9. Sized(r)
      <4>0. \A t \in Tiers : \A k \in DOMAIN s.lru[t] : s.lru[t][k].size = Weight(s, s.lru[t][k].id)
        BY DEF Good, Booked, Sized
      <4>1. \A t \in Tiers : \A k \in DOMAIN s.lru[t] : s.lru[t][k].id \in Where(s, t)
        BY WherePlaces DEF TierIds
      <4>2. ASSUME NEW k \in DOMAIN r.lru["main"]
            PROVE  r.lru["main"][k].size = Weight(r, r.lru["main"][k].id)
        <5>1. k \in DOMAIN s.lru["main"] /\ s.lru["main"][k].id \in Ids
          BY <1>11a, <3>1, <3>4, <3>5, <4>1 DEF Tiers
        <5>2. CASE s.lru["main"][k].id \in fall
          BY <1>11a, <3>1, <3>2, <5>1, <5>2
        <5>3. CASE s.lru["main"][k].id \notin fall
          BY <1>11a, <3>1, <3>2, <4>0, <5>1, <5>3 DEF Tiers
        <5>4. QED BY <5>2, <5>3
      <4>3. ASSUME NEW k \in DOMAIN r.lru["small"]
            PROVE  r.lru["small"][k].size = Weight(r, r.lru["small"][k].id)
        <5>1. /\ k \in DOMAIN s.lru["small"] /\ s.lru["small"][k].id \in Ids \ fall
              /\ r.lru["small"][k] = s.lru["small"][k]
          BY <1>11a, <3>1, <3>4, <3>5, <3>6, <4>1 DEF Tiers
        <5>2. QED BY <3>2, <4>0, <5>1 DEF Tiers
      <4>4. QED BY <4>2, <4>3 DEF Sized, Tiers
    <3>10. Lone(r)
      <4>1. \A k \in DOMAIN s.over : s.over[k] \in Shelved(s)
        BY DEF Shelved, ToSet
      <4>2. \A k \in DOMAIN s.over : r.page[s.over[k]].base = s.page[s.over[k]].base
        BY <1>10, <3>1, <4>1
      <4>3. Lone(s)
        BY DEF Good, Booked
      <4>4. QED BY <3>1, <4>2, <4>3 DEF Lone
    <3>11. QED BY <3>7, <3>8, <3>9, <3>10 DEF Booked, Counted, Homes
  <2>3. Good(r, H)
    BY <1>5, <1>8, <1>9, <1>12, <2>1, <2>2, <2>2a, RedrawGood
  <2>4. Shelved(r) = Shelved(s)
    <3>1. r.over = s.over /\ r.lru = lru
      BY <1>1 DEF Stores
    <3>2. \A x : \A t \in Tiers : TierIds(x, t) = IdsOf(x.lru[t])
      BY DEF TierIds, IdsOf
    <3> HIDE DEF r
    <3>3. TierIds(r, "main") = TierIds(s, "main") /\ TierIds(r, "small") = TierIds(s, "small")
      BY <2>2, <3>1, <3>2 DEF Tiers
    <3>4. QED BY <3>1, <3>3 DEF Shelved
  <2>5. r.page = page /\ r.moved = s.moved
    BY <1>1 DEF Stores
  <2>6. QED BY <2>3, <2>4, <2>5
<1>13a. Lean(s, r)
  <2>1. r.over = s.over /\ r.bytes = w /\ Len(s.over) \in Nat
    BY <1>1, Counters DEF Stores
  <2> HIDE DEF r
  <2>2. ASSUME NEW I, I \subseteq fall PROVE Lost(s, I) \in Nat
    <3>1. \A i \in I : i \in Ids /\ s.page[i] \in Page /\ s.page[i].art # <<>>
      BY <1>1, <1>2, <1>3, <2>2 DEF Drawn
    <3>2. QED BY <3>1, LostNat
  <2>3. s.bytes["main"] \in Int /\ s.bytes["over"] \in Int /\ s.bytes["small"] \in Int
    BY <1>1, Counters DEF Shelves
  <2>4. w["main"] <= s.bytes["main"]
    <3>1. Lost(s, fall \cap TierIds(s, "main")) \in Nat
      BY <2>2
    <3>2. QED BY <1>5a, <2>3, <3>1
  <2>5. w["over"] <= s.bytes["over"]
    <3>1. Lost(s, fall \cap ToSet(s.over)) \in Nat
      BY <2>2
    <3>2. QED BY <1>5a, <2>3, <3>1
  <2>6. w["small"] <= s.bytes["small"]
    BY <1>5a, <2>3
  <2>7. QED BY <2>1, <2>4, <2>5, <2>6 DEF Lean, Shelves
<1> HIDE DEF r
<1>14. QED BY <1>4, <1>10, <1>13, <1>13a

(* A store with nothing in it.                                               *)
LEMMA EmptyGood ==
  ASSUME NEW r \in Stores, r.page = [i \in Ids |-> NoPage], r.lru = [t \in Tiers |-> <<>>],
         r.over = <<>>, r.held = [b \in Bases |-> NoId], r.queue = <<>>,
         r.bytes = [p \in {"main", "small", "over", "held"} |-> 0]
  PROVE  Good(r, {})
<1>1. \A p \in Homes : Where(r, p) = {}
  <2>1. TierIds(r, "main") = {} /\ TierIds(r, "small") = {}
    BY DEF TierIds, Tiers
  <2>2. ToSet(r.over) = {} /\ ToSet(r.queue) = {}
    BY DEF ToSet
  <2>3. Bridged(r) = {}
    BY DEF Bridged
  <2>4. QED BY <2>1, <2>2, <2>3, WherePlaces DEF Homes, Tiers
<1>2. Whole(r, {})
  BY <1>1 DEF Whole
<1>3. Once(r)
  <2>1. \A t \in Tiers : OnceIn(r.lru[t])
    BY DEF OnceIn
  <2>2. IsInjective(r.over) /\ IsInjective(r.queue)
    BY DEF IsInjective
  <2>3. QED BY <2>1, <2>2 DEF Once
<1>4. Drawn(r)
  <2>1. Shelved(r) = {}
    BY DEF Shelved, TierIds, ToSet, Tiers
  <2>2. QED BY <2>1 DEF Drawn
<1>5. IsFiniteSet({i \in Ids : r.page[i] # NoPage})
  <2>1. {i \in Ids : r.page[i] # NoPage} = {}
    OBVIOUS
  <2>2. QED BY <2>1, FS_EmptySet
<1>6. Len(r.queue) <= QueueCap
  BY TextureConstants
<1>7. Booked(r)
  <2>1. \A p \in Counted : Where(r, p) = {} /\ r.bytes[p] = 0
    BY <1>1 DEF Counted, Homes
  <2>2. \A p \in Counted : Paid(r, p)
    BY <2>1, MassOfNone DEF Paid
  <2>3. \A t \in Tiers : DOMAIN r.lru[t] = {}
    OBVIOUS
  <2>4. DOMAIN r.over = {}
    OBVIOUS
  <2>5. Sized(r) /\ Lone(r)
    BY <2>3, <2>4 DEF Sized, Lone
  <2>6. QED BY <2>2, <2>5 DEF Booked
<1>8. QED BY <1>2, <1>3, <1>4, <1>5, <1>6, <1>7 DEF Good

LEMMA EmptySlim ==
  ASSUME NEW r, r.over = <<>>, r.bytes = [p \in {"main", "small", "over", "held"} |-> 0] PROVE Slim(r)
<1>1. Len(r.over) = 0 /\ \A t \in Tiers : r.bytes[t] = 0 /\ Budget(t) \in Nat
  BY BudgetFacts DEF Tiers
<1>2. Len(r.over) <= 1 /\ \A t \in Tiers : r.bytes[t] <= Budget(t)
  BY <1>1
<1>3. QED BY <1>2 DEF Slim, Fed

LEMMA PurgedGood ==
  ASSUME NEW s \in Stores PROVE Good(Purged(s), {}) /\ Purged(s).moved /\ Slim(Purged(s))
<1> DEFINE r == Purged(s)
           page == [i \in Ids |-> NoPage]
           lru == [t \in Tiers |-> <<>>]
           held == [b \in Bases |-> NoId]
           ring == [k \in DOMAIN s.ring |-> NoBase]
           w == [t \in {"main", "small", "over", "held"} |-> 0]
<1>1. r = [s EXCEPT !.moved = TRUE, !.page = page, !.lru = lru, !.over = <<>>, !.held = held,
                    !.ring = ring, !.next = 0, !.queue = <<>>, !.bytes = w]
  <2>1. DOMAIN s.bytes = {"main", "small", "over", "held"}
    BY StoreFields
  <2>2. QED BY <2>1 DEF Purged, Bump, Stores
<1>2. /\ page \in [Ids -> Page \cup {NoPage}] /\ lru \in [Tiers -> Seq(Entry)]
      /\ held \in [Bases -> Ids \cup {NoId}]
      /\ ring \in [0 .. HeldMax - 1 -> Bases \cup {NoBase}]
      /\ w \in [{"main", "small", "over", "held"} -> Int] /\ 0 \in 0 .. HeldMax - 1
      /\ <<>> \in Seq(Ids)
  BY StoreFields, TextureConstants
<1> HIDE DEF page, lru, held, ring, w, r
<1>3. /\ r \in Stores /\ r.page = page /\ r.lru = lru /\ r.over = <<>> /\ r.held = held
      /\ r.queue = <<>> /\ r.moved = TRUE /\ r.bytes = w
  BY <1>1, <1>2 DEF Stores
<1>4. Good(r, {})
  BY <1>3, EmptyGood DEF page, lru, held, w
<1>5. Slim(r)
  BY <1>3, EmptySlim DEF w
<1>6. QED BY <1>3, <1>4, <1>5 DEF r

LEMMA DrainedGood ==
  ASSUME NEW s, NEW H, Good(s, H)
  PROVE  LET r == Drained(s)
         IN /\ Good(r, H) /\ Shelved(r) = Shelved(s) /\ r.moved = s.moved
            /\ \A i \in Shelved(s) : r.page[i] = s.page[i]
            /\ Even(s, r)
<1> DEFINE q == s.queue
           n == IF Len(q) < DrainMax THEN Len(q) ELSE DrainMax
           gone == {q[k] : k \in 1 .. n}
           page == [i \in Ids |-> IF i \in gone THEN NoPage ELSE s.page[i]]
           rest == SubSeq(q, n + 1, Len(q))
           r == [s EXCEPT !.page = page, !.queue = rest]
<1>1. s \in Stores /\ Whole(s, H) /\ Once(s) /\ Drawn(s) /\ Len(q) <= QueueCap
  BY DEF Good
<1>2. q \in Seq(Ids) /\ Len(q) \in Nat /\ n \in Nat /\ n <= Len(q) /\ DOMAIN q = 1 .. Len(q)
  BY <1>1, StoreFields, TextureConstants
<1>3. Drained(s) = r
  BY <1>1 DEF Drained, Stores
<1> HIDE DEF n
<1>4. /\ rest \in Seq(Ids) /\ Len(rest) = Len(q) - n /\ DOMAIN rest = 1 .. Len(q) - n
      /\ \A k \in 1 .. Len(q) - n : rest[k] = q[k + n]
  <2>1. \A a, b \in Nat : a >= 1 /\ a <= b + 1 /\ b <= Len(q) =>
          /\ SubSeq(q, a, b) \in Seq(Ids) /\ Len(SubSeq(q, a, b)) = b - a + 1
          /\ \A j \in 1 .. b - a + 1 : SubSeq(q, a, b)[j] = q[a + j - 1]
    BY <1>2
  <2>2. n + 1 \in Nat /\ n + 1 >= 1 /\ n + 1 <= Len(q) + 1 /\ Len(q) - (n + 1) + 1 = Len(q) - n
        /\ \A j \in 1 .. Len(q) - n : (n + 1) + j - 1 = j + n
    BY <1>2
  <2>3. /\ rest \in Seq(Ids) /\ Len(rest) = Len(q) - (n + 1) + 1
        /\ \A j \in 1 .. Len(q) - (n + 1) + 1 : rest[j] = q[(n + 1) + j - 1]
    BY <1>2, <2>1, <2>2
  <2> HIDE DEF rest
  <2>4. DOMAIN rest = 1 .. Len(rest)
    BY <2>3
  <2>5. QED BY <2>2, <2>3, <2>4
<1> HIDE DEF rest
<1>5. /\ \A k \in 1 .. Len(q) - n : k + n \in 1 .. Len(q) /\ ~(k + n \in 1 .. n)
      /\ \A m \in 1 .. Len(q) : m \in 1 .. n \/ \E k \in 1 .. Len(q) - n : m = k + n
      /\ \A k \in 1 .. n : k \in 1 .. Len(q)
  <2>1. ASSUME NEW m \in 1 .. Len(q), ~(m \in 1 .. n)
        PROVE  m - n \in 1 .. Len(q) - n /\ m = (m - n) + n
    BY <1>2, <2>1
  <2>2. \A m \in 1 .. Len(q) : m \in 1 .. n \/ \E k \in 1 .. Len(q) - n : m = k + n
    BY <2>1
  <2>3. /\ \A k \in 1 .. Len(q) - n : k + n \in 1 .. Len(q) /\ ~(k + n \in 1 .. n)
        /\ \A k \in 1 .. n : k \in 1 .. Len(q)
    BY <1>2
  <2>4. QED BY <2>2, <2>3
<1>6. IsInjective(rest) /\ ToSet(rest) = ToSet(q) \ gone /\ gone \subseteq ToSet(q)
  <2>1. \A j, k \in 1 .. Len(q) : q[j] = q[k] => j = k
    BY <1>1, <1>2 DEF Once, IsInjective
  <2>2. IsInjective(rest)
    <3> SUFFICES ASSUME NEW j \in 1 .. Len(q) - n, NEW k \in 1 .. Len(q) - n, rest[j] = rest[k]
                 PROVE  j = k
      BY <1>4 DEF IsInjective
    <3>1. j + n = k + n
      BY <1>4, <1>5, <2>1
    <3>2. QED BY <1>2, <3>1
  <2>3. gone \subseteq ToSet(q)
    BY <1>2, <1>5 DEF ToSet
  <2>4. ASSUME NEW k \in 1 .. Len(q) - n PROVE rest[k] \in ToSet(q) \ gone
    <3>1. rest[k] = q[k + n] /\ k + n \in 1 .. Len(q) /\ ~(k + n \in 1 .. n)
      BY <1>4, <1>5
    <3>2. q[k + n] \notin gone
      BY <1>5, <2>1, <3>1
    <3>3. QED BY <1>2, <3>1, <3>2 DEF ToSet
  <2>5. ASSUME NEW m \in 1 .. Len(q), q[m] \notin gone PROVE q[m] \in ToSet(rest)
    <3>1. ~(m \in 1 .. n)
      BY <2>5
    <3>2. PICK k \in 1 .. Len(q) - n : m = k + n
      BY <1>5, <3>1
    <3>3. rest[k] = q[m]
      BY <1>4, <3>2
    <3>4. QED BY <1>4, <3>3 DEF ToSet
  <2>6. ToSet(rest) = ToSet(q) \ gone
    <3>1. ToSet(rest) \subseteq ToSet(q) \ gone
      BY <1>4, <2>4 DEF ToSet
    <3>2. \A x \in ToSet(q) \ gone : x \in ToSet(rest)
      BY <1>2, <2>5 DEF ToSet
    <3>3. QED BY <3>1, <3>2
  <2>7. QED BY <2>2, <2>3, <2>6
<1> HIDE DEF gone
<1>7. page \in [Ids -> Page \cup {NoPage}]
      /\ \A i \in Ids : page[i] = IF i \in gone THEN NoPage ELSE s.page[i]
  BY <1>1, StoreFields
<1> HIDE DEF page
<1>8. /\ r.page = page /\ r.lru = s.lru /\ r.over = s.over /\ r.held = s.held /\ r.queue = rest
      /\ r.moved = s.moved /\ r \in Stores /\ r.bytes = s.bytes
  BY <1>1, <1>4, <1>7 DEF Stores
<1> HIDE DEF r
<1>9. \A p \in Homes : Where(r, p) = IF p = "queue" THEN Where(s, p) \ gone ELSE Where(s, p)
  <2>1. Where(r, "queue") = Where(s, "queue") \ gone
    BY <1>6, <1>8, WherePlaces
  <2>2. \A p \in Homes \ {"queue"} : Where(r, p) = Where(s, p)
    BY <1>8, UnmovedPlaces
  <2>3. QED BY <2>1, <2>2
<1>10. "queue" \in Homes /\ \A i \in gone : i \in Where(s, "queue")
  BY <1>6, WherePlaces DEF Homes
<1>11. Whole(r, H)
  <2>1. ASSUME NEW i \in Ids
        PROVE  r.page[i] # NoPage <=> i \in H \/ \E p \in Homes : i \in Where(r, p)
    <3>1. CASE i \in gone
      <4>1. r.page[i] = NoPage /\ i \notin H /\ \A p \in Homes : i \in Where(s, p) => p = "queue"
        BY <1>1, <1>7, <1>8, <1>10, <3>1 DEF Whole
      <4>2. \A p \in Homes : i \notin Where(r, p)
        BY <1>9, <3>1, <4>1
      <4>3. QED BY <4>1, <4>2
    <3>2. CASE i \notin gone
      <4>1. r.page[i] = s.page[i]
        BY <1>7, <1>8, <3>2
      <4>2. \A p \in Homes : i \in Where(r, p) <=> i \in Where(s, p)
        BY <1>9, <3>2
      <4>3. QED BY <1>1, <4>1, <4>2 DEF Whole
    <3>3. QED BY <3>1, <3>2
  <2>2. \A p \in Homes : Where(r, p) \subseteq Where(s, p)
    BY <1>9
  <2>3. /\ \A p, p1 \in Homes : \A i \in Ids : i \in Where(r, p) /\ i \in Where(r, p1) => p = p1
        /\ \A p \in Homes : \A i \in H : i \notin Where(r, p)
        /\ H \subseteq Ids
    BY <1>1, <2>2 DEF Whole
  <2>4. QED BY <2>1, <2>3 DEF Whole
<1>12. Once(r)
  BY <1>1, <1>6, <1>8 DEF Once
<1>13. Shelved(r) = Shelved(s)
  BY <1>8 DEF Shelved, TierIds
<1>14. \A i \in Shelved(s) : r.page[i] = s.page[i]
  <2> TAKE i \in Shelved(s)
  <2>1. i \in Ids /\ (i \in Where(s, "main") \/ i \in Where(s, "small") \/ i \in Where(s, "over"))
    BY <1>1, ShelvedIds, WherePlaces DEF Shelved, Tiers
  <2>2. i \notin Where(s, "queue")
    BY <1>1, <2>1 DEF Whole, Homes
  <2>3. QED BY <1>7, <1>8, <1>10, <2>1, <2>2
<1>15. Drawn(r)
  BY <1>1, <1>13, <1>14 DEF Drawn
<1>16. IsFiniteSet({i \in Ids : r.page[i] # NoPage})
  <2>1. {i \in Ids : r.page[i] # NoPage} \subseteq {i \in Ids : s.page[i] # NoPage}
    BY <1>7, <1>8
  <2>2. QED BY <2>1, FS_Subset DEF Good
<1>17. Len(r.queue) <= QueueCap
  <2>1. Len(q) - n <= QueueCap
    BY <1>1, <1>2, TextureConstants
  <2>2. QED BY <1>4, <1>8, <2>1
<1>17a. Booked(r)
  <2>1. \A p \in Counted : p \in Homes /\ p # "queue" /\ Where(s, p) \subseteq Ids
    BY <1>1, ShelvedIds DEF Counted
  <2>2. ASSUME NEW p \in Counted, NEW i \in Where(s, p) PROVE r.page[i] = s.page[i]
    <3>1. i \notin gone
      BY <1>1, <1>10, <2>1 DEF Whole
    <3>2. QED BY <1>7, <1>8, <2>1, <3>1
  <2>3. QED BY <1>8, <2>2, BookedSame
<1>18. Good(r, H)
  BY <1>8, <1>11, <1>12, <1>15, <1>16, <1>17, <1>17a DEF Good
<1>19. Even(s, r)
  BY <1>8 DEF Even
<1>20. QED BY <1>3, <1>8, <1>13, <1>14, <1>18, <1>19

-----------------------------------------------------------------------------
(* The viewport                                                              *)

Views == [Layers -> [base : Bases \cup {NoBase}, id : Ids \cup {NoId}, fresh : BOOLEAN]]

(* What the layers v hold as fresh is on a shelf of s, and is their base's.  *)
CachedIn(s, v) ==
  \A l \in Layers : v[l].fresh /\ v[l].id # NoId =>
    v[l].id \in Shelved(s) /\ s.page[v[l].id].base = v[l].base

(* The shelves, and the bases of what is on them, are the same.              *)
SameShelf(s, r) ==
  Shelved(r) = Shelved(s) /\ \A i \in Shelved(s) : r.page[i].base = s.page[i].base

LEMMA SameShelfCached ==
  ASSUME NEW s, NEW r, NEW v, SameShelf(s, r), CachedIn(s, v) PROVE CachedIn(r, v)
  BY DEF SameShelf, CachedIn

LEMMA FoundFacts ==
  ASSUME NEW s, NEW H, Good(s, H), NEW b, Found(s, b) # NoId
  PROVE  Found(s, b) \in Shelved(s) /\ Found(s, b) \in Ids /\ s.page[Found(s, b)].base = b
<1>1. CASE OverAt(s, b) # {}
  <2>1. Found(s, b) = s.over[OverPos(s, b)]
    BY <1>1 DEF Found
  <2>2. /\ s.over[OverPos(s, b)] \in ToSet(s.over) /\ s.over[OverPos(s, b)] \in Ids
        /\ s.page[s.over[OverPos(s, b)]].base = b
    BY <1>1, OverPosFacts
  <2>3. QED BY <2>1, <2>2 DEF Shelved
<1>2. ASSUME NEW t \in Tiers, At(s, t, b) # {}
      PROVE  /\ s.lru[t][Pos(s, t, b)].id \in Shelved(s) /\ s.lru[t][Pos(s, t, b)].id \in Ids
             /\ s.page[s.lru[t][Pos(s, t, b)].id].base = b
  <2> DEFINE k == Pos(s, t, b)
  <2>1. k \in DOMAIN s.lru[t] /\ s.page[s.lru[t][k].id].base = b
    BY <1>2 DEF Pos, At
  <2> HIDE DEF k
  <2>2. s.lru[t][k].id \in TierIds(s, t)
    BY <2>1 DEF TierIds
  <2>3. s.lru[t][k].id \in Shelved(s)
    BY <2>2 DEF Shelved, Tiers
  <2>4. s.lru[t][k].id \in Ids
    BY <2>3, ShelvedIds DEF Good
  <2>5. QED BY <2>1, <2>3, <2>4 DEF k
<1>3. CASE OverAt(s, b) = {} /\ At(s, "small", b) # {}
  <2>1. Found(s, b) = s.lru["small"][Pos(s, "small", b)].id
    BY <1>3 DEF Found
  <2>2. QED BY <1>2, <1>3, <2>1 DEF Tiers
<1>4. CASE OverAt(s, b) = {} /\ At(s, "small", b) = {} /\ At(s, "main", b) # {}
  <2>1. Found(s, b) = s.lru["main"][Pos(s, "main", b)].id
    BY <1>4 DEF Found
  <2>2. QED BY <1>2, <1>4, <2>1 DEF Tiers
<1>5. ~(OverAt(s, b) = {} /\ At(s, "small", b) = {} /\ At(s, "main", b) = {})
  BY DEF Found
<1>6. QED BY <1>1, <1>3, <1>4, <1>5

LEMMA TouchedGood ==
  ASSUME NEW s, NEW H, Good(s, H), NEW b
  PROVE  /\ Good(Touched(s, b), H) /\ SameShelf(s, Touched(s, b)) /\ Touched(s, b).page = s.page
         /\ Lean(s, Touched(s, b))
<1>1. ASSUME NEW t \in Tiers, At(s, t, b) # {}
      PROVE  LET r == Touch(s, t, Pos(s, t, b)) IN Good(r, H) /\ SameShelf(s, r) /\ r.page = s.page /\ Lean(s, r)
  <2>1. Pos(s, t, b) \in DOMAIN s.lru[t]
    BY <1>1 DEF Pos, At
  <2>2. QED BY <2>1, TouchGood DEF SameShelf
<1>2. SameShelf(s, s) /\ Lean(s, s)
  BY LeanSame DEF SameShelf, Good
<1>3. "small" \in Tiers /\ "main" \in Tiers
  BY DEF Tiers
<1>4. QED BY <1>1, <1>2, <1>3 DEF Touched

LEMMA ResolveGood ==
  ASSUME NEW acc, Good(acc.store, {}), acc.view \in Views, CachedIn(acc.store, acc.view),
         NEW l \in Layers
  PROVE  LET r == Resolve(acc, l)
         IN /\ Good(r.store, {}) /\ r.view \in Views /\ CachedIn(r.store, r.view)
            /\ Slim(acc.store) => Slim(r.store)
<1> DEFINE s == acc.store
           v == acc.view
           b == v[l].base
           i == Found(s, b)
           s2 == Touched(s, b)
           v2 == [v EXCEPT ![l].id = i, ![l].fresh = TRUE]
<1>1. CASE v[l].base = NoBase \/ (v[l].id # NoId /\ v[l].fresh)
  BY <1>1 DEF Resolve
<1>2. CASE ~(v[l].base = NoBase \/ (v[l].id # NoId /\ v[l].fresh))
  <2>1. Resolve(acc, l) = [store |-> s2, view |-> v2]
    BY <1>2 DEF Resolve
  <2>2. Good(s2, {}) /\ SameShelf(s, s2) /\ s2.page = s.page /\ Lean(s, s2)
    BY TouchedGood
  <2>2a. Slim(s) => Slim(s2)
    BY <2>2, SlimKept DEF Good
  <2>3. i \in Ids \cup {NoId} /\ (i # NoId => i \in Shelved(s) /\ s.page[i].base = b)
    BY FoundFacts
  <2>4. v \in Views /\ v[l] \in [base : Bases \cup {NoBase}, id : Ids \cup {NoId}, fresh : BOOLEAN]
    BY DEF Views
  <2>5. CachedIn(s2, v)
    BY <2>2, SameShelfCached
  <2> HIDE DEF s, v, i, s2
  <2>6. /\ v2 \in Views /\ v2[l].base = b /\ v2[l].id = i
        /\ \A k \in Layers \ {l} : v2[k] = v[k]
    BY <2>3, <2>4 DEF Views
  <2> HIDE DEF v2
  <2>7. CachedIn(s2, v2)
    <3> SUFFICES ASSUME NEW k \in Layers, v2[k].fresh, v2[k].id # NoId
                 PROVE  v2[k].id \in Shelved(s2) /\ s2.page[v2[k].id].base = v2[k].base
      BY DEF CachedIn
    <3>1. CASE k = l
      BY <2>2, <2>3, <2>6, <3>1 DEF SameShelf
    <3>2. CASE k # l
      BY <2>5, <2>6, <3>2 DEF CachedIn
    <3>3. QED BY <3>1, <3>2
  <2>8. QED BY <2>1, <2>2, <2>2a, <2>6, <2>7 DEF s
<1>3. QED BY <1>1, <1>2

LEMMA ResolveAllGood ==
  ASSUME NEW s, Good(s, {}), NEW v \in Views, CachedIn(s, v)
  PROVE  LET r == ResolveAll(s, v)
         IN /\ Good(r.store, {}) /\ r.view \in Views /\ CachedIn(r.store, r.view)
            /\ Slim(s) => Slim(r.store)
<1> DEFINE acc == [store |-> s, view |-> v]
           mid == Resolve(acc, "bg")
           r == Resolve(mid, "speaker")
<1>1. "bg" \in Layers /\ "speaker" \in Layers
  BY DEF Layers
<1>2. acc.store = s /\ acc.view = v
  OBVIOUS
<1>2a. Good(acc.store, {}) /\ acc.view \in Views /\ CachedIn(acc.store, acc.view)
  BY <1>2
<1> HIDE DEF acc
<1>3. /\ Good(mid.store, {}) /\ mid.view \in Views /\ CachedIn(mid.store, mid.view)
      /\ Slim(acc.store) => Slim(mid.store)
  BY <1>1, <1>2a, ResolveGood
<1> HIDE DEF mid
<1>4. /\ Good(r.store, {}) /\ r.view \in Views /\ CachedIn(r.store, r.view)
      /\ Slim(mid.store) => Slim(r.store)
  BY <1>1, <1>3, ResolveGood
<1>5. ResolveAll(s, v) = r
  BY DEF ResolveAll, acc, mid
<1>6. QED BY <1>2, <1>3, <1>4, <1>5

LEMMA SyncedGood ==
  ASSUME view \in Views, scene \in [Layers -> Bases], NEW s, CachedIn(s, view)
  PROVE  Synced \in Views /\ CachedIn(s, Synced)
<1>1. \A l \in Layers : Synced[l] = view[l] \/ Synced[l] = [Blank EXCEPT !.base = scene[l]]
  BY DEF Synced
<1>2. Synced = [l \in Layers |-> Synced[l]]
  BY DEF Synced
<1>3. \A l \in Layers :
        /\ [Blank EXCEPT !.base = scene[l]] \in
             [base : Bases \cup {NoBase}, id : Ids \cup {NoId}, fresh : BOOLEAN]
        /\ [Blank EXCEPT !.base = scene[l]].fresh = FALSE
  BY DEF Blank
<1>4. Synced \in Views
  BY <1>1, <1>2, <1>3 DEF Views
<1>5. CachedIn(s, Synced)
  BY <1>1, <1>3 DEF CachedIn
<1>6. QED BY <1>4, <1>5

LEMMA BecomesGood ==
  ASSUME NEW s, Good(s, {}), s.moved \/ SameShelf(store, s), view \in Views,
         CachedIn(store, view), Becomes(s)
  PROVE  /\ Good(store', {}) /\ view' \in Views /\ CachedIn(store', view')
         /\ Slim(s) => Slim(store')
<1> DEFINE r == [s EXCEPT !.moved = FALSE]
<1>1. s \in Stores /\ Whole(s, {}) /\ Once(s) /\ Drawn(s)
  BY DEF Good
<1>2. /\ r.page = s.page /\ r.lru = s.lru /\ r.over = s.over /\ r.held = s.held
      /\ r.queue = s.queue /\ r \in Stores /\ r.bytes = s.bytes
  BY <1>1 DEF Stores
<1>2a. store' = r
  BY DEF Becomes
<1> HIDE DEF r
<1>3. \A p \in Homes : Where(r, p) = Where(s, p)
  BY <1>2, UnmovedPlaces
<1>4. Whole(r, {})
  BY <1>1, <1>2, <1>3 DEF Whole
<1>5. Once(r) /\ Drawn(r) /\ Shelved(r) = Shelved(s)
  BY <1>1, <1>2 DEF Once, Drawn, Shelved, TierIds
<1>5a. Booked(r)
  BY <1>2, BookedSame
<1>6. Good(r, {})
  BY <1>2, <1>4, <1>5, <1>5a DEF Good
<1>7. view' \in Views /\ CachedIn(r, view')
  <2>1. CASE s.moved
    <3>1. view' = [l \in Layers |-> [view[l] EXCEPT !.fresh = FALSE]]
      BY <2>1 DEF Becomes
    <3>2. \A l \in Layers :
            /\ [view[l] EXCEPT !.fresh = FALSE] \in
                 [base : Bases \cup {NoBase}, id : Ids \cup {NoId}, fresh : BOOLEAN]
            /\ [view[l] EXCEPT !.fresh = FALSE].fresh = FALSE
      BY DEF Views
    <3>3. view' \in Views
      BY <3>1, <3>2 DEF Views
    <3>4. CachedIn(r, view')
      BY <3>1, <3>2 DEF CachedIn
    <3>5. QED BY <3>3, <3>4
  <2>2. CASE ~s.moved
    <3>1. view' = view /\ SameShelf(store, s)
      BY <2>2 DEF Becomes
    <3>2. SameShelf(store, r)
      BY <1>2, <1>5, <3>1 DEF SameShelf
    <3>3. QED BY <3>1, <3>2, SameShelfCached
  <2>3. QED BY <2>1, <2>2
<1>8. Slim(s) => Slim(r)
  BY <1>2 DEF Slim, Fed
<1>9. QED BY <1>2a, <1>6, <1>7, <1>8

-----------------------------------------------------------------------------
(* The steps                                                                 *)

LEMMA SameShelfSelf == \A s : SameShelf(s, s)
  BY DEF SameShelf

(* What a decode in flight stands for.                                       *)
LEMMA JobFacts ==
  ASSUME TextureTypeOK, NEW j \in Jobs, job[j] # NoJob
  PROVE  /\ job[j] \in Decode /\ job[j].base \in Bases /\ job[j].src \in Sources /\ job[j].at \in Nat
         /\ Frames(j) \in Nat /\ Frames(j) > 0
<1>1. job[j] \in Decode
  BY DEF TextureTypeOK
<1>2. job[j].base \in Bases /\ job[j].src \in Sources /\ job[j].at \in Nat
  BY <1>1 DEF Decode
<1>3. asset \in [Bases -> [kind : {"icon", "still", "clip", "stream", "refused"}, n : Nat \ {0}]]
  BY TextureConstants DEF TextureTypeOK
<1>4. asset[job[j].base].n \in Nat \ {0}
  BY <1>2, <1>3
<1>5. QED BY <1>1, <1>2, <1>4 DEF Frames

LEMMA BuiltWhole ==
  ASSUME NEW b \in Bases, NEW art \in Seq(Sources), art # <<>>, NEW a \in BOOLEAN, NEW p \in BOOLEAN
  PROVE  OwnArt(Built(b, art, a, p))
<1>1. art[1] \in Sources /\ art \in Seq(Sources \cup {Nil})
  OBVIOUS
<1>2. Built(b, art, a, p) \in Page /\ Built(b, art, a, p).art = art
  BY <1>1 DEF Built, Page
<1>3. QED BY <1>1, <1>2, TextureConstants DEF OwnArt

LEMMA ChunkGood ==
  ASSUME TextureTypeOK, Good(store, {}), NEW j \in Jobs, job[j] # NoJob, ~IsFiniteSet(Ids)
  PROVE  /\ Good(Chunk(j), {}) /\ (Chunk(j).moved \/ SameShelf(store, Chunk(j)))
         /\ Slim(store) => Slim(Chunk(j))
<1> DEFINE b == job[j].base
           src == job[j].src
           at == job[j].at
           n == Frames(j)
           whole == [k \in 1 .. n |-> src]
           Fine(r) == Good(r, {}) /\ (r = store \/ r.moved) /\ (Slim(store) => Slim(r))
<1>1. b \in Bases /\ src \in Sources /\ at \in Nat /\ n \in Nat /\ n > 0
  BY JobFacts
<1>2. OwnArt(Built(b, whole, FALSE, FALSE)) /\ OwnArt(Built(b, whole, TRUE, FALSE))
  <2> HIDE DEF n, src, b
  <2>1. whole \in Seq(Sources) /\ whole # <<>>
    BY <1>1
  <2> HIDE DEF whole
  <2>2. QED BY <1>1, <2>1, BuiltWhole
<1>3. OwnArt(Built(b, <<src>>, TRUE, TRUE))
  <2> HIDE DEF n, src, b
  <2>1. <<src>> \in Seq(Sources) /\ <<src>> # <<>>
    BY <1>1
  <2>2. QED BY <1>1, <2>1, BuiltWhole
<1>4. Fine(UploadPage(store, Built(b, whole, FALSE, FALSE)))
  BY <1>2, UploadPageGood
<1>5. Fine(IF Regresses(b) THEN store ELSE UploadPage(store, Built(b, <<src>>, TRUE, TRUE)))
  BY <1>3, UploadPageGood
<1>6. Fine(UploadPage(store, Built(b, whole, TRUE, FALSE)))
  BY <1>2, UploadPageGood
<1>7. Fine(Establish(store, Built(b, <<src>>, TRUE, TRUE)))
  BY <1>3, EstablishGood
<1>8. Fine(AppendFrame(store, b, src, at - 1))
  BY <1>1, AppendFrameGood
<1>9. Fine(Finalize(store, b))
  BY FinalizeGood
<1> HIDE DEF Fine
<1>10. Fine(Chunk(j))
  <2>1. CASE Kind(j) \in {"icon", "still"}
    <3>1. Chunk(j) = UploadPage(store, Built(b, whole, FALSE, FALSE))
      BY <2>1 DEF Chunk
    <3>2. QED BY <1>4, <3>1
  <2>2. CASE Kind(j) = "clip" /\ at = 1
    <3>1. Chunk(j) = IF Regresses(b) THEN store ELSE UploadPage(store, Built(b, <<src>>, TRUE, TRUE))
      BY <2>2 DEF Chunk
    <3>2. QED BY <1>5, <3>1
  <2>3. CASE Kind(j) \in {"clip", "refused"} /\ at = 2
    <3>1. CASE Kind(j) = "clip"
      <4>1. Chunk(j) = UploadPage(store, Built(b, whole, TRUE, FALSE))
        BY <2>3, <3>1 DEF Chunk
      <4>2. QED BY <1>6, <4>1
    <3>2. CASE Kind(j) = "refused"
      <4>1. Chunk(j) = UploadPage(store, Built(b, whole, TRUE, FALSE))
        BY <2>3, <3>2 DEF Chunk
      <4>2. QED BY <1>6, <4>1
    <3>3. QED BY <2>3, <3>1, <3>2
  <2>4. CASE Kind(j) \in {"stream", "refused"} /\ at = 1
    <3>1. Chunk(j) = Establish(store, Built(b, <<src>>, TRUE, TRUE))
      BY <2>4 DEF Chunk
    <3>2. QED BY <1>7, <3>1
  <2>5. CASE Kind(j) = "stream" /\ at \in 2 .. n
    <3>1. Chunk(j) = AppendFrame(store, b, src, at - 1)
      BY <1>1, <2>5 DEF Chunk
    <3>2. QED BY <1>8, <3>1
  <2>6. CASE ~(Kind(j) \in {"icon", "still"}) /\ ~(Kind(j) = "clip" /\ at = 1)
             /\ ~(Kind(j) \in {"clip", "refused"} /\ at = 2)
             /\ ~(Kind(j) \in {"stream", "refused"} /\ at = 1)
             /\ ~(Kind(j) = "stream" /\ at \in 2 .. n)
    <3>1. Chunk(j) = Finalize(store, b)
      BY <2>6 DEF Chunk
    <3>2. QED BY <1>9, <3>1
  <2>7. QED BY <2>1, <2>2, <2>3, <2>4, <2>5, <2>6
<1>11. QED BY <1>10, SameShelfSelf DEF Fine

(* The frame that a step leaves around the store and the layers.             *)
Rest ==
  /\ asset \in Assets
  /\ failed \subseteq Bases /\ bad \subseteq Covered /\ pack \in BOOLEAN
  /\ scene \in [Layers -> Bases]
  /\ job \in [Jobs -> Decode \cup {NoJob}] /\ Packed

LEMMA InvParts ==
  TextureInv <=> Rest /\ Good(store, {}) /\ Slim(store) /\ view \in Views /\ CachedIn(store, view)
  BY DEF TextureInv, TextureTypeOK, Rest, Views, Good, Cached, CachedIn

LEMMA RestKept ==
  ASSUME TextureInv, TextureNext PROVE Rest'
<1>1. Rest /\ TextureTypeOK
  BY InvParts DEF TextureInv
<1>2. CASE Update \/ Render \/ DrainDestroyQueue \/ Purge
  BY <1>1, <1>2 DEF Rest, Packed, Update, Render, DrainDestroyQueue, Purge
<1>3. CASE RescanLocalPacks
  BY <1>1, <1>3 DEF Rest, Packed, RescanLocalPacks
<1>4. ASSUME NEW l \in Layers, NEW b \in Bases, SetScene(l, b) PROVE Rest'
  BY <1>1, <1>4 DEF Rest, Packed, SetScene
<1>5. ASSUME NEW j \in Jobs, NEW d \in Decode \cup {NoJob}, job' = [job EXCEPT ![j] = d],
             d # NoJob /\ d.src = "pack" => d.base \in Covered
      PROVE  job' \in [Jobs -> Decode \cup {NoJob}] /\ Packed'
  <2>1. job \in [Jobs -> Decode \cup {NoJob}] /\ Packed
    BY <1>1 DEF Rest
  <2>2. \A k \in Jobs : job'[k] = IF k = j THEN d ELSE job[k]
    BY <1>5, <2>1
  <2>3. job' \in [Jobs -> Decode \cup {NoJob}]
    BY <1>5, <2>1
  <2>4. Packed'
    BY <1>5, <2>1, <2>2 DEF Packed
  <2>5. QED BY <2>3, <2>4
<1>5a. ASSUME NEW j \in Jobs, NEW b \in Bases, Demand(j, b) PROVE Rest'
  <2> DEFINE d == [base |-> b, at |-> 1, src |-> IF pack /\ b \in Covered \ bad THEN "pack" ELSE "server"]
  <2>1. d \in Decode /\ (d.src = "pack" => d.base \in Covered)
    BY DEF Decode, Sources
  <2>2. job' = [job EXCEPT ![j] = d]
    BY <1>5a DEF Demand
  <2> HIDE DEF d
  <2>3. job' \in [Jobs -> Decode \cup {NoJob}] /\ Packed'
    BY <1>5, <2>1, <2>2
  <2>4. QED BY <1>1, <1>5a, <2>3 DEF Rest, Demand
<1>6. ASSUME NEW j \in Jobs, job[j] # NoJob, NEW k \in Nat
      PROVE  /\ [job[j] EXCEPT !.at = k] \in Decode
             /\ [job[j] EXCEPT !.at = k].src = "pack" => [job[j] EXCEPT !.at = k].base \in Covered
  <2>1. job[j] \in Decode /\ (job[j].src = "pack" => job[j].base \in Covered)
    BY <1>1, <1>6, JobFacts DEF Rest, Packed
  <2>2. QED BY <1>6, <2>1 DEF Decode
<1>6a. ASSUME NEW j \in Jobs, job[j] # NoJob, NextChunk(j)
       PROVE  job' \in [Jobs -> Decode \cup {NoJob}] /\ Packed'
  <2> DEFINE more == [job[j] EXCEPT !.at = job[j].at + 1]
  <2>1. more \in Decode /\ (more.src = "pack" => more.base \in Covered)
    <3>1. job[j].at + 1 \in Nat
      BY <1>1, <1>6a, JobFacts
    <3>2. QED BY <1>6, <1>6a, <3>1
  <2>2. job' = [job EXCEPT ![j] = NoJob] \/ job' = [job EXCEPT ![j] = more]
    <3>1. CASE job[j].at = LastChunk(j)
      BY <1>6a, <3>1 DEF NextChunk
    <3>2. CASE job[j].at # LastChunk(j)
      BY <1>6a, <3>2 DEF NextChunk
    <3>3. QED BY <3>1, <3>2
  <2> HIDE DEF more
  <2>3. QED BY <1>5, <2>1, <2>2
<1>7. ASSUME NEW j \in Jobs, Deliver(j) PROVE Rest'
  <2>1. job' \in [Jobs -> Decode \cup {NoJob}] /\ Packed'
    BY <1>6a, <1>7 DEF Deliver
  <2>2. QED BY <1>1, <1>7, <2>1 DEF Rest, Deliver
<1>8. ASSUME NEW j \in Jobs, UploadFails(j) PROVE Rest'
  <2>1. job' \in [Jobs -> Decode \cup {NoJob}] /\ Packed'
    BY <1>6a, <1>8 DEF UploadFails
  <2>2. QED BY <1>1, <1>8, <2>1 DEF Rest, UploadFails
<1>9. ASSUME NEW j \in Jobs, StreamBreaks(j) PROVE Rest'
  <2> DEFINE end == [job[j] EXCEPT !.at = Frames(j) + 1]
  <2>1. job[j] # NoJob /\ job' = [job EXCEPT ![j] = end]
    <3>1. job[j] # NoJob /\ job' = [job EXCEPT ![j].at = Frames(j) + 1]
      BY <1>9 DEF StreamBreaks
    <3>2. QED BY <3>1
  <2>2. Frames(j) + 1 \in Nat
    BY <1>1, <2>1, JobFacts
  <2>3. end \in Decode /\ (end.src = "pack" => end.base \in Covered)
    BY <1>6, <2>1, <2>2
  <2> HIDE DEF end
  <2>4. job' \in [Jobs -> Decode \cup {NoJob}] /\ Packed'
    BY <1>5, <2>1, <2>3
  <2>5. QED BY <1>1, <1>9, <2>4 DEF Rest, StreamBreaks
<1>10. ASSUME NEW j \in Jobs, DecodeFails(j) PROVE Rest'
  <2>1. job[j] # NoJob /\ job' = [job EXCEPT ![j] = NoJob]
    BY <1>10 DEF DecodeFails
  <2>2. job' \in [Jobs -> Decode \cup {NoJob}] /\ Packed'
    BY <1>5, <2>1
  <2>3. job[j].base \in Bases /\ (job[j].src = "pack" => job[j].base \in Covered)
    BY <1>1, <2>1, JobFacts DEF Rest, Packed
  <2>4. failed' \subseteq Bases /\ bad' \subseteq Covered
    BY <1>1, <1>10, <2>3 DEF Rest, DecodeFails
  <2>5. QED BY <1>1, <1>10, <2>2, <2>4 DEF Rest, DecodeFails
<1>11. ASSUME NEW b \in Bases, FailureExpires(b) PROVE Rest'
  BY <1>1, <1>11 DEF Rest, Packed, FailureExpires
<1>12. QED BY <1>2, <1>3, <1>4, <1>5a, <1>7, <1>8, <1>9, <1>10, <1>11 DEF TextureNext

(* The store and the layers stay good.                                       *)
Fit == Good(store, {}) /\ Slim(store) /\ view \in Views /\ CachedIn(store, view)

LEMMA FitKept ==
  ASSUME TextureInv, TextureNext, ~IsFiniteSet(Ids) PROVE Fit'
<1>1. Good(store, {}) /\ Slim(store) /\ view \in Views /\ CachedIn(store, view) /\ TextureTypeOK
  BY InvParts DEF TextureInv
<1>2. ASSUME NEW s, Good(s, {}), Slim(s), s.moved \/ SameShelf(store, s), Becomes(s) PROVE Fit'
  BY <1>1, <1>2, BecomesGood DEF Fit
<1>3. CASE Update
  <2> DEFINE s == IF scene["speaker"] = view["speaker"].base THEN store
                  ELSE ReduceAnimatedExcept(store, {scene["speaker"]})
             done == ResolveAll(s, Synced)
  <2>0. Lean(store, store)
    BY <1>1, LeanSame DEF Good
  <2>1. Good(s, {}) /\ SameShelf(store, s) /\ Lean(store, s)
    BY <1>1, <2>0, ReduceGood, SameShelfSelf DEF SameShelf
  <2>2. store' = done.store /\ view' = done.view
    BY <1>3 DEF Update
  <2> HIDE DEF s
  <2>2a. Slim(s)
    BY <1>1, <2>1, SlimKept DEF Good
  <2>3. CachedIn(s, view)
    BY <1>1, <2>1, SameShelfCached
  <2>4. Synced \in Views /\ CachedIn(s, Synced)
    BY <1>1, <2>3, SyncedGood DEF TextureTypeOK
  <2>5. /\ Good(done.store, {}) /\ done.view \in Views /\ CachedIn(done.store, done.view)
        /\ Slim(done.store)
    BY <2>1, <2>2a, <2>4, ResolveAllGood
  <2>6. QED BY <2>2, <2>5 DEF Fit
<1>4. CASE Render
  <2> DEFINE done == ResolveAll(store, view)
  <2>1. store' = done.store /\ view' = done.view
    BY <1>4 DEF Render
  <2>2. /\ Good(done.store, {}) /\ done.view \in Views /\ CachedIn(done.store, done.view)
        /\ Slim(done.store)
    BY <1>1, ResolveAllGood
  <2>3. QED BY <2>1, <2>2 DEF Fit
<1>5. CASE DrainDestroyQueue
  <2>1. Good(Drained(store), {}) /\ SameShelf(store, Drained(store)) /\ Even(store, Drained(store))
    BY <1>1, DrainedGood DEF SameShelf
  <2>2. Slim(Drained(store))
    BY <1>1, <2>1, EvenKept
  <2>3. QED BY <1>2, <1>5, <2>1, <2>2 DEF DrainDestroyQueue
<1>6. CASE Purge
  <2>1. Good(Purged(store), {}) /\ Purged(store).moved /\ Slim(Purged(store))
    BY <1>1, PurgedGood DEF Good
  <2>2. QED BY <1>2, <1>6, <2>1 DEF Purge
<1>7. CASE RescanLocalPacks
  <2>1. /\ Good(RemoveWhere(store, Covered), {})
        /\ RemoveWhere(store, Covered).moved \/ SameShelf(store, RemoveWhere(store, Covered))
        /\ Lean(store, RemoveWhere(store, Covered))
    BY <1>1, RemoveWhereGood, SameShelfSelf
  <2>2. Slim(RemoveWhere(store, Covered))
    BY <1>1, <2>1, SlimKept DEF Good
  <2>3. QED BY <1>2, <1>7, <2>1, <2>2 DEF RescanLocalPacks
<1>8. ASSUME NEW j \in Jobs, Deliver(j) PROVE Fit'
  <2>1. job[j] # NoJob /\ Becomes(Chunk(j))
    BY <1>8 DEF Deliver
  <2>2. /\ Good(Chunk(j), {}) /\ (Chunk(j).moved \/ SameShelf(store, Chunk(j)))
        /\ Slim(Chunk(j))
    BY <1>1, <2>1, ChunkGood
  <2>3. QED BY <1>2, <2>1, <2>2
<1>9. ASSUME NEW j \in Jobs, UploadFails(j) PROVE Fit'
  <2> DEFINE s == IF Kind(j) = "icon" /\ Frames(j) <= SmallBudget
                  THEN Drop(store, "main", job[j].base) ELSE store
  <2>1. Becomes(s)
    BY <1>9 DEF UploadFails
  <2>2. /\ Good(Drop(store, "main", job[j].base), {})
        /\ \/ Drop(store, "main", job[j].base) = store
           \/ Drop(store, "main", job[j].base).moved
        /\ Lean(store, Drop(store, "main", job[j].base))
    BY <1>1, DropGood DEF Tiers
  <2>2a. Slim(Drop(store, "main", job[j].base))
    BY <1>1, <2>2, SlimKept DEF Good
  <2>3. Good(s, {}) /\ Slim(s) /\ (s = store \/ s.moved)
    BY <1>1, <2>2, <2>2a
  <2> HIDE DEF s
  <2>4. s.moved \/ SameShelf(store, s)
    BY <2>3, SameShelfSelf
  <2>5. QED BY <1>2, <2>1, <2>3, <2>4
<1>10. ASSUME NEW j \in Jobs, DecodeFails(j) PROVE Fit'
  <2>1. CASE store' = store /\ view' = view
    BY <1>1, <2>1 DEF Fit
  <2>2. CASE Becomes(RemoveBase(store, job[j].base))
    <3>1. /\ Good(RemoveBase(store, job[j].base), {})
          /\ \/ RemoveBase(store, job[j].base).moved
             \/ SameShelf(store, RemoveBase(store, job[j].base))
          /\ Lean(store, RemoveBase(store, job[j].base))
      BY <1>1, RemoveBaseGood, SameShelfSelf
    <3>2. Slim(RemoveBase(store, job[j].base))
      BY <1>1, <3>1, SlimKept DEF Good
    <3>3. QED BY <1>2, <2>2, <3>1, <3>2
  <2>3. QED BY <1>10, <2>1, <2>2 DEF DecodeFails
<1>11. CASE UNCHANGED <<store, view>>
  BY <1>1, <1>11 DEF Fit
<1>12. ASSUME NEW l \in Layers, NEW b \in Bases, SetScene(l, b) PROVE Fit'
  BY <1>11, <1>12 DEF SetScene
<1>13. ASSUME NEW j \in Jobs, NEW b \in Bases, Demand(j, b) PROVE Fit'
  BY <1>11, <1>13 DEF Demand
<1>14. ASSUME NEW j \in Jobs, StreamBreaks(j) PROVE Fit'
  BY <1>11, <1>14 DEF StreamBreaks
<1>15. ASSUME NEW b \in Bases, FailureExpires(b) PROVE Fit'
  BY <1>11, <1>15 DEF FailureExpires
<1>16. QED BY <1>3, <1>4, <1>5, <1>6, <1>7, <1>8, <1>9, <1>10, <1>12, <1>13, <1>14,
   <1>15 DEF TextureNext

LEMMA TextureInvHolds == ASSUME ~IsFiniteSet(Ids) PROVE TextureSpec => []TextureInv
<1>1. TextureInit => TextureInv
  <2> SUFFICES ASSUME TextureInit PROVE TextureInv
    OBVIOUS
  <2>1. store \in Stores
    <3>1. 0 \in 0 .. HeldMax - 1 /\ <<>> \in Seq(Ids) /\ <<>> \in Seq(Entry)
      BY TextureConstants
    <3>2. QED BY <3>1 DEF TextureInit, Stores
  <2>2. Good(store, {})
    BY <2>1, EmptyGood DEF TextureInit
  <2>2a. Slim(store)
    BY EmptySlim DEF TextureInit
  <2>3. view \in Views /\ CachedIn(store, view)
    BY DEF TextureInit, Views, CachedIn, Blank
  <2>4. Rest
    BY TextureConstants DEF TextureInit, Rest, Packed
  <2>5. QED BY <2>2, <2>2a, <2>3, <2>4, InvParts
<1>2. TextureInv /\ [TextureNext]_textureVars => TextureInv'
  <2> SUFFICES ASSUME TextureInv, [TextureNext]_textureVars PROVE TextureInv'
    OBVIOUS
  <2>1. CASE TextureNext
    <3>1. Rest' /\ Fit'
      BY <2>1, RestKept, FitKept
    <3>2. TextureInv' <=>
            (Rest /\ Good(store, {}) /\ Slim(store) /\ view \in Views /\ CachedIn(store, view))'
      BY InvParts, PTL
    <3>3. QED BY <3>1, <3>2 DEF Fit
  <2>2. CASE UNCHANGED textureVars
    BY <2>2 DEF textureVars, TextureInv, TextureTypeOK, Good, Cached, Packed, Slim, Fed, Whole, Once, Drawn,
                Where, TierIds, Bridged, Shelved
  <2>3. QED BY <2>1, <2>2
<1>3. QED BY <1>1, <1>2, PTL DEF TextureSpec

(* Every variable keeps its type: what is queued fits the queue, what a    *)
(* layer holds is a page identity, and a pack's decode stays a decode.     *)
THEOREM TextureTypeCorrect == ASSUME ~IsFiniteSet(Ids) PROVE TextureSpec => []TextureTypeOK
<1>1. TextureInv => TextureTypeOK
  BY DEF TextureInv
<1>2. QED BY <1>1, TextureInvHolds, PTL

(* No layer ever draws through a cached pointer to a page that lost its    *)
(* textures: every eviction, steal, reduction, purge or inline destruction *)
(* (textures.go) moved the generation the layer compares (viewport.go).    *)
THEOREM NoPointerDangles == ASSUME ~IsFiniteSet(Ids) PROVE TextureSpec => []NoDangling
<1>1. TextureInv => NoDangling
  <2> SUFFICES ASSUME TextureInv, NEW l \in Layers, view[l].fresh, view[l].id # NoId
               PROVE  /\ view[l].id \in Alive \ ToSet(store.queue)
                      /\ store.page[view[l].id].art # <<>> /\ store.page[view[l].id].art[1] # Nil
                      /\ store.page[view[l].id].base = view[l].base
    BY DEF NoDangling
  <2> DEFINE i == view[l].id
  <2>1. i \in Shelved(store) /\ store.page[i].base = view[l].base
    BY DEF TextureInv, Cached
  <2>2. i \in Ids
    BY DEF TextureInv, TextureTypeOK
  <2> HIDE DEF i
  <2>3. Whole(store, {}) /\ Drawn(store)
    BY DEF TextureInv, Good
  <2>4. store.page[i].art # <<>> /\ store.page[i].art[1] # Nil
    BY <2>1, <2>3 DEF Drawn
  <2>5. PICK p \in {"main", "small", "over"} : i \in Where(store, p)
    BY <2>1 DEF Shelved, Where, Tiers
  <2>6. p \in Homes /\ "queue" \in Homes /\ p # "queue"
    BY DEF Homes
  <2>7. store.page[i] # NoPage /\ i \notin Where(store, "queue")
    BY <2>2, <2>3, <2>5, <2>6 DEF Whole
  <2>8. i \in Alive \ ToSet(store.queue)
    BY <2>2, <2>7 DEF Alive, Where, Tiers
  <2>9. QED BY <2>1, <2>4, <2>8 DEF i
<1>2. QED BY <1>1, TextureInvHolds, PTL

(* Texture memory is neither leaked nor freed twice, however often a page  *)
(* is evicted, stolen from, replaced, dropped or drained (textures.go): a  *)
(* page with textures is in one tier, in the bridge or once in the queue.  *)
THEOREM PagesHaveOnePlace == ASSUME ~IsFiniteSet(Ids) PROVE TextureSpec => []OnePlace
<1>1. TextureInv => OnePlace
  <2> SUFFICES ASSUME TextureInv, NEW i \in Ids
               PROVE  LET places == <<i \in InLru("main"), i \in InLru("small"),
                                      i \in ToSet(store.over), i \in InHeld, i \in ToSet(store.queue)>>
                      IN /\ Cardinality({k \in 1 .. 5 : places[k]}) = IF i \in Alive THEN 1 ELSE 0
                         /\ Cardinality({k \in DOMAIN store.queue : store.queue[k] = i}) <= 1
    BY DEF OnePlace
  <2> DEFINE places == <<i \in InLru("main"), i \in InLru("small"),
                         i \in ToSet(store.over), i \in InHeld, i \in ToSet(store.queue)>>
             K == {k \in 1 .. 5 : places[k]}
             Q == {k \in DOMAIN store.queue : store.queue[k] = i}
  <2>1. Whole(store, {}) /\ Once(store) /\ store \in Stores
    BY DEF TextureInv, Good
  <2>2. /\ places[1] = (i \in Where(store, "main")) /\ places[2] = (i \in Where(store, "small"))
        /\ places[3] = (i \in Where(store, "over")) /\ places[4] = (i \in Where(store, "held"))
        /\ places[5] = (i \in Where(store, "queue"))
    BY DEF Where, Tiers, InLru, InHeld, Bridged
  <2> HIDE DEF places
  <2> DEFINE name == <<"main", "small", "over", "held", "queue">>
  <2>3. /\ \A k \in 1 .. 5 : name[k] \in Homes /\ places[k] = (i \in Where(store, name[k]))
        /\ \A p \in Homes : \E k \in 1 .. 5 : name[k] = p
        /\ \A k, m \in 1 .. 5 : name[k] = name[m] => k = m
    <3>1. \A k \in 1 .. 5 : k = 1 \/ k = 2 \/ k = 3 \/ k = 4 \/ k = 5
      OBVIOUS
    <3>2. \A k \in 1 .. 5 : name[k] \in Homes
      BY <3>1 DEF Homes
    <3>3. \A k \in 1 .. 5 : places[k] = (i \in Where(store, name[k]))
      BY <2>2, <3>1
    <3>4. \A p \in Homes : \E k \in 1 .. 5 : name[k] = p
      <4>1. /\ 1 \in 1 .. 5 /\ 2 \in 1 .. 5 /\ 3 \in 1 .. 5 /\ 4 \in 1 .. 5 /\ 5 \in 1 .. 5
            /\ name[1] = "main" /\ name[2] = "small" /\ name[3] = "over" /\ name[4] = "held"
            /\ name[5] = "queue"
        OBVIOUS
      <4>2. QED BY <4>1 DEF Homes
    <3>5. \A k, m \in 1 .. 5 : name[k] = name[m] => k = m
      BY <3>1
    <3>6. QED BY <3>2, <3>3, <3>4, <3>5
  <2> HIDE DEF name
  <2>4. \A k, m \in K : k = m
    BY <2>1, <2>3 DEF Whole
  <2>5. i \in Alive <=> K # {}
    <3>1. i \in Alive <=> \E p \in Homes : i \in Where(store, p)
      BY <2>1 DEF Whole, Alive
    <3>2. QED BY <2>3, <3>1
  <2>6. Cardinality(K) = IF i \in Alive THEN 1 ELSE 0
    <3>1. CASE K = {}
      BY <2>5, <3>1, FS_EmptySet
    <3>2. CASE K # {}
      <4>1. PICK k \in K : TRUE
        BY <3>2
      <4>2. K = {k}
        BY <2>4, <4>1
      <4>3. QED BY <2>5, <3>2, <4>2, FS_Singleton
    <3>3. QED BY <3>1, <3>2
  <2>7. \A k, m \in Q : k = m
    BY <2>1 DEF Once, IsInjective
  <2>8. Cardinality(Q) <= 1
    <3>1. CASE Q = {}
      BY <3>1, FS_EmptySet
    <3>2. CASE Q # {}
      <4>1. PICK k \in Q : TRUE
        BY <3>2
      <4>2. Q = {k}
        BY <2>7, <4>1
      <4>3. Cardinality(Q) = 1
        BY <4>2, FS_Singleton
      <4>4. QED BY <4>3
    <3>3. QED BY <3>1, <3>2
  <2>9. QED BY <2>6, <2>8 DEF places
<1>2. QED BY <1>1, TextureInvHolds, PTL

(* The counters the evictions of textures.go go by are exact: they are the *)
(* weights of what is resident after every reduction, growing stream,      *)
(* replacement and steal; the tiers stay within their budgets, and only a  *)
(* page that is alone in the oversized map may be over its cap.            *)
THEOREM CountersAreTrue == ASSUME ~IsFiniteSet(Ids) PROVE TextureSpec => []BytesAreTrue
<1>1. TextureInv => BytesAreTrue
  <2> SUFFICES ASSUME TextureInv PROVE BytesAreTrue
    OBVIOUS
  <2>1. Good(store, {}) /\ Slim(store) /\ store \in Stores
    BY DEF TextureInv, Good
  <2>2. \A p \in Counted : store.bytes[p] = Mass(store, Where(store, p))
    BY <2>1 DEF Good, Booked, Paid
  <2>3. /\ \A t \in Tiers : t \in Counted /\ Where(store, t) = InLru(t)
        /\ "over" \in Counted /\ Where(store, "over") = ToSet(store.over)
        /\ "held" \in Counted /\ Where(store, "held") = InHeld
    BY WherePlaces DEF Counted, Homes, Tiers, InLru, InHeld, Bridged
  <2>4. \A t \in Tiers : store.bytes[t] <= Budget(t)
    BY <2>1 DEF Slim, Fed
  <2>5. store.bytes["over"] <= OverCap \/ Len(store.over) = 1
    <3>1. store.over \in Seq(Ids) /\ OverCap \in Nat
      BY <2>1, StoreFields, TextureConstants
    <3>2. CASE store.over = <<>>
      <4>1. ToSet(store.over) = {}
        BY <3>2 DEF ToSet
      <4>2. store.bytes["over"] = 0
        BY <2>2, <2>3, <4>1, MassOfNone
      <4>3. QED BY <3>1, <4>2
    <3>3. CASE store.over # <<>>
      <4>1. Len(store.over) \in Nat /\ Len(store.over) # 0
        BY <3>1, <3>3
      <4>2. store.bytes["over"] <= OverCap \/ Len(store.over) <= 1
        BY <2>1 DEF Slim
      <4>3. Len(store.over) <= 1 => Len(store.over) = 1
        <5>1. \A n \in Nat : n # 0 /\ n <= 1 => n = 1
          OBVIOUS
        <5>2. QED BY <4>1, <5>1
      <4>4. QED BY <4>2, <4>3
    <3>4. QED BY <3>2, <3>3
  <2>6. QED BY <2>2, <2>3, <2>4, <2>5 DEF BytesAreTrue
<1>2. QED BY <1>1, TextureInvHolds, PTL

=============================================================================
