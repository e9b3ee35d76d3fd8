---------------------------- MODULE DiskCacheProofs ----------------------------
(***************************************************************************)
(* Proofs about DiskCache, for any keys, sizes, callers, budgets and bounds *)
(* on what happens: it implements BlobStore, and Close leaves nothing it   *)
(* owed behind; both rest on what the goroutines share: the operations in  *)
(* a caller's hands, in the queue, and with the writer. Then the budget:   *)
(* what a sweep has counted bounds what is there while others delete.      *)
(***************************************************************************)
EXTENDS DiskCache, FiniteSetTheorems, TLAPS

Busy == writer.pc \in {"write", "publish"}

(* How far Close and the writer have come, each seen by the other. *)
Closing ==
  /\ stopped <=> closer # "no"
  /\ stop <=> closer \in {"waiting", "returned"}
  /\ writer.draining \/ writer.pc \in {"drain", "gone"} => stop
  /\ closer = "returned" => writer.pc = "gone"

Stores == writer.pc = "publish" => writer.op.del = FALSE

(* Operations are numbered as they are called ... *)
Numbered ==
  /\ \A c \in Callers : caller[c].n <= ops
  /\ \A k \in DOMAIN queue : queue[k].n <= ops
  /\ Busy => writer.op.n <= ops
  /\ \A o \in owed : o \in Op /\ o.n <= ops

(* ... so the one in a caller's hands is nowhere else, and is not owed. *)
Apart ==
  \A c \in Callers : caller[c] # Idle =>
    /\ \A d \in Callers : d # c => caller[d] # caller[c]
    /\ \A k \in DOMAIN queue : queue[k] # caller[c]
    /\ Busy => writer.op # caller[c]
    /\ caller[c] \notin owed

(* What reaches the queue after the writer has left came too late for Close. *)
Drained == writer.pc = "gone" => \A k \in DOMAIN queue : queue[k] \notin owed

Shape == Blobs /\ Control /\ Tasks
DiskInv == Shape /\ Stores /\ Closing /\ Numbered /\ Apart /\ Drained

-----------------------------------------------------------------------------
(* Sequences and bounds *)

LEMMA Constants ==
  /\ MaxOps \in Nat /\ QueueCap \in Nat /\ QueueCap > 0 /\ PruneEvery \in Nat /\ PruneEvery > 0
  /\ NoBlob \notin Nat /\ Torn \notin Nat /\ Damaged \notin Nat /\ NoKey \notin Keys
  /\ NoBlob # Torn /\ NoBlob # Damaged /\ Torn # Damaged
<1>1. MaxOps \in Nat /\ QueueCap \in Nat \ {0} /\ PruneEvery \in Nat \ {0}
  BY DiskAssumption
<1>2. QED BY <1>1, DiskAssumption

LEMMA Ops ==
  /\ Idle \notin Op /\ Idle.n = 0
  /\ \A o \in Op : /\ o.key \in Keys /\ o.n \in Nat /\ o.n > 0 /\ o.n \in 1 .. MaxOps
                   /\ o.del \in BOOLEAN
  BY Constants DEF Idle, Op

LEMMA AppendFacts ==
  ASSUME NEW S, NEW q \in Seq(S), NEW x \in S
  PROVE  /\ Append(q, x) \in Seq(S) /\ Len(Append(q, x)) = Len(q) + 1 /\ Len(q) \in Nat
         /\ \A k \in DOMAIN Append(q, x) :
              (k \in DOMAIN q /\ Append(q, x)[k] = q[k]) \/ Append(q, x)[k] = x
  OBVIOUS

LEMMA TailFacts ==
  ASSUME NEW S, NEW q \in Seq(S), q # <<>>
  PROVE  /\ Tail(q) \in Seq(S) /\ Len(Tail(q)) = Len(q) - 1 /\ Len(q) \in Nat
         /\ Head(q) \in S /\ \E j \in DOMAIN q : Head(q) = q[j]
         /\ \A k \in DOMAIN Tail(q) : \E j \in DOMAIN q : Tail(q)[k] = q[j]
<1>1. Tail(q) \in Seq(S) /\ Len(Tail(q)) = Len(q) - 1 /\ Len(q) \in Nat /\ Len(q) > 0
  OBVIOUS
<1>2. Head(q) = q[1] /\ 1 \in DOMAIN q /\ q[1] \in S
  BY <1>1
<1>3. ASSUME NEW k \in DOMAIN Tail(q) PROVE Tail(q)[k] = q[k + 1] /\ k + 1 \in DOMAIN q
  BY <1>1
<1>4. QED BY <1>1, <1>2, <1>3

LEMMA EmptyFacts == ASSUME NEW S PROVE <<>> \in Seq(S) /\ Len(<<>>) = 0 /\ DOMAIN <<>> = {}
  OBVIOUS

(* Close owes what the writer holds and what is queued. *)
LEMMA OwedFacts ==
  ASSUME queue \in Seq(Op), writer.op \in Op \/ ~Busy
  PROVE  ToSet(InFlight \o queue) =
           {queue[k] : k \in DOMAIN queue} \cup (IF Busy THEN {writer.op} ELSE {})
<1>1. CASE Busy
  <2>1. InFlight \o queue = <<writer.op>> \o queue
    BY <1>1 DEF InFlight, Busy
  <2>2. /\ Len(<<writer.op>> \o queue) = 1 + Len(queue) /\ Len(queue) \in Nat
        /\ (<<writer.op>> \o queue)[1] = writer.op
        /\ \A k \in 1 .. Len(queue) : (<<writer.op>> \o queue)[k + 1] = queue[k]
        /\ DOMAIN queue = 1 .. Len(queue)
        /\ DOMAIN (<<writer.op>> \o queue) = 1 .. 1 + Len(queue)
    BY <1>1
  <2> DEFINE both == <<writer.op>> \o queue
  <2> HIDE DEF both
  <2>3. /\ DOMAIN both = 1 .. 1 + Len(queue) /\ both[1] = writer.op
        /\ \A k \in 1 .. Len(queue) : both[k + 1] = queue[k]
    BY <2>2 DEF both
  <2>4. \A x : (\E k \in DOMAIN both : both[k] = x)
                 <=> x = writer.op \/ \E k \in DOMAIN queue : queue[k] = x
    <3> TAKE x
    <3>1. ASSUME NEW k \in DOMAIN both PROVE both[k] = writer.op \/ \E j \in DOMAIN queue : queue[j] = both[k]
      <4>1. CASE k = 1
        BY <2>3, <4>1
      <4>2. CASE k # 1
        <5>1. k - 1 \in 1 .. Len(queue) /\ (k - 1) + 1 = k
          BY <2>2, <2>3, <4>2
        <5>2. both[k] = queue[k - 1]
          BY <2>3, <5>1
        <5>3. QED BY <2>2, <5>1, <5>2
      <4>3. QED BY <4>1, <4>2
    <3>2. ASSUME NEW j \in DOMAIN queue PROVE j + 1 \in DOMAIN both /\ both[j + 1] = queue[j]
      BY <2>2, <2>3
    <3>3. 1 \in DOMAIN both
      BY <2>2, <2>3
    <3>4. QED BY <2>3, <3>1, <3>2, <3>3
  <2>5. ToSet(both) = {queue[k] : k \in DOMAIN queue} \cup {writer.op}
    BY <2>4 DEF ToSet
  <2>6. QED BY <1>1, <2>1, <2>5 DEF both
<1>2. CASE ~Busy
  <2>1. InFlight \o queue = queue
    BY <1>2 DEF InFlight, Busy
  <2>2. QED BY <1>2, <2>1 DEF ToSet
<1>3. QED BY <1>1, <1>2

LEMMA CallFacts ==
  ASSUME Tasks, NEW c \in Callers, NEW k \in Keys, NEW del \in BOOLEAN, Call(c, k, del)
  PROVE  /\ caller'[c] \in Op /\ caller'[c].n = ops + 1 /\ ops' = ops + 1 /\ ops' \in 0 .. MaxOps
         /\ ops \in Nat /\ \A d \in Callers : d # c => caller'[d] = caller[d]
         /\ caller' \in [Callers -> Op \cup {Idle}] /\ UNCHANGED <<queue, writer, owed>>
<1> DEFINE o == [key |-> k, n |-> ops + 1, del |-> del]
<1>1. ops \in Nat /\ ops + 1 \in 1 .. MaxOps /\ ops' = ops + 1
  BY Constants DEF Tasks, Call
<1>2. o \in Op /\ o.n = ops + 1
  BY <1>1 DEF Op
<1>3. caller'[c] = o /\ \A d \in Callers : d # c => caller'[d] = caller[d]
  BY DEF Call, Tasks
<1>4. UNCHANGED <<queue, writer, owed>>
  BY DEF Call
<1>5. caller' = [caller EXCEPT ![c] = o]
  BY DEF Call
<1> HIDE DEF o
<1>6. caller' \in [Callers -> Op \cup {Idle}]
  BY <1>2, <1>5 DEF Tasks
<1>7. QED BY <1>1, <1>2, <1>3, <1>4, <1>6, Constants

(* Where the writer goes from an operation. *)
LEMMA LoopFacts ==
  ASSUME Tasks
  PROVE  /\ DOMAIN Loop = DOMAIN AtSelect /\ Loop.draining \in BOOLEAN
         /\ Loop.draining = TRUE <=> writer.draining = TRUE
         /\ Loop.pc = IF writer.draining = TRUE THEN "drain" ELSE "select"
<1>1. CASE writer.draining = TRUE
  <2>1. Loop = [AtSelect EXCEPT !.pc = "drain", !.draining = TRUE]
    BY <1>1 DEF Loop
  <2>2. QED BY <1>1, <2>1 DEF AtSelect
<1>2. CASE writer.draining = FALSE
  <2>1. Loop = AtSelect
    BY <1>2 DEF Loop
  <2>2. QED BY <1>2, <2>1 DEF AtSelect
<1>3. QED BY <1>1, <1>2 DEF Tasks

LEMMA SweepingFacts ==
  /\ DOMAIN Sweeping = DOMAIN AtSelect /\ Sweeping.draining = FALSE /\ Sweeping.pc = "sweep"
  BY DEF Sweeping, AtSelect

LEMMA PublishFacts ==
  ASSUME Tasks, Publish
  PROVE  /\ DOMAIN writer' = DOMAIN AtSelect /\ writer'.draining \in BOOLEAN /\ writer.pc = "publish"
         /\ writer'.draining = TRUE <=> writer.draining = TRUE
         /\ writer'.pc \in {"drain", "select", "sweep"} /\ (writer'.pc = "drain" => writer.draining = TRUE)
         /\ UNCHANGED <<queue, caller, owed, ops, stopped, stop, closer>>
<1>1. CASE writer' = Loop
  BY <1>1, LoopFacts DEF Publish, Rest, control, bounds
<1>2. CASE writer' = Sweeping /\ writer.draining = FALSE
  BY <1>2, SweepingFacts DEF Publish, Rest, control, bounds
<1>3. QED BY <1>1, <1>2 DEF Publish, Stored, Tasks

LEMMA WriteTempFacts ==
  ASSUME Tasks, WriteTemp
  PROVE  /\ DOMAIN writer' = DOMAIN AtSelect /\ writer'.draining \in BOOLEAN
         /\ writer'.draining = TRUE <=> writer.draining = TRUE
         /\ writer'.pc \in {"drain", "select", "publish"} /\ (writer'.pc = "drain" => writer.draining = TRUE)
         /\ writer'.pc = "publish" => writer'.op = writer.op
         /\ writer.pc = "write" /\ writer.op \in Op
         /\ UNCHANGED <<queue, caller, owed, ops, stopped, stop, closer>>
<1>1. CASE writer' = [writer EXCEPT !.pc = "publish"]
  BY <1>1 DEF Tasks, WriteTemp, AtSelect, Rest, control, bounds
<1>2. CASE writer' = Loop
  BY <1>2, LoopFacts DEF Tasks, WriteTemp, Rest, control, bounds
<1>3. QED BY <1>1, <1>2 DEF WriteTemp

-----------------------------------------------------------------------------
(* What the steps keep *)

LEMMA BlobsKept == Blobs /\ Tasks /\ [Next]_vars => Blobs'
<1> SUFFICES ASSUME Blobs, Tasks, [Next]_vars PROVE Blobs'
  OBVIOUS
<1> USE DEF Blobs, Tasks, files, control, bounds, Rest, RestButWake, Vanish, AtSelect
<1>1. ASSUME NEW c \in Callers, Enqueue(c) PROVE Blobs'
  BY <1>1, Constants, Ops DEF Enqueue
<1>2. ASSUME NEW c \in Callers, NEW k \in Keys, NEW del \in BOOLEAN, Call(c, k, del) PROVE Blobs'
  BY <1>2, Constants, Ops DEF Call
<1>3. ASSUME NEW k \in Keys, GetTorn(k) \/ GetDrops(k) \/ ClearShard(k) PROVE Blobs'
  BY <1>3, Constants, Ops DEF GetTorn, GetDrops, ClearShard
<1>4. ASSUME NEW b \in Budgets, StoreBudget(b) PROVE Blobs'
  BY <1>4, Constants, Ops DEF StoreBudget, MoveSlider
<1>5. CASE SendWake \/ ClearList
  BY <1>5, Constants, Ops DEF SendWake, ClearList
<1>6. CASE CloseStores
  BY <1>6, Constants, Ops DEF CloseStores
<1>7. CASE CloseSignals
  BY <1>7, Constants, Ops DEF CloseSignals
<1>8. CASE CloseReturns
  BY <1>8, Constants, Ops DEF CloseReturns
<1>9. CASE TakeWake
  BY <1>9, Constants, Ops DEF TakeWake, Sweeping
<1>10. CASE Take
  BY <1>10, Constants, Ops DEF Take
<1>11. CASE TakeStop
  BY <1>11, Constants, Ops DEF TakeStop
<1>12. CASE Leave
  BY <1>12, Constants, Ops DEF Leave
<1>13. CASE DeleteBlob
  BY <1>13, Constants, Ops DEF DeleteBlob, Loop
<1>14. CASE WriteTemp
  BY <1>14, Constants, Ops DEF WriteTemp, Loop
<1>15. CASE Publish
  BY <1>15, Constants, Ops DEF Publish, Stored, Loop, Sweeping
<1>16. CASE Walk
  BY <1>16, Constants, Ops DEF Walk
<1>17. CASE Evict
  BY <1>17, Constants, Ops DEF Evict
<1>18. CASE Swept
  BY <1>18, Constants, Ops DEF Swept
<1>19. CASE Crash
  BY <1>19, Constants, Ops DEF Crash, Sweeping
<1>20. CASE UNCHANGED vars
  BY <1>20, Constants, Ops DEF vars
<1>21. QED
  BY <1>1, <1>2, <1>3, <1>4, <1>5, <1>6, <1>7, <1>8, <1>9, <1>10, <1>11, <1>12,
     <1>13, <1>14, <1>15, <1>16, <1>17, <1>18, <1>19, <1>20
     DEF Next, Write, Exited

LEMMA ControlKept == Control /\ [Next]_vars => Control'
<1> SUFFICES ASSUME Control, [Next]_vars PROVE Control'
  OBVIOUS
<1> USE DEF Control, files, control, bounds, Rest, RestButWake, Vanish, AtSelect
<1>1. ASSUME NEW c \in Callers, Enqueue(c) PROVE Control'
  BY <1>1 DEF Enqueue
<1>2. ASSUME NEW c \in Callers, NEW k \in Keys, NEW del \in BOOLEAN, Call(c, k, del) PROVE Control'
  BY <1>2 DEF Call
<1>3. ASSUME NEW k \in Keys, GetTorn(k) \/ GetDrops(k) \/ ClearShard(k) PROVE Control'
  BY <1>3 DEF GetTorn, GetDrops, ClearShard
<1>4. ASSUME NEW b \in Budgets, StoreBudget(b) PROVE Control'
  BY <1>4 DEF StoreBudget, MoveSlider
<1>5. CASE SendWake \/ ClearList
  BY <1>5 DEF SendWake, ClearList
<1>6. CASE CloseStores
  BY <1>6 DEF CloseStores
<1>7. CASE CloseSignals
  BY <1>7 DEF CloseSignals
<1>8. CASE CloseReturns
  BY <1>8 DEF CloseReturns
<1>9. CASE TakeWake
  BY <1>9 DEF TakeWake, Sweeping
<1>10. CASE Take
  BY <1>10 DEF Take
<1>11. CASE TakeStop
  BY <1>11 DEF TakeStop
<1>12. CASE Leave
  BY <1>12 DEF Leave
<1>13. CASE DeleteBlob
  BY <1>13 DEF DeleteBlob, Loop
<1>14. CASE WriteTemp
  BY <1>14 DEF WriteTemp, Loop
<1>15. CASE Publish
  BY <1>15 DEF Publish, Stored, Loop, Sweeping
<1>16. CASE Walk
  BY <1>16 DEF Walk
<1>17. CASE Evict
  BY <1>17 DEF Evict
<1>18. CASE Swept
  BY <1>18 DEF Swept
<1>19. CASE Crash
  BY <1>19 DEF Crash, Sweeping
<1>20. CASE UNCHANGED vars
  BY <1>20 DEF vars
<1>21. QED
  BY <1>1, <1>2, <1>3, <1>4, <1>5, <1>6, <1>7, <1>8, <1>9, <1>10, <1>11, <1>12,
     <1>13, <1>14, <1>15, <1>16, <1>17, <1>18, <1>19, <1>20
     DEF Next, Write, Exited

LEMMA TasksKept == Tasks /\ [Next]_vars => Tasks'
<1> SUFFICES ASSUME Tasks, [Next]_vars PROVE Tasks'
  OBVIOUS
<1> USE DEF Tasks, files, control, bounds, Rest, RestButWake, Vanish, AtSelect
<1>1. ASSUME NEW c \in Callers, Enqueue(c) PROVE Tasks'
  BY <1>1, Constants, AppendFacts DEF Enqueue
<1>2. ASSUME NEW c \in Callers, NEW k \in Keys, NEW del \in BOOLEAN, Call(c, k, del) PROVE Tasks'
  BY <1>2, CallFacts, Ops
<1>3. ASSUME NEW k \in Keys, GetTorn(k) \/ GetDrops(k) \/ ClearShard(k) PROVE Tasks'
  BY <1>3, Constants, Ops, EmptyFacts DEF GetTorn, GetDrops, ClearShard
<1>4. ASSUME NEW b \in Budgets, StoreBudget(b) PROVE Tasks'
  BY <1>4, Constants, Ops, EmptyFacts DEF StoreBudget, MoveSlider
<1>5. CASE SendWake \/ ClearList
  BY <1>5, Constants, Ops, EmptyFacts DEF SendWake, ClearList
<1>6. CASE CloseStores
  BY <1>6, Constants, Ops, EmptyFacts DEF CloseStores
<1>7. CASE CloseSignals
  BY <1>7, Constants, Ops, EmptyFacts DEF CloseSignals
<1>8. CASE CloseReturns
  BY <1>8, Constants, Ops, EmptyFacts DEF CloseReturns
<1>9. CASE TakeWake
  BY <1>9, Constants, Ops, EmptyFacts DEF TakeWake, Sweeping
<1>10. CASE Take
  BY <1>10, Constants, TailFacts DEF Take
<1>11. CASE TakeStop
  BY <1>11, Constants, Ops, EmptyFacts DEF TakeStop
<1>12. CASE Leave
  BY <1>12, Constants, Ops, EmptyFacts DEF Leave
<1>13. CASE DeleteBlob
  BY <1>13, Constants, Ops, EmptyFacts DEF DeleteBlob, Loop
<1>14. CASE WriteTemp
  BY <1>14, WriteTempFacts, Ops
<1>15. CASE Publish
  BY <1>15, PublishFacts, Ops
<1>16. CASE Walk
  BY <1>16, Constants, Ops, EmptyFacts DEF Walk
<1>17. CASE Evict
  BY <1>17, Constants, Ops, EmptyFacts DEF Evict
<1>18. CASE Swept
  BY <1>18, Constants, Ops, EmptyFacts DEF Swept
<1>19. CASE Crash
  BY <1>19, Constants, Ops, EmptyFacts DEF Crash, Sweeping
<1>20. CASE UNCHANGED vars
  BY <1>20, Constants, Ops, EmptyFacts DEF vars
<1>21. QED
  BY <1>1, <1>2, <1>3, <1>4, <1>5, <1>6, <1>7, <1>8, <1>9, <1>10, <1>11, <1>12,
     <1>13, <1>14, <1>15, <1>16, <1>17, <1>18, <1>19, <1>20
     DEF Next, Write, Exited

LEMMA StoresKept == Shape /\ Stores /\ [Next]_vars => Stores'
<1> SUFFICES ASSUME Shape, Stores, [Next]_vars PROVE Stores'
  OBVIOUS
<1> USE DEF Stores, Shape, Tasks, files, control, bounds, Rest, RestButWake, Vanish, AtSelect
<1>1. ASSUME NEW c \in Callers, Enqueue(c) PROVE Stores'
  BY <1>1, Ops DEF Enqueue
<1>2. ASSUME NEW c \in Callers, NEW k \in Keys, NEW del \in BOOLEAN, Call(c, k, del) PROVE Stores'
  BY <1>2, Ops DEF Call
<1>3. ASSUME NEW k \in Keys, GetTorn(k) \/ GetDrops(k) \/ ClearShard(k) PROVE Stores'
  BY <1>3, Ops DEF GetTorn, GetDrops, ClearShard
<1>4. ASSUME NEW b \in Budgets, StoreBudget(b) PROVE Stores'
  BY <1>4, Ops DEF StoreBudget, MoveSlider
<1>5. CASE SendWake \/ ClearList
  BY <1>5, Ops DEF SendWake, ClearList
<1>6. CASE CloseStores
  BY <1>6, Ops DEF CloseStores
<1>7. CASE CloseSignals
  BY <1>7, Ops DEF CloseSignals
<1>8. CASE CloseReturns
  BY <1>8, Ops DEF CloseReturns
<1>9. CASE TakeWake
  BY <1>9, Ops DEF TakeWake, Sweeping
<1>10. CASE Take
  BY <1>10, Ops DEF Take
<1>11. CASE TakeStop
  BY <1>11, Ops DEF TakeStop
<1>12. CASE Leave
  BY <1>12, Ops DEF Leave
<1>13. CASE DeleteBlob
  BY <1>13, Ops DEF DeleteBlob, Loop
<1>14. CASE WriteTemp
  <2>1. writer.op.del = FALSE /\ (writer'.pc = "publish" => writer'.op = writer.op)
    BY <1>14, WriteTempFacts, Ops DEF WriteTemp
  <2>2. QED BY <2>1
<1>15. CASE Publish
  BY <1>15, PublishFacts, Ops
<1>16. CASE Walk
  BY <1>16, Ops DEF Walk
<1>17. CASE Evict
  BY <1>17, Ops DEF Evict
<1>18. CASE Swept
  BY <1>18, Ops DEF Swept
<1>19. CASE Crash
  BY <1>19, Ops DEF Crash, Sweeping
<1>20. CASE UNCHANGED vars
  BY <1>20, Ops DEF vars
<1>21. QED
  BY <1>1, <1>2, <1>3, <1>4, <1>5, <1>6, <1>7, <1>8, <1>9, <1>10, <1>11, <1>12,
     <1>13, <1>14, <1>15, <1>16, <1>17, <1>18, <1>19, <1>20
     DEF Next, Write, Exited

LEMMA ClosingKept == Control /\ Tasks /\ Closing /\ [Next]_vars => Closing'
<1> SUFFICES ASSUME Control, Tasks, Closing, [Next]_vars PROVE Closing'
  OBVIOUS
<1> USE DEF Closing, Control, Tasks, files, control, bounds, Rest, RestButWake, Vanish, AtSelect
<1>1. ASSUME NEW c \in Callers, Enqueue(c) PROVE Closing'
  BY <1>1 DEF Enqueue
<1>2. ASSUME NEW c \in Callers, NEW k \in Keys, NEW del \in BOOLEAN, Call(c, k, del) PROVE Closing'
  BY <1>2 DEF Call
<1>3. ASSUME NEW k \in Keys, GetTorn(k) \/ GetDrops(k) \/ ClearShard(k) PROVE Closing'
  BY <1>3 DEF GetTorn, GetDrops, ClearShard
<1>4. ASSUME NEW b \in Budgets, StoreBudget(b) PROVE Closing'
  BY <1>4 DEF StoreBudget, MoveSlider
<1>5. CASE SendWake \/ ClearList
  BY <1>5 DEF SendWake, ClearList
<1>6. CASE CloseStores
  BY <1>6 DEF CloseStores
<1>7. CASE CloseSignals
  BY <1>7 DEF CloseSignals
<1>8. CASE CloseReturns
  BY <1>8 DEF CloseReturns
<1>9. CASE TakeWake
  BY <1>9 DEF TakeWake, Sweeping
<1>10. CASE Take
  BY <1>10 DEF Take
<1>11. CASE TakeStop
  BY <1>11 DEF TakeStop
<1>12. CASE Leave
  BY <1>12 DEF Leave
<1>13. CASE DeleteBlob
  BY <1>13 DEF DeleteBlob, Loop
<1>14. CASE WriteTemp
  BY <1>14, WriteTempFacts, Ops
<1>15. CASE Publish
  BY <1>15, PublishFacts, Ops
<1>16. CASE Walk
  BY <1>16 DEF Walk
<1>17. CASE Evict
  BY <1>17 DEF Evict
<1>18. CASE Swept
  BY <1>18 DEF Swept
<1>19. CASE Crash
  BY <1>19 DEF Crash, Sweeping
<1>20. CASE UNCHANGED vars
  BY <1>20 DEF vars
<1>21. QED
  BY <1>1, <1>2, <1>3, <1>4, <1>5, <1>6, <1>7, <1>8, <1>9, <1>10, <1>11, <1>12,
     <1>13, <1>14, <1>15, <1>16, <1>17, <1>18, <1>19, <1>20
     DEF Next, Write, Exited

LEMMA NumberedKept == Shape /\ Numbered /\ [Next]_vars => Numbered'
<1> SUFFICES ASSUME Shape, Numbered, [Next]_vars PROVE Numbered'
  OBVIOUS
<1> USE DEF Numbered, Shape, Tasks, Busy, files, control, bounds, Rest, RestButWake, Vanish, AtSelect
<1>1. ASSUME NEW c \in Callers, Enqueue(c) PROVE Numbered'
  <2>1. caller[c] \in Op /\ caller[c].n <= ops
    BY <1>1 DEF Enqueue
  <2>2. \A k \in DOMAIN queue' : queue'[k].n <= ops
    BY <1>1, <2>1, AppendFacts DEF Enqueue
  <2>3. caller' = [caller EXCEPT ![c] = Idle] /\ UNCHANGED <<writer, ops, owed>>
    BY <1>1 DEF Enqueue
  <2>4. \A d \in Callers : caller'[d] = caller[d] \/ caller'[d] = Idle
    BY <2>3
  <2>5. Idle.n <= ops
    BY Ops
  <2>6. QED BY <2>2, <2>3, <2>4, <2>5
<1>2. ASSUME NEW c \in Callers, NEW k \in Keys, NEW del \in BOOLEAN, Call(c, k, del) PROVE Numbered'
  <2>1. \A o \in Op \cup {Idle} : o.n \in Nat
    BY Ops
  <2>2. \A m \in Nat : m <= ops => m <= ops'
    BY <1>2, CallFacts
  <2>3. \A d \in Callers : caller'[d] \in Op \cup {Idle} /\ caller'[d].n <= ops'
    <3> TAKE d \in Callers
    <3>1. CASE d = c
      BY <1>2, <3>1, CallFacts
    <3>2. CASE d # c
      <4>1. caller[d] \in Op \cup {Idle} /\ caller[d].n <= ops
        OBVIOUS
      <4>2. QED BY <1>2, <2>1, <2>2, <3>2, <4>1, CallFacts
    <3>3. QED BY <3>1, <3>2
  <2>4. UNCHANGED <<queue, writer, owed>>
    BY <1>2, CallFacts
  <2>5. \A i \in DOMAIN queue : queue[i] \in Op
    OBVIOUS
  <2>6. QED BY <2>1, <2>2, <2>3, <2>4, <2>5
<1>3. ASSUME NEW k \in Keys, GetTorn(k) \/ GetDrops(k) \/ ClearShard(k) PROVE Numbered'
  BY <1>3, Constants, Ops, EmptyFacts DEF GetTorn, GetDrops, ClearShard
<1>4. ASSUME NEW b \in Budgets, StoreBudget(b) PROVE Numbered'
  BY <1>4, Constants, Ops, EmptyFacts DEF StoreBudget, MoveSlider
<1>5. CASE SendWake \/ ClearList
  BY <1>5, Constants, Ops, EmptyFacts DEF SendWake, ClearList
<1>6. CASE CloseStores
  BY <1>6, OwedFacts DEF CloseStores
<1>7. CASE CloseSignals
  BY <1>7, Constants, Ops, EmptyFacts DEF CloseSignals
<1>8. CASE CloseReturns
  BY <1>8, Constants, Ops, EmptyFacts DEF CloseReturns
<1>9. CASE TakeWake
  BY <1>9, Constants, Ops, EmptyFacts DEF TakeWake, Sweeping
<1>10. CASE Take
  BY <1>10, Constants, Ops, TailFacts DEF Take
<1>11. CASE TakeStop
  BY <1>11, Constants, Ops, EmptyFacts DEF TakeStop
<1>12. CASE Leave
  BY <1>12, Constants, Ops, EmptyFacts DEF Leave
<1>13. CASE DeleteBlob
  BY <1>13, Constants, Ops, EmptyFacts DEF DeleteBlob, Loop
<1>14. CASE WriteTemp
  BY <1>14, WriteTempFacts, Ops
<1>15. CASE Publish
  BY <1>15, PublishFacts, Ops
<1>16. CASE Walk
  BY <1>16, Constants, Ops, EmptyFacts DEF Walk
<1>17. CASE Evict
  BY <1>17, Constants, Ops, EmptyFacts DEF Evict
<1>18. CASE Swept
  BY <1>18, Constants, Ops, EmptyFacts DEF Swept
<1>19. CASE Crash
  BY <1>19, Constants, Ops, EmptyFacts DEF Crash, Sweeping
<1>20. CASE UNCHANGED vars
  BY <1>20, Constants, Ops, EmptyFacts DEF vars
<1>21. QED
  BY <1>1, <1>2, <1>3, <1>4, <1>5, <1>6, <1>7, <1>8, <1>9, <1>10, <1>11, <1>12,
     <1>13, <1>14, <1>15, <1>16, <1>17, <1>18, <1>19, <1>20
     DEF Next, Write, Exited

LEMMA ApartKept == Shape /\ Closing /\ Numbered /\ Apart /\ [Next]_vars => Apart'
<1> SUFFICES ASSUME Shape, Closing, Numbered, Apart, [Next]_vars PROVE Apart'
  OBVIOUS
<1> USE DEF Apart, Shape, Tasks, Busy, files, control, bounds, Rest, RestButWake, Vanish, AtSelect
<1>1. ASSUME NEW c \in Callers, Enqueue(c) PROVE Apart'
  BY <1>1, AppendFacts DEF Enqueue
<1>2. ASSUME NEW c \in Callers, NEW k \in Keys, NEW del \in BOOLEAN, Call(c, k, del) PROVE Apart'
  <2>1. \A o \in Op : o.n <= ops => o # caller'[c]
    BY <1>2, CallFacts, Ops
  <2>2. \A d \in Callers : caller[d] # caller'[c]
    BY <1>2, <2>1, CallFacts, Ops DEF Numbered
  <2>3. \A i \in DOMAIN queue : queue[i] \in Op /\ queue[i] # caller'[c]
    BY <2>1 DEF Numbered
  <2>4. (Busy => writer.op # caller'[c]) /\ caller'[c] \notin owed
    BY <2>1 DEF Numbered
  <2>5. UNCHANGED <<queue, writer, owed>>
    BY <1>2, CallFacts
  <2>6. QED BY <1>2, <2>2, <2>3, <2>4, <2>5, CallFacts
<1>3. ASSUME NEW k \in Keys, GetTorn(k) \/ GetDrops(k) \/ ClearShard(k) PROVE Apart'
  BY <1>3, Constants, Ops, EmptyFacts DEF GetTorn, GetDrops, ClearShard
<1>4. ASSUME NEW b \in Budgets, StoreBudget(b) PROVE Apart'
  BY <1>4, Constants, Ops, EmptyFacts DEF StoreBudget, MoveSlider
<1>5. CASE SendWake \/ ClearList
  BY <1>5, Constants, Ops, EmptyFacts DEF SendWake, ClearList
<1>6. CASE CloseStores
  BY <1>6, OwedFacts DEF CloseStores
<1>7. CASE CloseSignals
  BY <1>7, Constants, Ops, EmptyFacts DEF CloseSignals
<1>8. CASE CloseReturns
  BY <1>8, Constants, Ops, EmptyFacts DEF CloseReturns
<1>9. CASE TakeWake
  BY <1>9, Constants, Ops, EmptyFacts DEF TakeWake, Sweeping
<1>10. CASE Take
  BY <1>10, Constants, Ops, TailFacts DEF Take
<1>11. CASE TakeStop
  BY <1>11, Constants, Ops, EmptyFacts DEF TakeStop
<1>12. CASE Leave
  BY <1>12, Constants, Ops, EmptyFacts DEF Leave
<1>13. CASE DeleteBlob
  BY <1>13, Constants, Ops, EmptyFacts DEF DeleteBlob, Loop
<1>14. CASE WriteTemp
  BY <1>14, WriteTempFacts, Ops
<1>15. CASE Publish
  BY <1>15, PublishFacts, Ops
<1>16. CASE Walk
  BY <1>16, Constants, Ops, EmptyFacts DEF Walk
<1>17. CASE Evict
  BY <1>17, Constants, Ops, EmptyFacts DEF Evict
<1>18. CASE Swept
  BY <1>18, Constants, Ops, EmptyFacts DEF Swept
<1>19. CASE Crash
  BY <1>19, Constants, Ops, EmptyFacts DEF Crash, Sweeping
<1>20. CASE UNCHANGED vars
  BY <1>20, Constants, Ops, EmptyFacts DEF vars
<1>21. QED
  BY <1>1, <1>2, <1>3, <1>4, <1>5, <1>6, <1>7, <1>8, <1>9, <1>10, <1>11, <1>12,
     <1>13, <1>14, <1>15, <1>16, <1>17, <1>18, <1>19, <1>20
     DEF Next, Write, Exited

LEMMA DrainedKept == Shape /\ Closing /\ Apart /\ Drained /\ [Next]_vars => Drained'
<1> SUFFICES ASSUME Shape, Closing, Apart, Drained, [Next]_vars PROVE Drained'
  OBVIOUS
<1> USE DEF Drained, Shape, Tasks, Closing, files, control, bounds, Rest, RestButWake, Vanish, AtSelect
<1>1. ASSUME NEW c \in Callers, Enqueue(c) PROVE Drained'
  BY <1>1, AppendFacts DEF Enqueue, Apart
<1>2. ASSUME NEW c \in Callers, NEW k \in Keys, NEW del \in BOOLEAN, Call(c, k, del) PROVE Drained'
  BY <1>2, Constants, Ops, EmptyFacts DEF Call
<1>3. ASSUME NEW k \in Keys, GetTorn(k) \/ GetDrops(k) \/ ClearShard(k) PROVE Drained'
  BY <1>3, Constants, Ops, EmptyFacts DEF GetTorn, GetDrops, ClearShard
<1>4. ASSUME NEW b \in Budgets, StoreBudget(b) PROVE Drained'
  BY <1>4, Constants, Ops, EmptyFacts DEF StoreBudget, MoveSlider
<1>5. CASE SendWake \/ ClearList
  BY <1>5, Constants, Ops, EmptyFacts DEF SendWake, ClearList
<1>6. CASE CloseStores
  BY <1>6, Constants, Ops, EmptyFacts DEF CloseStores
<1>7. CASE CloseSignals
  BY <1>7, Constants, Ops, EmptyFacts DEF CloseSignals
<1>8. CASE CloseReturns
  BY <1>8, Constants, Ops, EmptyFacts DEF CloseReturns
<1>9. CASE TakeWake
  BY <1>9, Constants, Ops, EmptyFacts DEF TakeWake, Sweeping
<1>10. CASE Take
  BY <1>10, Constants, Ops, EmptyFacts DEF Take
<1>11. CASE TakeStop
  BY <1>11, Constants, Ops, EmptyFacts DEF TakeStop
<1>12. CASE Leave
  BY <1>12, Constants, Ops, EmptyFacts DEF Leave
<1>13. CASE DeleteBlob
  BY <1>13, Constants, Ops, EmptyFacts DEF DeleteBlob, Loop
<1>14. CASE WriteTemp
  BY <1>14, WriteTempFacts, Ops
<1>15. CASE Publish
  BY <1>15, PublishFacts, Ops
<1>16. CASE Walk
  BY <1>16, Constants, Ops, EmptyFacts DEF Walk
<1>17. CASE Evict
  BY <1>17, Constants, Ops, EmptyFacts DEF Evict
<1>18. CASE Swept
  BY <1>18, Constants, Ops, EmptyFacts DEF Swept
<1>19. CASE Crash
  BY <1>19, Constants, Ops, EmptyFacts DEF Crash, Sweeping
<1>20. CASE UNCHANGED vars
  BY <1>20, Constants, Ops, EmptyFacts DEF vars
<1>21. QED
  BY <1>1, <1>2, <1>3, <1>4, <1>5, <1>6, <1>7, <1>8, <1>9, <1>10, <1>11, <1>12,
     <1>13, <1>14, <1>15, <1>16, <1>17, <1>18, <1>19, <1>20
     DEF Next, Write, Exited

-----------------------------------------------------------------------------
LEMMA DiskInvInit == Init => DiskInv
<1> SUFFICES ASSUME Init PROVE DiskInv
  OBVIOUS
<1>1. queue = <<>> /\ writer.pc = "sweep" /\ ops = 0 /\ owed = {} /\ DOMAIN queue = {}
  BY EmptyFacts DEF Init, AtSelect
<1>2. DOMAIN writer = DOMAIN AtSelect /\ writer.draining = FALSE
  BY DEF Init, AtSelect
<1>3. \A c \in Callers : caller[c] = Idle
  BY DEF Init
<1>4. Blobs /\ Control
  BY DEF Init, Blobs, Control
<1>5. Tasks
  <2>1. queue \in Seq(Op) /\ Len(queue) <= QueueCap
    BY <1>1, EmptyFacts, Constants
  <2>2. caller \in [Callers -> Op \cup {Idle}]
    BY DEF Init
  <2>3. ops \in 0 .. MaxOps
    BY <1>1, Constants
  <2>4. QED BY <1>1, <1>2, <2>1, <2>2, <2>3 DEF Tasks
<1>6. Closing /\ Stores
  BY <1>1, <1>2 DEF Init, Closing, Stores
<1>7. Numbered /\ Apart /\ Drained
  BY <1>1, <1>3, Ops DEF Numbered, Apart, Drained, Busy
<1>8. QED BY <1>4, <1>5, <1>6, <1>7 DEF DiskInv, Shape

LEMMA DiskInvariant == Spec => []DiskInv
<1>1. DiskInv /\ [Next]_vars => DiskInv'
  BY BlobsKept, ControlKept, TasksKept, StoresKept, ClosingKept, NumberedKept, ApartKept, DrainedKept
     DEF DiskInv, Shape
<1>2. QED BY DiskInvInit, <1>1, PTL DEF Spec

(* DiskCache.Close: once it has returned, the writer is gone and nothing    *)
(* that was accepted before Close is still queued.                         *)
THEOREM CloseLeavesNothing == Spec => []CloseDrains
<1>1. ASSUME DiskInv, closer = "returned" PROVE writer.pc = "gone" /\ owed \cap ToSet(queue) = {}
  <2>1. writer.pc = "gone" /\ \A k \in DOMAIN queue : queue[k] \notin owed
    BY <1>1 DEF DiskInv, Closing, Drained
  <2>2. QED BY <2>1 DEF ToSet
<1>2. DiskInv => CloseDrains
  BY <1>1 DEF CloseDrains
<1>3. QED BY DiskInvariant, <1>2, PTL

-----------------------------------------------------------------------------
(* The tier as its callers see it *)

Pend == InFlight \o queue

LEMMA ConcatFacts ==
  ASSUME NEW S, NEW q \in Seq(S)
  PROVE  /\ <<>> \o q = q
         /\ \A x \in S : /\ <<x>> \o q # <<>> /\ Head(<<x>> \o q) = x /\ Tail(<<x>> \o q) = q
                         /\ <<x>> \o q \in Seq(S)
         /\ \A x, y \in S : Append(<<x>> \o q, y) = <<x>> \o Append(q, y)
         /\ q # <<>> => <<Head(q)>> \o Tail(q) = q
  OBVIOUS

LEMMA PendFacts ==
  ASSUME Tasks
  PROVE  /\ Busy => Pend = <<writer.op>> \o queue /\ writer.op \in Op
         /\ ~Busy => Pend = queue
         /\ queue \in Seq(Op)
  BY ConcatFacts DEF Tasks, Pend, InFlight, Busy

LEMMA PendFrame ==
  ASSUME UNCHANGED <<queue, writer>>
  PROVE  Pend' = Pend
  BY DEF Pend, InFlight

LEMMA PendQuiet ==
  ASSUME ~Busy, ~Busy', queue' = queue
  PROVE  Pend' = Pend
  BY DEF Pend, InFlight, Busy

(* The writer is done with its operation. *)
LEMMA PendDone ==
  ASSUME Tasks, Busy, ~Busy', queue' = queue
  PROVE  Pend # <<>> /\ Head(Pend) = writer.op /\ Pend' = Tail(Pend)
<1>1. Pend = <<writer.op>> \o queue /\ writer.op \in Op /\ queue \in Seq(Op)
  BY PendFacts
<1>2. Pend' = <<>> \o queue
  BY DEF Pend, InFlight, Busy
<1>3. QED BY <1>1, <1>2, ConcatFacts

LEMMA VisibleFacts ==
  /\ \A k \in Keys : Visible[k] = IF blob[k] = Torn THEN NoBlob ELSE blob[k]
  /\ Visible = [k \in Keys |-> Visible[k]]
  BY DEF Visible

LEMMA VisibleFrame == blob' = blob => Visible' = Visible
  BY DEF Visible

LEMMA Stutters ==
  ASSUME blob' = blob, Pend' = Pend
  PROVE  UNCHANGED <<Visible, Pend>>
  BY VisibleFrame

LEMMA Forgetting ==
  ASSUME Blobs, NEW k \in Keys, Vanish(k), Pend' = Pend
  PROVE  Promise!Forget
<1>1. Visible' = [j \in Keys |-> IF j \in {k} THEN NoBlob ELSE Visible[j]]
  BY DEF Vanish, Visible, Blobs
<1>2. QED BY <1>1 DEF Promise!Forget, Promise!Forgets, Pend

LEMMA Losing ==
  ASSUME blob' = blob, Pend # <<>>, Pend' = Tail(Pend)
  PROVE  Promise!Lose
  BY VisibleFrame DEF Promise!Lose, Pend

LEMMA StoreStep ==
  DiskInv /\ [Next]_vars => Promise!Next \/ UNCHANGED <<Visible, Pend>>
<1> DEFINE Answer == Promise!Next \/ UNCHANGED <<Visible, Pend>>
<1> SUFFICES ASSUME DiskInv, [Next]_vars PROVE Answer
  OBVIOUS
<1>a. Blobs /\ Tasks
  BY DEF DiskInv, Shape
<1>b. Promise!Forget \/ Promise!Lose \/ UNCHANGED <<Visible, Pend>> => Answer
  BY DEF Promise!Next
<1> HIDE DEF Answer
<1>1. ASSUME NEW c \in Callers, Enqueue(c) PROVE Answer
  <2>1. caller[c] \in Op /\ UNCHANGED <<blob, writer>>
    BY <1>1, <1>a DEF Enqueue, Tasks, files
  <2>2. CASE queue' = queue
    BY <2>1, <2>2, <1>b, PendFrame, Stutters
  <2>3. CASE queue' = Append(queue, caller[c])
    <3>1. Pend' = Append(Pend, caller[c])
      <4>1. CASE Busy
        <5>1. Pend' = <<writer.op>> \o queue'
          BY <2>1, <4>1 DEF Pend, InFlight, Busy
        <5>2. QED BY <1>a, <2>1, <2>3, <4>1, <5>1, PendFacts, ConcatFacts
      <4>2. CASE ~Busy
        <5>1. Pend' = <<>> \o queue' /\ queue' \in Seq(Op)
          BY <1>a, <2>1, <2>3, <4>2, AppendFacts DEF Pend, InFlight, Busy, Tasks
        <5>2. QED BY <1>a, <2>3, <4>2, <5>1, PendFacts, ConcatFacts
      <4>3. QED BY <4>1, <4>2
    <3>2. Promise!Accept(caller[c])
      BY <2>1, <3>1, VisibleFrame DEF Promise!Accept, Pend
    <3>3. QED BY <2>1, <3>2 DEF Promise!Next, Answer
  <2>4. QED BY <1>1, <2>2, <2>3 DEF Enqueue
<1>2. ASSUME NEW c \in Callers, NEW k \in Keys, NEW del \in BOOLEAN, Call(c, k, del) PROVE Answer
  <2>1. UNCHANGED <<blob, queue, writer>>
    BY <1>2 DEF Call, files
  <2>2. QED BY <2>1, <1>b, PendFrame, Stutters
<1>3. ASSUME NEW k \in Keys, GetTorn(k) \/ GetDrops(k) \/ ClearShard(k) PROVE Answer
  <2>1. UNCHANGED <<queue, writer>> /\ (Vanish(k) \/ blob' = blob)
    BY <1>3 DEF GetTorn, GetDrops, ClearShard, files
  <2>2. QED BY <2>1, <1>a, <1>b, PendFrame, Stutters, Forgetting
<1>4. ASSUME NEW b \in Budgets, StoreBudget(b) PROVE Answer
  <2>1. UNCHANGED <<blob, queue, writer>>
    BY <1>4 DEF StoreBudget, files, control, bounds, Rest, RestButWake
  <2>2. QED BY <2>1, <1>b, PendFrame, Stutters
<1>5. CASE SendWake \/ ClearList
  <2>1. UNCHANGED <<blob, queue, writer>>
    BY <1>5 DEF SendWake, ClearList, files, control, bounds, Rest, RestButWake
  <2>2. QED BY <2>1, <1>b, PendFrame, Stutters
<1>6. CASE CloseStores
  <2>1. UNCHANGED <<blob, queue, writer>>
    BY <1>6 DEF CloseStores, files, control, bounds, Rest, RestButWake
  <2>2. QED BY <2>1, <1>b, PendFrame, Stutters
<1>7. CASE CloseSignals
  <2>1. UNCHANGED <<blob, queue, writer>>
    BY <1>7 DEF CloseSignals, files, control, bounds, Rest, RestButWake
  <2>2. QED BY <2>1, <1>b, PendFrame, Stutters
<1>8. CASE CloseReturns
  <2>1. UNCHANGED <<blob, queue, writer>>
    BY <1>8 DEF CloseReturns, files, control, bounds, Rest, RestButWake
  <2>2. QED BY <2>1, <1>b, PendFrame, Stutters
<1>9. CASE TakeWake
  <2>1. ~Busy /\ ~Busy' /\ UNCHANGED <<blob, queue>>
    BY <1>9, <1>a DEF Busy, TakeWake, Sweeping, AtSelect, files, control, bounds, Rest, RestButWake
  <2>2. QED BY <2>1, <1>b, PendQuiet, Stutters
<1>10. CASE Take
  <2>1. /\ ~Busy /\ Busy' /\ blob' = blob /\ writer'.op = Head(queue) /\ queue' = Tail(queue)
        /\ queue # <<>>
    BY <1>10, <1>a DEF Take, Busy, Tasks, AtSelect, files
  <2>2. Pend' = <<Head(queue)>> \o Tail(queue) /\ Pend = queue /\ queue \in Seq(Op)
    BY <1>a, <2>1, PendFacts DEF Pend, InFlight, Busy
  <2>3. Pend' = Pend
    BY <2>1, <2>2, ConcatFacts
  <2>4. QED BY <2>1, <2>3, <1>b, Stutters
<1>11. CASE TakeStop
  <2>1. ~Busy /\ ~Busy' /\ UNCHANGED <<blob, queue>>
    BY <1>11, <1>a DEF Busy, TakeStop, Tasks, AtSelect, files, control, bounds, Rest, RestButWake
  <2>2. QED BY <2>1, <1>b, PendQuiet, Stutters
<1>12. CASE Leave
  <2>1. ~Busy /\ ~Busy' /\ UNCHANGED <<blob, queue>>
    BY <1>12, <1>a DEF Busy, Leave, Tasks, AtSelect, files, control, bounds, Rest, RestButWake
  <2>2. QED BY <2>1, <1>b, PendQuiet, Stutters
<1>13. CASE DeleteBlob
  <2>1. /\ Busy /\ ~Busy' /\ queue' = queue /\ writer.op.del = TRUE
        /\ Vanish(writer.op.key) \/ blob' = blob
    BY <1>13, <1>a, LoopFacts, Ops DEF DeleteBlob, Busy, Tasks
  <2>2. Pend # <<>> /\ Head(Pend) = writer.op /\ Pend' = Tail(Pend)
    BY <1>a, <2>1, PendDone
  <2>3. CASE blob' = blob
    BY <2>2, <2>3, <1>b, Losing
  <2>4. CASE Vanish(writer.op.key)
    <3>1. Visible' = [Visible EXCEPT ![writer.op.key] = NoBlob]
      BY <1>a, <2>4 DEF Vanish, Visible, Blobs
    <3>2. Promise!Apply
      BY <2>1, <2>2, <3>1 DEF Promise!Apply, Pend
    <3>3. QED BY <3>2 DEF Promise!Next, Answer
  <2>5. QED BY <2>1, <2>3, <2>4
<1>14. CASE WriteTemp
  <2>1. Busy /\ blob' = blob /\ queue' = queue
    BY <1>14, <1>a, WriteTempFacts DEF WriteTemp, Busy
  <2>2. CASE Busy'
    <3>1. InFlight' = InFlight
      BY <1>14, <1>a, <2>1, <2>2, WriteTempFacts DEF InFlight, Busy
    <3>2. QED BY <2>1, <3>1, <1>b, Stutters DEF Pend
  <2>3. CASE ~Busy'
    BY <1>a, <2>1, <2>3, <1>b, PendDone, Losing
  <2>4. QED BY <2>2, <2>3
<1>15. CASE Publish
  <2>1. Busy /\ ~Busy' /\ queue' = queue /\ writer.op \in Op
    BY <1>15, <1>a, PublishFacts DEF Busy, Tasks
  <2>2. Pend # <<>> /\ Head(Pend) = writer.op /\ Pend' = Tail(Pend)
    BY <1>a, <2>1, PendDone
  <2>3. CASE blob' = blob
    BY <2>2, <2>3, <1>b, Losing
  <2>4. CASE blob' = [blob EXCEPT ![writer.op.key] = writer.op.n]
    <3>1. writer.op.n # Torn
      BY <2>1, Ops, Constants
    <3>2. Visible' = [Visible EXCEPT ![writer.op.key] = writer.op.n]
      BY <1>a, <2>4, <3>1 DEF Visible, Blobs
    <3>3. writer.op.del = FALSE
      BY <1>15 DEF DiskInv, Stores, Publish
    <3>4. Promise!Apply
      BY <2>2, <3>2, <3>3 DEF Promise!Apply, Pend
    <3>5. QED BY <3>4 DEF Promise!Next, Answer
  <2>5. QED BY <1>15, <2>3, <2>4 DEF Publish
<1>16. CASE Walk
  <2>1. ~Busy /\ ~Busy' /\ UNCHANGED <<blob, queue>>
    BY <1>16, <1>a DEF Busy, Walk, AtSelect, files, control, bounds, Rest, RestButWake
  <2>2. QED BY <2>1, <1>b, PendQuiet, Stutters
<1>17. CASE Evict
  <2>1. ~Busy /\ ~Busy' /\ queue' = queue /\ (blob' = blob \/ \E k : Vanish(k))
    BY <1>17, <1>a DEF Evict, Busy, Tasks, AtSelect
  <2>2. Pend' = Pend
    BY <2>1, PendQuiet
  <2>3. ASSUME NEW k, Vanish(k) PROVE Answer
    <3>1. CASE k \in Keys
      BY <1>a, <1>b, <2>2, <2>3, <3>1, Forgetting
    <3>2. CASE k \notin Keys
      BY <1>a, <1>b, <2>2, <2>3, <3>2, Stutters DEF Vanish, Blobs
    <3>3. QED BY <3>1, <3>2
  <2>4. QED BY <1>b, <2>1, <2>2, <2>3, Stutters
<1>18. CASE Swept
  <2>1. ~Busy /\ ~Busy' /\ UNCHANGED <<blob, queue>>
    BY <1>18, <1>a DEF Busy, Swept, AtSelect, files, control, bounds, Rest, RestButWake
  <2>2. QED BY <2>1, <1>b, PendQuiet, Stutters
<1>19. CASE Crash
  <2>1. PICK torn \in SUBSET Present, bad \in SUBSET {k \in Present : blob[k] # Torn} :
          blob' = [k \in Keys |-> IF k \in torn THEN Torn ELSE IF k \in bad THEN Damaged ELSE blob[k]]
    BY <1>19 DEF Crash
  <2> DEFINE found == {k \in Keys : Visible[k] # NoBlob}
             lost == torn \cap found
  <2>2. lost \in SUBSET found /\ bad \in SUBSET found
    BY <2>1 DEF Visible, Present
  <2>3. Visible' = [k \in Keys |-> IF k \in lost THEN NoBlob ELSE IF k \in bad THEN Damaged ELSE Visible[k]]
    BY <2>1, Constants DEF Visible, Present
  <2>4. Pend' = <<>>
    BY <1>19, SweepingFacts, EmptyFacts, ConcatFacts DEF Crash, Pend, InFlight
  <2>5. Promise!Crash
    BY <2>2, <2>3, <2>4 DEF Promise!Crash, Pend
  <2>6. QED BY <2>5 DEF Promise!Next, Answer
<1>20. CASE UNCHANGED vars
  <2>1. UNCHANGED <<blob, queue, writer>>
    BY <1>20 DEF vars, files, control, bounds, Rest, RestButWake
  <2>2. QED BY <2>1, <1>b, PendFrame, Stutters
<1>21. QED
  BY <1>1, <1>2, <1>3, <1>4, <1>5, <1>6, <1>7, <1>8, <1>9, <1>10, <1>11, <1>12,
     <1>13, <1>14, <1>15, <1>16, <1>17, <1>18, <1>19, <1>20
     DEF Next, Write, Exited

LEMMA StoreInit == Init => Promise!Init
<1> SUFFICES ASSUME Init PROVE Promise!Init
  OBVIOUS
<1>1. Visible \in [Keys -> {NoBlob, Damaged} \cup Nat]
  BY DEF Init, Visible
<1>2. InFlight \o queue = <<>>
  BY ConcatFacts, EmptyFacts DEF Init, InFlight, AtSelect
<1>3. QED BY <1>1, <1>2 DEF Promise!Init

(* DiskCache implements BlobStore: to its callers the tier is a map that    *)
(* may forget, changed in the order the operations were accepted, and no   *)
(* read ever returns a value purged or overwritten before. A blob that     *)
(* Get cannot tell from a whole one comes from a crash alone, and stays    *)
(* only until it is stored anew, purged or lost.                           *)
THEOREM TierImplementsStore == Spec => StoreSpec
<1>1. DiskInv /\ [Next]_vars => [Promise!Next]_<<Visible, InFlight \o queue>>
  BY StoreStep DEF Pend
<1>2. QED BY StoreInit, DiskInvariant, <1>1, PTL DEF Spec, StoreSpec, Promise!Spec

-----------------------------------------------------------------------------
(* The bytes of a set of blobs *)

Cells(K) == UNION {{k} \X (1 .. Size[k]) : k \in K}

LEMMA SizeFacts == \A k \in Keys : Size[k] \in Nat /\ Size[k] > 0
<1>1. Size \in [Keys -> Nat \ {0}]
  BY DiskAssumption
<1>2. QED BY <1>1

LEMMA ColumnFacts ==
  ASSUME NEW k \in Keys
  PROVE  IsFiniteSet({k} \X (1 .. Size[k])) /\ Cardinality({k} \X (1 .. Size[k])) = Size[k]
<1>1. Size[k] \in Int /\ Size[k] > 0 /\ 1 \in Int
  BY SizeFacts
<1>2. IsFiniteSet(1 .. Size[k]) /\ Cardinality(1 .. Size[k]) = Size[k]
  <2> DEFINE n == Size[k]
  <2> HIDE DEF n
  <2>1. n \in Int /\ n > 0 /\ 1 \in Int
    BY <1>1 DEF n
  <2>2. IsFiniteSet(1 .. n) /\ Cardinality(1 .. n) = IF 1 > n THEN 0 ELSE n - 1 + 1
    BY <2>1, FS_Interval
  <2>3. QED BY <2>1, <2>2 DEF n
<1>3. IsFiniteSet({k}) /\ Cardinality({k}) = 1
  BY FS_Singleton
<1> DEFINE one == {k}  many == 1 .. Size[k]
<1> HIDE DEF one, many
<1>4. IsFiniteSet(one \X many) /\ Cardinality(one \X many) = Cardinality(one) * Cardinality(many)
  BY <1>2, <1>3, FS_Product DEF one, many
<1>5. Cardinality(one) = 1 /\ Cardinality(many) = Size[k]
  BY <1>2, <1>3 DEF one, many
<1>6. Cardinality(one) * Cardinality(many) = Size[k]
  BY <1>1, <1>5
<1>7. QED BY <1>4, <1>6 DEF one, many

LEMMA CellFacts ==
  ASSUME NEW K \in SUBSET Keys, IsFiniteSet(K)
  PROVE  /\ IsFiniteSet(Cells(K)) /\ Bytes(K) = Cardinality(Cells(K)) /\ Bytes(K) \in Nat
         /\ \A x : x \in Cells(K) <=> \E k \in K : \E i \in 1 .. Size[k] : x = <<k, i>>
<1>2. \A k \in K : IsFiniteSet({k} \X (1 .. Size[k]))
  BY ColumnFacts
<1>3. IsFiniteSet({{k} \X (1 .. Size[k]) : k \in K})
  <2> DEFINE columns == {{k} \X (1 .. Size[k]) : k \in K}
             f == [k \in K |-> {k} \X (1 .. Size[k])]
  <2>1. f \in Surjection(K, columns)
    BY DEF Surjection
  <2>2. QED BY <2>1, FS_Surjection
<1>4. IsFiniteSet(Cells(K))
  BY <1>2, <1>3, FS_UNION DEF Cells
<1>5. QED BY <1>4, FS_CardinalityType DEF Cells, Bytes

LEMMA BytesGrow ==
  ASSUME NEW L \in SUBSET Keys, IsFiniteSet(L), NEW K \in SUBSET L
  PROVE  Bytes(K) <= Bytes(L) /\ Bytes(K) \in Nat /\ Bytes(L) \in Nat /\ IsFiniteSet(K)
<1>1. IsFiniteSet(K)
  BY FS_Subset
<1>2. Cells(K) \subseteq Cells(L)
  BY <1>1, CellFacts
<1>3. Cardinality(Cells(K)) <= Cardinality(Cells(L))
  BY <1>2, CellFacts, FS_Subset
<1>4. QED BY <1>1, <1>3, CellFacts

LEMMA BytesWithout ==
  ASSUME NEW K \in SUBSET Keys, IsFiniteSet(K), NEW k \in K
  PROVE  Bytes(K \ {k}) = Bytes(K) - Size[k] /\ Size[k] \in Nat
<1> DEFINE rest == K \ {k}  column == {k} \X (1 .. Size[k])
<1>1. IsFiniteSet(rest) /\ rest \in SUBSET Keys
  BY FS_Subset
<1>2. Size[k] \in Nat
  BY SizeFacts
<1>4. IsFiniteSet(column) /\ Cardinality(column) = Size[k]
  BY ColumnFacts
<1>5. Cells(K) = Cells(rest) \cup column /\ Cells(rest) \cap column = {}
  BY DEF Cells
<1>6. IsFiniteSet(Cells(rest)) /\ Bytes(rest) = Cardinality(Cells(rest)) /\ Bytes(rest) \in Nat
  BY <1>1, CellFacts
<1> HIDE DEF column, rest
<1>7. Cardinality(Cells(K)) = Cardinality(Cells(rest)) + Size[k]
  <2>1. Cardinality(Cells(rest) \cup column)
           = Cardinality(Cells(rest)) + Cardinality(column) - Cardinality(Cells(rest) \cap column)
    BY <1>4, <1>6, FS_Union
  <2>2. Cardinality(Cells(rest) \cap column) = 0
    BY <1>5, FS_EmptySet
  <2>3. QED BY <1>2, <1>4, <1>5, <1>6, <2>1, <2>2
<1>8. QED BY <1>2, <1>6, <1>7, CellFacts DEF rest

LEMMA BytesNone == Bytes({}) = 0
  BY FS_EmptySet DEF Bytes

(* The order of age *)

LEMMA AgeFacts ==
  ASSUME age \in Seq(Keys), IsInjective(age), NEW k
  PROVE  /\ AgeWithout(k) \in Seq(Keys) /\ IsInjective(AgeWithout(k))
         /\ ToSet(AgeWithout(k)) = ToSet(age) \ {k}
<1>1. CASE k \notin ToSet(age)
  BY <1>1 DEF AgeWithout
<1>2. CASE k \in ToSet(age)
  <2> DEFINE i == CHOOSE j \in DOMAIN age : age[j] = k
  <2>1. i \in DOMAIN age /\ age[i] = k
    BY <1>2 DEF ToSet
  <2> HIDE DEF i
  <2>2. i \in 1 .. Len(age) /\ Len(age) \in Nat /\ DOMAIN age = 1 .. Len(age)
    BY <2>1
  <2> DEFINE left == SubSeq(age, 1, i - 1)  right == SubSeq(age, i + 1, Len(age))
             s == left \o right
  <2>3. /\ left \in Seq(Keys) /\ Len(left) = i - 1
        /\ \A j \in 1 .. i - 1 : left[j] = age[j]
    BY <2>2
  <2>4. /\ right \in Seq(Keys) /\ Len(right) = Len(age) - i
        /\ \A j \in 1 .. Len(age) - i : right[j] = age[j + i]
    <3>1. \A a, b \in Nat : a >= 1 /\ a <= b + 1 /\ b <= Len(age) =>
            /\ SubSeq(age, a, b) \in Seq(Keys) /\ Len(SubSeq(age, a, b)) = b - a + 1
            /\ \A j \in 1 .. b - a + 1 : SubSeq(age, a, b)[j] = age[a + j - 1]
      BY <2>2
    <3>2. i + 1 \in Nat /\ i + 1 >= 1 /\ i + 1 <= Len(age) + 1 /\ Len(age) <= Len(age)
          /\ Len(age) - (i + 1) + 1 = Len(age) - i
          /\ \A j \in 1 .. Len(age) - i : (i + 1) + j - 1 = j + i
      BY <2>2
    <3>3. /\ right \in Seq(Keys) /\ Len(right) = Len(age) - (i + 1) + 1
          /\ \A j \in 1 .. Len(age) - (i + 1) + 1 : right[j] = age[(i + 1) + j - 1]
      BY <2>2, <3>1, <3>2
    <3>4. QED BY <3>2, <3>3
  <2> HIDE DEF left, right
  <2>5. /\ s \in Seq(Keys) /\ Len(s) = Len(age) - 1 /\ DOMAIN s = 1 .. Len(age) - 1
        /\ \A j \in 1 .. Len(age) - 1 : s[j] = IF j < i THEN left[j] ELSE right[j - (i - 1)]
    <3>1. \A p, q \in Seq(Keys) :
            /\ p \o q \in Seq(Keys) /\ Len(p \o q) = Len(p) + Len(q)
            /\ Len(p) \in Nat /\ Len(q) \in Nat /\ DOMAIN (p \o q) = 1 .. Len(p) + Len(q)
            /\ \A j \in 1 .. Len(p) + Len(q) :
                 (p \o q)[j] = IF j <= Len(p) THEN p[j] ELSE q[j - Len(p)]
      OBVIOUS
    <3>2. Len(left) + Len(right) = Len(age) - 1 /\ \A j \in Nat : j <= Len(left) <=> j < i
      BY <2>2, <2>3, <2>4
    <3>3. /\ s \in Seq(Keys) /\ Len(s) = Len(left) + Len(right)
          /\ DOMAIN s = 1 .. Len(left) + Len(right)
          /\ \A j \in 1 .. Len(left) + Len(right) :
               s[j] = IF j <= Len(left) THEN left[j] ELSE right[j - Len(left)]
      BY <2>3, <2>4, <3>1
    <3>4. QED BY <2>2, <2>3, <2>4, <3>2, <3>3
  <2> HIDE DEF s
  <2>6. \A j \in 1 .. Len(age) - 1 : s[j] = IF j < i THEN age[j] ELSE age[j + 1]
    <3> TAKE j \in 1 .. Len(age) - 1
    <3>1. CASE j < i
      BY <2>2, <2>3, <2>5, <3>1
    <3>2. CASE j >= i
      <4>1. j - (i - 1) \in 1 .. Len(age) - i /\ (j - (i - 1)) + i = j + 1
        BY <2>2, <3>2
      <4>2. QED BY <2>2, <2>4, <2>5, <3>2, <4>1
    <3>3. QED BY <2>2, <3>1, <3>2
  <2>7. AgeWithout(k) = s
    BY <1>2 DEF AgeWithout, RemoveAt, s, left, right, i
  <2>8. \A a, b \in 1 .. Len(age) : age[a] = age[b] => a = b
    BY <2>2 DEF IsInjective
  <2>9. IsInjective(s)
    <3> SUFFICES ASSUME NEW a \in DOMAIN s, NEW b \in DOMAIN s, s[a] = s[b] PROVE a = b
      BY DEF IsInjective
    <3>1. a \in Int /\ b \in Int /\ a \in 1 .. Len(age) - 1 /\ b \in 1 .. Len(age) - 1
      BY <2>2, <2>5
    <3>2. /\ a \in 1 .. Len(age) /\ a + 1 \in 1 .. Len(age)
          /\ b \in 1 .. Len(age) /\ b + 1 \in 1 .. Len(age)
      BY <2>2, <3>1
    <3>3. (IF a < i THEN a ELSE a + 1) = (IF b < i THEN b ELSE b + 1)
      BY <2>6, <2>8, <3>1, <3>2
    <3>4. QED BY <2>2, <3>1, <3>3
  <2>10. ASSUME NEW x PROVE x \in ToSet(s) <=> x \in ToSet(age) \ {k}
    <3>1. ASSUME NEW j \in DOMAIN s PROVE s[j] \in ToSet(age) /\ s[j] # k
      <4>1. j \in 1 .. Len(age) - 1 /\ j \in Int
        BY <2>2, <2>5
      <4>2. \E a \in 1 .. Len(age) : s[j] = age[a] /\ a # i
        <5>1. CASE j < i
          BY <2>2, <2>6, <4>1, <5>1
        <5>2. CASE j >= i
          <6>1. j + 1 \in 1 .. Len(age) /\ j + 1 # i /\ s[j] = age[j + 1]
            BY <2>2, <2>6, <4>1, <5>2
          <6>2. QED BY <6>1
        <5>3. QED BY <2>2, <4>1, <5>1, <5>2
      <4>3. PICK a \in 1 .. Len(age) : s[j] = age[a] /\ a # i
        BY <4>2
      <4>4. age[a] # k
        BY <2>1, <2>2, <2>8, <4>3
      <4>5. QED BY <2>2, <4>3, <4>4 DEF ToSet
    <3>2. ASSUME NEW j \in DOMAIN age, age[j] # k PROVE age[j] \in ToSet(s)
      <4>1. CASE j < i
        <5>1. j \in DOMAIN s /\ s[j] = age[j]
          BY <2>2, <2>5, <2>6, <4>1
        <5>2. QED BY <5>1 DEF ToSet
      <4>2. CASE j > i
        <5>1. j - 1 \in DOMAIN s /\ s[j - 1] = age[j]
          BY <2>2, <2>5, <2>6, <4>2
        <5>2. QED BY <5>1 DEF ToSet
      <4>3. QED BY <2>1, <2>2, <3>2, <4>1, <4>2
    <3>3. QED BY <3>1, <3>2 DEF ToSet
  <2>11. QED BY <2>5, <2>7, <2>9, <2>10
<1>3. QED BY <1>1, <1>2

LEMMA AgeAppended ==
  ASSUME NEW q \in Seq(Keys), IsInjective(q), NEW k \in Keys, k \notin ToSet(q)
  PROVE  /\ Append(q, k) \in Seq(Keys) /\ IsInjective(Append(q, k))
         /\ ToSet(Append(q, k)) = ToSet(q) \cup {k}
<1>1. /\ Append(q, k) \in Seq(Keys) /\ Len(q) \in Nat
      /\ DOMAIN Append(q, k) = 1 .. Len(q) + 1 /\ DOMAIN q = 1 .. Len(q)
      /\ \A i \in 1 .. Len(q) : Append(q, k)[i] = q[i]
      /\ Append(q, k)[Len(q) + 1] = k
  OBVIOUS
<1>2. \A i \in 1 .. Len(q) : q[i] # k
  BY <1>1 DEF ToSet
<1> DEFINE s == Append(q, k)
<1> HIDE DEF s
<1>3. /\ DOMAIN s = 1 .. Len(q) + 1 /\ s[Len(q) + 1] = k
      /\ \A i \in 1 .. Len(q) : s[i] = q[i]
  BY <1>1 DEF s
<1>4. IsInjective(s)
  BY <1>1, <1>2, <1>3 DEF IsInjective
<1>5. ToSet(s) = ToSet(q) \cup {k}
  BY <1>1, <1>3 DEF ToSet
<1>6. QED BY <1>1, <1>4, <1>5 DEF s

(* Only finitely many blobs lie there. *)
LEMMA FiniteAge == ASSUME Ages PROVE IsFiniteSet(Present) /\ Present \in SUBSET Keys
<1>1. Len(age) \in Nat /\ DOMAIN age = 1 .. Len(age)
  BY DEF Ages
<1>2. age \in Surjection(1 .. Len(age), ToSet(age))
  BY <1>1 DEF Surjection, ToSet, Ages
<1>3. IsFiniteSet(ToSet(age))
  BY <1>1, <1>2, FS_Interval, FS_Surjection
<1>4. QED BY <1>3 DEF Ages, Present

-----------------------------------------------------------------------------
(* The sweep *)

(* A temporary file lies there only while the writer is about to rename it. *)
Temp == temp => writer.pc = "publish"

(* What a sweep knows: the blobs lying there weigh no more than it counts,  *)
(* and all are still on its list unless one could not be removed.           *)
Sweep ==
  writer.pc = "evict" =>
    /\ writer.files \in Seq(Keys) /\ writer.total \in Int
    /\ fresh = {} /\ Bytes(Present) <= writer.total
    /\ missed \/ Present \subseteq ToSet(writer.files)
    /\ wake \/ waking \/ writer.cap = budget

(* What the last sweep left behind, as long as nobody asks for another. *)
Asked == wake \/ waking \/ missed
Fits ==
  writer.pc \in {"select", "write", "publish"} /\ writer.draining = FALSE /\ ~Asked =>
    budget = 0 \/ Bytes(Present \ fresh) <= budget

(* Stores since the last sweep are counted until the drain. *)
Counted ==
  /\ writer.pc \in {"select", "sweep", "evict"} => writer.draining = FALSE
  /\ writer.pc \in {"drain", "gone"} => writer.draining = TRUE
  /\ IsFiniteSet(fresh)
  /\ writer.draining = FALSE /\ writer.pc # "sweep" => Cardinality(fresh) <= since

BudgetInv == Ages /\ Tallies /\ Temp /\ Sweep /\ Fits /\ Counted

(* What everyone but the writer may do to the files and to the budget. *)
Aside ==
  /\ UNCHANGED <<writer, since, fresh, missed>>
  /\ (blob' = blob /\ age' = age) \/ \E k : Vanish(k)
  /\ budget' = budget \/ waking'
  /\ wake \/ waking => wake' \/ waking'
  /\ dropping' \subseteq Keys /\ clearing' \subseteq Keys /\ (temp' => temp)

LEMMA BesideTheWriter ==
  ASSUME Shape, Tallies, Temp, [Next]_vars
  PROVE  Aside \/ Write \/ Crash
<1> USE DEF files, control, bounds, Tallies
<1>1. ASSUME NEW c \in Callers, Enqueue(c) PROVE Aside
  BY <1>1 DEF Enqueue, Aside
<1>2. ASSUME NEW c \in Callers, NEW k \in Keys, NEW del \in BOOLEAN, Call(c, k, del) PROVE Aside
  BY <1>2 DEF Call, Aside
<1>3. ASSUME NEW k \in Keys, GetTorn(k) PROVE Aside
  BY <1>3 DEF GetTorn, Aside
<1>4. ASSUME NEW k \in Keys, GetDrops(k) PROVE Aside
  BY <1>4 DEF GetDrops, Aside
<1>5. ASSUME NEW k \in Keys, ClearShard(k) PROVE Aside
  BY <1>5 DEF ClearShard, Aside
<1>6. ASSUME NEW b \in Budgets, StoreBudget(b) PROVE Aside
  BY <1>6 DEF StoreBudget, Aside
<1>7. CASE SendWake
  BY <1>7 DEF SendWake, Aside
<1>8. CASE ClearList
  <2>1. temp => writer.op.key \in Keys
    BY Ops DEF Temp, Shape, Tasks
  <2>2. clearing' \subseteq Keys
    BY <1>8, <2>1 DEF ClearList, Present
  <2>3. QED BY <1>8, <2>2 DEF ClearList, Aside
<1>9. CASE CloseStores \/ CloseSignals \/ CloseReturns
  BY <1>9 DEF CloseStores, CloseSignals, CloseReturns, Aside
<1>10. CASE UNCHANGED vars
  BY <1>10 DEF vars, Aside
<1>11. QED
  BY <1>1, <1>2, <1>3, <1>4, <1>5, <1>6, <1>7, <1>8, <1>9, <1>10 DEF Next, Exited

LEMMA VanishFacts ==
  ASSUME Ages, Blobs, NEW k, Vanish(k)
  PROVE  Present' = Present \ {k} /\ Ages'
<1>1. Present' = Present \ {k}
  BY DEF Vanish, Present, Blobs
<1>2. age' = AgeWithout(k)
  BY DEF Vanish
<1>3. age' \in Seq(Keys) /\ IsInjective(age') /\ ToSet(age') = ToSet(age) \ {k}
  BY <1>2, AgeFacts DEF Ages
<1>4. QED BY <1>1, <1>3 DEF Ages

LEMMA Lighter ==
  ASSUME Ages, NEW L \in SUBSET Present, NEW K \in SUBSET L
  PROVE  Bytes(K) <= Bytes(L) /\ Bytes(K) \in Nat /\ Bytes(L) \in Nat
<1>1. IsFiniteSet(L) /\ L \in SUBSET Keys
  BY FiniteAge, FS_Subset
<1>2. QED BY <1>1, BytesGrow

(* A blob published is fresh, and the youngest. *)
LEMMA PublishAges ==
  ASSUME Shape, Ages, Publish
  PROVE  /\ Ages' /\ Present' \ fresh' \subseteq Present \ fresh
         /\ fresh' = fresh \/ \E k \in Keys : fresh' = fresh \cup {k}
         /\ fresh' # fresh => Stored
         /\ (writer' = Loop /\ UNCHANGED since /\ fresh' = fresh) \/ Stored
<1>1. writer.op \in Op /\ writer.op.key \in Keys /\ writer.op.n # NoBlob
  BY Ops, Constants DEF Shape, Tasks, Publish
<1>2. CASE UNCHANGED <<blob, age, fresh, since>> /\ writer' = Loop
  BY <1>2 DEF Ages, Present
<1>3. CASE /\ blob' = [blob EXCEPT ![writer.op.key] = writer.op.n]
           /\ age' = Append(AgeWithout(writer.op.key), writer.op.key)
           /\ fresh' = fresh \cup {writer.op.key} /\ Stored
  <2>1. Present' = Present \cup {writer.op.key}
    BY <1>1, <1>3 DEF Present, Shape, Blobs
  <2>2. /\ AgeWithout(writer.op.key) \in Seq(Keys) /\ IsInjective(AgeWithout(writer.op.key))
        /\ ToSet(AgeWithout(writer.op.key)) = ToSet(age) \ {writer.op.key}
    BY AgeFacts DEF Ages
  <2>3. /\ age' \in Seq(Keys) /\ IsInjective(age')
        /\ ToSet(age') = (ToSet(age) \ {writer.op.key}) \cup {writer.op.key}
    BY <1>1, <1>3, <2>2, AgeAppended
  <2>4. Ages'
    BY <2>1, <2>3 DEF Ages
  <2>5. QED BY <1>1, <1>3, <2>1, <2>4
<1>4. QED BY <1>2, <1>3 DEF Publish

LEMMA AgesKept == Shape /\ Tallies /\ Temp /\ Ages /\ [Next]_vars => Ages'
<1> SUFFICES ASSUME Shape, Tallies, Temp, Ages, [Next]_vars PROVE Ages'
  OBVIOUS
<1>1. ASSUME blob' = blob, age' = age PROVE Ages'
  BY <1>1 DEF Ages, Present
<1>2. ASSUME NEW k, Vanish(k) PROVE Ages'
  BY <1>2, VanishFacts DEF Shape
<1>3. CASE Aside
  BY <1>1, <1>2, <1>3 DEF Aside
<1>4. CASE Publish
  BY <1>4, PublishAges
<1>5. CASE DeleteBlob
  BY <1>1, <1>2, <1>5 DEF DeleteBlob
<1>6. CASE Evict
  BY <1>1, <1>2, <1>6 DEF Evict
<1>7. CASE TakeWake \/ Take \/ TakeStop \/ Leave \/ WriteTemp \/ Walk \/ Swept
  BY <1>1, <1>7 DEF TakeWake, Take, TakeStop, Leave, WriteTemp, Walk, Swept, files
<1>8. CASE Crash
  <2>1. PICK torn \in SUBSET Present, bad \in SUBSET {k \in Present : blob[k] # Torn} :
          blob' = [k \in Keys |-> IF k \in torn THEN Torn ELSE IF k \in bad THEN Damaged ELSE blob[k]]
    BY <1>8 DEF Crash
  <2>2. Present' = Present
    BY <2>1, Constants DEF Present
  <2>3. QED BY <1>8, <2>2 DEF Crash, Ages
<1>9. QED BY <1>3, <1>4, <1>5, <1>6, <1>7, <1>8, BesideTheWriter DEF Write

LEMMA TalliesKept == Shape /\ Tallies /\ Temp /\ [Next]_vars => Tallies'
<1> SUFFICES ASSUME Shape, Tallies, Temp, [Next]_vars PROVE Tallies'
  OBVIOUS
<1>1. since \in 0 .. PruneEvery - 1 /\ 0 \in 0 .. PruneEvery - 1 /\ PruneEvery \in Nat
  BY Constants DEF Tallies
<1>2. CASE Aside
  BY <1>2 DEF Aside, Tallies
<1>3. CASE Publish
  <2>1. writer.op.key \in Keys
    BY <1>3, Ops DEF Shape, Tasks, Publish
  <2>2. since' \in 0 .. PruneEvery - 1
    <3>1. CASE since' = since
      BY <1>1, <3>1
    <3>2. CASE since + 1 < PruneEvery /\ since' = since + 1
      BY <1>1, <3>2
    <3>3. CASE since' = 0
      BY <1>1, <3>3
    <3>4. QED BY <1>3, <3>1, <3>2, <3>3 DEF Publish, Stored
  <2>3. fresh' \subseteq Keys
    BY <1>3, <2>1 DEF Publish, Tallies
  <2>4. UNCHANGED <<dropping, clearing>>
    BY <1>3 DEF Publish, Rest
  <2>5. QED BY <2>2, <2>3, <2>4 DEF Tallies
<1>4. CASE Walk \/ Crash
  BY <1>1, <1>4 DEF Walk, Crash, Tallies, Rest
<1>5. CASE TakeWake \/ Take \/ TakeStop \/ Leave \/ DeleteBlob \/ WriteTemp \/ Evict \/ Swept
  BY <1>5 DEF TakeWake, Take, TakeStop, Leave, DeleteBlob, WriteTemp, Evict, Swept, Tallies,
              Rest, RestButWake
<1>6. QED BY <1>2, <1>3, <1>4, <1>5, BesideTheWriter DEF Write

LEMMA TempKept == Shape /\ Tallies /\ Temp /\ [Next]_vars => Temp'
<1> SUFFICES ASSUME Shape, Tallies, Temp, [Next]_vars PROVE Temp'
  OBVIOUS
<1>1. CASE Aside
  BY <1>1 DEF Aside, Temp
<1>2. CASE WriteTemp
  <2>1. DOMAIN writer = {"pc", "op", "files", "total", "cap", "draining"}
    BY DEF Shape, Tasks, AtSelect
  <2>2. QED BY <1>2, <2>1 DEF WriteTemp, Temp
<1>3. CASE Publish \/ Crash
  BY <1>3 DEF Publish, Crash, Temp
<1>4. CASE TakeWake \/ Take \/ TakeStop \/ Leave \/ DeleteBlob \/ Walk \/ Evict \/ Swept
  BY <1>4 DEF TakeWake, Take, TakeStop, Leave, DeleteBlob, Walk, Evict, Swept, Temp, files
<1>5. QED BY <1>1, <1>2, <1>3, <1>4, BesideTheWriter DEF Write

(* Where a step of the writer leaves it. *)
LEMMA WriterFields ==
  ASSUME Tasks
  PROVE  /\ DOMAIN writer = {"pc", "op", "files", "total", "cap", "draining"}
         /\ writer.draining \in BOOLEAN
         /\ AtSelect.pc = "select" /\ AtSelect.draining = FALSE
  BY DEF Tasks, AtSelect

LEMMA TakeFacts ==
  ASSUME Tasks, Take
  PROVE  /\ writer.pc \in {"select", "drain"} /\ writer'.pc = "write"
         /\ writer'.draining = writer.draining
         /\ UNCHANGED <<blob, age, since, fresh, missed, wake, waking, budget>>
  BY WriterFields DEF Take, files, Rest, control

LEMMA StopFacts ==
  ASSUME Tasks, TakeStop \/ Leave
  PROVE  /\ writer'.pc \in {"drain", "gone"} /\ UNCHANGED fresh
         /\ TakeStop => writer'.draining = TRUE
         /\ Leave => writer.pc = "drain" /\ writer'.draining = writer.draining
  BY WriterFields DEF TakeStop, Leave

LEMMA DeleteFacts ==
  ASSUME Tasks, DeleteBlob
  PROVE  /\ writer.pc = "write" /\ writer' = Loop
         /\ (blob' = blob /\ age' = age) \/ \E k : Vanish(k)
         /\ UNCHANGED <<since, fresh, missed, wake, waking, budget>>
  BY DEF DeleteBlob, Rest, control

LEMMA StepSweeps ==
  ASSUME Tasks, TakeWake \/ Walk \/ Swept
  PROVE  UNCHANGED <<blob, age, since, waking, budget>>
  BY DEF TakeWake, Walk, Swept, files, Rest, RestButWake, control

LEMMA EvictFacts ==
  ASSUME Shape, Sweep, Evict
  PROVE  /\ writer.pc = "evict" /\ writer'.pc = "evict" /\ writer'.draining = writer.draining
         /\ writer'.cap = writer.cap /\ writer'.files = Tail(writer.files)
         /\ writer.files # <<>> /\ writer.files \in Seq(Keys)
         /\ UNCHANGED <<since, fresh, wake, waking, budget>>
         /\ LET k == Head(writer.files)
            IN  \/ /\ k \in Present /\ Vanish(k) /\ missed' = missed
                   /\ writer'.total = writer.total - Size[k]
                \/ /\ blob' = blob /\ age' = age /\ writer'.total = writer.total
                   /\ missed' = (missed \/ k \in Present)
<1> DEFINE k == Head(writer.files)  next == [writer EXCEPT !.files = Tail(@)]
<1>1. k \in Keys /\ writer.files # <<>> /\ writer.files \in Seq(Keys)
  BY TailFacts DEF Sweep, Evict
<1>2. k \in Present <=> blob[k] # NoBlob
  BY <1>1 DEF Present
<1>3. /\ next.pc = writer.pc /\ next.draining = writer.draining /\ next.cap = writer.cap
      /\ next.files = Tail(writer.files) /\ next.total = writer.total
      /\ DOMAIN next = DOMAIN writer
  BY WriterFields DEF Shape
<1>4. writer.pc = "evict" /\ UNCHANGED <<since, fresh, wake, waking, budget>>
  BY DEF Evict, Rest, control
<1>5. CASE /\ blob[k] # NoBlob /\ Vanish(k) /\ missed' = missed
           /\ writer' = [next EXCEPT !.total = @ - Size[k]]
  <2>1. /\ writer'.pc = writer.pc /\ writer'.draining = writer.draining
        /\ writer'.cap = writer.cap /\ writer'.files = Tail(writer.files)
        /\ writer'.total = writer.total - Size[k]
    BY <1>3, <1>5, WriterFields DEF Shape
  <2>2. QED BY <1>1, <1>2, <1>4, <1>5, <2>1
<1>6. CASE /\ blob' = blob /\ age' = age /\ writer' = next
           /\ missed' = (missed \/ blob[k] # NoBlob)
  BY <1>1, <1>2, <1>3, <1>4, <1>6
<1>7. QED BY <1>5, <1>6 DEF Evict

LEMMA HeadTail ==
  ASSUME NEW q \in Seq(Keys), q # <<>>
  PROVE  Tail(q) \in Seq(Keys) /\ ToSet(q) = ToSet(Tail(q)) \cup {Head(q)}
<1>1. /\ Tail(q) \in Seq(Keys) /\ DOMAIN q = 1 .. Len(q) /\ Len(q) \in Nat /\ Len(q) > 0
      /\ DOMAIN Tail(q) = 1 .. Len(q) - 1 /\ Head(q) = q[1]
      /\ \A i \in 1 .. Len(q) - 1 : Tail(q)[i] = q[i + 1]
  OBVIOUS
<1> DEFINE t == Tail(q)
<1> HIDE DEF t
<1>2. DOMAIN t = 1 .. Len(q) - 1 /\ \A i \in 1 .. Len(q) - 1 : t[i] = q[i + 1]
  BY <1>1 DEF t
<1>3. ASSUME NEW i \in DOMAIN q PROVE q[i] = Head(q) \/ q[i] \in ToSet(t)
  <2>1. CASE i = 1
    BY <1>1, <2>1
  <2>2. CASE i # 1
    <3>1. i - 1 \in DOMAIN t /\ t[i - 1] = q[i]
      BY <1>1, <1>2, <2>2
    <3>2. QED BY <3>1 DEF ToSet
  <2>3. QED BY <2>1, <2>2
<1>4. ASSUME NEW i \in DOMAIN t PROVE t[i] \in ToSet(q)
  BY <1>1, <1>2 DEF ToSet
<1>5. Head(q) \in ToSet(q)
  BY <1>1 DEF ToSet
<1>6. ToSet(q) = ToSet(t) \cup {Head(q)}
  BY <1>3, <1>4, <1>5 DEF ToSet
<1>7. QED BY <1>1, <1>6 DEF t

(* Files only leave, unless the writer stores one. *)
LEMMA Leaving ==
  ASSUME Shape, Ages, (blob' = blob /\ age' = age) \/ \E k : Vanish(k)
  PROVE  Present' \subseteq Present
  BY VanishFacts DEF Shape, Present

LEMMA SweepKept == Shape /\ Tallies /\ Temp /\ Ages /\ Sweep /\ [Next]_vars => Sweep'
<1> SUFFICES ASSUME Shape, Tallies, Temp, Ages, Sweep, [Next]_vars, writer'.pc = "evict"
             PROVE  /\ writer'.files \in Seq(Keys) /\ writer'.total \in Int
                    /\ fresh' = {} /\ Bytes(Present') <= writer'.total
                    /\ missed' \/ Present' \subseteq ToSet(writer'.files)
                    /\ wake' \/ waking' \/ writer'.cap = budget'
  BY DEF Sweep
<1>1. CASE Aside
  <2>1. Present' \subseteq Present /\ UNCHANGED <<writer, fresh, missed>>
    BY <1>1, Leaving DEF Aside
  <2>2. Bytes(Present') <= Bytes(Present) /\ Bytes(Present') \in Nat /\ Bytes(Present) \in Nat
    BY <2>1, Lighter
  <2>3. Bytes(Present') <= writer.total
    BY <2>1, <2>2 DEF Sweep
  <2>4. wake' \/ waking' \/ writer.cap = budget'
    BY <1>1, <2>1 DEF Sweep, Aside
  <2>5. QED BY <2>1, <2>3, <2>4 DEF Sweep
<1>2. CASE Walk
  <2>1. writer' = [AtSelect EXCEPT !.pc = "evict", !.cap = budget, !.files = age,
                                   !.total = Bytes(Present)]
    BY <1>2, WriterFields DEF Walk, Shape
  <2>2. writer'.files = age /\ writer'.total = Bytes(Present) /\ writer'.cap = budget
    BY <2>1 DEF AtSelect
  <2>3. Present' = Present /\ budget' = budget /\ fresh' = {}
    BY <1>2, StepSweeps DEF Shape, Present, Walk
  <2>4. Bytes(Present) \in Nat
    BY Lighter
  <2>5. QED BY <2>2, <2>3, <2>4 DEF Ages
<1>3. CASE Evict
  <2> DEFINE k == Head(writer.files)
  <2>1. /\ writer'.cap = writer.cap /\ writer'.files = Tail(writer.files)
        /\ writer.pc = "evict" /\ UNCHANGED <<fresh, wake, waking, budget>>
        /\ writer.files # <<>> /\ writer.files \in Seq(Keys)
    BY <1>3, EvictFacts
  <2>2. /\ Tail(writer.files) \in Seq(Keys)
        /\ ToSet(writer.files) = ToSet(Tail(writer.files)) \cup {k}
    BY <2>1, HeadTail
  <2>3. /\ writer.total \in Int /\ fresh = {} /\ Bytes(Present) <= writer.total
        /\ missed \/ Present \subseteq ToSet(writer.files)
        /\ wake \/ waking \/ writer.cap = budget
    BY <2>1 DEF Sweep
  <2>4. CASE /\ k \in Present /\ Vanish(k) /\ missed' = missed
             /\ writer'.total = writer.total - Size[k]
    <3>1. Present' = Present \ {k}
      BY <2>4, VanishFacts DEF Shape
    <3>2. /\ Bytes(Present \ {k}) = Bytes(Present) - Size[k] /\ Size[k] \in Nat
          /\ Bytes(Present) \in Nat
      BY <2>4, FiniteAge, BytesWithout, CellFacts
    <3>3. Bytes(Present') <= writer'.total /\ writer'.total \in Int
      BY <2>3, <2>4, <3>1, <3>2
    <3>4. QED BY <2>1, <2>2, <2>3, <2>4, <3>1, <3>3
  <2>5. CASE /\ blob' = blob /\ writer'.total = writer.total
             /\ missed' = (missed \/ k \in Present)
    <3>1. Present' = Present
      BY <2>5 DEF Present
    <3>2. missed' \/ Present' \subseteq ToSet(writer'.files)
      BY <2>1, <2>2, <2>3, <2>5, <3>1
    <3>3. QED BY <2>1, <2>2, <2>3, <2>5, <3>1, <3>2
  <2>6. QED BY <1>3, <2>4, <2>5, EvictFacts
<1>4. CASE Publish
  BY <1>4, PublishFacts DEF Shape
<1>5. CASE WriteTemp
  BY <1>5, WriteTempFacts DEF Shape
<1>6. CASE DeleteBlob
  BY <1>6, DeleteFacts, LoopFacts DEF Shape
<1>7. CASE Take
  BY <1>7, TakeFacts DEF Shape
<1>8. CASE TakeStop \/ Leave
  BY <1>8, StopFacts DEF Shape
<1>9. CASE TakeWake \/ Swept \/ Crash
  BY <1>9, SweepingFacts, WriterFields DEF TakeWake, Swept, Crash, Shape
<1>10. QED
  BY <1>1, <1>2, <1>3, <1>4, <1>5, <1>6, <1>7, <1>8, <1>9, BesideTheWriter DEF Write

LEMMA FitsKept == Shape /\ Tallies /\ Temp /\ Ages /\ Sweep /\ Counted /\ Fits /\ [Next]_vars => Fits'
<1> SUFFICES ASSUME Shape, Tallies, Temp, Ages, Sweep, Counted, Fits, [Next]_vars,
                    writer'.pc \in {"select", "write", "publish"}, writer'.draining = FALSE, ~Asked'
             PROVE  budget' = 0 \/ Bytes(Present' \ fresh') <= budget'
  BY DEF Fits
<1>a. budget \in Nat
  BY DiskAssumption DEF Shape, Control
<1>b. ASSUME budget' = budget, Present' \ fresh' \subseteq Present \ fresh,
             ~Asked, writer.pc \in {"select", "write", "publish"}, writer.draining = FALSE
      PROVE  budget' = 0 \/ Bytes(Present' \ fresh') <= budget'
  <2>1. budget = 0 \/ Bytes(Present \ fresh) <= budget
    BY <1>b DEF Fits
  <2>2. /\ Bytes(Present' \ fresh') <= Bytes(Present \ fresh)
        /\ Bytes(Present' \ fresh') \in Nat /\ Bytes(Present \ fresh) \in Nat
    BY <1>b, Lighter
  <2>3. QED BY <1>a, <1>b, <2>1, <2>2
<1>1. CASE Aside
  <2>1. Present' \subseteq Present /\ UNCHANGED <<writer, fresh>>
    BY <1>1, Leaving DEF Aside
  <2>2. ~Asked /\ budget' = budget
    BY <1>1 DEF Aside, Asked
  <2>3. QED BY <1>b, <2>1, <2>2
<1>2. CASE Take
  <2>1. writer.pc = "select" /\ writer.draining = FALSE
    BY <1>2, TakeFacts DEF Shape, Counted
  <2>2. ~Asked /\ UNCHANGED <<budget, blob, fresh>>
    BY <1>2, TakeFacts DEF Shape, Asked
  <2>3. Present' = Present
    BY <2>2 DEF Present
  <2>4. QED BY <1>b, <2>1, <2>2, <2>3
<1>3. CASE DeleteBlob
  <2>1. writer.pc = "write" /\ writer.draining = FALSE
    BY <1>3, DeleteFacts, LoopFacts DEF Shape, Tasks
  <2>2. ~Asked /\ UNCHANGED <<budget, fresh>>
    BY <1>3, DeleteFacts DEF Shape, Asked
  <2>3. Present' \subseteq Present
    BY <1>3, DeleteFacts, Leaving DEF Shape
  <2>4. QED BY <1>b, <2>1, <2>2, <2>3
<1>4. CASE WriteTemp
  <2>1. writer.pc = "write" /\ writer.draining = FALSE
    BY <1>4, WriteTempFacts DEF Shape, Tasks
  <2>2. ~Asked /\ UNCHANGED <<budget, fresh, blob>>
    BY <1>4 DEF WriteTemp, Rest, control, Asked
  <2>3. Present' = Present
    BY <2>2 DEF Present
  <2>4. QED BY <1>b, <2>1, <2>2, <2>3
<1>5. CASE Publish
  <2>1. writer.pc = "publish" /\ writer.draining = FALSE
    BY <1>5, PublishFacts DEF Shape, Tasks
  <2>2. ~Asked /\ UNCHANGED budget
    BY <1>5 DEF Publish, Rest, control, Asked
  <2>3. Present' \ fresh' \subseteq Present \ fresh
    BY <1>5, PublishAges
  <2>4. QED BY <1>b, <2>1, <2>2, <2>3
<1>6. CASE Walk
  <2>1. budget = 0 \/ writer'.pc = "evict"
    BY <1>6 DEF Walk, AtSelect
  <2>2. QED BY <1>6, <2>1, StepSweeps DEF Shape
<1>7. CASE Swept
  <2>1. Present' = Present /\ UNCHANGED <<budget, fresh>> /\ ~Asked
    BY <1>7 DEF Swept, files, Rest, control, Asked, Present
  <2>2. /\ writer.total \in Int /\ fresh = {} /\ Bytes(Present) <= writer.total
        /\ Present \subseteq ToSet(writer.files) /\ writer.cap = budget
    BY <1>7, <2>1 DEF Swept, Sweep, Asked
  <2>3. Present \ fresh = Present /\ Bytes(Present) \in Nat
    BY <2>2, Lighter
  <2>4. CASE writer.total <= writer.cap
    BY <1>a, <2>1, <2>2, <2>3, <2>4
  <2>5. CASE writer.files = <<>>
    <3>1. Present = {}
      BY <2>2, <2>5, EmptyFacts DEF ToSet
    <3>2. QED BY <1>a, <2>1, <2>3, <3>1, BytesNone
  <2>6. QED BY <1>7, <2>4, <2>5 DEF Swept
<1>8. CASE Evict
  BY <1>8, EvictFacts
<1>9. CASE TakeStop \/ Leave
  BY <1>9, StopFacts DEF Shape
<1>10. CASE TakeWake \/ Crash
  BY <1>10, SweepingFacts DEF TakeWake, Crash
<1>11. QED
  BY <1>1, <1>2, <1>3, <1>4, <1>5, <1>6, <1>7, <1>8, <1>9, <1>10, BesideTheWriter DEF Write

LEMMA CountedKept ==
  Shape /\ Tallies /\ Temp /\ Ages /\ Sweep /\ Counted /\ [Next]_vars => Counted'
<1> SUFFICES ASSUME Shape, Tallies, Temp, Ages, Sweep, Counted, [Next]_vars PROVE Counted'
  OBVIOUS
<1>a. since \in Nat
  BY Constants DEF Tallies
<1>1. CASE Aside
  BY <1>1 DEF Aside, Counted
<1>2. CASE Take
  BY <1>2, TakeFacts DEF Counted, Shape
<1>3. CASE DeleteBlob
  BY <1>3, DeleteFacts, LoopFacts DEF Counted, Shape, Tasks
<1>4. CASE WriteTemp
  <2>1. UNCHANGED <<since, fresh>>
    BY <1>4 DEF WriteTemp
  <2>2. /\ writer.pc = "write" /\ writer.draining \in BOOLEAN
        /\ writer'.draining = writer.draining
    BY <1>4, WriteTempFacts DEF Shape, Tasks
  <2>3. \/ writer'.pc = "publish"
        \/ writer'.pc = IF writer.draining = TRUE THEN "drain" ELSE "select"
    BY <1>4, LoopFacts, WriterFields DEF WriteTemp, Shape
  <2>4. QED BY <2>1, <2>2, <2>3 DEF Counted
<1>5. CASE Publish
  <2>1. /\ writer'.draining \in BOOLEAN /\ writer.pc = "publish"
        /\ writer'.draining = TRUE <=> writer.draining = TRUE
        /\ writer'.pc \in {"drain", "select", "sweep"} /\ writer.draining \in BOOLEAN
    BY <1>5, PublishFacts DEF Shape, Tasks
  <2>2. /\ writer' = Loop => writer'.pc = IF writer.draining = TRUE THEN "drain" ELSE "select"
        /\ writer' = Sweeping => writer'.draining = FALSE /\ writer'.pc = "sweep"
    BY LoopFacts, SweepingFacts DEF Shape
  <2>3. IsFiniteSet(fresh) /\ Cardinality(fresh) \in Nat
    BY FS_CardinalityType DEF Counted
  <2>4. \A k : /\ IsFiniteSet(fresh \cup {k})
               /\ Cardinality(fresh \cup {k}) <= Cardinality(fresh) + 1
    <3> TAKE k
    <3>1. /\ IsFiniteSet(fresh \cup {k})
          /\ Cardinality(fresh \cup {k}) =
               IF k \in fresh THEN Cardinality(fresh) ELSE Cardinality(fresh) + 1
      BY <2>3, FS_AddElement
    <3>2. QED BY <2>3, <3>1
  <2>5. CASE writer' = Loop /\ UNCHANGED since /\ fresh' = fresh
    BY <2>1, <2>2, <2>5 DEF Counted
  <2>6. CASE Stored
    <3>1. CASE writer.draining = TRUE
      BY <1>5, <2>1, <2>2, <2>3, <2>4, <2>6, <3>1, PublishAges DEF Counted, Stored
    <3>2. CASE writer.draining = FALSE /\ since + 1 < PruneEvery
      <4>1. writer' = Loop /\ since' = since + 1
        BY <2>6, <3>2 DEF Stored
      <4>2. Cardinality(fresh) <= since
        BY <2>1, <3>2 DEF Counted
      <4>3. IsFiniteSet(fresh') /\ Cardinality(fresh') <= since + 1
        <5>1. CASE fresh' = fresh
          BY <1>a, <2>3, <4>2, <5>1
        <5>2. ASSUME NEW k \in Keys, fresh' = fresh \cup {k}
              PROVE  IsFiniteSet(fresh') /\ Cardinality(fresh') <= since + 1
          <6> DEFINE more == fresh \cup {k}
          <6>1. IsFiniteSet(more) /\ Cardinality(more) <= Cardinality(fresh) + 1
            BY <2>4
          <6>2. Cardinality(more) \in Nat
            BY <6>1, FS_CardinalityType
          <6> HIDE DEF more
          <6>3. Cardinality(more) <= since + 1
            BY <1>a, <2>3, <4>2, <6>1, <6>2
          <6>4. QED BY <5>2, <6>1, <6>3 DEF more
        <5>3. QED BY <1>5, <5>1, <5>2, PublishAges DEF Shape
      <4>4. QED BY <2>1, <2>2, <3>2, <4>1, <4>3 DEF Counted
    <3>3. CASE writer.draining = FALSE /\ ~(since + 1 < PruneEvery)
      BY <1>5, <2>1, <2>2, <2>3, <2>4, <2>6, <3>3, PublishAges DEF Counted, Stored
    <3>4. QED BY <2>1, <3>1, <3>2, <3>3
  <2>7. QED BY <1>5, <2>5, <2>6, PublishAges
<1>6. CASE Walk
  <2>1. fresh' = {} /\ since' = since /\ writer'.draining = FALSE
        /\ writer'.pc \in {"select", "evict"}
    BY <1>6 DEF Walk, AtSelect
  <2>2. QED BY <1>a, <2>1, FS_EmptySet DEF Counted
<1>7. CASE Swept
  <2>1. UNCHANGED <<since, fresh>> /\ writer'.draining = FALSE /\ writer'.pc = "select"
    BY <1>7 DEF Swept, AtSelect
  <2>2. writer.pc = "evict" /\ writer.draining = FALSE
    BY <1>7 DEF Swept, Counted
  <2>3. QED BY <2>1, <2>2 DEF Counted
<1>8. CASE Evict
  BY <1>8, EvictFacts DEF Counted
<1>9. CASE TakeStop
  BY <1>9, StopFacts DEF Counted, Shape
<1>10. CASE Leave
  BY <1>10, StopFacts DEF Counted, Shape
<1>11. CASE TakeWake
  BY <1>11, SweepingFacts DEF TakeWake, Counted
<1>12. CASE Crash
  BY <1>12, SweepingFacts, FS_EmptySet DEF Crash, Counted
<1>13. QED
  BY <1>1, <1>2, <1>3, <1>4, <1>5, <1>6, <1>7, <1>8, <1>9, <1>10, <1>11, <1>12, BesideTheWriter
     DEF Write

LEMMA BudgetInvInit == Init => BudgetInv
<1> SUFFICES ASSUME Init PROVE BudgetInv
  OBVIOUS
<1>1. Present = {} /\ age = <<>>
  BY DEF Init, Present
<1>2. ToSet(age) = {} /\ age \in Seq(Keys) /\ IsInjective(age)
  BY <1>1, EmptyFacts DEF ToSet, IsInjective
<1>3. Ages
  BY <1>1, <1>2 DEF Ages
<1>4. writer.pc = "sweep" /\ writer.draining = FALSE
  BY DEF Init, AtSelect
<1>5. Tallies
  BY Constants DEF Init, Tallies
<1>6. Temp /\ Sweep /\ Fits
  BY <1>4 DEF Init, Temp, Sweep, Fits
<1>7. Counted
  BY <1>4, FS_EmptySet DEF Init, Counted
<1>8. QED BY <1>3, <1>5, <1>6, <1>7 DEF BudgetInv

LEMMA BudgetInvariant == Spec => [](DiskInv /\ BudgetInv)
<1>1. DiskInv /\ BudgetInv /\ [Next]_vars => BudgetInv'
  BY AgesKept, TalliesKept, TempKept, SweepKept, FitsKept, CountedKept DEF BudgetInv, DiskInv
<1>2. QED BY DiskInvariant, BudgetInvInit, <1>1, PTL DEF Spec

(* DiskCache: every variable keeps its type, and the order of modification  *)
(* lists exactly the blobs that are there, each once.                       *)
THEOREM TypeCorrect == Spec => []TypeOK
<1>1. DiskInv /\ BudgetInv => TypeOK
  BY DEF DiskInv, Shape, BudgetInv, TypeOK
<1>2. QED BY BudgetInvariant, <1>1, PTL

(* DiskCache.prune and SetBudget: while the writer waits and nobody has     *)
(* asked for a sweep, what the last one saw fits in the budget of this      *)
(* moment, and fewer than diskPruneEvery blobs were stored since.           *)
THEOREM BudgetHolds == Spec => []BudgetEnforced
<1>1. ASSUME DiskInv, BudgetInv, writer.pc = "select", ~wake, ~waking, ~missed
      PROVE  (budget = 0 \/ Bytes(Present \ fresh) <= budget) /\ Cardinality(fresh) < PruneEvery
  <2>1. writer.draining = FALSE /\ ~Asked
    BY <1>1 DEF BudgetInv, Counted, Asked
  <2>2. budget = 0 \/ Bytes(Present \ fresh) <= budget
    BY <1>1, <2>1 DEF BudgetInv, Fits
  <2>3. Cardinality(fresh) <= since /\ Cardinality(fresh) \in Nat
    BY <1>1, <2>1, FS_CardinalityType DEF BudgetInv, Counted
  <2>4. since \in 0 .. PruneEvery - 1
    BY <1>1 DEF BudgetInv, Tallies
  <2>5. QED BY <2>2, <2>3, <2>4, Constants
<1>2. DiskInv /\ BudgetInv => BudgetEnforced
  BY <1>1 DEF BudgetEnforced
<1>3. QED BY BudgetInvariant, <1>2, PTL
=============================================================================
