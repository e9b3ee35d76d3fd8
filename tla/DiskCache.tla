------------------------------- MODULE DiskCache -------------------------------
(***************************************************************************)
(* The disk tier (internal/cache/disk.go): callers queue writes and        *)
(* deletes without blocking, one goroutine applies them through a          *)
(* temporary file and a rename and sweeps the oldest blobs past the byte   *)
(* budget, readers read whatever lies under the final name, Clear deletes  *)
(* beside all of them, and the process may die between any two steps.      *)
(***************************************************************************)
EXTENDS Integers, Sequences, FiniteSets, SequencesExt

CONSTANTS
  Keys,        (* hashed URLs; each has a shard directory of its own       *)
  Size,        (* bytes of the blob under a key                            *)
  Callers,     (* pool workers and the decoder, inside Put or Delete       *)
  Budgets,     (* what the Settings slider may say; 0 is unlimited         *)
  QueueCap,    (* writeQueueCap                                            *)
  PruneEvery,  (* diskPruneEvery                                           *)
  NoKey, NoBlob, Torn, Damaged,
  MaxOps,      (* bound on calls of Put and Delete                         *)
  MaxBudgets,  (* bound on moves of the slider                             *)
  MaxUpsets    (* bound on presses of Clear Disk Cache and deaths of the   *)
               (* process, together                                        *)

ASSUME DiskAssumption ==
  /\ Size \in [Keys -> Nat \ {0}] /\ Budgets \subseteq Nat
  /\ {QueueCap, PruneEvery} \subseteq Nat \ {0}
  /\ {MaxOps, MaxBudgets, MaxUpsets} \subseteq Nat
  /\ NoKey \notin Keys /\ {NoBlob, Torn, Damaged} \cap Nat = {}
  /\ NoBlob # Torn /\ NoBlob # Damaged /\ Torn # Damaged

VARIABLES
  blob,      (* what lies under each key's final name: an operation's n,   *)
             (* Torn (no bytes, or a frame that does not decode), Damaged  *)
             (* (bytes that Get takes for a blob and are none) or NoBlob   *)
  age,       (* the keys with a blob, oldest modification first            *)
  temp,      (* the writer's temporary file is there                       *)
  queue, wake, budget, stopped, stop,
  writer,    (* the goroutine of writerLoop                                *)
  since,     (* its sincePrune                                             *)
  caller,    (* a Put or a Delete past its test of stopped                 *)
  dropping,  (* keys a Get found torn and is about to remove               *)
  clearing,  (* the shards Clear listed and has not removed                *)
  waking,    (* SetBudget stored the budget and has not sent the wake      *)
  closer,    (* the goroutine in Close                                     *)
  fresh,     (* history: keys stored since the last sweep began            *)
  missed,    (* history: the last sweep met a file it could not remove     *)
  owed,      (* history: operations accepted before Close                  *)
  ops, moves, upsets

files   == <<blob, age, temp>>
control == <<budget, wake, waking, stopped, stop, closer>>
bounds  == <<ops, moves, upsets>>
vars == <<files, queue, control, writer, since, caller, dropping, clearing, fresh, missed,
          owed, bounds>>

Op == [key : Keys, n : 1 .. MaxOps, del : BOOLEAN]
Idle == [key |-> NoKey, n |-> 0, del |-> FALSE]
AtSelect == [pc |-> "select", op |-> Idle, files |-> <<>>, total |-> 0, cap |-> 0,
             draining |-> FALSE]

Blobs == blob \in [Keys -> 1 .. MaxOps \cup {NoBlob, Torn, Damaged}]

Present == {k \in Keys : blob[k] # NoBlob}

Ages == age \in Seq(Keys) /\ ToSet(age) = Present /\ IsInjective(age)

Control ==
  /\ wake \in BOOLEAN /\ waking \in BOOLEAN /\ budget \in Budgets
  /\ stopped \in BOOLEAN /\ stop \in BOOLEAN
  /\ closer \in {"no", "stopped", "waiting", "returned"}

Tasks ==
  /\ queue \in Seq(Op) /\ Len(queue) <= QueueCap
  /\ caller \in [Callers -> Op \cup {Idle}]
  /\ DOMAIN writer = DOMAIN AtSelect /\ writer.draining \in BOOLEAN
  /\ writer.pc \in {"sweep", "evict", "select", "write", "publish", "drain", "gone"}
  /\ writer.pc \in {"write", "publish"} => writer.op \in Op
  /\ ops \in 0 .. MaxOps

Tallies ==
  /\ since \in 0 .. PruneEvery - 1
  /\ dropping \subseteq Keys /\ clearing \subseteq Keys /\ fresh \subseteq Keys

TypeOK == Blobs /\ Ages /\ Control /\ Tasks /\ Tallies

Init ==
  /\ blob = [k \in Keys |-> NoBlob] /\ age = <<>> /\ temp = FALSE
  /\ queue = <<>> /\ wake = FALSE /\ waking = FALSE /\ budget \in Budgets
  /\ stopped = FALSE /\ stop = FALSE /\ closer = "no"
  /\ writer = [AtSelect EXCEPT !.pc = "sweep"] /\ since = 0
  /\ caller = [c \in Callers |-> Idle]
  /\ dropping = {} /\ clearing = {}
  /\ fresh = {} /\ missed = FALSE /\ owed = {}
  /\ ops = 0 /\ moves = 0 /\ upsets = 0

(* Every byte counted once: the first of k's blob, the second, ... *)
Bytes(K) == Cardinality(UNION {{k} \X (1 .. Size[k]) : k \in K})

AgeWithout(k) ==
  IF k \in ToSet(age) THEN RemoveAt(age, CHOOSE i \in DOMAIN age : age[i] = k) ELSE age

Vanish(k) ==
  /\ blob' = [blob EXCEPT ![k] = NoBlob]
  /\ age' = AgeWithout(k)

-----------------------------------------------------------------------------
(* Callers *)

(* Put or Delete reads stopped; what it will send is fixed by then. *)
Call(c, k, del) ==
  /\ caller[c] = Idle /\ ~stopped /\ ops < MaxOps
  /\ ops' = ops + 1
  /\ caller' = [caller EXCEPT ![c] = [key |-> k, n |-> ops + 1, del |-> del]]
  /\ UNCHANGED <<files, queue, control, writer, since, dropping, clearing, fresh, missed, owed,
                 moves, upsets>>

(* Mutant of Enqueue: the writer serves deletes before writes. *)
EnqueueDeletesFirst(c) ==
  /\ caller[c] # Idle
  /\ queue' = IF Len(queue) = QueueCap THEN queue
              ELSE IF caller[c].del THEN <<caller[c]>> \o queue ELSE Append(queue, caller[c])
  /\ caller' = [caller EXCEPT ![c] = Idle]
  /\ UNCHANGED <<files, control, writer, since, dropping, clearing, fresh, missed, owed, bounds>>

(* The non-blocking send: a full queue drops the operation. *)
Enqueue(c) ==
  /\ caller[c] # Idle
  /\ queue' = IF Len(queue) < QueueCap THEN Append(queue, caller[c]) ELSE queue
  /\ caller' = [caller EXCEPT ![c] = Idle]
  /\ UNCHANGED <<files, control, writer, since, dropping, clearing, fresh, missed, owed, bounds>>

(* Get found no bytes, or a compressed frame that does not decode, and only *)
(* later removes what is there. It has no way to tell a damaged raw blob.   *)
GetTorn(k) ==
  /\ blob[k] = Torn /\ dropping' = dropping \cup {k}
  /\ UNCHANGED <<files, queue, control, writer, since, caller, clearing, fresh, missed, owed,
                 bounds>>

GetDrops(k) ==
  /\ k \in dropping /\ dropping' = dropping \ {k}
  /\ Vanish(k)
  /\ UNCHANGED <<temp, queue, control, writer, since, caller, clearing, fresh, missed, owed,
                 bounds>>

-----------------------------------------------------------------------------
(* Settings and shutdown *)

MoveSlider == moves < MaxBudgets /\ ~waking /\ closer = "no" /\ moves' = moves + 1

StoreBudget(b) ==
  /\ MoveSlider
  /\ budget' = b /\ waking' = TRUE
  /\ UNCHANGED <<wake, files, queue, stopped, stop, closer, writer, since, caller, dropping,
                 clearing, fresh, missed, owed, ops, upsets>>

(* Mutant of SendWake: the channel has no buffer. *)
SendWakeUnbuffered ==
  /\ waking /\ waking' = FALSE
  /\ wake' = (writer.pc = "select")
  /\ UNCHANGED <<budget, files, queue, stopped, stop, closer, writer, since, caller, dropping,
                 clearing, fresh, missed, owed, bounds>>

(* pruneReq holds one wake and keeps it. *)
SendWake ==
  /\ waking /\ waking' = FALSE
  /\ wake' = TRUE
  /\ UNCHANGED <<budget, files, queue, stopped, stop, closer, writer, since, caller, dropping,
                 clearing, fresh, missed, owed, bounds>>

(* Clear lists the root, then removes the shards it saw. *)
ClearList ==
  /\ clearing = {} /\ upsets < MaxUpsets /\ upsets' = upsets + 1
  /\ clearing' = Present \cup {writer.op.key : x \in {y \in {temp} : y}}
  /\ UNCHANGED <<files, queue, control, writer, since, caller, dropping, fresh, missed, owed, ops,
                 moves>>

(* RemoveAll of a shard: what it cannot remove stays. *)
ClearShard(k) ==
  /\ k \in clearing /\ clearing' = clearing \ {k}
  /\ Vanish(k) \/ UNCHANGED <<blob, age>>
  /\ temp' \in {temp, temp /\ writer.op.key # k}
  /\ UNCHANGED <<queue, control, writer, since, caller, dropping, fresh, missed, owed, bounds>>

InFlight == IF writer.pc \in {"write", "publish"} THEN <<writer.op>> ELSE <<>>

CloseStores ==
  /\ closer = "no" /\ closer' = "stopped" /\ stopped' = TRUE
  /\ owed' = ToSet(InFlight \o queue)
  /\ UNCHANGED <<budget, wake, waking, stop, files, queue, writer, since, caller, dropping,
                 clearing, fresh, missed, bounds>>

(* Mutant of CloseSignals: the flag is all there is. *)
CloseSignalsNobody ==
  /\ closer = "stopped" /\ closer' = "waiting"
  /\ UNCHANGED <<budget, wake, waking, stopped, stop, files, queue, writer, since, caller,
                 dropping, clearing, fresh, missed, owed, bounds>>

CloseSignals ==
  /\ closer = "stopped" /\ closer' = "waiting" /\ stop' = TRUE
  /\ UNCHANGED <<budget, wake, waking, stopped, files, queue, writer, since, caller, dropping,
                 clearing, fresh, missed, owed, bounds>>

CloseReturns ==
  /\ closer = "waiting" /\ writer.pc = "gone" /\ closer' = "returned"
  /\ UNCHANGED <<budget, wake, waking, stopped, stop, files, queue, writer, since, caller,
                 dropping, clearing, fresh, missed, owed, bounds>>

-----------------------------------------------------------------------------
(* The writer *)

Rest == <<control, caller, dropping, clearing, owed, bounds>>
RestButWake == <<budget, waking, stopped, stop, closer, caller, dropping, clearing, owed, bounds>>

(* Once the channel is closed the loop is inside the drain. *)
Loop == IF writer.draining THEN [AtSelect EXCEPT !.pc = "drain", !.draining = TRUE] ELSE AtSelect

Sweeping == [AtSelect EXCEPT !.pc = "sweep"]

TakeWake ==
  /\ writer.pc = "select" /\ wake /\ wake' = FALSE
  /\ writer' = Sweeping
  /\ UNCHANGED <<files, queue, since, fresh, missed, RestButWake>>

Take ==
  /\ writer.pc \in {"select", "drain"} /\ queue # <<>>
  /\ writer' = [writer EXCEPT !.pc = "write", !.op = Head(queue)]
  /\ queue' = Tail(queue)
  /\ UNCHANGED <<files, since, fresh, missed, Rest>>

(* Mutant of TakeStop: the writer leaves at once. *)
TakeStopAtOnce ==
  /\ writer.pc = "select" /\ stop
  /\ writer' = [writer EXCEPT !.pc = "gone"]
  /\ UNCHANGED <<files, queue, since, fresh, missed, Rest>>

TakeStop ==
  /\ writer.pc = "select" /\ stop
  /\ writer' = [writer EXCEPT !.pc = "drain", !.draining = TRUE]
  /\ UNCHANGED <<files, queue, since, fresh, missed, Rest>>

Leave ==
  /\ writer.pc = "drain" /\ queue = <<>>
  /\ writer' = [writer EXCEPT !.pc = "gone"]
  /\ UNCHANGED <<files, queue, since, fresh, missed, Rest>>

(* A delete: the file goes, or stays behind a lock and is reported. *)
DeleteBlob ==
  /\ writer.pc = "write" /\ writer.op.del
  /\ Vanish(writer.op.key) \/ UNCHANGED <<blob, age>>
  /\ writer' = Loop
  /\ UNCHANGED <<temp, queue, since, fresh, missed, Rest>>

(* The shard directory and the temporary file; any step of it may fail.     *)
WriteTemp ==
  /\ writer.pc = "write" /\ ~writer.op.del
  /\ \/ temp' = TRUE /\ writer' = [writer EXCEPT !.pc = "publish"]
     \/ temp' = FALSE /\ writer' = Loop
  /\ UNCHANGED <<blob, age, queue, since, fresh, missed, Rest>>

(* A completed store counts towards the next sweep, except in the drain.    *)
Stored ==
  IF writer.draining THEN writer' = Loop /\ UNCHANGED since
  ELSE IF since + 1 < PruneEvery THEN writer' = Loop /\ since' = since + 1
  ELSE writer' = Sweeping /\ since' = 0

(* The rename replaces whatever lay there, unless the file was swept away.  *)
Publish ==
  /\ writer.pc = "publish" /\ temp' = FALSE
  /\ \/ /\ temp
        /\ blob' = [blob EXCEPT ![writer.op.key] = writer.op.n]
        /\ age' = Append(AgeWithout(writer.op.key), writer.op.key)
        /\ fresh' = fresh \cup {writer.op.key}
        /\ Stored
     \/ writer' = Loop /\ UNCHANGED <<blob, age, fresh, since>>
  /\ UNCHANGED <<queue, missed, Rest>>

(* prune: the walk over the published blobs. *)
Walk ==
  /\ writer.pc = "sweep" /\ fresh' = {} /\ missed' = FALSE
  /\ writer' = IF budget = 0 THEN AtSelect
               ELSE [AtSelect EXCEPT !.pc = "evict", !.cap = budget, !.files = age,
                                     !.total = Bytes(Present)]
  /\ UNCHANGED <<files, queue, since, Rest>>

(* prune: the oldest goes first. One that someone else removed, or that is  *)
(* locked, does not lower the total.                                        *)
Evict ==
  /\ writer.pc = "evict" /\ writer.total > writer.cap /\ writer.files # <<>>
  /\ LET k == Head(writer.files)
         next == [writer EXCEPT !.files = Tail(@)]
     IN  \/ /\ blob[k] # NoBlob /\ Vanish(k)
            /\ writer' = [next EXCEPT !.total = @ - Size[k]]
            /\ UNCHANGED missed
         \/ /\ UNCHANGED <<blob, age>>
            /\ writer' = next
            /\ missed' = (missed \/ blob[k] # NoBlob)
  /\ UNCHANGED <<temp, queue, since, fresh, Rest>>

Swept ==
  /\ writer.pc = "evict" /\ (writer.total <= writer.cap \/ writer.files = <<>>)
  /\ writer' = AtSelect
  /\ UNCHANGED <<files, queue, since, fresh, missed, Rest>>

-----------------------------------------------------------------------------
(* The process or the machine dies and is started again. A blob's bytes are *)
(* never synced, so any may come back torn or damaged; renames and removals *)
(* are taken to survive. The queue is gone; the sweep at open is due.       *)
Crash ==
  /\ upsets < MaxUpsets /\ upsets' = upsets + 1
  /\ \E torn \in SUBSET Present, bad \in SUBSET {k \in Present : blob[k] # Torn} :
       blob' = [k \in Keys |-> IF k \in torn THEN Torn ELSE IF k \in bad THEN Damaged ELSE blob[k]]
  /\ temp' = FALSE /\ queue' = <<>> /\ wake' = FALSE /\ waking' = FALSE
  /\ stopped' = FALSE /\ stop' = FALSE /\ closer' = "no"
  /\ writer' = Sweeping /\ since' = 0
  /\ caller' = [c \in Callers |-> Idle]
  /\ dropping' = {} /\ clearing' = {} /\ fresh' = {} /\ missed' = FALSE /\ owed' = {}
  /\ UNCHANGED <<age, budget, ops, moves>>

Write == TakeWake \/ Take \/ TakeStop \/ Leave \/ DeleteBlob \/ WriteTemp \/ Publish \/ Walk
           \/ Evict \/ Swept

(* After Close the application exits: nothing is left to do. *)
Exited == closer = "returned" /\ UNCHANGED vars

Next ==
  \/ \E c \in Callers : Enqueue(c) \/ \E k \in Keys, del \in BOOLEAN : Call(c, k, del)
  \/ \E k \in Keys : GetTorn(k) \/ GetDrops(k) \/ ClearShard(k)
  \/ \E b \in Budgets : StoreBudget(b)
  \/ SendWake \/ ClearList \/ CloseStores \/ CloseSignals \/ CloseReturns
  \/ Write \/ Crash \/ Exited

Spec == Init /\ [][Next]_vars /\ WF_vars(Write) /\ WF_vars(CloseReturns)

-----------------------------------------------------------------------------
(* Properties *)

(* What callers of Put, Delete and Get rely on: the tier is a map that may  *)
(* forget, changed in the order the operations were accepted. In particular *)
(* a payload purged as corrupt stays purged until someone stores it anew,   *)
(* whatever the writer, Clear and other readers do meanwhile, and a reader  *)
(* never gets anything but a whole blob that was stored, unless it was      *)
(* damaged by a crash and neither purged nor stored since.                  *)
Visible == [k \in Keys |-> IF blob[k] = Torn THEN NoBlob ELSE blob[k]]

Promise == INSTANCE BlobStore WITH Ops <- Op, store <- Visible, pending <- InFlight \o queue
StoreSpec == Promise!Spec

(* disk.go:345: "so readers never observe a partial blob under the final    *)
(* name". A crash included (disk.go:219).                                   *)
NoPartialBlob == \A k \in Keys : Visible[k] # Damaged

(* prune and SetBudget: whenever the writer waits and no sweep has been     *)
(* asked for, the blobs the last sweep saw fit in the budget of this        *)
(* moment, unless a file could not be removed; and fewer than               *)
(* diskPruneEvery were stored since.                                        *)
BudgetEnforced ==
  writer.pc = "select" /\ ~wake /\ ~waking /\ ~missed =>
    /\ budget = 0 \/ Bytes(Present \ fresh) <= budget
    /\ Cardinality(fresh) < PruneEvery

(* Close: when it has returned, every operation accepted before it was      *)
(* called has been carried out, or has failed and been reported.            *)
CloseDrains ==
  closer = "returned" => writer.pc = "gone" /\ owed \cap ToSet(queue) = {}

(* Close returns: the writer is always on its way back to the select, and   *)
(* what is left of the queue is finite.                                     *)
CloseEnds == closer = "waiting" ~> closer # "waiting"
=============================================================================
