--------------------------------- MODULE Conn ---------------------------------
(***************************************************************************)
(* One WebSocket connection of internal/protocol/conn.go: readLoop parks   *)
(* packets in a bounded backlog without ever blocking, deliverLoop hands   *)
(* them to Incoming and may block for hours, keepaliveLoop pings, and any  *)
(* of them or the application may close.                                   *)
(***************************************************************************)
EXTENDS Integers, Sequences, SequencesExt, FiniteSetsExt

CONSTANTS
  Sizes,        (* wire sizes a frame may have                             *)
  BacklogCap,   (* readBacklogCap                                          *)
  IncomingCap,  (* incomingQueueCap                                        *)
  MaxBytes,     (* readBacklogMaxBytes                                     *)
  MaxPackets,   (* bound on frames the server sends                        *)
  MaxPings      (* bound on keepalive writes that succeed                  *)

ASSUME ConnAssumption ==
  /\ Sizes \subseteq Nat \ {0}
  /\ {BacklogCap, IncomingCap, MaxBytes} \subseteq Nat \ {0}
  /\ {MaxPackets, MaxPings} \subseteq Nat

VARIABLES
  socket,    (* "up", "dead" once the transport drops, or "shut" by Close  *)
  closed,    (* close(c.closed) has happened                               *)
  readErr,   (* Conn.readErr                                               *)
  reader,    (* readLoop: its place and the packet in hand                 *)
  backlog, parked, (* Conn.backlog and Conn.backlogBytes                   *)
  deliver,   (* deliverLoop: its place and the packet in hand              *)
  incoming,  (* Conn.incoming ...                                          *)
  incomingClosed,
  pinger,    (* where keepaliveLoop stands                                 *)
  pings,
  sent,      (* frames the server has sent                                 *)
  seen       (* packets the application took, oldest first                 *)

app    == <<incoming, incomingClosed, seen>>
queue  == <<backlog, parked>>
vars == <<socket, closed, readErr, reader, queue, deliver, app, pinger, pings, sent>>

NoPacket == [id |-> 0, size |-> 0]
Packet   == [id : 0 .. MaxPackets, size : Sizes \cup {0}]
At(pc, p) == [pc |-> pc, packet |-> p]

Bytes(s) == FoldLeft(LAMBDA n, p : n + p.size, 0, s)

TypeOK ==
  /\ socket \in {"up", "dead", "shut"} /\ closed \in BOOLEAN
  /\ readErr \in {"nil", "read", "overflow", "keepalive"}
  /\ reader \in [pc : {"read", "enqueue", "charge", "store", "exited"}, packet : Packet]
  /\ backlog \in Seq(Packet) /\ Len(backlog) <= BacklogCap
  /\ parked \in Int
  /\ deliver \in [pc : {"take", "give", "release", "exited"}, packet : Packet]
  /\ incoming \in Seq(Packet) /\ Len(incoming) <= IncomingCap
  /\ incomingClosed \in BOOLEAN
  /\ pinger \in {"wait", "write", "failed", "close", "exited"}
  /\ pings \in 0 .. MaxPings /\ sent \in 0 .. MaxPackets
  /\ seen \in Seq(Packet)

Init ==
  /\ socket = "up" /\ closed = FALSE /\ readErr = "nil"
  /\ reader = At("read", NoPacket)
  /\ backlog = <<>> /\ parked = 0
  /\ deliver = At("take", NoPacket)
  /\ incoming = <<>> /\ incomingClosed = FALSE
  /\ pinger = "wait" /\ pings = 0 /\ sent = 0 /\ seen = <<>>

(* Close, from any goroutine; the first call does the work. *)
Close ==
  /\ closed' = TRUE
  /\ socket' = IF closed THEN socket ELSE "shut"

FirstError(e) == readErr' = IF readErr = "nil" THEN e ELSE readErr

-----------------------------------------------------------------------------
(* readLoop *)

Receive(n) ==
  /\ reader.pc = "read" /\ socket = "up" /\ sent < MaxPackets
  /\ sent' = sent + 1
  /\ reader' = At("enqueue", [id |-> sent + 1, size |-> n])
  /\ UNCHANGED <<socket, closed, readErr, queue, deliver, app, pinger, pings>>

TooBig == parked + reader.packet.size > MaxBytes

(* The drain has been dead for the whole bound: give the connection up. *)
Overflow ==
  /\ reader.pc = "enqueue"
  /\ TooBig \/ (Len(backlog) = BacklogCap /\ ~closed)
  /\ FirstError("overflow") /\ Close
  /\ reader' = At("read", NoPacket)
  /\ UNCHANGED <<queue, deliver, app, pinger, pings, sent>>

EnqueueFrame ==
  /\ reader.pc = "enqueue" /\ ~TooBig /\ Len(backlog) < BacklogCap
  /\ backlog' = Append(backlog, reader.packet)
  /\ reader' = At("charge", reader.packet)
  /\ UNCHANGED <<socket, closed, readErr, parked, deliver, app, pinger, pings, sent>>

(* The bytes are added after the send: deliverLoop may have been faster. *)
Charge ==
  /\ reader.pc = "charge"
  /\ parked' = parked + reader.packet.size
  /\ reader' = At("read", NoPacket)
  /\ UNCHANGED <<socket, closed, readErr, backlog, deliver, app, pinger, pings, sent>>

(* Once closed, the select may drop the packet instead. *)
DropClosed ==
  /\ reader.pc = "enqueue" /\ ~TooBig /\ closed
  /\ reader' = At("read", NoPacket)
  /\ UNCHANGED <<socket, closed, readErr, queue, deliver, app, pinger, pings, sent>>

(* ws.Read fails: the error of a deliberate close is not one. *)
ReadFails ==
  /\ reader.pc = "read" /\ socket # "up"
  /\ reader' = At(IF closed THEN "exited" ELSE "store", NoPacket)
  /\ UNCHANGED <<socket, closed, readErr, queue, deliver, app, pinger, pings, sent>>

StoreError ==
  /\ reader.pc = "store"
  /\ readErr' = "read"
  /\ reader' = At("exited", NoPacket)
  /\ UNCHANGED <<socket, closed, queue, deliver, app, pinger, pings, sent>>

-----------------------------------------------------------------------------
(* deliverLoop *)

TakeNext ==
  /\ deliver.pc = "take" /\ backlog # <<>>
  /\ deliver' = At("give", Head(backlog)) /\ backlog' = Tail(backlog)
  /\ UNCHANGED <<socket, closed, readErr, reader, parked, app, pinger, pings, sent>>

(* Mutant of BacklogDone: the reader's exit ends the delivery. *)
BacklogAbandoned ==
  /\ deliver.pc = "take" /\ reader.pc = "exited"
  /\ deliver' = At("exited", NoPacket) /\ incomingClosed' = TRUE
  /\ UNCHANGED <<socket, closed, readErr, reader, queue, incoming, seen, pinger, pings, sent>>

(* readLoop, the only sender, closed the backlog and it is empty. *)
BacklogDone ==
  /\ deliver.pc = "take" /\ backlog = <<>> /\ reader.pc = "exited"
  /\ deliver' = At("exited", NoPacket) /\ incomingClosed' = TRUE
  /\ UNCHANGED <<socket, closed, readErr, reader, queue, incoming, seen, pinger, pings, sent>>

Give ==
  /\ deliver.pc = "give" /\ Len(incoming) < IncomingCap
  /\ incoming' = Append(incoming, deliver.packet)
  /\ deliver' = At("release", deliver.packet)
  /\ UNCHANGED <<socket, closed, readErr, reader, queue, incomingClosed, seen, pinger, pings, sent>>

ReleaseParked ==
  /\ deliver.pc = "release"
  /\ parked' = parked - deliver.packet.size
  /\ deliver' = At("take", NoPacket)
  /\ UNCHANGED <<socket, closed, readErr, reader, backlog, app, pinger, pings, sent>>

GiveUp ==
  /\ deliver.pc = "give" /\ closed
  /\ deliver' = At("exited", deliver.packet) /\ incomingClosed' = TRUE
  /\ UNCHANGED <<socket, closed, readErr, reader, queue, incoming, seen, pinger, pings, sent>>

-----------------------------------------------------------------------------
(* keepaliveLoop *)

(* The ticker fires with a payload set; ready or not, a closed connection   *)
(* may also be noticed.                                                    *)
Tick ==
  /\ pinger = "wait" /\ pinger' = "write"
  /\ UNCHANGED <<socket, closed, readErr, reader, queue, deliver, app, pings, sent>>

PingerSeesClose ==
  /\ pinger = "wait" /\ closed /\ pinger' = "exited"
  /\ UNCHANGED <<socket, closed, readErr, reader, queue, deliver, app, pings, sent>>

PingWritten ==
  /\ pinger = "write" /\ socket = "up" /\ pings < MaxPings
  /\ pinger' = "wait" /\ pings' = pings + 1
  /\ UNCHANGED <<socket, closed, readErr, reader, queue, deliver, app, sent>>

PingFails ==
  /\ pinger = "write" /\ socket # "up"
  /\ FirstError("keepalive") /\ pinger' = "close"
  /\ UNCHANGED <<socket, closed, reader, queue, deliver, app, pings, sent>>

(* Mutant of PingerCloses: the failed write only ends the pinger. *)
PingerGivesUp ==
  /\ pinger = "close" /\ pinger' = "exited"
  /\ UNCHANGED <<socket, closed, readErr, reader, queue, deliver, app, pings, sent>>

PingerCloses ==
  /\ pinger = "close" /\ pinger' = "exited"
  /\ Close
  /\ UNCHANGED <<readErr, reader, queue, deliver, app, pings, sent>>

-----------------------------------------------------------------------------
(* The application and the network *)

Drain ==
  /\ incoming # <<>>
  /\ seen' = Append(seen, Head(incoming)) /\ incoming' = Tail(incoming)
  /\ UNCHANGED <<socket, closed, readErr, reader, queue, deliver, incomingClosed, pinger, pings, sent>>

UserClose ==
  /\ ~closed /\ Close
  /\ UNCHANGED <<readErr, reader, queue, deliver, app, pinger, pings, sent>>

Drop ==
  /\ socket = "up" /\ socket' = "dead"
  /\ UNCHANGED <<closed, readErr, reader, queue, deliver, app, pinger, pings, sent>>

-----------------------------------------------------------------------------
ReadStep    == Overflow \/ EnqueueFrame \/ Charge \/ DropClosed \/ ReadFails \/ StoreError
DeliverStep == TakeNext \/ BacklogDone \/ Give \/ ReleaseParked \/ GiveUp
PingStep    == Tick \/ PingerSeesClose \/ PingWritten \/ PingFails \/ PingerCloses

Next ==
  \/ ReadStep \/ DeliverStep \/ PingStep
  \/ \E n \in Sizes : Receive(n)
  \/ Drain \/ UserClose \/ Drop

Spec == Init /\ [][Next]_vars

(* The goroutines are scheduled; the application may stall for ever. *)
FairSpec == Spec /\ WF_vars(ReadStep) /\ WF_vars(DeliverStep) /\ WF_vars(PingStep)

-----------------------------------------------------------------------------
InHand(pcs, x) == IF x.pc \in pcs THEN <<x.packet>> ELSE <<>>

(* A dropped transport loses nothing that had arrived and reorders nothing: *)
(* Incoming closes only after the last parked packet was handed over.       *)
DropLosesNothing ==
  incomingClosed /\ ~closed =>
    [k \in DOMAIN (seen \o incoming) |-> (seen \o incoming)[k].id] = [k \in 1 .. sent |-> k]

(* A dead transport closes Incoming even if the application has stopped     *)
(* draining: once joined (a keepalive payload is set), the failing ping     *)
(* closes what readLoop leaves open.                                       *)
DropSurfaces == (socket = "dead") ~> incomingClosed

=============================================================================
