----------------------------- MODULE PackLifecycle -----------------------------
(***************************************************************************)
(* The life of a local pack's index: the render thread decides when to     *)
(* walk the mounted folders, publishes the result and retires the old one  *)
(* (internal/ui/mountlayer.go); one goroutine walks; pool workers read     *)
(* through a reference count that keeps archive handles open               *)
(* (internal/assets/mountindex.go, packBytes in manager.go).               *)
(***************************************************************************)
EXTENDS Integers, FiniteSets

CONSTANTS
  MountSets,   (* the mount lists a user may configure, as mountSetKey     *)
  Off,         (* layering is off                                          *)
  Readers,     (* pool workers inside packBytes                            *)
  Ids,         (* names for indexes; a dead one may be named again         *)
  NoIdx,
  MaxChanges,  (* bound on changes of the mount list                       *)
  MaxRescans   (* bound on presses of Rescan folders                       *)

ASSUME PackAssumption ==
  /\ Off \notin MountSets /\ NoIdx \notin Ids
  /\ {MaxChanges, MaxRescans} \subseteq Nat
  /\ IsFiniteSet(Readers)

(* The allocator never runs out of indexes: some name is neither held by a  *)
(* worker nor one of the render thread's two.                              *)
ASSUME EnoughNames ==
  \A held \in [Readers -> Ids \cup {NoIdx}] : \A m, n \in Ids \cup {NoIdx} :
    \E i \in Ids : i \notin {m, n} /\ \A r \in Readers : held[r] # i

VARIABLES
  want,      (* what wantMountLayer answers                                *)
  index,     (* every MountIndex: its mounts, its state and its count *)   
  mine,      (* App.mountIndex                                             *)
  layer,     (* the index under Manager.mountLayer                         *)
  indexing,  (* App.mountIndexing, the single-flight latch                 *)
  result,    (* App.mountIndexRes, a channel of one                        *)
  due,       (* the render thread owes a call of applyMountLayer           *)
  reader,    (* where each worker stands in packBytes                      *)
  changes, rescans

bounds == <<changes, rescans>>
vars == <<want, index, mine, layer, indexing, result, due, reader, bounds>>

NoIndex == [pc |-> "none", key |-> Off, refs |-> 0, retired |-> FALSE,
            closed |-> FALSE]

Index == [pc : {"none", "kicked", "walking", "built"}, key : MountSets \cup {Off},
          refs : Nat, retired : BOOLEAN, closed : BOOLEAN]

Shape ==
  /\ want \in MountSets \cup {Off}
  /\ index \in [Ids -> Index]
  /\ mine \in Ids \cup {NoIdx} /\ layer \in Ids \cup {NoIdx} /\ result \in Ids \cup {NoIdx}
  /\ indexing \in BOOLEAN /\ due \in BOOLEAN
  /\ reader \in [Readers -> [pc : {"idle", "loaded", "reading"}, idx : Ids \cup {NoIdx}]]
  /\ changes \in 0 .. MaxChanges /\ rescans \in 0 .. MaxRescans

TypeOK == Shape /\ \A i \in Ids : index[i].refs <= 1 + Cardinality(Readers)

Init ==
  /\ want \in MountSets \cup {Off}
  /\ index = [i \in Ids |-> NoIndex]
  /\ mine = NoIdx /\ layer = NoIdx /\ result = NoIdx
  /\ indexing = FALSE /\ due = TRUE
  /\ reader = [r \in Readers |-> [pc |-> "idle", idx |-> NoIdx]]
  /\ changes = 0 /\ rescans = 0

-----------------------------------------------------------------------------
(* Reference counting *)

Released(x) == [x EXCEPT !.refs = @ - 1, !.closed = (x.refs = 1)]

Retired(x)  == IF x.retired THEN x ELSE Released([x EXCEPT !.retired = TRUE])

(* A name no one can reach an index by; there are enough of them.           *)
Unused(i) ==
  /\ \/ index[i].pc = "none"
     \/ index[i].closed
  /\ i \notin {mine, layer, result} /\ \A r \in Readers : reader[r].idx # i

-----------------------------------------------------------------------------
(* The render thread *)

KeyOf(i) == IF i = NoIdx THEN Off ELSE index[i].key

(* index with the published one retired, unless none is. *)
OutgoingRetired ==
  IF layer = NoIdx THEN index ELSE [index EXCEPT ![layer] = Retired(@)]

Leave ==
  /\ want = Off
  /\ index' = OutgoingRetired
  /\ layer' = NoIdx /\ mine' = NoIdx
  /\ UNCHANGED indexing

Spare == CHOOSE i \in Ids : Unused(i)

Kick(ix) ==
  IF indexing THEN index' = ix /\ UNCHANGED indexing
  ELSE /\ indexing' = TRUE
       /\ index' = [ix EXCEPT ![Spare] = [NoIndex EXCEPT !.pc = "kicked", !.key = want,
                                                         !.refs = 1]]

(* Mutant of Rebuild: the outgoing layer goes on serving during the walk. *)
RebuildServing ==
  /\ want # Off /\ KeyOf(mine) # want
  /\ mine' = NoIdx /\ UNCHANGED layer
  /\ Kick(index)

(* Mutant of Rebuild: the outgoing index is not retired. *)
RebuildLeaking ==
  /\ want # Off /\ KeyOf(mine) # want
  /\ layer' = NoIdx /\ mine' = NoIdx
  /\ Kick(index)

Rebuild ==
  /\ want # Off /\ KeyOf(mine) # want
  /\ layer' = NoIdx /\ mine' = NoIdx
  /\ Kick(OutgoingRetired)

(* The same mounts, other tabs: a fresh wrapper around the same index. *)
OriginsOnly ==
  /\ want # Off /\ KeyOf(mine) = want
  /\ layer' = mine
  /\ UNCHANGED <<index, mine, indexing>>

ApplyMountLayer ==
  /\ due /\ due' = FALSE
  /\ Leave \/ Rebuild \/ OriginsOnly
  /\ UNCHANGED <<want, result, reader, bounds>>

(* A settings edit, and every connect or tab switch, reconciles.  *)
ChangeMounts(m) ==
  /\ ~due /\ changes < MaxChanges
  /\ want' = m /\ due' = TRUE /\ changes' = changes + 1
  /\ UNCHANGED <<index, mine, layer, indexing, result, reader, rescans>>

RescanLocalPacks ==
  /\ ~due /\ rescans < MaxRescans /\ want # Off
  /\ index' = IF mine = NoIdx THEN index ELSE [index EXCEPT ![mine] = Retired(@)]
  /\ mine' = NoIdx /\ due' = TRUE
  /\ rescans' = rescans + 1
  /\ UNCHANGED <<want, layer, indexing, result, reader, changes>>

(* Mutant of PollStale: nothing newer is kicked. *)
PollStaleQuiet ==
  /\ ~due /\ result # NoIdx /\ KeyOf(result) # want
  /\ index' = [index EXCEPT ![result] = Retired(@)]
  /\ result' = NoIdx /\ indexing' = FALSE
  /\ UNCHANGED <<want, mine, layer, due, reader, bounds>>

(* The finished walk lands: stale if the mount set changed meanwhile. *)
PollStale ==
  /\ ~due /\ result # NoIdx /\ KeyOf(result) # want
  /\ index' = [index EXCEPT ![result] = Retired(@)]
  /\ result' = NoIdx /\ indexing' = FALSE /\ due' = TRUE
  /\ UNCHANGED <<want, mine, layer, reader, bounds>>

PollPublish ==
  /\ ~due /\ result # NoIdx /\ KeyOf(result) = want
  /\ mine' = result /\ layer' = result
  /\ result' = NoIdx /\ indexing' = FALSE
  /\ UNCHANGED <<want, index, due, reader, bounds>>

-----------------------------------------------------------------------------
(* The walk: it sees the folders as they are when it gets to them. *)

WalkFolders(i) ==
  /\ index[i].pc = "kicked"
  /\ index' = [index EXCEPT ![i].pc = "walking"]
  /\ UNCHANGED <<want, mine, layer, indexing, result, due, reader, bounds>>

(* An undelivered older result is dropped to make room. *)
SendResult(i) ==
  /\ index[i].pc = "walking"
  /\ index' = [index EXCEPT ![i].pc = "built"]
  /\ result' = i
  /\ UNCHANGED <<want, mine, layer, indexing, due, reader, bounds>>

-----------------------------------------------------------------------------
(* A pool worker in packBytes *)

Goto(r, pc, i) == reader' = [reader EXCEPT ![r] = [pc |-> pc, idx |-> i]]

LoadLayer(r) ==
  /\ reader[r].pc = "idle" /\ layer # NoIdx
  /\ Goto(r, "loaded", layer)
  /\ UNCHANGED <<want, index, mine, layer, indexing, result, due, bounds>>

(* Mutant of Acquire: the reference is taken without looking. *)
AcquireBlind(r) ==
  LET i == reader[r].idx IN
  /\ reader[r].pc = "loaded"
  /\ Goto(r, "reading", i) /\ index' = [index EXCEPT ![i].refs = @ + 1]
  /\ UNCHANGED <<want, mine, layer, indexing, result, due, bounds>>

Acquire(r) ==
  LET i == reader[r].idx IN
  /\ reader[r].pc = "loaded"
  /\ IF index[i].refs > 0
       THEN Goto(r, "reading", i) /\ index' = [index EXCEPT ![i].refs = @ + 1]
       ELSE Goto(r, "idle", NoIdx) /\ UNCHANGED index
  /\ UNCHANGED <<want, mine, layer, indexing, result, due, bounds>>

Release(r) ==
  /\ reader[r].pc = "reading"
  /\ index' = [index EXCEPT ![reader[r].idx] = Released(@)]
  /\ Goto(r, "idle", NoIdx)
  /\ UNCHANGED <<want, mine, layer, indexing, result, due, bounds>>

-----------------------------------------------------------------------------
RenderStep == ApplyMountLayer \/ PollStale \/ PollPublish
Walk       == \E i \in Ids : WalkFolders(i) \/ SendResult(i)

Next ==
  \/ RenderStep \/ Walk \/ RescanLocalPacks
  \/ \E m \in MountSets \cup {Off} : ChangeMounts(m)
  \/ \E r \in Readers : LoadLayer(r) \/ Acquire(r) \/ Release(r)

Spec == Init /\ [][Next]_vars

(* The render thread runs every frame and a started walk ends. *)
FairSpec == Spec /\ WF_vars(RenderStep) /\ WF_vars(Walk)

-----------------------------------------------------------------------------
(* No worker reads from a closed archive: a handle outlives the swap of     *)
(* the layer until its last reader is done (acquire, release, Retire).     *)
NoReadAfterClose ==
  \A r \in Readers : reader[r].pc = "reading" => ~index[reader[r].idx].closed

(* Every open index is the published one, one on its way to the render     *)
(* thread, or retired and held by a reader: none is lost with its handles. *)
NoHandleLeak ==
  \A i \in Ids :
    index[i].pc = "built" /\ ~index[i].closed =>
      \/ i \in {mine, result}
      \/ index[i].retired /\ \E r \in Readers : reader[r] = [pc |-> "reading", idx |-> i]

(* Reconciled, nothing serves from an index of another mount set, nor from *)
(* a retired one.                                                          *)
LayerIsWanted ==
  ~due /\ layer # NoIdx => KeyOf(layer) = want /\ ~index[layer].retired /\ layer = mine

(* Once the user stops editing, the wanted pack is published for good: no   *)
(* edit made during a walk is lost with the walk's stale result.           *)
WantedPackAppears == <>[](IF want = Off THEN layer = NoIdx ELSE KeyOf(layer) = want)

=============================================================================
