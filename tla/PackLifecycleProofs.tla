-------------------------- MODULE PackLifecycleProofs --------------------------
(***************************************************************************)
(* Proofs about PackLifecycle, for any finite set of workers, any mount    *)
(* lists and any number of edits and rescans. The reference count is       *)
(* the owner's reference plus one for each worker that reads (Counted); it *)
(* stays true because a name is reused only when nobody holds it, and the  *)
(* owner gives its reference back once. That every open index is           *)
(* somebody's rests on the single flight of the walk (Flight) and on the   *)
(* layer being the render thread's own index or retired (Layers).          *)
(***************************************************************************)
EXTENDS PackLifecycle, FiniteSetTheorems, TLAPS

Held(i) == {r \in Readers : reader[r] = [pc |-> "reading", idx |-> i]}

(* Index x, with n workers reading it, counts them and its owner. *)
Counts(x, n) ==
  /\ x.pc # "none" => /\ x.refs = n + (IF x.retired THEN 0 ELSE 1)
                      /\ x.closed <=> x.refs = 0
  /\ x.pc = "none" => ~x.closed /\ x.refs = 0

Counted == \A i \in Ids : Counts(index[i], Cardinality(Held(i)))

(* What a worker holds was published, and still has its name. *)
Reach ==
  \A r \in Readers :
    \/ reader[r].pc = "idle" /\ reader[r].idx = NoIdx
    \/ reader[r].pc # "idle" /\ reader[r].idx \in Ids /\ index[reader[r].idx].pc = "built"

Flying(i) == index[i].pc \in {"kicked", "walking"} \/ i = result

(* One walk at a time, from its start to its result's arrival; until then  *)
(* the render thread has no index of its own.                              *)
Flight ==
  /\ \A i \in Ids : Flying(i) => indexing /\ mine = NoIdx /\ ~index[i].retired
  /\ \A i, j \in Ids : Flying(i) /\ Flying(j) => i = j
  /\ result # NoIdx => index[result].pc = "built"

(* What is built and not retired is the render thread's, or about to be. *)
Owned == \A i \in Ids : index[i].pc = "built" /\ ~index[i].retired => i \in {mine, result}

(* The layer is the render thread's own index, or was retired by a rescan   *)
(* and is about to go.                                                     *)
Layers ==
  /\ mine # NoIdx => layer = mine /\ index[mine].pc = "built" /\ ~index[mine].retired
  /\ layer # NoIdx => index[layer].pc = "built" /\ (layer = mine \/ index[layer].retired)
  /\ ~due /\ layer # NoIdx => layer = mine /\ index[layer].key = want

PackInv == Shape /\ Counted /\ Reach /\ Flight /\ Owned /\ Layers
-----------------------------------------------------------------------------
(* The reference count of one index *)

LEMMA ReleasedFields ==
  ASSUME NEW x \in Index, x.refs > 0
  PROVE  /\ Released(x) \in Index /\ Released(x).pc = x.pc /\ Released(x).key = x.key
         /\ Released(x).retired = x.retired /\ Released(x).refs = x.refs - 1
         /\ Released(x).closed <=> x.refs = 1
<1>1. (x.refs = 1) \in BOOLEAN /\ x.refs - 1 \in Nat
  BY DEF Index
<1>2. Released(x).closed = (x.refs = 1)
  BY <1>1 DEF Released, Index
<1>3. Released(x).closed <=> x.refs = 1
  BY <1>2
<1>4. QED BY <1>1, <1>3 DEF Released, Index

LEMMA ReleasedCounts ==
  ASSUME NEW x \in Index, x.pc = "built", NEW n \in Nat, n > 0, Counts(x, n)
  PROVE  /\ Released(x) \in Index /\ Released(x).pc = "built" /\ Released(x).key = x.key
         /\ Released(x).retired = x.retired /\ Counts(Released(x), n - 1)
<1>1. x.refs \in Nat /\ x.refs > 0 /\ x.refs = n + (IF x.retired THEN 0 ELSE 1)
  BY DEF Counts, Index
<1>2. Released(x).refs = (n - 1) + (IF x.retired THEN 0 ELSE 1)
  BY <1>1, ReleasedFields
<1>3. Released(x).closed <=> Released(x).refs = 0
  BY <1>1, ReleasedFields
<1>4. QED BY <1>1, <1>2, <1>3, ReleasedFields DEF Counts

LEMMA RetiredCounts ==
  ASSUME NEW x \in Index, x.pc # "none", NEW n \in Nat, Counts(x, n)
  PROVE  /\ Retired(x) \in Index /\ Retired(x).pc = x.pc /\ Retired(x).key = x.key
         /\ Retired(x).retired /\ Counts(Retired(x), n)
<1>1. CASE x.retired
  BY <1>1 DEF Retired
<1>2. CASE ~x.retired
  <2> DEFINE y == [x EXCEPT !.retired = TRUE]
  <2>1. x.refs \in Nat /\ x.refs = n + 1
    BY <1>2 DEF Counts, Index
  <2>2. y \in Index /\ y.pc = x.pc /\ y.key = x.key /\ y.retired /\ y.refs = x.refs
    BY DEF Index
  <2>3. Retired(x) = Released(y)
    BY <1>2 DEF Retired
  <2>4. y \in Index /\ y.refs > 0
    BY <2>1, <2>2
  <2> HIDE DEF y
  <2>5. /\ Released(y) \in Index /\ Released(y).pc = y.pc /\ Released(y).key = y.key
        /\ Released(y).retired = y.retired /\ Released(y).refs = y.refs - 1
        /\ Released(y).closed <=> y.refs = 1
    BY <2>4, ReleasedFields
  <2>6. Released(y).retired /\ Released(y).refs = n
    BY <2>1, <2>2, <2>5
  <2>7. Released(y).closed <=> Released(y).refs = 0
    BY <2>1, <2>2, <2>5
  <2>8. QED BY <2>2, <2>3, <2>5, <2>6, <2>7 DEF Counts
<1>3. QED BY <1>1, <1>2

(* The workers that read one index *)

LEMMA HeldFinite == ASSUME NEW i PROVE IsFiniteSet(Held(i)) /\ Cardinality(Held(i)) \in Nat
                                       /\ Cardinality(Held(i)) <= Cardinality(Readers)
<1>1. Held(i) \in SUBSET Readers /\ IsFiniteSet(Readers)
  BY PackAssumption DEF Held
<1>2. IsFiniteSet(Held(i)) /\ Cardinality(Held(i)) <= Cardinality(Readers)
  BY <1>1, FS_Subset
<1>3. QED BY <1>2, FS_CardinalityType

(* An index with an owner or a reader is open. *)
LEMMA HeldIsOpen ==
  ASSUME Shape, Counted, NEW i \in Ids, index[i].pc = "built"
  PROVE  /\ Held(i) # {} => index[i].refs > 0 /\ ~index[i].closed
         /\ ~index[i].closed => ~index[i].retired \/ Held(i) # {}
<1>1. /\ index[i].refs = Cardinality(Held(i)) + (IF index[i].retired THEN 0 ELSE 1)
      /\ index[i].closed <=> index[i].refs = 0
  BY DEF Counted, Counts
<1>2. Cardinality(Held(i)) \in Nat /\ (Cardinality(Held(i)) = 0 <=> Held(i) = {})
  BY HeldFinite, FS_EmptySet
<1>3. QED BY <1>1, <1>2

(* Retiring an index keeps its count; it may be retired already. *)
LEMMA Retiring ==
  ASSUME Shape, Counted, NEW i \in Ids, index[i].pc = "built",
         NEW ix, ix = [index EXCEPT ![i] = Retired(@)]
  PROVE  /\ ix \in [Ids -> Index] /\ ix[i].retired
         /\ \A j \in Ids : /\ ix[j].pc = index[j].pc /\ ix[j].key = index[j].key
                           /\ Counts(ix[j], Cardinality(Held(j)))
                           /\ j # i => ix[j] = index[j]
<1>1. index \in [Ids -> Index] /\ index[i] \in Index
  BY DEF Shape
<1>2. Cardinality(Held(i)) \in Nat /\ Counts(index[i], Cardinality(Held(i)))
  BY HeldFinite DEF Counted
<1>3. /\ Retired(index[i]) \in Index /\ Retired(index[i]).pc = index[i].pc
      /\ Retired(index[i]).key = index[i].key /\ Retired(index[i]).retired
      /\ Counts(Retired(index[i]), Cardinality(Held(i)))
  BY <1>1, <1>2, RetiredCounts
<1>4. ix \in [Ids -> Index] /\ ix[i] = Retired(index[i]) /\ \A j \in Ids : j # i => ix[j] = index[j]
  BY <1>1, <1>3
<1>5. QED BY <1>3, <1>4 DEF Counted

LEMMA Outgoing ==
  ASSUME Shape, Counted, Layers, NEW ix, ix = OutgoingRetired
  PROVE  /\ ix \in [Ids -> Index] /\ (layer # NoIdx => ix[layer].retired)
         /\ \A j \in Ids : /\ ix[j].pc = index[j].pc /\ ix[j].key = index[j].key
                           /\ Counts(ix[j], Cardinality(Held(j)))
                           /\ j # layer => ix[j] = index[j]
<1>1. CASE layer = NoIdx
  BY <1>1 DEF OutgoingRetired, Shape, Counted
<1>2. CASE layer # NoIdx
  <2>1. layer \in Ids /\ index[layer].pc = "built"
    BY <1>2 DEF Shape, Layers
  <2>2. ix = [index EXCEPT ![layer] = Retired(@)]
    BY <1>2 DEF OutgoingRetired
  <2>3. QED BY <2>1, <2>2, Retiring
<1>3. QED BY <1>1, <1>2

(* Between walks there is a name for another index. *)
LEMMA SpareIsUnused ==
  ASSUME PackInv, ~indexing
  PROVE  Spare \in Ids /\ Unused(Spare) /\ Held(Spare) = {}
<1> USE DEF PackInv
<1> DEFINE held == [r \in Readers |-> reader[r].idx]
<1>1. held \in [Readers -> Ids \cup {NoIdx}] /\ \A r \in Readers : held[r] = reader[r].idx
  BY DEF Shape
<1>2. mine \in Ids \cup {NoIdx} /\ layer \in Ids \cup {NoIdx}
  BY DEF Shape
<1> HIDE DEF held
<1>3. \A m, n \in Ids \cup {NoIdx} :
         \E i \in Ids : i \notin {m, n} /\ \A r \in Readers : held[r] # i
  BY <1>1, EnoughNames, Zenon
<1>4. PICK i \in Ids : i \notin {mine, layer} /\ \A r \in Readers : held[r] # i
  BY <1>2, <1>3, Zenon
<1>5. \A r \in Readers : reader[r].idx # i
  BY <1>1, <1>4
<1>6. Held(i) = {}
  BY <1>5 DEF Held
<1>7. ~Flying(i)
  BY DEF Flight
<1>8. index[i].pc \in {"none", "built"} /\ i # result
  BY <1>7 DEF Flying, Shape, Index
<1>9. index[i].pc = "built" => index[i].closed
  BY <1>4, <1>6, <1>8, HeldIsOpen DEF Owned
<1>10. Unused(i)
  BY <1>4, <1>5, <1>8, <1>9 DEF Unused
<1>11. Spare \in Ids /\ Unused(Spare)
  BY <1>10 DEF Spare
<1>12. QED BY <1>11 DEF Held, Unused

-----------------------------------------------------------------------------
(* The render thread *)

LEMMA HeldFrame == reader' = reader => \A i : Held(i)' = Held(i)
  BY DEF Held

(* What retiring the layer leaves true of the other indexes. *)
LEMMA OutgoingOwned ==
  ASSUME PackInv, NEW ix, ix = OutgoingRetired, NEW i \in Ids
  PROVE  /\ Flying(i) => ~ix[i].retired
         /\ ix[i].pc = "built" /\ ~ix[i].retired => i = result
<1> USE DEF PackInv
<1>1. /\ layer # NoIdx => ix[layer].retired
      /\ ix[i].pc = index[i].pc /\ (i # layer => ix[i] = index[i])
  BY Outgoing
<1>2. Flying(i) => i # layer
  BY PackAssumption DEF Flying, Flight, Layers, Shape
<1>3. Flying(i) => ~ix[i].retired
  BY <1>1, <1>2 DEF Flight
<1>4. ASSUME ix[i].pc = "built", ~ix[i].retired PROVE i = result
  <2>1. i # layer
    BY <1>1, <1>4, PackAssumption
  <2>2. i \in {mine, result}
    BY <1>1, <1>4, <2>1 DEF Owned
  <2>3. i # mine
    BY <2>1, PackAssumption DEF Layers
  <2>4. QED BY <2>2, <2>3
<1>5. QED BY <1>3, <1>4

LEMMA LeaveKept == PackInv /\ due' = FALSE /\ Leave /\ UNCHANGED <<want, result, reader, bounds>>
                   => PackInv'
<1> SUFFICES ASSUME PackInv, due' = FALSE, Leave, UNCHANGED <<want, result, reader, bounds>>
             PROVE  PackInv'
  OBVIOUS
<1> USE DEF PackInv
<1>1. /\ index' \in [Ids -> Index]
      /\ \A j \in Ids : /\ index'[j].pc = index[j].pc /\ index'[j].key = index[j].key
                        /\ Counts(index'[j], Cardinality(Held(j)))
  BY Outgoing DEF Leave
<1>2. \A i \in Ids : /\ Flying(i) => ~index'[i].retired
                     /\ index'[i].pc = "built" /\ ~index'[i].retired => i = result
  BY OutgoingOwned DEF Leave
<1>3. Shape'
  BY <1>1 DEF Shape, Leave, bounds
<1>4. Counted'
  BY <1>1, HeldFrame DEF Counted
<1>5. Reach'
  BY <1>1 DEF Reach
<1>6. \A i \in Ids : Flying(i)' <=> Flying(i)
  BY <1>1 DEF Flying
<1>7. Flight'
  BY <1>1, <1>2, <1>6 DEF Flight, Leave, Shape
<1>8. Owned'
  BY <1>2 DEF Owned
<1>9. Layers'
  BY DEF Layers, Leave
<1>10. QED BY <1>3, <1>4, <1>5, <1>7, <1>8, <1>9

LEMMA RebuildKept == PackInv /\ due' = FALSE /\ Rebuild /\ UNCHANGED <<want, result, reader, bounds>>
                     => PackInv'
<1> SUFFICES ASSUME PackInv, due' = FALSE, Rebuild, UNCHANGED <<want, result, reader, bounds>>
             PROVE  PackInv'
  OBVIOUS
<1> USE DEF PackInv
<1> DEFINE ix == OutgoingRetired
<1>1. /\ ix \in [Ids -> Index]
      /\ \A j \in Ids : /\ ix[j].pc = index[j].pc /\ ix[j].key = index[j].key
                        /\ Counts(ix[j], Cardinality(Held(j)))
  BY Outgoing
<1>2. \A i \in Ids : /\ Flying(i) => ~ix[i].retired
                     /\ ix[i].pc = "built" /\ ~ix[i].retired => i = result
  BY OutgoingOwned
<1>3. Kick(ix) /\ layer' = NoIdx /\ mine' = NoIdx /\ want \in MountSets
  BY DEF Rebuild, Shape
<1>4. Layers'
  BY <1>3 DEF Layers
<1> HIDE DEF ix
<1>5. CASE indexing
  <2>1. index' = ix /\ indexing' = indexing
    BY <1>3, <1>5 DEF Kick
  <2>2. Shape'
    BY <1>1, <1>3, <2>1 DEF Shape, bounds
  <2>3. Counted'
    BY <1>1, <2>1, HeldFrame DEF Counted
  <2>4. Reach'
    BY <1>1, <2>1 DEF Reach
  <2>5. \A i \in Ids : Flying(i)' <=> Flying(i)
    BY <1>1, <2>1 DEF Flying
  <2>6. Flight'
    BY <1>1, <1>2, <1>3, <1>5, <2>1, <2>5 DEF Flight, Shape
  <2>7. Owned'
    BY <1>2, <2>1 DEF Owned
  <2>8. QED BY <1>4, <2>2, <2>3, <2>4, <2>6, <2>7
<1>6. CASE ~indexing
  <2> DEFINE new == [NoIndex EXCEPT !.pc = "kicked", !.key = want, !.refs = 1]
             s   == Spare
  <2>1. s \in Ids /\ Unused(s) /\ Held(s) = {}
    BY <1>6, SpareIsUnused
  <2>2. indexing' = TRUE /\ index' = [ix EXCEPT ![s] = new]
    BY <1>3, <1>6 DEF Kick
  <2>3. new \in Index /\ new.pc = "kicked" /\ ~new.retired /\ ~new.closed /\ new.refs = 1
    BY <1>3 DEF NoIndex, Index
  <2>4. \A i \in Ids : ~Flying(i)
    BY <1>6 DEF Flight
  <2> HIDE DEF s, new
  <2>5. index'[s] = new /\ \A i \in Ids : i # s => index'[i] = ix[i]
    BY <1>1, <2>1, <2>2
  <2>6. result = NoIdx
    BY <2>4 DEF Flying, Shape
  <2>7. Shape'
    BY <1>1, <1>3, <2>1, <2>2, <2>3 DEF Shape, bounds
  <2>8. Counts(new, Cardinality(Held(s)))
    BY <2>1, <2>3, FS_EmptySet DEF Counts
  <2>9. Counted'
    BY <1>1, <2>5, <2>8, HeldFrame DEF Counted
  <2>10. Reach'
    BY <1>1, <2>1, <2>5 DEF Reach, Unused
  <2>11. \A i \in Ids : Flying(i)' <=> i = s
    BY <1>1, <2>1, <2>3, <2>4, <2>5, <2>6, PackAssumption DEF Flying
  <2>12. Flight'
    BY <1>3, <2>2, <2>3, <2>5, <2>6, <2>11 DEF Flight
  <2>13. Owned'
    BY <1>2, <2>3, <2>5, <2>6, PackAssumption DEF Owned
  <2>14. QED BY <1>4, <2>7, <2>9, <2>10, <2>12, <2>13
<1>7. QED BY <1>5, <1>6 DEF Shape

LEMMA OriginsKept == PackInv /\ due' = FALSE /\ OriginsOnly /\ UNCHANGED <<want, result, reader, bounds>>
                     => PackInv'
<1> SUFFICES ASSUME PackInv, due' = FALSE, OriginsOnly, UNCHANGED <<want, result, reader, bounds>>
             PROVE  PackInv'
  OBVIOUS
<1> USE DEF PackInv, OriginsOnly
<1>1. mine # NoIdx /\ index[mine].key = want
  BY DEF KeyOf
<1>2. layer = mine
  BY <1>1 DEF Layers
<1>3. Shape' /\ Reach' /\ Owned' /\ Layers'
  BY <1>1, <1>2 DEF Shape, Reach, Owned, Layers, bounds
<1>4. Counted'
  BY HeldFrame DEF Counted
<1>5. Flight'
  BY DEF Flight, Flying
<1>6. QED BY <1>3, <1>4, <1>5

LEMMA ChangeKept == ASSUME PackInv, NEW m \in MountSets \cup {Off}, ChangeMounts(m) PROVE PackInv'
<1> USE DEF PackInv, ChangeMounts
<1>1. changes' \in 0 .. MaxChanges
  BY PackAssumption DEF Shape
<1>2. Shape' /\ Reach' /\ Owned' /\ Layers'
  BY <1>1 DEF Shape, Reach, Owned, Layers
<1>3. Counted'
  BY HeldFrame DEF Counted
<1>4. Flight'
  BY DEF Flight, Flying
<1>5. QED BY <1>2, <1>3, <1>4

LEMMA RescanKept == PackInv /\ RescanLocalPacks => PackInv'
<1> SUFFICES ASSUME PackInv, RescanLocalPacks PROVE PackInv'
  OBVIOUS
<1> USE DEF PackInv, RescanLocalPacks
<1>1. rescans' \in 0 .. MaxRescans
  BY PackAssumption DEF Shape
<1>2. CASE mine = NoIdx
  <2>1. index' = index
    BY <1>2
  <2>2. Shape' /\ Reach' /\ Owned' /\ Layers'
    BY <1>1, <1>2, <2>1 DEF Shape, Reach, Owned, Layers
  <2>3. Counted'
    BY <2>1, HeldFrame DEF Counted
  <2>4. Flight'
    BY <1>2, <2>1 DEF Flight, Flying
  <2>5. QED BY <2>2, <2>3, <2>4
<1>3. CASE mine # NoIdx
  <2>1. mine \in Ids /\ index[mine].pc = "built" /\ layer = mine
    BY <1>3 DEF Shape, Layers
  <2>2. index' = [index EXCEPT ![mine] = Retired(@)]
    BY <1>3
  <2>3. /\ index' \in [Ids -> Index] /\ index'[mine].retired
        /\ \A j \in Ids : /\ index'[j].pc = index[j].pc /\ index'[j].key = index[j].key
                          /\ Counts(index'[j], Cardinality(Held(j)))
                          /\ j # mine => index'[j] = index[j]
    BY <2>1, <2>2, Retiring
  <2>4. Shape'
    BY <1>1, <2>3 DEF Shape
  <2>5. Counted'
    BY <2>3, HeldFrame DEF Counted
  <2>6. Reach'
    BY <2>3 DEF Reach
  <2>7. \A i \in Ids : ~Flying(i)
    BY <1>3 DEF Flight
  <2>8. \A i \in Ids : ~Flying(i)'
    BY <2>3, <2>7 DEF Flying
  <2>9. Flight'
    BY <2>3, <2>7, <2>8 DEF Flight, Flying, Shape
  <2>10. Owned'
    BY <2>3 DEF Owned
  <2>11. Layers'
    BY <1>3, <2>1, <2>3 DEF Layers
  <2>12. QED BY <2>4, <2>5, <2>6, <2>9, <2>10, <2>11
<1>4. QED BY <1>2, <1>3

(* A result in the channel is the one walk's, and nothing of the render    *)
(* thread's stands beside it.                                              *)
LEMMA Landed ==
  ASSUME PackInv, result # NoIdx
  PROVE  /\ result \in Ids /\ index[result].pc = "built" /\ ~index[result].retired
         /\ mine = NoIdx /\ (layer # NoIdx => layer # result)
         /\ \A i \in Ids : i # result => index[i].pc \notin {"kicked", "walking"}
<1> USE DEF PackInv
<1>1. result \in Ids /\ Flying(result)
  BY DEF Shape, Flying
<1>2. QED BY <1>1 DEF Flight, Flying, Layers

LEMMA PollStaleKept == PackInv /\ PollStale => PackInv'
<1> SUFFICES ASSUME PackInv, PollStale PROVE PackInv'
  OBVIOUS
<1> USE DEF PackInv, PollStale
<1>1. /\ result \in Ids /\ index[result].pc = "built" /\ mine = NoIdx
      /\ layer # NoIdx => layer # result
      /\ \A i \in Ids : i # result => index[i].pc \notin {"kicked", "walking"}
  BY Landed
<1>2. /\ index' \in [Ids -> Index] /\ index'[result].retired
      /\ \A j \in Ids : /\ index'[j].pc = index[j].pc /\ index'[j].key = index[j].key
                        /\ Counts(index'[j], Cardinality(Held(j)))
                        /\ j # result => index'[j] = index[j]
  <2>1. index' = [index EXCEPT ![result] = Retired(@)]
    OBVIOUS
  <2>2. QED BY <1>1, <2>1, Retiring
<1>3. Shape'
  BY <1>2 DEF Shape, bounds
<1>4. Counted'
  BY <1>2, HeldFrame DEF Counted
<1>5. Reach'
  BY <1>2 DEF Reach
<1>6. Flight'
  BY <1>1, <1>2, PackAssumption DEF Flight, Flying
<1>7. Owned'
  BY <1>1, <1>2, PackAssumption DEF Owned
<1>8. Layers'
  BY <1>1, <1>2 DEF Layers, Shape
<1>9. QED BY <1>3, <1>4, <1>5, <1>6, <1>7, <1>8

LEMMA PollPublishKept == PackInv /\ PollPublish => PackInv'
<1> SUFFICES ASSUME PackInv, PollPublish PROVE PackInv'
  OBVIOUS
<1> USE DEF PackInv, PollPublish
<1>1. /\ result \in Ids /\ index[result].pc = "built" /\ ~index[result].retired /\ mine = NoIdx
      /\ \A i \in Ids : i # result => index[i].pc \notin {"kicked", "walking"}
  BY Landed
<1>2. index[result].key = want
  BY DEF KeyOf
<1>3. Shape' /\ Reach'
  BY <1>1 DEF Shape, Reach, bounds
<1>4. Counted'
  BY HeldFrame DEF Counted
<1>5. Flight'
  BY <1>1, PackAssumption DEF Flight, Flying
<1>6. Owned' /\ Layers'
  BY <1>1, <1>2, PackAssumption DEF Owned, Layers
<1>7. QED BY <1>3, <1>4, <1>5, <1>6

-----------------------------------------------------------------------------
(* The walk *)

LEMMA WalkKept == ASSUME PackInv, NEW i \in Ids, WalkFolders(i) PROVE PackInv'
<1> USE DEF PackInv, WalkFolders
<1> DEFINE x == [index[i] EXCEPT !.pc = "walking"]
<1>1. index[i] \in Index /\ index \in [Ids -> Index]
  BY DEF Shape
<1>2. /\ x \in Index /\ x.pc = "walking" /\ x.key = index[i].key /\ x.refs = index[i].refs
      /\ x.retired = index[i].retired /\ x.closed = index[i].closed
  BY <1>1 DEF Index
<1>3. index' = [index EXCEPT ![i] = x]
  OBVIOUS
<1> HIDE DEF x
<1>4. index' \in [Ids -> Index] /\ index'[i] = x /\ \A j \in Ids : j # i => index'[j] = index[j]
  BY <1>1, <1>2, <1>3
<1>5. Shape'
  BY <1>4 DEF Shape, bounds
<1>6. Counts(x, Cardinality(Held(i)))
  BY <1>2 DEF Counted, Counts
<1>7. Counted'
  BY <1>4, <1>6, HeldFrame DEF Counted
<1>8. Reach'
  BY <1>4 DEF Reach
<1>9. \A j \in Ids : Flying(j)' <=> Flying(j)
  BY <1>2, <1>4 DEF Flying
<1>10. Flight' /\ Owned' /\ Layers'
  BY <1>2, <1>4, <1>9 DEF Flight, Owned, Layers, Shape
<1>11. QED BY <1>5, <1>7, <1>8, <1>10

LEMMA SendKept == ASSUME PackInv, NEW i \in Ids, SendResult(i) PROVE PackInv'
<1> USE DEF PackInv, SendResult
<1> DEFINE x == [index[i] EXCEPT !.pc = "built"]
<1>1. index[i] \in Index /\ index \in [Ids -> Index] /\ Flying(i)
  BY DEF Shape, Flying
<1>2. /\ x \in Index /\ x.pc = "built" /\ x.key = index[i].key /\ x.refs = index[i].refs
      /\ x.retired = index[i].retired /\ x.closed = index[i].closed
  BY <1>1 DEF Index
<1>3. index' = [index EXCEPT ![i] = x] /\ result' = i
  OBVIOUS
<1> HIDE DEF x
<1>4. index' \in [Ids -> Index] /\ index'[i] = x /\ \A j \in Ids : j # i => index'[j] = index[j]
  BY <1>1, <1>2, <1>3
<1>5. Shape'
  BY <1>3, <1>4 DEF Shape, bounds
<1>6. Counts(x, Cardinality(Held(i)))
  BY <1>2 DEF Counted, Counts
<1>7. Counted'
  BY <1>4, <1>6, HeldFrame DEF Counted
<1>8. Reach'
  BY <1>4 DEF Reach
<1>9. indexing /\ mine = NoIdx /\ ~index[i].retired /\ \A j \in Ids : Flying(j) => j = i
  BY <1>1 DEF Flight
<1>10. result = NoIdx
  BY <1>9 DEF Flight, Flying, Shape
<1>11. Flight' /\ Owned'
  BY <1>2, <1>3, <1>4, <1>9, <1>10 DEF Flight, Flying, Owned
<1>12. Layers'
  BY <1>4, <1>9 DEF Layers, Shape
<1>13. QED BY <1>5, <1>7, <1>8, <1>11, <1>12

-----------------------------------------------------------------------------
(* The workers *)

LEMMA LoadKept == ASSUME PackInv, NEW r \in Readers, LoadLayer(r) PROVE PackInv'
<1> USE DEF PackInv, LoadLayer, Goto
<1>1. layer \in Ids /\ index[layer].pc = "built"
  BY DEF Shape, Layers
<1>2. reader' = [reader EXCEPT ![r] = [pc |-> "loaded", idx |-> layer]]
  OBVIOUS
<1>3. Shape'
  BY <1>1, <1>2 DEF Shape, bounds
<1>4. \A i : Held(i)' = Held(i)
  BY <1>2 DEF Held, Shape
<1>5. Counted'
  BY <1>4 DEF Counted
<1>6. Reach'
  BY <1>1, <1>2 DEF Reach, Shape
<1>7. Flight' /\ Owned' /\ Layers'
  BY DEF Flight, Flying, Owned, Layers
<1>8. QED BY <1>3, <1>5, <1>6, <1>7

LEMMA AcquireKept == ASSUME PackInv, NEW r \in Readers, Acquire(r) PROVE PackInv'
<1> USE DEF PackInv
<1>1. PICK i \in Ids : i = reader[r].idx /\ reader[r].pc = "loaded" /\ index[i].pc = "built"
  BY DEF Acquire, Reach
<1> DEFINE x == [index[i] EXCEPT !.refs = @ + 1]
<1>2. UNCHANGED <<want, mine, layer, indexing, result, due, bounds>>
  BY DEF Acquire
<1>3. CASE index[i].refs > 0
  <2>1. index' = [index EXCEPT ![i] = x] /\ Goto(r, "reading", i)
    BY <1>1, <1>3 DEF Acquire
  <2>2. reader' = [reader EXCEPT ![r] = [pc |-> "reading", idx |-> i]]
    BY <2>1 DEF Goto
  <2>3. index[i] \in Index /\ index \in [Ids -> Index] /\ index[i].refs \in Nat
    BY <1>1 DEF Shape, Index
  <2>4. /\ x \in Index /\ x.pc = index[i].pc /\ x.key = index[i].key
        /\ x.refs = index[i].refs + 1 /\ x.retired = index[i].retired
        /\ x.closed = index[i].closed
    BY <2>3 DEF Index
  <2>5. ~x.closed
    BY <1>1, <1>3, <2>3, <2>4 DEF Counted, Counts
  <2> HIDE DEF x
  <2>6. index' \in [Ids -> Index] /\ index'[i] = x /\ \A j \in Ids : j # i => index'[j] = index[j]
    BY <2>1, <2>3, <2>4
  <2>7. r \notin Held(i) /\ Held(i)' = Held(i) \cup {r} /\ \A j \in Ids : j # i => Held(j)' = Held(j)
    BY <1>1, <2>2 DEF Held, Shape
  <2>8. Cardinality(Held(i)') = Cardinality(Held(i)) + 1 /\ Cardinality(Held(i)) \in Nat
    BY <2>7, HeldFinite, FS_AddElement
  <2>9. /\ index[i].refs = Cardinality(Held(i)) + (IF index[i].retired THEN 0 ELSE 1)
    BY <1>1 DEF Counted, Counts
  <2>10. x.refs = Cardinality(Held(i)') + (IF x.retired THEN 0 ELSE 1) /\ x.refs # 0
    BY <2>3, <2>4, <2>8, <2>9
  <2>11. Counts(x, Cardinality(Held(i)'))
    BY <1>1, <2>4, <2>5, <2>10 DEF Counts
  <2>12. Counted'
    BY <2>6, <2>7, <2>11 DEF Counted
  <2>13. Shape'
    BY <1>1, <1>2, <2>2, <2>6 DEF Shape, bounds
  <2>14. \A j \in Ids : /\ index'[j].pc = index[j].pc /\ index'[j].key = index[j].key
                        /\ index'[j].retired = index[j].retired
    BY <2>4, <2>6
  <2>15. Reach'
    BY <1>1, <2>2, <2>14 DEF Reach, Shape
  <2>16. \A j \in Ids : Flying(j)' <=> Flying(j)
    BY <1>2, <2>14 DEF Flying
  <2>17. Flight' /\ Owned' /\ Layers'
    BY <1>2, <2>14, <2>16 DEF Flight, Owned, Layers, Shape
  <2>18. QED BY <2>12, <2>13, <2>15, <2>17
<1>4. CASE ~(index[i].refs > 0)
  <2>1. index' = index /\ reader' = [reader EXCEPT ![r] = [pc |-> "idle", idx |-> NoIdx]]
    BY <1>1, <1>4 DEF Acquire, Goto
  <2>2. \A j \in Ids : Held(j)' = Held(j)
    BY <1>1, <2>1 DEF Held, Shape
  <2>3. Counted'
    BY <2>1, <2>2 DEF Counted
  <2>4. Shape' /\ Reach'
    BY <1>2, <2>1 DEF Shape, Reach, bounds
  <2>5. Flight' /\ Owned' /\ Layers'
    BY <1>2, <2>1 DEF Flight, Flying, Owned, Layers
  <2>6. QED BY <2>3, <2>4, <2>5
<1>5. QED BY <1>3, <1>4

LEMMA ReleaseKept == ASSUME PackInv, NEW r \in Readers, Release(r) PROVE PackInv'
<1> USE DEF PackInv
<1>1. PICK i \in Ids : reader[r] = [pc |-> "reading", idx |-> i] /\ index[i].pc = "built"
  BY DEF Release, Reach, Shape
<1> DEFINE x == Released(index[i])
<1>2. UNCHANGED <<want, mine, layer, indexing, result, due, bounds>>
  BY DEF Release
<1>3. /\ index' = [index EXCEPT ![i] = x]
      /\ reader' = [reader EXCEPT ![r] = [pc |-> "idle", idx |-> NoIdx]]
  BY <1>1 DEF Release, Goto
<1>4. r \in Held(i) /\ Held(i)' = Held(i) \ {r} /\ \A j \in Ids : j # i => Held(j)' = Held(j)
  BY <1>1, <1>3 DEF Held, Shape
<1>5. /\ Cardinality(Held(i)') = Cardinality(Held(i)) - 1
      /\ Cardinality(Held(i)) \in Nat /\ Cardinality(Held(i)) > 0
  BY <1>4, HeldFinite, FS_RemoveElement, FS_EmptySet
<1>6. index[i] \in Index /\ index \in [Ids -> Index] /\ Counts(index[i], Cardinality(Held(i)))
  BY <1>1 DEF Shape, Counted
<1>7. /\ x \in Index /\ x.pc = "built" /\ x.key = index[i].key /\ x.retired = index[i].retired
      /\ Counts(x, Cardinality(Held(i)'))
  BY <1>1, <1>5, <1>6, ReleasedCounts
<1> HIDE DEF x
<1>8. index' \in [Ids -> Index] /\ index'[i] = x /\ \A j \in Ids : j # i => index'[j] = index[j]
  BY <1>3, <1>6, <1>7
<1>9. Counted'
  BY <1>4, <1>7, <1>8 DEF Counted
<1>10. Shape'
  BY <1>2, <1>3, <1>8 DEF Shape, bounds
<1>11. \A j \in Ids : /\ index'[j].pc = index[j].pc /\ index'[j].key = index[j].key
                      /\ index'[j].retired = index[j].retired
  BY <1>1, <1>7, <1>8
<1>12. Reach'
  BY <1>3, <1>11 DEF Reach, Shape
<1>13. \A j \in Ids : Flying(j)' <=> Flying(j)
  BY <1>2, <1>11 DEF Flying
<1>14. Flight' /\ Owned' /\ Layers'
  BY <1>2, <1>11, <1>13 DEF Flight, Owned, Layers, Shape
<1>15. QED BY <1>9, <1>10, <1>12, <1>14

-----------------------------------------------------------------------------
LEMMA PackInvInit == Init => PackInv
<1> SUFFICES ASSUME Init PROVE PackInv
  OBVIOUS
<1> USE DEF Init
<1>1. NoIndex \in Index /\ NoIndex.pc = "none" /\ ~NoIndex.closed /\ NoIndex.refs = 0
  BY DEF NoIndex, Index
<1>2. Shape
  <2>1. 0 \in 0 .. MaxChanges /\ 0 \in 0 .. MaxRescans
    BY PackAssumption
  <2>2. QED BY <1>1, <2>1 DEF Shape, bounds
<1>3. Counted
  BY <1>1 DEF Counted, Counts
<1>4. Reach /\ Flight /\ Owned /\ Layers
  BY <1>1, PackAssumption DEF Reach, Flight, Flying, Owned, Layers
<1>5. QED BY <1>2, <1>3, <1>4 DEF PackInv

LEMMA PackInvStep == PackInv /\ [Next]_vars => PackInv'
<1> SUFFICES ASSUME PackInv, [Next]_vars PROVE PackInv'
  OBVIOUS
<1>1. CASE ApplyMountLayer
  BY <1>1, LeaveKept, RebuildKept, OriginsKept DEF ApplyMountLayer
<1>2. CASE PollStale \/ PollPublish \/ RescanLocalPacks
  BY <1>2, PollStaleKept, PollPublishKept, RescanKept
<1>3. CASE Walk
  BY <1>3, WalkKept, SendKept DEF Walk
<1>4. ASSUME NEW m \in MountSets \cup {Off}, ChangeMounts(m) PROVE PackInv'
  BY <1>4, ChangeKept
<1>5. ASSUME NEW r \in Readers, LoadLayer(r) \/ Acquire(r) \/ Release(r) PROVE PackInv'
  BY <1>5, LoadKept, AcquireKept, ReleaseKept
<1>6. CASE UNCHANGED vars
  <2>1. Counted'
    BY <1>6, HeldFrame DEF Counted, PackInv, vars
  <2>2. QED
    BY <1>6, <2>1 DEF PackInv, Shape, Reach, Flight, Flying, Owned, Layers, vars, bounds
<1>7. QED
  BY <1>1, <1>2, <1>3, <1>4, <1>5, <1>6 DEF Next, RenderStep

LEMMA PackInvariant == Spec => []PackInv
  BY PackInvInit, PackInvStep, PTL DEF Spec

(* The variables keep their types, and no count exceeds the owner and the   *)
(* workers.                                                                *)
THEOREM TypeCorrect == Spec => []TypeOK
<1>1. ASSUME PackInv, NEW i \in Ids PROVE index[i].refs <= 1 + Cardinality(Readers)
  <2>1. Cardinality(Readers) \in Nat
    BY PackAssumption, FS_CardinalityType
  <2>2. Cardinality(Held(i)) \in Nat /\ Cardinality(Held(i)) <= Cardinality(Readers)
    BY HeldFinite
  <2>3. Counts(index[i], Cardinality(Held(i))) /\ index[i].refs \in Nat
    BY <1>1 DEF PackInv, Counted, Shape, Index
  <2>4. index[i].refs <= 1 + Cardinality(Held(i))
    BY <2>2, <2>3 DEF Counts
  <2>5. QED BY <2>1, <2>2, <2>3, <2>4
<1>2. PackInv => TypeOK
  BY <1>1 DEF TypeOK, PackInv
<1>3. QED BY PackInvariant, <1>2, PTL

(* MountIndex.acquire, release and Retire: an archive is closed only after  *)
(* its last reader is done.                                                *)
THEOREM ReadersReadOpen == Spec => []NoReadAfterClose
<1>1. ASSUME PackInv, NEW r \in Readers, reader[r].pc = "reading"
      PROVE  ~index[reader[r].idx].closed
  <2>1. reader[r].idx \in Ids /\ index[reader[r].idx].pc = "built"
    BY <1>1 DEF PackInv, Reach
  <2>2. r \in Held(reader[r].idx)
    BY <1>1 DEF PackInv, Shape, Held
  <2>3. QED BY <1>1, <2>1, <2>2, HeldIsOpen DEF PackInv
<1>2. PackInv => NoReadAfterClose
  BY <1>1 DEF NoReadAfterClose
<1>3. QED BY PackInvariant, <1>2, PTL

(* applyMountLayer, pollMountIndex and Retire: every open index is the      *)
(* render thread's, on its way to it, or held by a reader.                 *)
THEOREM HandlesAreOwned == Spec => []NoHandleLeak
<1>1. ASSUME PackInv, NEW i \in Ids, index[i].pc = "built", ~index[i].closed, i \notin {mine, result}
      PROVE  index[i].retired /\ \E r \in Readers : reader[r] = [pc |-> "reading", idx |-> i]
  <2>1. index[i].retired
    BY <1>1 DEF PackInv, Owned
  <2>2. Held(i) # {}
    BY <1>1, <2>1, HeldIsOpen DEF PackInv
  <2>3. QED BY <2>1, <2>2 DEF Held
<1>2. PackInv => NoHandleLeak
  BY <1>1 DEF NoHandleLeak
<1>3. QED BY PackInvariant, <1>2, PTL

(* applyMountLayer: once reconciled, the pack that serves is the wanted    *)
(* one, in use by the render thread and not retired.                       *)
THEOREM LayerServesWanted == Spec => []LayerIsWanted
<1>1. PackInv => LayerIsWanted
  BY DEF PackInv, Layers, LayerIsWanted, KeyOf
<1>2. QED BY PackInvariant, <1>1, PTL
=============================================================================
