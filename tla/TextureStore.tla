---------------------------- MODULE TextureStore ----------------------------
(***************************************************************************)
(* The texture cache of the render thread (internal/render/textures.go),   *)
(* the upload pump that fills it (pump.go) and the layers of the stage     *)
(* that cache page pointers against its generation (viewport.go).          *)
(*                                                                         *)
(* Everything runs on one thread, so every operation is atomic; what       *)
(* interleaves is the order of operations: several decodes of one base in  *)
(* flight, evictions under a page on stage, stream chunks for a page that  *)
(* was evicted, reduced or replaced meanwhile.                             *)
(*                                                                         *)
(* A page is an object with an identity. Its frames are the sequence of    *)
(* their sources, every frame weighs one unit, and a frame stolen by the   *)
(* held-frame bridge is Nil. Only equality with the generation is ever     *)
(* tested, so a layer keeps a flag, fresh, in the place of the number.     *)
(***************************************************************************)
EXTENDS Integers, Sequences, FiniteSets, SequencesExt

CONSTANTS
  Bases,     (* asset bases                                                *)
  Assets,    (* the possible [Bases -> [kind, n]]: what each base decodes  *)
             (* to, "icon", "still", "clip" (GIF, APNG: first frame, then  *)
             (* all), "stream" (WebP, AVIF: frame by frame) or "refused"   *)
             (* (WebP or AVIF that its decoder does not stream: the first  *)
             (* frame of a stream, then a full decode), n frames           *)
  Scenes,    (* the first scenes: [Layers -> Bases]; the model starts with *)
             (* an empty store and a room just built                       *)
  Covered,   (* bases a local pack can answer                              *)
  Jobs,      (* decodes in flight                                          *)
  MainBudget, SmallBudget, OverCap,
  HeldMax,   (* heldSceneryMax                                             *)
  QueueCap,  (* destroyQueueCap                                            *)
  DrainMax,  (* destroyBudgetPerFrame                                      *)
  Ids,       (* page identities, enough of them                            *)
  NoBase, NoId, NoPage, NoJob, Nil,
  MaxDemands, MaxCuts  (* bounds on demands, and on scene changes, purges  *)
                       (* and rescans together                             *)

Layers == {"bg", "speaker"}

ASSUME TextureAssumption ==
  /\ Assets \subseteq [Bases -> [kind : {"icon", "still", "clip", "stream", "refused"}, n : Nat \ {0}]]
  /\ Scenes \subseteq [Layers -> Bases]
  /\ Covered \subseteq Bases /\ NoBase \notin Bases
  /\ Ids \subseteq Nat /\ NoId \notin Ids
  /\ {MainBudget, SmallBudget, OverCap, HeldMax, QueueCap, DrainMax} \subseteq Nat \ {0}
  /\ {MaxDemands, MaxCuts} \subseteq Nat

VARIABLES
  asset,     (* what the files are, fixed                                  *)
  store,     (* the TextureStore                                           *)
  failed,    (* decode failures within their TTL                           *)
  view,      (* the viewport's animState of each layer                     *)
  scene,     (* the base the courtroom wants on each layer                 *)
  job,       (* decodes: which chunk comes next                            *)
  pack,      (* a local pack is mounted                                    *)
  bad,       (* pack entries in quarantine                                 *)
  demands, cuts

textureVars == <<asset, store, failed, view, scene, job, pack, bad, demands, cuts>>

Sources == {"server", "pack"}
Tiers   == {"main", "small"}
Budget(t) == IF t = "main" THEN MainBudget ELSE SmallBudget

Page == [base : Bases, art : Seq(Sources \cup {Nil}), animated : BOOLEAN, partial : BOOLEAN,
         stilled : BOOLEAN]
Entry == [id : Ids, size : Nat]
Stores ==
  [page : [Ids -> Page \cup {NoPage}], lru : [Tiers -> Seq(Entry)], over : Seq(Ids),
   held : [Bases -> Ids \cup {NoId}], ring : [0 .. HeldMax - 1 -> Bases \cup {NoBase}],
   next : 0 .. HeldMax - 1, queue : Seq(Ids), bytes : [{"main", "small", "over", "held"} -> Int],
   moved : BOOLEAN]
Decode == [base : Bases, src : Sources, at : Nat]

(* What stands for the absence of a page, a decode or a frame is none. *)
ASSUME NothingAssumption == NoPage \notin Page /\ NoJob \notin Decode /\ Nil \notin Sources

TextureTypeOK ==
  /\ asset \in Assets
  /\ store \in Stores /\ Len(store.queue) <= QueueCap
  /\ failed \subseteq Bases /\ bad \subseteq Covered /\ pack \in BOOLEAN
  /\ view \in [Layers -> [base : Bases \cup {NoBase}, id : Ids \cup {NoId}, fresh : BOOLEAN]]
  /\ scene \in [Layers -> Bases]
  /\ job \in [Jobs -> Decode \cup {NoJob}]

Blank == [base |-> NoBase, id |-> NoId, fresh |-> FALSE]

TextureInit ==
  /\ asset \in Assets
  /\ store = [page |-> [i \in Ids |-> NoPage], lru |-> [t \in Tiers |-> <<>>], over |-> <<>>,
              held |-> [b \in Bases |-> NoId], ring |-> [i \in 0 .. HeldMax - 1 |-> NoBase],
              next |-> 0, queue |-> <<>>,
              bytes |-> [t \in {"main", "small", "over", "held"} |-> 0], moved |-> FALSE]
  /\ failed = {} /\ view = [l \in Layers |-> Blank] /\ scene \in Scenes
  /\ job = [j \in Jobs |-> NoJob] /\ pack = FALSE /\ bad = {}
  /\ demands = 0 /\ cuts = 0

-----------------------------------------------------------------------------
(* Pages and the destroy queue; s is a store, the result of each operator  *)
(* the store after it.                                                     *)

(* A new object: its identity is none a layer may still compare with. *)
NewId(s) ==
  CHOOSE i \in Ids : s.page[i] = NoPage /\ \A l \in Layers : view[l].id # i

Built(b, art, animated, partial) ==
  [base |-> b, art |-> art, animated |-> animated, partial |-> partial, stilled |-> FALSE]

Weight(s, i) == Len(s.page[i].art)

(* The weight of all of I: every frame counted once. *)
Mass(s, I) == Cardinality(UNION {{i} \X (1 .. Weight(s, i)) : i \in I})

TierIds(s, t) == {s.lru[t][k].id : k \in DOMAIN s.lru[t]}

Bump(s) == [s EXCEPT !.moved = TRUE]

Destroy(s, i) == [s EXCEPT !.page[i] = NoPage]

(* The bounded destroy queue; a full one destroys at once. *)
QueueDestroy(s, i) ==
  IF Len(s.queue) < QueueCap THEN [s EXCEPT !.queue = Append(@, i)] ELSE Destroy(s, i)

(* The IsLiveStageBase probe the store was given. *)
Live(b) == \E l \in Layers : scene[l] = b

-----------------------------------------------------------------------------
(* The held-frame bridge *)

(* A held page leaves the bridge. *)
Unhold(s, b) ==
  QueueDestroy([s EXCEPT !.held[b] = NoId, !.bytes["held"] = @ - Weight(s, s.held[b])], s.held[b])

(* The slot the ring stands at is claimed and its occupant dropped. *)
ClaimSlot(s, b) ==
  LET prev == s.ring[s.next]
      free == IF prev = NoBase \/ s.held[prev] = NoId THEN s ELSE Unhold(s, prev)
  IN [free EXCEPT !.ring[s.next] = b, !.next = (@ + 1) % HeldMax]

(* The first frame of an evicted page goes to a pinned page of its own. *)
HoldFrame(s, i) ==
  LET b == s.page[i].base
      room == IF s.held[b] = NoId THEN ClaimSlot(s, b) ELSE Unhold(s, b)
      h == NewId(room)
  IN IF s.page[i].art = <<>> \/ s.page[i].art[1] = Nil THEN s
     ELSE [room EXCEPT !.page = [@ EXCEPT ![h] = Built(b, <<s.page[i].art[1]>>, FALSE, FALSE),
                                          ![i].art[1] = Nil],
                       !.held[b] = h, !.bytes["held"] = @ + 1]

ReleaseHeld(s, b) ==
  IF s.held[b] = NoId THEN s
  ELSE [Unhold(s, b) EXCEPT !.ring = [k \in DOMAIN @ |-> IF @[k] = b THEN NoBase ELSE @[k]]]

-----------------------------------------------------------------------------
(* The two LRU tiers *)

At(s, t, b) == {k \in DOMAIN s.lru[t] : s.page[s.lru[t][k].id].base = b}
Pos(s, t, b) == CHOOSE k \in At(s, t, b) : TRUE

(* The k-th entry leaves its tier: onEvict. *)
Evict(s, t, k) ==
  LET e == s.lru[t][k]
      out == [s EXCEPT !.lru[t] = RemoveAt(@, k), !.bytes[t] = @ - e.size, !.moved = TRUE]
  IN QueueDestroy(IF Live(s.page[e.id].base) THEN HoldFrame(out, e.id) ELSE out, e.id)

Drop(s, t, b) == IF At(s, t, b) = {} THEN s ELSE Evict(s, t, Pos(s, t, b))

(* Oldest entries go until the tier is back under its budget. *)
Over(s, t) == s.bytes[t] > Budget(t) /\ s.lru[t] # <<>>

Shrink(s, t) ==
  LET after[n \in 0 .. Len(s.lru[t])] ==
        IF n = 0 THEN s
        ELSE IF Over(after[n - 1], t) THEN Evict(after[n - 1], t, 1) ELSE after[n - 1]
  IN after[Len(s.lru[t])]

LruAdd(s, t, i) ==
  LET gone == Drop(s, t, s.page[i].base)
  IN Shrink([gone EXCEPT !.lru[t] = Append(@, [id |-> i, size |-> Weight(s, i)]),
                         !.bytes[t] = @ + Weight(s, i)], t)

(* Get makes an LRU entry the newest of its tier. *)
Touch(s, t, k) == [s EXCEPT !.lru[t] = Append(RemoveAt(@, k), @[k])]

-----------------------------------------------------------------------------
(* The oversized pages, oldest first *)

OverAt(s, b) == {k \in DOMAIN s.over : s.page[s.over[k]].base = b}
OverPos(s, b) == CHOOSE k \in OverAt(s, b) : TRUE

DropOver(s, k) ==
  QueueDestroy([s EXCEPT !.over = RemoveAt(@, k), !.bytes["over"] = @ - Weight(s, s.over[k])],
               s.over[k])

(* The oldest pages go until the map is under its cap, never the page kept. *)
Others(s, keep) == {k \in DOMAIN s.over : s.page[s.over[k]].base # keep}
Oldest(s, keep) ==
  CHOOSE k \in Others(s, keep) : \A m \in Others(s, keep) : k <= m
OverFull(s, keep) == s.bytes["over"] > OverCap /\ Others(s, keep) # {}

EnforceCap(s, keep) ==
  LET after[n \in 0 .. Len(s.over)] ==
        IF n = 0 THEN s
        ELSE IF OverFull(after[n - 1], keep)
             THEN DropOver(after[n - 1], Oldest(after[n - 1], keep)) ELSE after[n - 1]
  IN after[Len(s.over)]

(* Mutant of StoreOversized: the page it replaces is forgotten, not destroyed. *)
StoreOversizedLeaks(s, i) ==
  LET b == s.page[i].base
      gone == IF OverAt(s, b) = {} THEN s
              ELSE [s EXCEPT !.over = RemoveAt(@, OverPos(s, b)),
                             !.bytes["over"] = @ - Weight(s, s.over[OverPos(s, b)])]
  IN EnforceCap([gone EXCEPT !.over = Append(@, i), !.bytes["over"] = @ + Weight(s, i)], b)

StoreOversized(s, i) ==
  LET b == s.page[i].base
      gone == IF OverAt(s, b) = {} THEN s ELSE DropOver(s, OverPos(s, b))
  IN EnforceCap([gone EXCEPT !.over = Append(@, i), !.bytes["over"] = @ + Weight(s, i)], b)

-----------------------------------------------------------------------------
(* Operations of the store *)

(* Get, without the pinned keys: the oversized page, the shield, the main tier. *)
Found(s, b) ==
  IF OverAt(s, b) # {} THEN s.over[OverPos(s, b)]
  ELSE IF At(s, "small", b) # {} THEN s.lru["small"][Pos(s, "small", b)].id
  ELSE IF At(s, "main", b) # {} THEN s.lru["main"][Pos(s, "main", b)].id
  ELSE NoId

Touched(s, b) ==
  IF OverAt(s, b) # {} THEN s
  ELSE IF At(s, "small", b) # {} THEN Touch(s, "small", Pos(s, "small", b))
  ELSE IF At(s, "main", b) # {} THEN Touch(s, "main", Pos(s, "main", b))
  ELSE s

Resident(s, b) == Found(s, b) # NoId

(* The probe of the demand gate: a still of an animation does not count. *)
ContainsAnimated(s, b) ==
  LET look == IF At(s, "small", b) # {} \/ At(s, "main", b) # {}
              THEN Found([s EXCEPT !.over = <<>>], b) ELSE Found(s, b)
  IN look # NoId /\ ~s.page[look].stilled

(* Upload of a page that fits its tier, or that only the oversized map takes. *)
UploadTier(s, t, p) ==
  LET i == NewId(s)
      built == [s EXCEPT !.page[i] = p]
  IN ReleaseHeld(Bump(IF Len(p.art) <= Budget(t) THEN LruAdd(built, t, i)
                      ELSE StoreOversized(Drop(built, t, p.base), i)), p.base)

UploadPage(s, p) ==
  IF asset[p.base].kind # "icon" \/ Len(p.art) > SmallBudget THEN UploadTier(s, "main", p)
  ELSE UploadTier(Drop(s, "main", p.base), "small", p)

(* The first chunk of a stream, dropped when the base has an oversized page. *)
Establish(s, p) ==
  LET i == NewId(s)
  IN IF OverAt(s, p.base) # {} THEN s
     ELSE Bump(ReleaseHeld(StoreOversized([s EXCEPT !.page[i] = p], i), p.base))

(* Mutant of AppendFrame: the cached pointers are not told of the evictions. *)
AppendFrameQuietly(s, b, src, offset) ==
  LET i == s.over[OverPos(s, b)]
  IN IF OverAt(s, b) = {} \/ Weight(s, i) # offset THEN s
     ELSE EnforceCap([s EXCEPT !.page[i].art = Append(@, src), !.bytes["over"] = @ + 1], b)

(* A later chunk: it must continue the page exactly where it ends. *)
AppendFrame(s, b, src, offset) ==
  LET i == s.over[OverPos(s, b)]
  IN IF OverAt(s, b) = {} \/ Weight(s, i) # offset THEN s
     ELSE Bump(EnforceCap([s EXCEPT !.page[i].art = Append(@, src), !.bytes["over"] = @ + 1], b))

(* The last chunk has no frames: the page is no growing prefix any more. *)
Finalize(s, b) ==
  IF OverAt(s, b) = {} THEN s
  ELSE Bump([s EXCEPT !.page[s.over[OverPos(s, b)]].partial = FALSE])

RemoveBase(s, b) ==
  IF OverAt(s, b) # {} THEN Bump(DropOver(s, OverPos(s, b)))
  ELSE Drop(Drop(s, "small", b), "main", b)

(* RemoveWhere collects the keys of every tier first, so a base that lies  *)
(* in two tiers is removed twice.                                          *)
Listed(s, t) == [k \in 1 .. Len(s.lru[t]) |-> s.page[s.lru[t][k].id].base]
Keys(s) == [k \in 1 .. Len(s.over) |-> s.page[s.over[k]].base] \o Listed(s, "main") \o Listed(s, "small")

RemoveWhere(s, K) ==
  LET after[n \in 0 .. Len(Keys(s))] ==
        IF n = 0 THEN s
        ELSE IF Keys(s)[n] \in K THEN RemoveBase(after[n - 1], Keys(s)[n]) ELSE after[n - 1]
  IN after[Len(Keys(s))]

Reducible(p) == p.animated /\ ~p.stilled /\ Len(p.art) > 1

(* What falls to a still when active plays, and what its pages lose by it. *)
Falling(s, active) ==
  {i \in ToSet(s.over) \cup TierIds(s, "main") :
     s.page[i].base \notin active /\ Reducible(s.page[i])}
Lost(s, I) == Mass(s, I) - Cardinality(I)
Stilled(s, fall) ==
  [i \in Ids |-> IF i \in fall THEN [s.page[i] EXCEPT !.art = <<@[1]>>, !.stilled = TRUE]
                 ELSE s.page[i]]

(* Mutant of ReduceAnimatedExcept: the LRU entry keeps the weight of the whole clip. *)
ReduceWithoutResize(s, active) ==
  LET fall == Falling(s, active)
  IN [s EXCEPT !.page = Stilled(s, fall),
               !.bytes["over"] = @ - Lost(s, fall \cap ToSet(s.over))]

(* Every animation on no active layer becomes a still of its first frame,  *)
(* in place: no generation moves.                                          *)
ReduceAnimatedExcept(s, active) ==
  LET fall == Falling(s, active)
  IN [s EXCEPT
        !.page = Stilled(s, fall),
        !.lru["main"] = [k \in DOMAIN @ |-> IF @[k].id \in fall THEN [@[k] EXCEPT !.size = 1] ELSE @[k]],
        !.bytes["main"] = @ - Lost(s, fall \cap TierIds(s, "main")),
        !.bytes["over"] = @ - Lost(s, fall \cap ToSet(s.over))]

(* Everything goes, the queue and the bridge too. *)
Purged(s) ==
  [Bump(s) EXCEPT !.page = [i \in Ids |-> NoPage], !.lru = [t \in Tiers |-> <<>>], !.over = <<>>,
     !.held = [b \in Bases |-> NoId], !.ring = [k \in DOMAIN @ |-> NoBase], !.next = 0,
     !.queue = <<>>, !.bytes = [t \in DOMAIN @ |-> 0]]

Drained(s) ==
  LET n == IF Len(s.queue) < DrainMax THEN Len(s.queue) ELSE DrainMax
      gone == {s.queue[k] : k \in 1 .. n}
  IN [s EXCEPT !.page = [i \in Ids |-> IF i \in gone THEN NoPage ELSE @[i]],
               !.queue = SubSeq(@, n + 1, Len(@))]

(* An operation of the store ends: pointers cached under another generation are stale. *)
Becomes(s) ==
  /\ store' = [s EXCEPT !.moved = FALSE]
  /\ view' = IF s.moved THEN [l \in Layers |-> [view[l] EXCEPT !.fresh = FALSE]] ELSE view

-----------------------------------------------------------------------------
(* The viewport *)

(* animState.resolve: a fresh pointer is used as it is. *)
Resolve(acc, l) ==
  LET v == acc.view[l] i == Found(acc.store, v.base)
  IN IF v.base = NoBase \/ (v.id # NoId /\ v.fresh) THEN acc
     ELSE [store |-> Touched(acc.store, v.base),
           view |-> [acc.view EXCEPT ![l].id = i, ![l].fresh = TRUE]]

ResolveAll(s, v) == Resolve(Resolve([store |-> s, view |-> v], "bg"), "speaker")

(* syncAnimSticky holds a background until the next one is resident, syncAnim does not wait. *)
Synced ==
  [l \in Layers |->
     IF view[l].base = scene[l] THEN view[l]
     ELSE IF l = "bg" /\ ~Resident(store, scene[l]) THEN view[l]
     ELSE [Blank EXCEPT !.base = scene[l]]]

(* Viewport.Update: bind the layers, reduce what is inactive once per speaker, resolve. *)
Update ==
  LET s == IF scene["speaker"] = view["speaker"].base THEN store
           ELSE ReduceAnimatedExcept(store, {scene["speaker"]})
      done == ResolveAll(s, Synced)
  IN /\ store' = done.store /\ view' = done.view
     /\ UNCHANGED <<asset, failed, scene, job, pack, bad, demands, cuts>>

(* Viewport.Render resolves again, after the uploads and the drain. *)
Render ==
  LET done == ResolveAll(store, view)
  IN /\ store' = done.store /\ view' = done.view
     /\ UNCHANGED <<asset, failed, scene, job, pack, bad, demands, cuts>>

SetScene(l, b) ==
  /\ cuts < MaxCuts /\ scene[l] # b /\ asset[b].kind # "icon"
  /\ scene' = [scene EXCEPT ![l] = b] /\ cuts' = cuts + 1
  /\ UNCHANGED <<asset, store, failed, view, job, pack, bad, demands>>

-----------------------------------------------------------------------------
(* Decodes and the upload pump *)

(* The prefetch gate: neither resident nor failed; a pack answers before the server. *)
Demand(j, b) ==
  /\ job[j] = NoJob /\ demands < MaxDemands
  /\ ~ContainsAnimated(store, b) /\ b \notin failed
  /\ job' = [job EXCEPT ![j] = [base |-> b, at |-> 1,
                                src |-> IF pack /\ b \in Covered \ bad THEN "pack" ELSE "server"]]
  /\ demands' = demands + 1
  /\ UNCHANGED <<asset, store, failed, view, scene, pack, bad, cuts>>

Kind(j) == asset[job[j].base].kind
Frames(j) == asset[job[j].base].n
LastChunk(j) ==
  CASE Kind(j) = "stream" -> Frames(j) + 1 [] Kind(j) \in {"clip", "refused"} -> 2 [] OTHER -> 1

NextChunk(j) ==
  LET d == job[j]
  IN job' = [job EXCEPT ![j] = IF d.at = LastChunk(j) THEN NoJob ELSE [d EXCEPT !.at = d.at + 1]]

(* Pump.Frame's guard: a first frame never replaces a page that has more. *)
Regresses(b) == Resident(store, b) /\ Weight(store, Found(store, b)) > 1

(* What the chunk a decode delivers makes of the store. *)
Chunk(j) ==
  LET b == job[j].base src == job[j].src at == job[j].at n == Frames(j)
      whole == [k \in 1 .. n |-> src]
  IN CASE Kind(j) \in {"icon", "still"} -> UploadPage(store, Built(b, whole, FALSE, FALSE))
       [] Kind(j) = "clip" /\ at = 1 ->
            IF Regresses(b) THEN store ELSE UploadPage(store, Built(b, <<src>>, TRUE, TRUE))
       [] Kind(j) \in {"clip", "refused"} /\ at = 2 -> UploadPage(store, Built(b, whole, TRUE, FALSE))
       [] Kind(j) \in {"stream", "refused"} /\ at = 1 -> Establish(store, Built(b, <<src>>, TRUE, TRUE))
       [] Kind(j) = "stream" /\ at \in 2 .. n -> AppendFrame(store, b, src, at - 1)
       [] OTHER -> Finalize(store, b)

(* clearFailed: not for the chunks that return before it, nor for appends. *)
Heals(j) ==
  CASE Kind(j) = "stream" \/ (Kind(j) = "refused" /\ job[j].at = 1) ->
         job[j].at = 1 /\ OverAt(store, job[j].base) = {}
    [] Kind(j) = "clip" /\ job[j].at = 1 -> ~Regresses(job[j].base)
    [] OTHER -> TRUE

Deliver(j) ==
  /\ job[j] # NoJob
  /\ Becomes(Chunk(j)) /\ NextChunk(j)
  /\ failed' = IF Heals(j) THEN failed \ {job[j].base} ELSE failed
  /\ UNCHANGED <<asset, scene, pack, bad, demands, cuts>>

(* The renderer refuses the texture: the chunk is gone, its stream goes on. *)
UploadFails(j) ==
  /\ job[j] # NoJob /\ (Kind(j) = "stream" => job[j].at <= Frames(j))
  /\ Becomes(IF Kind(j) = "icon" /\ Frames(j) <= SmallBudget
             THEN Drop(store, "main", job[j].base) ELSE store)
  /\ NextChunk(j)
  /\ UNCHANGED <<asset, failed, scene, pack, bad, demands, cuts>>

(* The frames after the first do not decode: a stream ends where it broke. *)
StreamBreaks(j) ==
  /\ job[j] # NoJob /\ Kind(j) = "stream" /\ job[j].at \in 2 .. Frames(j)
  /\ job' = [job EXCEPT ![j].at = Frames(j) + 1]
  /\ UNCHANGED <<asset, store, failed, view, scene, pack, bad, demands, cuts>>

(* The file does not decode. The server's copy is not tried for a while; a *)
(* pack's entry is put aside and what it left under the base dropped.      *)
DecodeFails(j) ==
  /\ job[j] # NoJob /\ Kind(j) # "stream"
  /\ job[j].at = LastChunk(j) /\ job' = [job EXCEPT ![j] = NoJob]
  /\ \/ job[j].src = "server" /\ failed' = failed \cup {job[j].base}
        /\ UNCHANGED <<store, view, bad>>
     \/ job[j].src = "pack" /\ bad' = bad \cup {job[j].base}
        /\ Becomes(RemoveBase(store, job[j].base)) /\ UNCHANGED failed
  /\ UNCHANGED <<asset, scene, pack, demands, cuts>>

FailureExpires(b) ==
  /\ b \in failed /\ failed' = failed \ {b}
  /\ UNCHANGED <<asset, store, view, scene, job, pack, bad, demands, cuts>>

DrainDestroyQueue ==
  /\ store.queue # <<>> /\ Becomes(Drained(store))
  /\ UNCHANGED <<asset, failed, scene, job, pack, bad, demands, cuts>>

(* The filter of the textures is changed in the settings. *)
Purge ==
  /\ cuts < MaxCuts /\ cuts' = cuts + 1
  /\ Becomes(Purged(store))
  /\ UNCHANGED <<asset, failed, scene, job, pack, bad, demands>>

(* A pack is mounted or scanned again: what it covers is dropped everywhere. *)
RescanLocalPacks ==
  /\ cuts < MaxCuts /\ cuts' = cuts + 1
  /\ pack' = TRUE /\ bad' = {} /\ failed' = {}
  /\ Becomes(RemoveWhere(store, Covered))
  /\ UNCHANGED <<asset, scene, job, demands>>

TextureNext ==
  \/ Update \/ Render \/ DrainDestroyQueue \/ Purge \/ RescanLocalPacks
  \/ \E l \in Layers, b \in Bases : SetScene(l, b)
  \/ \E j \in Jobs : \/ \E b \in Bases : Demand(j, b)
                     \/ Deliver(j) \/ UploadFails(j) \/ StreamBreaks(j) \/ DecodeFails(j)
  \/ \E b \in Bases : FailureExpires(b)

TextureSpec == TextureInit /\ [][TextureNext]_textureVars

-----------------------------------------------------------------------------
(* Properties *)

Alive == {i \in Ids : store.page[i] # NoPage}
InLru(t) == TierIds(store, t)
InHeld == {store.held[b] : b \in Bases} \ {NoId}

(* A pointer a layer may use without asking again is a page with its       *)
(* textures: whatever evicts, replaces, steals from or destroys a page,    *)
(* inline or through the queue, has moved the generation.                  *)
NoDangling ==
  \A l \in Layers : view[l].fresh /\ view[l].id # NoId =>
    /\ view[l].id \in Alive \ ToSet(store.queue)
    /\ store.page[view[l].id].art # <<>> /\ store.page[view[l].id].art[1] # Nil
    /\ store.page[view[l].id].base = view[l].base

(* Texture memory is neither leaked nor freed twice: every page that has   *)
(* textures is in one tier, in the bridge, or once in the destroy queue.   *)
OnePlace ==
  \A i \in Ids :
    LET places == <<i \in InLru("main"), i \in InLru("small"), i \in ToSet(store.over),
                    i \in InHeld, i \in ToSet(store.queue)>>
    IN /\ Cardinality({k \in 1 .. 5 : places[k]}) = IF i \in Alive THEN 1 ELSE 0
       /\ Cardinality({k \in DOMAIN store.queue : store.queue[k] = i}) <= 1

(* The byte counters the evictions go by are the weights of what is        *)
(* resident, through reductions, growing streams and replacements; no tier *)
(* is over its budget and only a lone page is over the oversized cap.      *)
BytesAreTrue ==
  /\ \A t \in Tiers : store.bytes[t] = Mass(store, InLru(t)) /\ store.bytes[t] <= Budget(t)
  /\ store.bytes["over"] = Mass(store, ToSet(store.over))
  /\ store.bytes["held"] = Mass(store, InHeld)
  /\ store.bytes["over"] <= OverCap \/ Len(store.over) = 1

(* decoder.go:965: "the classic full decode replaces the establishing       *)
(* prefix". A base whose whole animation is in the main tier is not drawn   *)
(* as a growing prefix.                                                    *)
FullReplacesPrefix ==
  \A i \in InLru("main") :
    ~store.page[i].partial => ~store.page[Found(store, store.page[i].base)].partial

=============================================================================
