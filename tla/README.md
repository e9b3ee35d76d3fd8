# A TLA+ model of AsyncAO

AsyncAO is an Attorney Online client that streams every asset it shows. Nothing
is installed: a message arrives, the client derives the names its art might
have, probes them over HTTP or in a local pack, decodes, uploads, and performs
the message, all without blocking the render thread. Most of what can go wrong
is therefore a matter of order: an answer that arrives after the question
changed, a memory consulted after what it remembers became false, a queue at
its cap, a shutdown between a check and an enqueue. This directory models
those parts, checks them with TLC, and proves their safety properties,
for every size of instance, with TLAPS.

Paths below are relative to `internal/` unless they begin with `docs/` or `cmd/`.

## 1. The system

One process. The render thread owns SDL, the courtroom, the session and the
texture store. Beside it run sixteen fetch workers, a decode pool, three
goroutines per server connection, one disk-cache writer, one preferences
saver, at most one walk of the local packs, the goroutines of an update, and a
metrics sampler (`docs/ARCHITECTURE.md`, "Thread model").

```
 server ──ws──> readLoop ─backlog─> deliverLoop ─Incoming(256)─> render thread (RenderLoop)
                 Conn                    │ PushWake                │
                                         └────── doorbell ────────>│
                                                      session ──> courtroom ──> viewport
                                                                   │  Room       ▲ TextureStore
                                                       Prefetch(…) │             │ upload pump
                                 ┌──── asset manager <─────────────┘      decoded chan(64)
                                 │     ConclusiveMiss                     warning chan(32)
     local pack index <──────────┤                                               │
     PackLifecycle               └──> fetch pool ──> memory, disk, http ──> decode pool
                                      FetchPool      RawFetch, DiskCache
```

### Components, their state and what makes them right

| component | state | operations | correct when | here |
|---|---|---|---|---|
| fetch pool `network/pool.go` | two bounded lanes, epoch, stop | Submit, worker, BumpEpoch, Close | each accepted job is run exactly once, fresh or cancelled; high work is never shed | `FetchPool`, `JobService`, proofs |
| asset manager, miss memory `assets/manager.go`, `missset.go` | conclusive-miss set with generation, format snapshot, offline gate, mount layer | resolution passes, format change, SetMountLayer, forget calls | a remembered absence is a true one for the present lists and sources; the request storm ends | `ConclusiveMiss`, proofs |
| resolver `assets/resolver.go` | learned formats per host and type, list snapshot | RecordSuccess, Invalidate, candidate ladders | the ladder a pass walks holds every configured format | one host and type, in `ConclusiveMiss` |
| local pack `assets/mountindex.go`, `ui/mountlayer.go` | index with a reference count, single-flight latch, result channel | reconcile, walk, publish, retire, acquire, release | no read after close, no leaked handle, the wanted pack is the one served | `PackLifecycle`, proofs |
| connection `protocol/conn.go` | backlog, byte count, Incoming, closed, readErr | readLoop, deliverLoop, keepaliveLoop, Close | order, nothing lost on a drop, a dead link surfaces | `Conn`, proofs |
| courtroom `courtroom/courtroom.go` | message queue, phase and its timer, wait gate, delayed sound, immediate preanimation, known misses | enqueue, Update, renderer and pipeline notifications, wipe | messages performed in order, art present or known absent, the stage comes to rest | `Room`, proofs |
| disk cache `cache/disk.go` | write queue, budget, blobs | Put, Get, Delete, SetBudget, Clear, Close, crash | published blobs are whole, operations apply in order, Close drains, the budget is enforced | `DiskCache`, `BlobStore`, proofs |
| memory caches `cache/memory.go` | LRU and byte count | Add, Get, Remove, Resize, Purge | never over budget at rest, counters are the residents' weights | `RawFetch` (concurrent), `TextureStore` (one thread) |
| http client `network/client.go` | 404 cache, backoff per host, shared requests | Fetch, ClearNotFound | one outage counts once, every waiter is told | `RawFetch`, proofs |
| preferences `config/preferences.go` | fields, dirty and pending marks, freeze | setters, saver, SaveNow, resets, import, Close | the file ends up with the last value | `PrefsSaver`, proofs |
| texture store, pump `render/textures.go`, `pump.go` | two tiers, oversized map, held bridge, destroy queue, generation | Upload, AppendStream, Get, evict, drain, purge | no cached pointer outlives its textures, nothing leaked or freed twice | `TextureStore`, proofs |
| event loop `ui/wake.go`, `cmd/asyncao/main.go` | doorbell flag, damage, SDL queue | PushWake, IsWakeEvent, a pass, a park | a delivery wakes a parked loop, a parked screen is right | `RenderLoop`, proofs |
| updater `update/apply.go`, `ui/update_ui.go` | installed, backup and staged files | StageReplace, StageBundle, sweeps | after any failure a working install remains | `Updater`, proofs |
| session, crawl, wire `courtroom/session.go`, `typewriter.go` | session fields, revealed runes | packet reducers | reducers agree with the wire | not modelled |
| decode pool, local mounts, prediction, thumbnails, music, voice, codec, master list, UI, theme packs, proxy, helpers | see `PROJECT.json` | | | not modelled, reasons there |

### How they interact

* **Calls**: the courtroom calls `Manager.Prefetch…`; the manager submits jobs to
  the pool; jobs walk pack, caches and network; the UI calls the setters that
  invalidate the manager's memories (format lists, layer, offline, forget).
* **Channels**: decoded results and warnings travel back over bounded channels
  drained once a pass of the loop. The warning channel drops when full.
* **Shared state**: generation counters (`formatGen`, the texture store's), epochs,
  atomically swapped pointers (mount layer, learned table, format snapshot), a
  reference count, the doorbell's flag, the preferences under their lock.
* **Callbacks**: one viewport is shared by all rooms, so the courtroom may hear of
  the end of an animation that was another room's.

### What is hard here

Interleavings of passes with invalidation; three independent clocks per
message; shedding by producers; bounded lanes and queues at their cap; reports
that are late, stale or dropped; shutdown racing submission; a walk that
outlives the question it answers; a crash between two renames; writers that
overtake one another; a sleep that begins as a delivery ends. `PROJECT.json`
lists each under `hazards` at its line, with the property that watches it or
the reason none does.

## 2. The modules

### `JobService` and `FetchPool`

`JobService` is what callers of the pool are promised, without lanes or
workers: a job handed in is started fresh or cancelled, never both and never
twice; a bump of the epoch overtakes what still waits; sticky jobs are
overtaken by nothing.

`FetchPool` is the pool itself. Submit is split where Go lets something happen
in between: the stop check (`PassStopCheck`, `Reject`), the enqueue
(`EnqueueHigh`, `EnqueueLow`), finding the low lane full (`SeeLowFull`), taking
a victim (`PopVictim`), cancelling it (`ShedVictim`). A worker looks at the
high lane (`TakeHigh`, `FallThrough`), then blocks on both (`Take…`, `Exit`),
judges the epoch when it reaches the job (`Dispatch`) and runs it
(`FinishRun`). Close stops, waits for the workers, and drains both lanes with
one `select`, so in either order. Every `select` over several ready cases is a
choice. A call is named by the job it carries.

### `ConclusiveMiss`

A chain is one thing the UI asks for: a base with alternative spellings, probed
with every extension of the configured list, or one complete URL. The module
has the whole pass: read the layer and the generation, try the pack, take the
candidates (`BuildCandidates`, `ReadList`), probe them in any answered order,
fall back to the full list when a learned format turned stale (`ReadLadder`),
fail, or exhaust and go through the three checks before remembering (offline,
generation, then insertion with overflow eviction). The learned formats start
from what the preferences recorded of the host (`Warm`), and the list comes
from a snapshot that is renewed by generation (`Snapshot`). The setters are
split where the code stores and flushes separately (`BumpGen`, `SwapStore`).
`verdict` is history: what the pass that recorded a chain had tried, and what
may have misled it (`doubts`): about the server, a format its ladder lost
(`skipped`) or the network gate lifted after it had been answered by the gate
(`silenced`); about the pack, a layer stored since it began (`raced`) or a read
that failed (`unread`). `PackHas` asks the pack for what a chain stands for, the
complete name of an exact one; `InPack` is what the code asks, which for an
exact one is never in a pack (section 5).

### `PackLifecycle`

The render thread's reconciliation (`ApplyMountLayer`), the kick of a walk with
its latch, the walk, the channel of one, publication or rejection of a stale
result, retirement of the old index, and readers that load the layer pointer
in one step and acquire a reference in another. Names of closed indexes are
reused so that the state space is finite.

### `Conn`

readLoop (with the point between the enqueue and the byte charge), deliverLoop
(which may stay blocked on Incoming for ever), keepaliveLoop (its stop check
and its write are separate), the application's drains and close, the
transport's drop. Sizes are wire sizes; contents are left out.

### `Room`

All of the courtroom runs on the render thread, so one action is one call. The
record `room` holds the fields of `Courtroom`, and the operators follow the
methods from record to record: `Begin`, `EnterAfterShout`, `StartTalking`,
`EnterLinger`, `Enqueue`, `Gated`/`Holds` (the two results of `waitHolds`),
`TickImmediatePreanim`, `NotifyAssetMissing`, and `Updated`, which is `Update`
for one tick: first the clocks that ignore the phase, then the phase. What
interleaves is the order of calls: messages, frames, wipes, reports of the
shared viewport, and the pipeline's answers: an upload, a 404 relayed with the
store's mark, no answer at all (transport failure, failed decode, dropped
warning), an eviction. A message is an id and a kind; the art its first frame
needs is the set `FirstFrame`. `last`, `preanim` and `told` are history or the
viewport's side.

### `BlobStore` and `DiskCache`

`BlobStore` is the promise: a map that may forget any key at any time and whose
accepted operations take effect in order. `DiskCache` is the tier: callers test
`stopped` and enqueue in two steps; the writer waits on the queue, the wake and
the stop, writes a temporary file, renames it, and sweeps the oldest blobs past
the budget over a listing it took at the start; `GetTorn`/`GetDrops` are a
reader that finds a blob that does not decode and removes it later; Clear
removes shard after shard beside all of them; a crash may tear any blob, since
nothing is synced. An operation carries a number, so that a stored value is
told from every other. A crash leaves a blob as it was, torn so that a reader
notices (`Torn`: no bytes, or a compressed frame that does not decode), or
damaged so that no reader can (`Damaged`: an uncompressed blob cut short or
zero-filled; compression is off by default). `BlobStore` says so too: a damaged
value is what a crash may leave under a key, until it is replaced or forgotten.
A damaged blob counts with its full size, and a rename or a removal that was
done is assumed to survive the crash: the model loses bytes, not names.

### `PrefsSaver`

A version of the preferences is the number of changes made so far. A setter
changes memory under the lock (`Change`), then marks it pending and signals the
saver in two more steps. SaveNow is three steps (`Clear`, `Marshal`, `Write`),
taken by the saver after its debounce and by the user's thread for
Settings-Apply, the resets, the exit and Close's last flush; the two may be
inside it together, and the saver may start and finish a write while the user's
is under way. Import replaces the file and then freezes the saver. `raced` and
`overtaken` are history: a reset or the exit's save ran beside the saver's; a
save of the saver ended while the user's thread was still writing an older
version.

### `TextureStore`

One thread, one action per call on the store: uploads of whole pages and of
stream chunks, the two LRU tiers and the oversized map, the bridge that steals
the frames of an evicted page a layer still shows, the destroy queue and its
drain, reductions to a still, purges, rescans. `store` holds the structure's
fields and the operators follow its methods. The stage is a set of layers, each
with the page pointer it caches and whether the generation has moved since
(`fresh`). Decodes are jobs whose chunks arrive in any order relative to
everything else, may be lost, or may break off. A `refused` animation is one
that `streamAnimated` gives up after its first frame: an establishing chunk,
then the whole clip as an ordinary upload.

### `RawFetch`

`FetchRaw` from the caller's side: memory tier, disk tier, negative cache, host
backoff, the request shared by all callers of a URL, its attempts and how each
ends, and then the memory tier's `Add`, step by step (`RemoveOld`, `GiveBack`,
`Insert`, `Charge`, `EvictOldest`), because the LRU and its byte counter have
no lock in common. The look at the backoff and the join of the shared request are
two steps, so a request may start in a window that opened between them.
`windows` is history: the backoff windows the host has been through.

### `Updater`

Files hold release numbers. `StartUpdate` to `Finish` are StageReplace and
StageBundle: clear a backup, back a file up, install it, in directory order
with the binary last, roll back on failure. `Boot` and `Sweep…` are the start of
the application with its sweep of backups, in a goroutine that nobody joins:
it may list and remove between any two steps of an update. Every rename and
removal may fail, and the process may die between any two. `ignored` is history:
with the binary at its backup only, the application was started from there or
the update tried again; `overlapped`: an update began before the sweep was over.

### `RenderLoop`

Producers (deliverLoop, the decode pool) deliver and then knock in two steps
(`Knock`: raise the flag; `Push` or `PushFails`). A pass handles events, begins a
frame or skips it, drains packets, uploads within its budget (which stream
chunks that the store drops use up as well, without moving its generation),
draws, and decides to go round or to park. The connection is reduced to counts, since
`Conn` has the rest. The idle rate is off, so that nothing redraws by itself;
the event a wake-up dequeues is handled first by the next pass and is left in
the queue here. `lost`, `drawn`, `bound`, `spun` and `idled` are history; `idled` says that
the last pump deferred work behind nothing but dropped chunks.

`PROJECT.json` maps every definition to its lines.

## 3. The runs

| run | instance | what it shows |
|---|---|---|
| `pool` | 2 high (1 sticky), 2 low jobs, lanes of 1, 1 worker, 1 bump, Close anywhere; 328 K states | a job runs at most once; high work is cancelled only by epoch or shutdown; Close forgets nobody; the pool implements `JobService`; accepted jobs are run |
| `pool_late_submit` | 2 jobs (one high, one low), 1 worker | violation: see findings |
| `miss` | a sprite with two spellings and a song named in full on another origin, 1 format change, 1 layer swap or forget, 1 offline flip, 1 transport error, failing pack reads, memory of 1, warm and cold learned formats; 486 K states | no verdict about an old list is consulted; a remembered chain is absent from the server, and a probed one from the pack, unless its pass was misled about that source; once online for good, the storm of requests ends |
| `pack` | 2 mount sets and off, 3 changes, 1 rescan, 2 readers; 38 K states | no read after close, no leaked handle, the layer as wanted, the wanted pack appears |
| `conn` | 4 frames of sizes 1 and 2, backlog of 2 packets and 3 bytes, Incoming of 1, 1 good ping; 50 K states | a drop loses and reorders nothing; a dead link closes Incoming |
| `room` | 4 messages of 4 kinds, queue of 3, miss set of 1, gate off, bounded and strict; 987 K states | order on stage, a sound belongs to its message, no placeholder while performing, no preanimation skipped without cause, strict gate never stages cold art, the room comes to rest |
| `disk` | 2 keys of sizes 1 and 2, 1 caller with 3 operations, budgets 0 and 2, queue of 2, 1 Clear or crash; 1.3 M states | the tier implements `BlobStore`; the budget is enforced whenever the writer waits; Close drains, and returns |
| `prefs` | 1 worker, 3 changes, 2 writes or imports by the user, 1 failing write, the exit; 476 K states | a session at rest has saved every change; memory reaches the file; Close loses nothing |
| `updater` | 2 libraries (one introduced by the release) and the binary, 3 attempts, 2 crashes, the sweep of a start anywhere; 72 K states | a binary always remains; it is swapped last; a failed update leaves the install it found |
| `texture` | 3 bases, 4 asset sets (still, fitting clip, oversized clip, stream, refused streams, icons), 2 decodes in flight, tiers of 2 and 1, oversized cap 4, destroy queue of 1, 1 purge or rescan; 1.2 M states | no cached pointer dangles; nothing leaks or is freed twice; the counters are the residents' weights |
| `raw_fetch` | 2 callers, 2 URLs of sizes 1 and 2, memory tier of 2, 2 attempts, 3 fetches; 53 K states | the memory tier at rest is in its budget; a burst of failures counts once; every fetch returns |
| `loop` | 2 packets, close of the connection, 2 assets, 1 window event, Incoming of 2; 1.2 M states | no missed wake; a parked screen is right; the loop does not spin; packets are taken |

No run needs more than about four minutes with two TLC workers; `texture`,
`disk`, `room`, `loop` and `miss` need the most. Every property of a passing run has a
mutant: an operator in the module, named as the mutant of a definition, that
changes it the way a plausible bug would; with it in place TLC finds the
property violated. The `TypeOK` of each module states the types of its
variables. No run lists it; it was checked on the instances above, and it is
proved for every module that has theorems.

### Bounds, and why they are enough

* Lanes, Incoming of `conn` and the miss memory have one slot and the message
  queue three, so full, one short of full and overflowing are all reached. The
  proofs remove the bounds wherever section 4 has a theorem.
* One worker and two jobs per lane: a second worker adds no pairwise
  interaction a shedding producer does not already have (both receive from the
  low lane); the theorems hold for any number.
* `miss`: one change of each kind is enough to fall before, inside or after any
  pass, and the four kinds may all fall into one pass.
* Five index names in `pack`: two held by readers, the layer's, the walk's and
  the one being made can never be more.
* Four frames reach a full backlog behind a full Incoming with one in hand.
* Four messages: one on stage, three to fill the queue, or a shout over two.
  Clocks of one to three ticks let each of text, linger, preanimation and sound
  end before or after any other. `MissingCap` is one so that an unrecorded miss
  happens; `Threshold` one is the shipped default.
* `disk`: both blobs do not fit in the budget, either does, so a sweep has to
  choose; three operations let a store and a delete of one key follow a store of
  the other through a queue of two; `PruneEvery` 2 lets a sweep be due or not.
* `prefs`: a change before, inside and after a write, by either thread; two
  requests of the user, so that a reset or an import can follow an apply, and the
  saver can overtake each.
* `texture`: a clip of two frames fills its tier, one of three or a stream that
  grows to three overflows it; a destroy queue of one is full at the second
  eviction. Two decodes in flight can be of one base.
* `raw_fetch`: the large blob alone fills the tier. Three fetches let two Adds of
  one key overlap and a third follow.
* `updater`: three attempts, since the hazards are of an attempt that meets what
  a failed or interrupted one left; a crash in the middle and one in its repair.
  Each start sweeps, so a sweep overlaps the first, the second or the third.
* `loop`: two producers can be anywhere in PushWake at once, with a second
  delivery behind the first. Two assets: one may be a dropped chunk that uses up
  the budget, the other what it defers.

Bounds are constants with `Max` or `Cap` in their names, in the guard of the
action they limit.

### Fairness

* `FetchPool`: workers and Close's own steps are scheduled; a Submit in progress
  takes its next step; nobody is obliged to start a call. Go's `select` is fair
  enough for a blocked sender to be chosen once the lane frees up again and again.
* `ConclusiveMiss`: a started pass and a started setter go on. `Start` is
  strongly fair: a chain asked for over and over does not lose each of its jobs
  to an epoch. The offline gate ending open is a premise of the property.
* `PackLifecycle`: frames are drawn; a walk ends.
* `Conn`: the three goroutines run; the application may stall for ever, which is
  the case `DropSurfaces` is about.
* `Room`: frames are drawn (weak fairness of `Update`, written out because its
  `ENABLED` is just `Updated # room`). Nothing is assumed of the network. The
  viewport reports a started animation at most once per message.
* `DiskCache`: the writer runs, and Close is scheduled once the writer is gone;
  no caller and no Clear is obliged to go on.
* `PrefsSaver`: the saver's loop runs, its timer fires, a SaveNow and a markDirty
  that began go on. Changes, exits and failures are obliged to nothing.
* `RawFetch`: a caller takes its next step, and the request's own deadlines end
  every attempt. A backoff window need not elapse.
* `RenderLoop`: the loop runs (one weak fairness for `Pass`); a producer may stop
  between its delivery and its knock.
* `Updater`, `TextureStore`: none; only safety is stated.

## 4. The proofs

A proof module EXTENDS the module it is about; three of them extend two
that share no variable: `SessionProofs` the connection and the room its messages
go to, `DownloadProofs` the updater and the raw fetches, `ScreenProofs` the main
loop and the texture store its frames draw from. Each assumes only the named
ASSUME of that module (capacities are positive where the code's are, bounds
are natural numbers, a "no" value is not one of the others, goroutines are
finitely many), and so holds for
any number of jobs, chains, readers, callers, files or packets, and for any
bound. Every theorem is reached the same way: an invariant that is inductive,
the facts that it holds at first and that every action keeps it, one case for
each action, and the temporal step. TLC checked each inductive invariant on the
instances of section 3 before it was proved.

| module | theorem | statement |
|---|---|---|
| `FetchPoolProofs` | `TypeCorrect` | `Spec => []TypeOK` |
| | `RunsAtMostOnce` | no job is run twice |
| | `HighWorkIsNeverShed` | a high job is cancelled only if its epoch passed or the pool stopped |
| | `CloseHearsEveryone` | when Close has returned, whatever was accepted before it began has been run or is in a producer's hand |
| | `PoolImplementsService` | the pool implements `JobService` under its refinement mapping |
| `ConclusiveMissProofs` | `TypeCorrect` | `Spec => []TypeOK`: among others the memory repeats nothing and keeps to its capacity |
| | `VerdictsMatchTheList` | a remembered chain was asked for in every format of the present list |
| | `SettledMissesAreTrue` | a remembered chain is absent from the server unless the gate was lifted under its pass or its ladder lost a format; a probed one is absent from the pack unless a layer was stored or a read failed |
| `PackLifecycleProofs` | `TypeCorrect` | `Spec => []TypeOK` |
| | `ReadersReadOpen` | an archive is closed only after its last reader is done |
| | `HandlesAreOwned` | every open index has an owner or a reader |
| | `LayerServesWanted` | once reconciled, the layer is the wanted pack |
| `SessionProofs`, `Conn` | `ConnTypeCorrect` | `Spec => []TypeOK` |
| | `NothingIsLost` | a drop loses and reorders nothing |
| `SessionProofs`, `Room` | `RoomTypeCorrect` | `RoomSpec => []RoomTypeOK`: among others the caps of the queue and of the miss set |
| | `SoundsAreCurrent` | a delayed sound belongs to the message on stage |
| | `NoPlaceholderShown` | a message being performed never leaves its speaker on a missing preanimation |
| | `PreanimsAreShown` | a preanimation is skipped only for absent art |
| | `StageKeepsOrder` | the stage never goes back |
| | `StrictStagesWarm` | under strict sequencing a message that plays in full starts settled |
| `DiskCacheProofs` | `CloseLeavesNothing` | when Close has returned, nothing accepted before it is queued |
| | `TierImplementsStore` | the tier implements `BlobStore` under its refinement mapping: a reader finds what the last applied operation left, nothing, or what a crash made of it |
| | `TypeCorrect` | `Spec => []TypeOK`: among others the order of modification lists exactly the blobs there |
| | `BudgetHolds` | what the last sweep saw fits in the budget, while the writer waits and no sweep is asked for |
| `PrefsSaverProofs` | `TypeCorrect` | `Spec => []TypeOK` |
| | `CloseKeepsChanges` | what a setter returned from is in the file when Close returns |
| | `QuietKeepsChanges` | in a running session with nobody at work and nothing armed, the file holds what is in memory |
| `DownloadProofs`, `Updater` | `UpdaterTypeCorrect` | `Spec => []TypeOK` |
| | `BinaryStays` | the binary is under its name or at its backup, except after a start from or a retry over the backup, or an update beside the sweep |
| | `BinaryComesLast` | the binary is never newer than a library beside it |
| | `FailuresAreClean` | a failed update leaves the install it found |
| `DownloadProofs`, `RawFetch` | `RawTypeCorrect` | `RawSpec => []RawTypeOK`: among others the tier repeats no key |
| | `MemoryRestsWithinBudget` | when no Add is under way, the memory tier holds no more than its budget |
| | `BurstsCountOnce` | the backoff counts windows, not failures |
| `ScreenProofs`, `RenderLoop` | `LoopTypeCorrect` | `Spec => []TypeOK` |
| | `NoWakeIsMissed` | the loop does not sleep on undrained or, in front of the user, deferred work that nothing will announce |
| | `SleepsOnCurrentScreen` | asleep in front of the user, the screen shows all that was taken |
| | `LoopNeverSpins` | damage that may not be drawn does not keep the loop awake |
| `ScreenProofs`, `TextureStore` | `TextureTypeCorrect` | `TextureSpec => []TextureTypeOK`: among others the capacity of the destroy queue |
| | `NoPointerDangles` | what a layer may draw without asking again has its textures and is of the layer's base |
| | `PagesHaveOnePlace` | every page with textures is in one tier, the oversized map, the bridge, or once in the destroy queue |
| | `CountersAreTrue` | the byte counters are the weights of what is resident, the tiers are within budget, and only a lone page is over the oversized cap |

The exceptions the properties make (`skipped`, `silenced`, `raced` and `unread`
of a pass; `failed`, `frozen`, `raced` and `overtaken` of the preferences;
`ignored`, `overlapped` and `stranded` of the updater; `lost` and `idled` of the
loop) are in the theorems as they are in the runs. Each is set by the one event
it is named for, and section 5 says what the code does then.

### The invariants, and why they are needed

**The pool.** `AtMostOnce` says nothing of where a job is before it is run,
and a job in two places would be run twice a step later. The strengthening is
`Ownership`: hands that are busy hold jobs (`HandsFull`), whatever is in a lane
or a hand was accepted and has not run (`Unrun`), no job is in two places and
no lane holds one twice (`OnePlace`), and nothing runs before its Submit
returned or more than once (`RunOnce`). `Epochs` bounds job epochs by the
pool's; `HighNeverShed` is inductive relative to it. `Closing` accounts for
every owed job during the shutdown. The refinement has one lemma per kind of
step (`PhaseRun`, `PhasePending`, `PhaseFrame`) and maps each pool step to one
move of the service or a stutter.

**The miss memory.** A verdict is only as good as the pass behind it, so
`MissInv` follows the passes. `Staged` says what a pass at each stage carries;
`Thorough`, that a pass whose generation is current has asked, or is about to
ask, for the whole list under every spelling it has come to; `Truthful`, that
nothing it has tried is on the server unless the gate was lifted under it, and
that the layer it read is the present one, without what it asked for, unless
one was stored or a read failed. `Snapshots` ties
generations to lists: a snapshot tagged with the present generation is the
present list, except between the two halves of a setter. `Recorded` carries
what `Truthful` says over to the recorded verdict; it is why SetMountLayer has
to forget before it stores. `Without` is a recursive function, and the lemmas
about it are proved by induction: `WithoutFacts` says what dropping some
entries of a sequence leaves, which `Added`, `Forget` and `Promote` rest on.

**The pack.** `Counted`: a reference count is its owner's reference plus one
for each reader. It survives the reuse of names because of `Reach`: what a
reader holds still has its name. `Flight` (one walk at a time, and no index of
one's own until its result arrives), `Owned` and `Layers` give the other two
theorems. Readers are a finite set, and whatever they hold there are names to
spare (`EnoughNames`), which the code has no need of: its indexes are
garbage-collected objects and the model's are reused.

**The connection.** `InOrder`: what the application took, Incoming,
deliverLoop's hand, the backlog and readLoop's hand are, in this order, the
frames sent. `Drained`: deliverLoop leaves an unclosed connection only with the
backlog empty and readLoop gone.

**The room.** A call is a composition of some fifteen operators on one record,
and each has a lemma: it takes a room that is `Good` to one that is. `Good`
says that a phase of the performance has a message (`Performs`), whose sound it
is (`Sounds`), that a preanimation on stage has its latch (`Latched`), and that
one still owed is owed for a reason (`Shown`): before the text, a report that
it is over can only be a report that it is absent. `Steady` adds the caps, and
that the queue holds, in the order of arrival, messages no earlier than the one
on stage (`QueueInOrder`), which `StageInOrder` is a consequence of; a message
may be queued twice (section 5), so the order is not strict. `Ripe` is what
strict sequencing asks of a call: a new message on stage was settled before,
or it is being caught up with. It is about the two sides of one step, and the
clocks that run before the gate is asked do not disturb it (`KeptRipe`).

**The disk tier.** An operation is in one place (`Numbered`, `Apart`), the
writer's state agrees with Close's (`Closing`), and what it left in the queue
came too late for Close (`Drained`). The refinement maps the writer's hand, the
queue and what was accepted to `BlobStore`'s pending operations, and has a
lemma for each kind of step: a call, an acceptance, a publication, a removal, a
loss, a read. For the budget, `Sweep` says what holds while files vanish under
a sweep: those there weigh no more than it counts, and all are still on its
list unless one could not be removed; `Fits` is what it leaves behind, and
`Counted` what was stored since. Bytes are counted as elements of a set, so
that the library's facts about cardinalities say what a sum of sizes does when
a blob goes.

**The preferences.** Two invariants. `Covered`, for Close: a change that is in
neither the file nor the bytes a save is about to write has left `pending` up.
It holds only while saves run one at a time (`Alone`), which begins with the
exit's own save; hence `Leaving`, which says where each thread stands by then.
`Recalled`, for a session at rest: bytes about to be written, or the file, are
of the present version, or something will still save: a setter has yet to
signal, a signal or the timer is left, or a save has yet to marshal or carries
the present version. It holds while the saver and the user's thread write side
by side, except that the user's older write may land after the saver's newer
one; `overtaken` is set just there.

**The updater.** What the goroutine knows in the middle of a bundle: what it
has not swapped is still staged and ends with the binary, what it has swapped
is of this release (`Bundle`), the file under swap lies at its backup unless a
sweep ran beside the update (`Aside`). `Process` says that without `overlapped`
the sweep is over while the update runs. `Survives`, `Ordered` and `Clean`
extend the three properties to the moments between two renames.

**The raw fetches.** Three steps of an `Add` move bytes between the tier, its
counter and the callers, and `Booked` is the balance they keep: what is
accounted, with what callers have inserted and not charged yet, covers what is
resident, with what callers took out and have not given back. It is an
inequality because two waiters of one request may charge one entry twice.
`InHand` keeps a debt to the callers that will pay it; `Evicting` says that
over its budget a tier that is not empty has a caller on the way to evict. At
rest nobody owes and nobody evicts, and the budget follows. Weights are counted
as elements of a set, like the disk tier's, and four lemmas (`WeightSplit`,
`WeightAlike`, `WeightChange`, `WeightOfZeros`) say what sums do; `BooksBalance`
states once what a step has to show. `Counted` adds to the burst's count only
the range of `windows`, and `Retried` that a request sleeps only while it has an
attempt left.

**The loop.** `Doorbell`: the flag is up exactly while an event is queued or
about to be pushed, so a knock that finds it up may leave. `Announced`: what
arrived after the pass drained has rung or will. `Unseen`: what is not on
screen is damage, or the frame under way shows it. `CarryIsDamage`: work the
pump deferred is damage, as something it uploaded moved the generation, or else
the pump was `idled`. `OnceRound`: a pass without a frame is followed by a
frame or a park.

**The texture store.** Between two operations the store is `Good`: its pages,
tiers, oversized map, bridge and queue have their types (`Stores`); every page
with textures is in one of those places and nothing else is (`Whole`); no place
lists a page twice (`Once`); what a tier or the oversized map has can be drawn
(`Drawn`); and the books are true (`Booked`): the counter of each place is the
weight of its pages (`Paid`), the size of an entry is the weight of its page
(`Sized`), and a base has one oversized page (`Lone`). An operation breaks this in the middle: a page that was evicted is
nowhere until the queue takes it, and one whose frame the bridge stole is not
fit to draw. So `Good(s, H)` is stated of a store with the pages H in hand, and
there is a lemma for each operator of the module (`EvictGood`, `LruAddGood`,
`HoldFrameGood`, ...), down from those that move one page (`TakeFacts`,
`PutFacts`, `DeathFacts`, `BirthFacts`): what it takes in hand, what it puts
away, and that it leaves the pages still in hand as they are (`Keeps`). The
evictions of `Shrink`, `EnforceCap` and `RemoveWhere` are recursive functions;
`ChainExists` says that a loop of steps within a set of stores exists and stays
there, by the library's induction over the least counterexample. `Cached` is
about the two sides: what a layer holds as fresh is on a shelf of the store and
is its base's. It is kept because an operation either moved the generation or
left the shelves and the bases on them alone (`SameShelf`): that dichotomy is
proved of every operation (`ChunkGood` for what a decode delivers).

The counters need more than their own equation. An eviction subtracts the size
its entry recorded, so `Sized` has to survive every change of weight in place;
growing a stream or reducing a clip changes one page, so its weight must be
counted in one place only, which is `Whole` again. A weight is a number of
frames and a sum of weights the cardinality of the set of all frames, which
`PaidTake`, `PaidPut`, `PaidChange` and `PaidStills` say how a step changes.
That the budgets hold (`Slim`) is not part of `Good`: an insertion breaks it
and the loops that evict restore it. `ShrinkGood` and `EnforceCapGood` carry a
measure through the loop, that a turn which leaves its place over budget leaves
it one entry shorter, so that after as many turns as there were entries nothing
is left to evict: an empty tier weighs nothing, and `Lone` makes an oversized
map without pages of other bases a map of one page. Every other operation lets
no counter grow (`Lean`), or leaves tiers and oversized map alone (`Even`).

The theorems about the store have one hypothesis, that `Ids` is infinite: a
page is an object, the program never runs out of them, and a new one is never
mistaken for one that a layer still compares with. The runs have twelve, more
than their instances use.

### Left to TLC

* Liveness (`AcceptedIsHeard`, `StormEnds`, `WantedPackAppears`, `DropSurfaces`,
  `RoomDrains`, `CloseEnds`, `Converges`, `FetchEnds`, `PacketsAreTaken`):
  it needs fairness and ENABLED, which the prover does not handle.

## 5. Findings

* `pool_late_submit` (a run of its own, whose property is what a comment of the
  code says): a Submit past its stop check may enqueue after Close drained the
  lanes; the job is accepted and never run (`network/pool.go:128`).

Ten more promises that the source makes in a comment are stated as properties
beside the ones that hold, and the configuration named shows TLC's
counterexample (`tlc -config MCLoopCarry.cfg MCRenderLoop`). Each is what a
passing property of the same module excepts; the last column names the
exception.

| promise, and where it is made | property, configuration | what the code does | excepted as |
|---|---|---|---|
| `assets/manager.go:1363`: installing a layer drops the misses that "would shadow exactly the files that were just made available" | `MountedIsForgotten`, `MCMissMounted.cfg` | a pass reads the layer once (1150); a pack mounted during it is not seen, and the miss is recorded after the flush | `raced` |
| `assets/manager.go:813`: "The pack answers exact URLs too" | `PackAnswersExact`, `MCMissExact.cfg` | the lookup appends an extension to the complete name (1466), which no pack file has | the pack clause is about probed chains |
| `cache/disk.go:345`: "readers never observe a partial blob under the final name" | `NoPartialBlob`, `MCDiskCrash.cfg` | nothing is synced, and a reader notices only an empty blob or a bad compressed frame (223); a raw blob cut short by a crash is a hit | a value of `BlobStore` |
| `config/preferences.go:3262`: a reset is "Persisted now." | `ResetPersists`, `MCPrefsReset.cfg` | a save of the saver that marshaled before the reset is renamed after it, and a reset marks nothing that would repair it | `raced` |
| `config/preferences.go:3285`: a change that this marshal misses is "picked up by the next flush" | `NewestLands`, `MCPrefsOvertaken.cfg` | the next flush writes it, and the older, slower save of the user's thread lands on top | `overtaken` |
| `config/preferences.go:1536`: `frozen` blocks "every further write" after an import | `ImportStands`, `MCPrefsImport.cfg` | SaveNow looks at `frozen` once (3282), and the import freezes after it has renamed | `frozen` |
| `update/apply.go:168`: "A failed install rolls back so the install always works" | `SwapKeepsBinary`, `MCUpdaterSweep.cfg` | the sweep of the start may remove the backup between the two renames (`ui/update_ui.go:58`) | `overlapped` |
| `update/apply.go:169`: a failed rollback names "where the good binary is" | `RetryKeepsBinary`, `MCUpdaterRetry.cfg` | the next attempt removes that backup before it looks for the binary (194) | `ignored` |
| `assets/decoder.go:965`: "the classic full decode replaces the establishing prefix" | `FullReplacesPrefix`, `MCTexturePrefix.cfg` | a full decode that fits its tier goes there, and `Get` asks the oversized map with the prefix first (`render/textures.go:661`) | no property says which page is drawn |
| `render/pump.go:24`: `carry` holds deferred uploads "for the next frame" | `DeferredComesNext`, `MCLoopCarry.cfg` | stream chunks the store drops use up the budget without damage (`render/pump.go:153`); the focused loop parks, and the housekeeping tick uploads the rest | `idled` |

Seen while modelling, and not the subject of a property of their own:

* `assets/manager.go:1217`: the offline check and the insertion are separate, so a
  pass that failed silently offline can be remembered when the gate opens between
  (`silenced`).
* `assets/manager.go:1474`: a pack file that cannot be read falls through to a 404
  and the chain is remembered although the pack has it (`unread`).
* `assets/resolver.go:258`: the full ladder reads the learned formats twice, for
  its head and to leave them out of its tail; a format learned between is in
  neither, and the chain may be remembered without having been asked in it.
  `VerdictMatchesList` excuses such a pass (`skipped`).
* `assets/resolver.go:366`: the learned table is swapped at once and recorded in
  the preferences afterwards, so two learners may record in the opposite order.
* `ui/mountlayer.go:127`: a rescan asked for during a walk is dropped, and the
  older walk is published as its answer.
* `protocol/conn.go:418`: a keepalive write that Close broke leaves an error
  after a clean shutdown. `protocol/conn.go:465`: readLoop stores its error over
  one stored before it.
* `courtroom/courtroom.go:1181`: strict sequencing waits for a settlement that a
  transport failure, a failed decode, an eviction or a dropped warning never
  brings, and asks only once.
* `courtroom/courtroom.go:1224`: the message that fills the queue pushes out the
  oldest although there was room, and is queued twice.
* `courtroom/courtroom.go:2455`: a 404 or a fast-forward during an immediate
  preanimation whose text is over clears the latch but leaves the speaker on the
  preanimation; `NoPlaceholder` therefore speaks of the performing phases only.
* `config/preferences.go:3287`: after a write that failed nothing is pending, and
  nothing tries again until the next change (`failed`).
* `update/apply.go:73`: after a crash between the backup and the install a start
  from the backup, the only binary, sweeps it away (`ignored`).
* `cache/memory.go:167`: two concurrent Adds of one key both charge; the counter
  stays too high, where the comment at line 164 has it exact. The tier then holds
  less than its budget, never more: `RestWithinBudget`.
* `network/client.go:308`: the backoff is looked at before the shared request is
  joined, so a request may start inside a window that opened between.
* `render/textures.go:526`: the held-frame bridge can hold a page under a base
  that is resident in a tier again. An oversized page reduced to a still grows
  again when a late chunk of its stream arrives and keeps its mark as a still;
  streams are matched to pages by length only; one base can be in both tiers
  after its kind changed.
* With the idle rate off, what only `Frame` polls and no PushWake announces waits
  for whatever wakes the loop next, the housekeeping tick at the latest.

## 6. What is not modelled

Listed per component in `PROJECT.json`. Within modelled components: the pool's
statistics; the raw and tooling lanes of the manager other than FetchRaw,
archive sources and local overlays; learned formats of more than one host and their record in the preferences;
key folding, stem masks and quarantine of the pack index; dialling, sending
and decoding on the connection; in the courtroom the restoring of old messages
and skip-to-idle, desk and pair columns, overlays, blips, additive text, and
all text and layout; hashing and compression of the disk tier; what each
preference means; pinned theme chrome and pixel formats of the texture store;
deadlines and the DNS cache of the http client; checksums and archives of the
updater; the classic loop, its pacing and the detached preview. `Room` treats
the render loop's step as one tick; the code's larger steps only make clocks
expire together.

The bulk of the source is immediate-mode drawing (`ui/`, most of `render/`),
settings accessors of one shape, decoders, parsers and platform calls. Each is
one thread without state that outlives a call, or data, or I/O; they stay
outside, and the share of the source the models stand for is small for that
reason. The session's reducer, the chat queues and the voice and music
machines have state, but each is touched by one thread only.

## 7. Plan

Done: one module for each part where order matters: the path from connection to
stage (`Conn`, `RenderLoop`, `Room`, `TextureStore`), the pool with its proofs,
the sources and memories behind it (`ConclusiveMiss`, `PackLifecycle`,
`RawFetch`, `DiskCache`), and the two that write the user's files
(`PrefsSaver`, `Updater`).

Every safety property of the runs is a theorem, and so are the two refinements;
liveness stays with TLC. What is left: the parts section 6 names. When one of
the promises of section 5 is kept by a change of the code, its exception goes
from the property, and its configuration becomes a run that passes.
