---------------------------- MODULE ConclusiveMiss ----------------------------
(***************************************************************************)
(* The session's memory of absent assets: internal/assets/missset.go and   *)
(* the resolution passes of internal/assets/manager.go that read and write *)
(* it.  A chain whose every spelling 404s in every format is remembered,   *)
(* and a remembered chain is never probed again.  What invalidates the     *)
(* memory - a format preference, a local pack, a reconnect, the network    *)
(* gate - happens on the render thread while pool workers are mid-pass.    *)
(*                                                                         *)
(* A file is <<name, format>>.  A probed chain asks for its spellings      *)
(* without extension; an exact chain asks for one complete file.           *)
(***************************************************************************)
EXTENDS Integers, Sequences, SequencesExt, FiniteSets

CONSTANTS
  Probed,       (* chains of prefetchChain and PrefetchSticky              *)
  Exact,        (* chains of PrefetchExact                                 *)
  Spellings,    (* probed chain -> its base, then its alternatives         *)
  Url,          (* exact chain -> the file it names                        *)
  OriginOf,     (* chain -> the asset origin its base sits under           *)
  Formats,      (* every extension the probe lists know                    *)
  Lists,        (* the configured probe lists a user may choose            *)
  FirstList,
  OnServer,     (* the files the server holds                              *)
  Packs,        (* the file sets a mounted local pack may hold             *)
  Capacity,     (* conclusiveMissCap                                       *)
  EvictBatch,   (* capacity >> missSetOverflowEvictShift, at least one     *)
  Warm,         (* what WarmFromPrefs may have found for the host          *)
  LearnedCap,   (* learnedExtCap                                           *)
  MaxGen,       (* bound on format changes                                 *)
  MaxSwaps,     (* bound on SetMountLayer and Forget... calls              *)
  MaxFlips,     (* bound on SetOffline calls                               *)
  MaxFaults,    (* bound on transport errors                               *)
  PackMayFail,  (* a pack read may fail                                    *)
  NoSwap

Chains == Probed \cup Exact

ASSUME MissAssumption ==
  /\ Probed \cap Exact = {}
  /\ \A c \in Probed : Spellings[c] \in Seq(ToSet(Spellings[c])) /\ Spellings[c] # <<>>
  /\ Lists \subseteq SUBSET Formats /\ FirstList \in Lists
  /\ Capacity \in Nat \ {0} /\ EvictBatch \in 1 .. Capacity
  /\ {MaxGen, MaxSwaps, MaxFlips, MaxFaults} \subseteq Nat
  /\ Warm \subseteq UNION {[1 .. n -> Formats] : n \in 0 .. LearnedCap}
  /\ LearnedCap \in Nat \ {0} /\ PackMayFail \in BOOLEAN

VARIABLES
  list,      (* the configured formats                                     *)
  gen,       (* AssetPreferences.formatGen                                 *)
  bumping,   (* list is changed and formatGen not yet bumped               *)
  cached,    (* Resolver.formats: the list snapshot and its generation     *)
  learned,   (* the host's learned formats, preferred first                *)
  layer,     (* the files of Manager.mountLayer                            *)
  swapping,  (* the layer SetMountLayer is about to store                  *)
  offline,   (* Manager.offline                                            *)
  known,     (* missSet.keys, oldest first                                 *)
  knownGen,  (* missSet.gen                                                *)
  queued,    (* chains with a pool job waiting                             *)
  pass,      (* the pass in flight for each chain                          *)
  resident,  (* chains delivered                                           *)
  verdict,   (* history: what the pass that recorded a known chain had     *)
             (* probed                                                     *)
  swaps, flips, faults

prefsVars == <<list, gen, bumping>>
source    == <<layer, swapping, offline, swaps, flips>>
memory    == <<known, knownGen, verdict>>
vars == <<prefsVars, cached, learned, source, memory, queued, pass, resident,
          faults>>

Names(c)  == IF c \in Exact THEN <<Url[c]>> ELSE Spellings[c]
Idle == [pc |-> "idle", gen |-> 0, read |-> 0, layer |-> {}, at |-> 1,
         todo |-> {}, tried |-> {}, doubts |-> {}]
NoVerdict == [tried |-> {}, doubts |-> {}]
Name(c)   == Names(c)[pass[c].at]
InFlight  == {c \in Chains : pass[c].pc # "idle"}

Prefs ==
  /\ list \in Lists /\ gen \in 0 .. MaxGen /\ bumping \in BOOLEAN /\ (bumping => gen < MaxGen)
  /\ cached \in [gen : 0 .. MaxGen, list : Lists]

Sources ==
  /\ layer \in Packs \cup {{}} /\ swapping \in Packs \cup {{}, NoSwap}
  /\ offline \in BOOLEAN
  /\ learned \in Seq(Formats) /\ Len(learned) <= LearnedCap

Memory ==
  /\ known \in Seq(Chains) /\ IsInjective(known)
  /\ Len(known) <= Capacity /\ knownGen \in 0 .. MaxGen

PassOf(c, p) ==
  /\ DOMAIN p = DOMAIN Idle
  /\ p.pc \in {"idle", "pack", "build", "list", "ladder", "front", "walk", "verdict",
               "checked", "add"}
  /\ p.at \in 1 .. Len(Names(c)) /\ p.gen \in 0 .. MaxGen /\ p.read \in 0 .. MaxGen
  /\ c \in Probed => \A file \in p.todo : file[2] \in Formats

Passes ==
  /\ queued \subseteq Chains /\ resident \subseteq Chains
  /\ DOMAIN pass = Chains /\ \A c \in Chains : PassOf(c, pass[c])

TypeOK == Prefs /\ Sources /\ Memory /\ Passes

Init ==
  /\ list = FirstList /\ gen = 0 /\ bumping = FALSE
  /\ cached = [gen |-> 0, list |-> FirstList]
  /\ learned \in Warm
  /\ layer = {} /\ swapping = NoSwap /\ offline = FALSE
  /\ known = <<>> /\ knownGen = 0
  /\ queued = {} /\ resident = {}
  /\ pass = [c \in Chains |-> Idle]
  /\ verdict = [c \in Chains |-> NoVerdict]
  /\ swaps = 0 /\ flips = 0 /\ faults = 0

-----------------------------------------------------------------------------
(* missSet *)

(* The entries of s outside K, in order. A SelectSeq that proofs can expand. *)
Without(s, K) ==
  LET kept[i \in 0 .. Len(s)] ==
        IF i = 0 THEN <<>> ELSE IF s[i] \in K THEN kept[i - 1] ELSE Append(kept[i - 1], s[i])
  IN  kept[Len(s)]

(* The set as every operation given generation g first leaves it. *)
Retired(g) == IF knownGen = g THEN known ELSE <<>>

Evicted(s) == SubSeq(s, EvictBatch + 1, Len(s))

Added(s, c) ==
  Append(IF c \in ToSet(s) THEN Without(s, {c})
         ELSE IF Len(s) >= Capacity THEN Evicted(s) ELSE s, c)

(* What is known becomes ks, and the history keeps to it. *)
Know(ks) ==
  /\ known' = ks
  /\ verdict' = [c \in Chains |-> IF c \in ToSet(ks) THEN verdict[c] ELSE NoVerdict]

Forget(cs) == Know(Without(known, cs)) /\ UNCHANGED knownGen

-----------------------------------------------------------------------------
(* The render thread *)

(* The render thread is inside a setter. *)
Busy == bumping \/ swapping # NoSwap

(* A prefetch of a chain that is not remembered queues a pool job; of one   *)
(* that is, it changes nothing.  The UI asks only for what is not resident. *)
Prefetch(c) ==
  /\ ~Busy /\ c \notin resident /\ c \notin queued
  /\ c \notin ToSet(Retired(gen))
  /\ Know(Retired(gen)) /\ knownGen' = gen
  /\ queued' = queued \cup {c}
  /\ UNCHANGED <<prefsVars, cached, learned, source, pass, resident, faults>>

(* A format setter changes the list under its lock ... *)
SetFormats(l) ==
  /\ ~Busy /\ l # list /\ gen < MaxGen
  /\ list' = l /\ bumping' = TRUE
  /\ UNCHANGED <<gen, cached, learned, source, memory, queued, pass, resident, faults>>

(* ... and bumps the generation after unlocking. *)
BumpGen ==
  /\ bumping
  /\ gen' = gen + 1 /\ bumping' = FALSE
  /\ UNCHANGED <<list, cached, learned, source, memory, queued, pass, resident, faults>>

(* Mutant of SwapForget: the memory is left alone. *)
SwapKeeps(l) ==
  /\ ~Busy /\ swaps < MaxSwaps
  /\ swapping' = l /\ swaps' = swaps + 1
  /\ UNCHANGED <<prefsVars, cached, learned, layer, offline, flips, memory, queued, pass, resident, faults>>

(* SetMountLayer forgets, then stores. *)
SwapForget(l) ==
  /\ ~Busy /\ swaps < MaxSwaps
  /\ Forget(Chains)
  /\ swapping' = l /\ swaps' = swaps + 1
  /\ UNCHANGED <<prefsVars, cached, learned, layer, offline, flips, queued, pass, resident, faults>>

(* History: what the passes of cs found is in doubt for reason d. *)
Doubt(cs, d) == [c \in Chains |->
  IF c \in cs THEN [pass[c] EXCEPT !.doubts = @ \cup {d}] ELSE pass[c]]

SwapStore ==
  /\ swapping # NoSwap
  /\ layer' = swapping /\ swapping' = NoSwap
  /\ pass' = Doubt(InFlight, "raced")
  /\ UNCHANGED <<prefsVars, cached, learned, offline, swaps, flips, memory, queued, resident, faults>>

(* The gate; a pass it has told that a file of the server's is absent may   *)
(* find it open again at its verdict.                                      *)
SetOffline(on) ==
  /\ ~Busy /\ offline # on /\ flips < MaxFlips
  /\ offline' = on /\ flips' = flips + 1
  /\ pass' = IF on THEN pass
             ELSE Doubt({c \in Chains : pass[c].tried \cap OnServer # {}}, "silenced")
  /\ UNCHANGED <<prefsVars, cached, learned, layer, swapping, swaps, memory, queued, resident, faults>>

(* A reconnect forgets one origin's chains, the Settings button all. *)
ForgetSome(cs) ==
  /\ ~Busy /\ cs \cap ToSet(known) # {} /\ swaps < MaxSwaps
  /\ Forget(cs) /\ swaps' = swaps + 1
  /\ UNCHANGED <<prefsVars, cached, learned, layer, swapping, offline, flips, queued, pass, resident, faults>>

ForgetUnder(o) == ForgetSome({c \in Chains : OriginOf[c] = o})

-----------------------------------------------------------------------------
(* A pool worker's pass *)

Move(c, p) == pass' = [pass EXCEPT ![c] = p]
EndPass(c) == pass' = [pass EXCEPT ![c] = Idle]

Rest == <<prefsVars, source, queued, faults>>

SameKey(c, d) == (c \in Exact <=> d \in Exact) /\ Names(c)[1] = Names(d)[1]

(* A job that finds itself stale, or an identical pass in flight, is gone. *)
DropJob(c) ==
  /\ c \in queued
  /\ queued' = queued \ {c}
  /\ UNCHANGED <<prefsVars, cached, learned, source, memory, pass, resident, faults>>

(* The generation and the layer are read once, at the start. *)
Start(c) ==
  /\ c \in queued /\ \A d \in InFlight : ~SameKey(c, d)
  /\ queued' = queued \ {c}
  /\ IF c \in resident THEN UNCHANGED pass
     ELSE Move(c, [pass[c] EXCEPT !.pc = "pack", !.gen = gen, !.layer = layer])
  /\ UNCHANGED <<prefsVars, cached, learned, source, memory, resident, faults>>

InPack(l, n) == \E f \in Formats : <<n, f>> \in l

(* The pack is asked first, always for the name with an extension appended, *)
(* an exact chain's complete name too: found, not held, or a read error    *)
(* that falls through to the network.                                      *)
TryPack(c) ==
  /\ pass[c].pc = "pack"
  /\ \/ /\ InPack(pass[c].layer, Name(c))
        /\ resident' = resident \cup {c} /\ EndPass(c)
     \/ /\ ~InPack(pass[c].layer, Name(c))
        /\ Move(c, [pass[c] EXCEPT !.pc = "build"]) /\ UNCHANGED resident
     \/ /\ InPack(pass[c].layer, Name(c)) /\ PackMayFail
        /\ Move(c, [pass[c] EXCEPT !.pc = "build", !.doubts = @ \cup {"unread"}]) /\ UNCHANGED resident
  /\ UNCHANGED <<Rest, cached, learned, memory>>

Fresh(c, fs) == {<<Name(c), f>> : f \in fs} \ pass[c].tried

(* BuildCandidates: the learned front alone, else the format list; an      *)
(* exact pass has its one candidate.                                       *)
BuildCandidates(c) ==
  /\ pass[c].pc = "build"
  /\ CASE c \in Exact     -> Move(c, [pass[c] EXCEPT !.pc = "walk", !.todo = {Url[c]}])
       [] c \in Probed /\ learned # <<>>
                          -> Move(c, [pass[c] EXCEPT !.pc = "front", !.todo = Fresh(c, {learned[1]})])
       [] OTHER           -> Move(c, [pass[c] EXCEPT !.pc = "list", !.read = gen])
  /\ UNCHANGED <<Rest, cached, learned, memory, resident>>

(* formatList, after its read of the generation: the snapshot if that is   *)
(* of this generation, else a new one.                                     *)
Snapshot(c) ==
  IF cached.gen = pass[c].read THEN cached ELSE [gen |-> pass[c].read, list |-> list]

ReadList(c) ==
  /\ pass[c].pc = "list"
  /\ cached' = Snapshot(c)
  /\ Move(c, [pass[c] EXCEPT !.pc = "walk", !.read = 0, !.todo = Fresh(c, Snapshot(c).list)])
  /\ UNCHANGED <<Rest, learned, memory, resident>>

(* BuildFullListCandidates, the re-probe after a stale learned format: the *)
(* learned formats were queued, and the list follows without those that    *)
(* are learned by now.  One learned in between is in neither part.         *)
ReadLadder(c) ==
  LET full  == Fresh(c, Snapshot(c).list)
      asked == pass[c].todo \cup Fresh(c, Snapshot(c).list \ ToSet(learned))
  IN
  /\ pass[c].pc = "ladder"
  /\ cached' = Snapshot(c)
  /\ Move(c, [pass[c] EXCEPT !.pc = "walk", !.read = 0, !.todo = asked,
                !.doubts = @ \cup IF full \subseteq asked THEN {} ELSE {"skipped"}])
  /\ UNCHANGED <<Rest, learned, memory, resident>>

Promote(f) ==
  LET front == <<f>> \o Without(learned, {f})
  IN SubSeq(front, 1, IF Len(front) < LearnedCap THEN Len(front) ELSE LearnedCap)

Walking(c) == pass[c].pc \in {"front", "walk"}

(* One candidate is asked for.  Offline, the memory and disk tiers may      *)
(* still hold it; everything else answers 404.  What the memory tier holds *)
(* is delivered without learning its format.                               *)
Found(c, file) ==
  /\ Walking(c) /\ file \in pass[c].todo /\ file \in OnServer
  /\ resident' = resident \cup {c}
  /\ learned' \in {learned} \cup {Promote(file[2]) : p \in {c} \cap Probed}
  /\ EndPass(c)
  /\ UNCHANGED <<Rest, cached, memory>>

NotFound(c, file) ==
  /\ Walking(c) /\ file \in pass[c].todo
  /\ offline \/ file \notin OnServer
  /\ Move(c, [pass[c] EXCEPT !.todo = @ \ {file}, !.tried = @ \cup {file}])
  /\ UNCHANGED <<Rest, cached, learned, memory, resident>>

(* A transport error ends the pass with no verdict. *)
Fault(c) ==
  /\ Walking(c) /\ pass[c].todo # {} /\ ~offline /\ faults < MaxFaults
  /\ faults' = faults + 1
  /\ EndPass(c)
  /\ UNCHANGED <<prefsVars, cached, learned, source, memory, queued, resident>>

(* Nothing answered: the full list after a learned format, then the next   *)
(* spelling, then the verdict.  The exact lane passes the generation read  *)
(* now, because its verdict does not depend on the format list.            *)
Exhaust(c) ==
  /\ Walking(c) /\ pass[c].todo = {}
  /\ IF pass[c].pc = "front"
       THEN Move(c, [pass[c] EXCEPT !.pc = "ladder", !.read = gen,
                                    !.todo = Fresh(c, ToSet(learned))])
     ELSE IF pass[c].at < Len(Names(c))
       THEN Move(c, [pass[c] EXCEPT !.pc = "pack", !.at = @ + 1])
     ELSE Move(c, [pass[c] EXCEPT !.pc = "verdict", !.gen = IF c \in Exact THEN gen ELSE @])
  /\ UNCHANGED <<Rest, cached, learned, memory, resident>>

(* rememberExhausted: the gate, then the generation, then missSet.add. *)
CheckOffline(c) ==
  /\ pass[c].pc = "verdict"
  /\ IF offline THEN EndPass(c) ELSE Move(c, [pass[c] EXCEPT !.pc = "checked"])
  /\ UNCHANGED <<Rest, cached, learned, memory, resident>>

(* Mutant of CheckGen: the verdict is tagged with the current generation. *)
CheckGenRetag(c) ==
  /\ pass[c].pc = "checked"
  /\ Move(c, [pass[c] EXCEPT !.pc = "add", !.gen = gen])
  /\ UNCHANGED <<Rest, cached, learned, memory, resident>>

CheckGen(c) ==
  /\ pass[c].pc = "checked"
  /\ IF gen # pass[c].gen THEN EndPass(c) ELSE Move(c, [pass[c] EXCEPT !.pc = "add"])
  /\ UNCHANGED <<Rest, cached, learned, memory, resident>>

(* Mutant of Remember: the chain is not recorded. *)
RememberNothing(c) ==
  /\ pass[c].pc = "add"
  /\ EndPass(c)
  /\ UNCHANGED <<Rest, cached, learned, memory, resident>>

Remember(c) ==
  /\ pass[c].pc = "add"
  /\ known' = Added(Retired(pass[c].gen), c) /\ knownGen' = pass[c].gen
  /\ verdict' = [d \in Chains |->
       IF d = c THEN [tried |-> pass[c].tried, doubts |-> pass[c].doubts \cup
                                    (IF swapping = NoSwap THEN {} ELSE {"raced"})]
       ELSE IF d \in ToSet(known') THEN verdict[d] ELSE NoVerdict]
  /\ EndPass(c)
  /\ UNCHANGED <<Rest, cached, learned, resident>>

-----------------------------------------------------------------------------
RenderStep ==
  \/ \E l \in Lists : SetFormats(l)
  \/ BumpGen
  \/ \E l \in Packs \cup {{}} : SwapForget(l)
  \/ SwapStore
  \/ \E on \in BOOLEAN : SetOffline(on)
  \/ \E o \in {OriginOf[c] : c \in Chains} : ForgetUnder(o)
  \/ ForgetSome(Chains)

PassStep(c) ==
  \/ TryPack(c) \/ BuildCandidates(c) \/ ReadList(c) \/ ReadLadder(c)
  \/ \E file \in pass[c].todo : Found(c, file) \/ NotFound(c, file)
  \/ Fault(c) \/ Exhaust(c) \/ CheckOffline(c) \/ CheckGen(c) \/ Remember(c)

Next ==
  \/ RenderStep
  \/ \E c \in Chains : Prefetch(c) \/ DropJob(c) \/ Start(c) \/ PassStep(c)

Spec == Init /\ [][Next]_vars

(* A started pass runs to its end, a setter finishes, and a chain that is   *)
(* asked for again and again does not lose every job to a stale epoch.     *)
FairSpec ==
  /\ Spec
  /\ WF_vars(BumpGen) /\ WF_vars(SwapStore)
  /\ \A c \in Chains : WF_vars(PassStep(c)) /\ SF_vars(Start(c))

-----------------------------------------------------------------------------
Remembered == IF knownGen = gen THEN ToSet(known) ELSE {}

WholeListTried(c) ==
  \A n \in ToSet(Names(c)) : {<<n, f>> : f \in list} \subseteq verdict[c].tried

(* A chain remembered as absent was probed, in every spelling, for every   *)
(* format of the list now configured: a change of format preference never  *)
(* leaves a verdict about the old list standing (rememberExhausted,        *)
(* retireStaleLocked).  Excused is a pass whose ladder lost a format: the  *)
(* learned formats changed between its two reads of them (ReadLadder).     *)
VerdictMatchesList ==
  ~bumping => \A c \in Remembered \cap Probed :
                WholeListTried(c) \/ "skipped" \in verdict[c].doubts

ServerHas(c) ==
  IF c \in Exact THEN Url[c] \in OnServer
  ELSE \E n \in ToSet(Names(c)), f \in list : <<n, f>> \in OnServer

(* The pack holds a file that the chain asks for. *)
PackHas(c) ==
  IF c \in Exact THEN Url[c] \in layer ELSE \E n \in ToSet(Names(c)) : InPack(layer, n)

(* What may have misled a pass about the server: a format its ladder lost,  *)
(* the network gate lifted under it; about the pack: a layer stored since   *)
(* it began, a read that failed.                                           *)
ServerDoubts == {"skipped", "silenced"}
PackDoubts   == {"raced", "unread"}

(* A remembered chain is absent from the server, and a probed one also from *)
(* the pack: rehearsal's silence is not recorded, and mounting a pack       *)
(* forgets what it may now answer (rememberExhausted, SetMountLayer).  A    *)
(* pass is excused from a source it was misled about, and from no other.    *)
(* MountedIsForgotten and PackAnswersExact say what is left out here.       *)
SettledMissIsTrue ==
  ~Busy => \A c \in Remembered :
    /\ verdict[c].doubts \cap ServerDoubts = {} => ~ServerHas(c)
    /\ c \in Probed /\ verdict[c].doubts \cap PackDoubts = {} => ~PackHas(c)

(* manager.go:1362: installing a layer "drops the session's exhausted-chain *)
(* memory with it", as "a remembered miss would shadow exactly the files    *)
(* that were just made available".  No probed chain that the mounted pack   *)
(* holds is remembered as absent.                                          *)
MountedIsForgotten == ~Busy => \A c \in Remembered \cap Probed : ~PackHas(c)

(* manager.go:813: "The pack answers exact URLs too".  No exact chain that  *)
(* the pack held all through its pass is remembered as absent.             *)
PackAnswersExact ==
  ~Busy => \A c \in Remembered \cap Exact :
             verdict[c].doubts \cap PackDoubts = {} => ~PackHas(c)

(* The storm ends: once the sources stop changing and the transport stops  *)
(* failing, every chain that is still asked for is delivered or remembered *)
(* and no job is queued or in flight.  Rehearsal alone leaves no verdict.  *)
StormEnds == <>[](~offline) => <>[](queued = {} /\ InFlight = {})
=============================================================================
