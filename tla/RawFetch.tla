------------------------------ MODULE RawFetch ------------------------------
(***************************************************************************)
(* A whole file through the memory tier, the disk tier and the network:    *)
(* Manager.FetchRaw (internal/assets/manager.go) over the byte-budget LRU  *)
(* (internal/cache/memory.go), which has no lock of its own, and the HTTP  *)
(* client (internal/network/client.go) with its negative cache, its host   *)
(* backoff, one shared request per URL and one retry of it.                *)
(*                                                                         *)
(* Every step of a caller is one call on a structure that locks itself;    *)
(* the callers interleave between them. All URLs are on one host.          *)
(***************************************************************************)
EXTENDS Integers, Sequences, FiniteSets, SequencesExt

CONSTANTS
  Callers,   (* goroutines in FetchRaw                                     *)
  Urls, Size, (* complete URLs and the bytes behind each                   *)
  T2Budget,  (* of the memory tier                                         *)
  Attempts,  (* transientFetchAttempts                                     *)
  MaxTier,   (* failures after which the delay is backoffMax               *)
  NoUrl,
  MaxFetches (* bound on calls                                             *)

ASSUME RawFetchAssumption ==
  /\ Size \in [Urls -> Nat \ {0}] /\ NoUrl \notin Urls
  /\ {T2Budget, Attempts, MaxTier} \subseteq Nat \ {0}
  /\ MaxFetches \in Nat /\ IsFiniteSet(Callers)

VARIABLES
  lru,       (* the keys of the memory tier, oldest first                  *)
  bytes,     (* what the tier has accounted                                *)
  disk,      (* URLs that were handed to the disk tier                     *)
  caller,    (* a caller's step, its URL, bytes it must still give back    *)
             (* for an entry it took out of the tier, and whether what it  *)
             (* adds came from the network                                 *)
  flight,    (* the shared request of each URL                             *)
  negative,  (* URLs in the negative cache                                 *)
  failures, open,  (* the host's backoff: its count, and its window        *)
  windows,   (* history: windows that elapsed since the last success, up   *)
             (* to MaxTier                                                 *)
  fetches

tier == <<lru, bytes>>
host == <<failures, open, windows>>
rawVars == <<tier, disk, caller, flight, negative, host, fetches>>

Steps == {"idle", "t2", "disk", "negative", "backoff", "join", "wait", "remove", "insert",
          "charge", "evict", "put"}
Idle == [pc |-> "idle", url |-> NoUrl, owes |-> 0, net |-> FALSE]
NoFlight == [pc |-> "none", attempt |-> 0]

RawTypeOK ==
  /\ lru \in Seq(Urls) /\ IsInjective(lru) /\ bytes \in Int /\ disk \subseteq Urls
  /\ caller \in [Callers -> [pc : Steps, url : Urls \cup {NoUrl}, owes : Nat,
                            net : BOOLEAN]]
  /\ flight \in [Urls -> [pc : {"none", "asking", "reading", "sleeping"}, attempt : 0 .. Attempts]]
  /\ negative \subseteq Urls /\ failures \in 0 .. MaxTier /\ open \in BOOLEAN

RawInit ==
  /\ lru = <<>> /\ bytes = 0 /\ disk = {}
  /\ caller = [c \in Callers |-> Idle] /\ flight = [u \in Urls |-> NoFlight]
  /\ negative = {} /\ failures = 0 /\ open = FALSE /\ windows = 0
  /\ fetches = 0

At(c, pc) == caller[c].pc = pc /\ caller[c].owes = 0
Goto(c, pc) == caller' = [caller EXCEPT ![c] = IF pc = "idle" THEN Idle ELSE [@ EXCEPT !.pc = pc]]
Without(u) ==
  IF u \in ToSet(lru) THEN RemoveAt(lru, CHOOSE i \in DOMAIN lru : lru[i] = u) ELSE lru
Newest(u) == Append(Without(u), u)

-----------------------------------------------------------------------------
(* FetchRaw *)

Call(c, u) ==
  /\ caller[c] = Idle /\ fetches < MaxFetches
  /\ fetches' = fetches + 1 /\ caller' = [caller EXCEPT ![c].pc = "t2", ![c].url = u]
  /\ UNCHANGED <<tier, disk, flight, negative, host>>

LookT2(c) ==
  /\ At(c, "t2")
  /\ IF caller[c].url \in ToSet(lru)
     THEN lru' = Newest(caller[c].url) /\ Goto(c, "idle")
     ELSE lru' = lru /\ Goto(c, "disk")
  /\ UNCHANGED <<bytes, disk, flight, negative, host, fetches>>

(* The disk tier may have dropped what it was handed (see DiskCache). *)
LookDisk(c) ==
  /\ At(c, "disk")
  /\ \/ caller[c].url \in disk /\ Goto(c, "remove")
     \/ Goto(c, "negative")
  /\ UNCHANGED <<tier, disk, flight, negative, host, fetches>>

LookNegative(c) ==
  /\ At(c, "negative")
  /\ Goto(c, IF caller[c].url \in negative THEN "idle" ELSE "backoff")
  /\ UNCHANGED <<tier, disk, flight, negative, host, fetches>>

LookBackoff(c) ==
  /\ At(c, "backoff") /\ Goto(c, IF open THEN "idle" ELSE "join")
  /\ UNCHANGED <<tier, disk, flight, negative, host, fetches>>

(* The window may have opened since: the request is made all the same. *)
Join(c) ==
  /\ At(c, "join") /\ Goto(c, "wait")
  /\ flight' = [flight EXCEPT ![caller[c].url] =
                  IF @ = NoFlight THEN [pc |-> "asking", attempt |-> 1] ELSE @]
  /\ UNCHANGED <<tier, disk, negative, host, fetches>>

(* The caller's context ends; the shared request goes on. *)
GiveUp(c) ==
  /\ At(c, "wait") /\ Goto(c, "idle")
  /\ UNCHANGED <<tier, disk, flight, negative, host, fetches>>

-----------------------------------------------------------------------------
(* The shared request *)

(* Its result reaches everyone who waits for it. *)
Land(u, pc) ==
  /\ flight' = [flight EXCEPT ![u] = NoFlight]
  /\ caller' = [c \in Callers |->
                  IF At(c, "wait") /\ caller[c].url = u
                  THEN IF pc = "idle" THEN Idle ELSE [caller[c] EXCEPT !.pc = pc, !.net = TRUE]
                  ELSE caller[c]]

(* Mutant of RecordFailure: every failure of a burst counts. *)
RecordFailureEach ==
  /\ failures' = IF failures < MaxTier THEN failures + 1 ELSE failures
  /\ open' = TRUE /\ UNCHANGED windows

(* recordFailure: inside a window a failure only extends it. *)
RecordFailure ==
  /\ failures' = IF open \/ failures = MaxTier THEN failures ELSE failures + 1
  /\ open' = TRUE /\ UNCHANGED windows

RecordSuccess == failures' = 0 /\ open' = FALSE /\ windows' = 0

(* fetchOnce after a transient failure: one more attempt, or the error. *)
Retry(u) ==
  IF flight[u].attempt < Attempts
  THEN flight' = [flight EXCEPT ![u].pc = "sleeping"] /\ UNCHANGED caller
  ELSE Land(u, "idle")

(* No answer, or an unexpected status: the host is at fault. *)
AttemptFails(u) ==
  /\ flight[u].pc = "asking" /\ RecordFailure /\ Retry(u)
  /\ UNCHANGED <<tier, disk, negative, fetches>>

Answer404(u) ==
  /\ flight[u].pc = "asking"
  /\ negative' = negative \cup {u} /\ RecordSuccess /\ Land(u, "idle")
  /\ UNCHANGED <<tier, disk, fetches>>

Answer200(u) ==
  /\ flight[u].pc = "asking" /\ flight' = [flight EXCEPT ![u].pc = "reading"]
  /\ UNCHANGED <<tier, disk, caller, negative, host, fetches>>

BodyEnds(u) ==
  /\ flight[u].pc = "reading" /\ RecordSuccess /\ Land(u, "remove")
  /\ UNCHANGED <<tier, disk, negative, fetches>>

(* The body breaks off: retried like a failure, and not the host's record. *)
BodyFails(u) ==
  /\ flight[u].pc = "reading" /\ Retry(u)
  /\ UNCHANGED <<tier, disk, negative, host, fetches>>

(* Mutant of Wake: the attempt is not counted. *)
WakeUncounted(u) ==
  /\ flight[u].pc = "sleeping" /\ flight' = [flight EXCEPT ![u].pc = "asking"]
  /\ UNCHANGED <<tier, disk, caller, negative, host, fetches>>

Wake(u) ==
  /\ flight[u].pc = "sleeping"
  /\ flight' = [flight EXCEPT ![u] = [pc |-> "asking", attempt |-> @.attempt + 1]]
  /\ UNCHANGED <<tier, disk, caller, negative, host, fetches>>

WindowElapses ==
  /\ open /\ open' = FALSE
  /\ windows' = IF windows < MaxTier THEN windows + 1 ELSE windows
  /\ UNCHANGED <<tier, disk, caller, flight, negative, failures, fetches>>

NegativeExpires(u) ==
  /\ u \in negative /\ negative' = negative \ {u}
  /\ UNCHANGED <<tier, disk, caller, flight, host, fetches>>

ClearNotFound ==
  /\ negative' = {}
  /\ UNCHANGED <<tier, disk, caller, flight, host, fetches>>

-----------------------------------------------------------------------------
(* ByteBudgetLRU.Add, step by step. Taking an entry out of the tier and    *)
(* giving its bytes back are two steps: the callback runs after the        *)
(* library has let go of its lock.                                         *)

(* Add is done: the bytes of the network go to the disk tier too. *)
Added(c) == Goto(c, IF caller[c].net THEN "put" ELSE "idle")

Put(c) ==
  /\ At(c, "put") /\ disk' = disk \cup {caller[c].url} /\ Goto(c, "idle")
  /\ UNCHANGED <<tier, flight, negative, host, fetches>>

RemoveOld(c) ==
  /\ At(c, "remove")
  /\ IF Size[caller[c].url] > T2Budget THEN Added(c) /\ UNCHANGED lru
     ELSE /\ lru' = Without(caller[c].url)
          /\ caller' = [caller EXCEPT ![c].pc = "insert",
                          ![c].owes = IF caller[c].url \in ToSet(lru) THEN Size[caller[c].url] ELSE 0]
  /\ UNCHANGED <<bytes, disk, flight, negative, host, fetches>>

(* onEvict of the entry this caller took out. *)
GiveBack(c) ==
  /\ caller[c].owes > 0
  /\ bytes' = bytes - caller[c].owes /\ caller' = [caller EXCEPT ![c].owes = 0]
  /\ UNCHANGED <<lru, disk, flight, negative, host, fetches>>

(* A key that came back meanwhile gets the new value, silently. *)
Insert(c) ==
  /\ At(c, "insert") /\ lru' = Newest(caller[c].url) /\ Goto(c, "charge")
  /\ UNCHANGED <<bytes, disk, flight, negative, host, fetches>>

(* Mutant of Charge: a blob the disk tier had is thought to need no eviction. *)
ChargePromotion(c) ==
  /\ At(c, "charge") /\ bytes' = bytes + Size[caller[c].url]
  /\ IF caller[c].net THEN Goto(c, "evict") ELSE Goto(c, "idle")
  /\ UNCHANGED <<lru, disk, flight, negative, host, fetches>>

Charge(c) ==
  /\ At(c, "charge") /\ bytes' = bytes + Size[caller[c].url] /\ Goto(c, "evict")
  /\ UNCHANGED <<lru, disk, flight, negative, host, fetches>>

EvictOldest(c) ==
  /\ At(c, "evict")
  /\ IF bytes <= T2Budget \/ lru = <<>> THEN Added(c) /\ UNCHANGED lru
     ELSE lru' = Tail(lru) /\ caller' = [caller EXCEPT ![c].owes = Size[Head(lru)]]
  /\ UNCHANGED <<bytes, disk, flight, negative, host, fetches>>

-----------------------------------------------------------------------------
Step(c) ==
  \/ LookT2(c) \/ LookDisk(c) \/ LookNegative(c) \/ LookBackoff(c) \/ Join(c)
  \/ Put(c) \/ RemoveOld(c) \/ GiveBack(c) \/ Insert(c) \/ Charge(c) \/ EvictOldest(c)

(* The request's own deadlines end every attempt, one way or another. *)
Progress(u) ==
  AttemptFails(u) \/ Answer404(u) \/ Answer200(u) \/ BodyEnds(u) \/ BodyFails(u) \/ Wake(u)

RawNext ==
  \/ \E c \in Callers : Step(c) \/ GiveUp(c) \/ \E u \in Urls : Call(c, u)
  \/ \E u \in Urls : Progress(u) \/ NegativeExpires(u)
  \/ WindowElapses \/ ClearNotFound

RawSpec == RawInit /\ [][RawNext]_rawVars
RawFairSpec ==
  RawSpec /\ (\A c \in Callers : WF_rawVars(Step(c))) /\ (\A u \in Urls : WF_rawVars(Progress(u)))

-----------------------------------------------------------------------------
(* Properties *)

Adding(c) == caller[c].pc \in {"insert", "charge", "evict"} \/ caller[c].owes > 0
(* Every byte counted once: the first of k, the second, ...                *)
Weight(K, f) == Cardinality(UNION {{k} \X (1 .. f[k]) : k \in K})
Resident == Weight(ToSet(lru), Size)

(* Whatever two Adds do to each other, when no Add is under way the memory *)
(* tier holds no more than its budget.                                     *)
RestWithinBudget == (\A c \in Callers : ~Adding(c)) => Resident <= T2Budget

(* client.go:585: a burst of failures counts once. The count is the number *)
(* of windows the host has been down for since its last 404 or complete    *)
(* body, however many requests failed in each; other answers leave it.     *)
BurstCountsOnce ==
  failures = LET w == windows + (IF open THEN 1 ELSE 0) IN IF w > MaxTier THEN MaxTier ELSE w

(* Every FetchRaw returns: a shared request ends after its attempts, its   *)
(* waiters are all told, and the eviction loop ends.                       *)
FetchEnds == \A c \in Callers : caller[c] # Idle ~> caller[c] = Idle

=============================================================================
