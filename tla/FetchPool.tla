------------------------------ MODULE FetchPool ------------------------------
(***************************************************************************)
(* The prioritized fetch worker pool of internal/network/pool.go: two      *)
(* bounded lanes drained high before low, epoch cancellation, shedding of  *)
(* the oldest speculative job, and a Close that cancels what is queued.    *)
(*                                                                         *)
(* Every Submit call carries one job, so a call is named by its job: the   *)
(* goroutines that call Submit need no identity of their own.  A Go select *)
(* over several ready cases picks any of them.                             *)
(***************************************************************************)
EXTENDS Integers, Sequences

CONSTANTS
  Jobs,        (* the jobs built during a run                              *)
  High,        (* those submitted with PriorityHigh; the rest are Low      *)
  Sticky,      (* those built with Epoch = EpochAny                        *)
  Workers,     (* worker goroutines of NewPool                             *)
  HighCap,     (* highLaneCap                                              *)
  LowCap,      (* lowLaneCap                                               *)
  MaxEpoch,    (* bound on BumpEpoch calls                                 *)
  NoJob        (* no job in hand                                           *)

ASSUME PoolAssumption ==
  /\ High \subseteq Jobs /\ Sticky \subseteq Jobs
  /\ HighCap \in Nat \ {0} /\ LowCap \in Nat \ {0}
  /\ MaxEpoch \in Nat
  /\ NoJob \notin Jobs

VARIABLES
  high, low,   (* the two lanes                                            *)
  epoch,       (* Pool.epoch                                               *)
  jobEpoch,    (* Job.Epoch, captured when the job is built                *)
  submit,      (* where each job's Submit call stands, then its result     *)
  victim,      (* the job a Submit call popped to shed, not yet run        *)
  worker,      (* each worker's program counter and job in hand            *)
  stop,        (* close(p.stop) has happened                               *)
  closer,      (* where Close stands                                       *)
  owed,        (* history: the jobs accepted when Close began              *)
  runs         (* the outcomes each job's Run was invoked with             *)

vars == <<high, low, epoch, jobEpoch, submit, victim, worker, stop, closer,
          owed, runs>>

EpochAny == -1

InCall   == {"built", "open", "full", "shedding"}
Returned == {"true", "false"}
Outcomes == {"fresh", "stale"}
Idle     == [pc |-> "loop", job |-> NoJob, mode |-> "fresh"]
HandOf   == [pc   : {"loop", "wait", "have", "run", "exited"},
             job  : Jobs \cup {NoJob}, mode : Outcomes]

TypeOK ==
  /\ high \in Seq(High) /\ Len(high) <= HighCap
  /\ low \in Seq(Jobs \ High) /\ Len(low) <= LowCap
  /\ epoch \in 0 .. MaxEpoch
  /\ jobEpoch \in [Jobs -> Nat \cup {EpochAny}]
  /\ submit \in [Jobs -> {"none"} \cup InCall \cup Returned]
  /\ victim \in [Jobs -> Jobs \cup {NoJob}]
  /\ worker \in [Workers -> HandOf]
  /\ stop \in BOOLEAN
  /\ closer \in {"open", "waiting", "draining", "closed"}
  /\ owed \subseteq Jobs
  /\ runs \in [Jobs -> Seq(Outcomes)]

Init ==
  /\ high = <<>> /\ low = <<>>
  /\ epoch = 0
  /\ jobEpoch = [j \in Jobs |-> EpochAny]
  /\ submit = [j \in Jobs |-> "none"]
  /\ victim = [j \in Jobs |-> NoJob]
  /\ worker = [w \in Workers |-> Idle]
  /\ stop = FALSE
  /\ closer = "open"
  /\ owed = {}
  /\ runs = [j \in Jobs |-> <<>>]

Goto(j, from, to) == submit[j] = from /\ submit' = [submit EXCEPT ![j] = to]

RunJob(j, mode) == runs' = [runs EXCEPT ![j] = Append(@, mode)]

-----------------------------------------------------------------------------
(* Submit *)

(* The caller fills in Job.Epoch from Pool.Epoch (or EpochAny). *)
Build(j) ==
  /\ Goto(j, "none", "built")
  /\ jobEpoch' = [jobEpoch EXCEPT ![j] = IF j \in Sticky THEN EpochAny ELSE epoch]
  /\ UNCHANGED <<high, low, epoch, victim, worker, stop, closer, owed, runs>>

(* The job is cancelled on the caller's goroutine and Submit returns false. *)
Reject(j, from) ==
  /\ stop
  /\ Goto(j, from, "false")
  /\ RunJob(j, "stale")
  /\ UNCHANGED <<high, low, epoch, jobEpoch, victim, worker, stop, closer, owed>>

(* The leading non-blocking look at p.stop finds it open. *)
PassStopCheck(j) ==
  /\ ~stop
  /\ Goto(j, "built", "open")
  /\ UNCHANGED <<high, low, epoch, jobEpoch, victim, worker, stop, closer, owed, runs>>

EnqueueHigh(j) ==
  /\ j \in High
  /\ Len(high) < HighCap
  /\ high' = Append(high, j)
  /\ Goto(j, "open", "true")
  /\ UNCHANGED <<low, epoch, jobEpoch, victim, worker, stop, closer, owed, runs>>

EnqueueLow(j) ==
  /\ j \notin High
  /\ Len(low) < LowCap
  /\ low' = Append(low, j)
  /\ Goto(j, "open", "true")
  /\ UNCHANGED <<high, epoch, jobEpoch, victim, worker, stop, closer, owed, runs>>

(* The low loop's select takes its default: full, and not stopped. *)
SeeLowFull(j) ==
  /\ j \notin High
  /\ ~stop /\ Len(low) = LowCap
  /\ Goto(j, "open", "full")
  /\ UNCHANGED <<high, low, epoch, jobEpoch, victim, worker, stop, closer, owed, runs>>

(* Mutant of PopVictim: the victim is cancelled but left in the lane. *)
PeekVictim(j) ==
  /\ IF low = <<>>
     THEN Goto(j, "full", "open") /\ UNCHANGED victim
     ELSE Goto(j, "full", "shedding") /\ victim' = [victim EXCEPT ![j] = Head(low)]
  /\ UNCHANGED <<high, low, epoch, jobEpoch, worker, stop, closer, owed, runs>>

(* The second select: pop the oldest low job, or loop if the lane drained. *)
PopVictim(j) ==
  /\ IF low = <<>>
     THEN Goto(j, "full", "open") /\ UNCHANGED <<low, victim>>
     ELSE /\ Goto(j, "full", "shedding")
          /\ victim' = [victim EXCEPT ![j] = Head(low)]
          /\ low' = Tail(low)
  /\ UNCHANGED <<high, epoch, jobEpoch, worker, stop, closer, owed, runs>>

(* Mutant of ShedVictim: the shed job is dropped without a Run. *)
DropVictim(j) ==
  /\ Goto(j, "shedding", "open")
  /\ victim' = [victim EXCEPT ![j] = NoJob]
  /\ UNCHANGED <<high, low, epoch, jobEpoch, worker, stop, closer, owed, runs>>

(* The victim's Run(stale=true) executes on the producer, which then loops. *)
ShedVictim(j) ==
  /\ Goto(j, "shedding", "open")
  /\ RunJob(victim[j], "stale")
  /\ victim' = [victim EXCEPT ![j] = NoJob]
  /\ UNCHANGED <<high, low, epoch, jobEpoch, worker, stop, closer, owed>>

Submit(j) ==
  \/ Reject(j, "built") \/ PassStopCheck(j)
  \/ Reject(j, "open") \/ EnqueueHigh(j) \/ EnqueueLow(j)
  \/ SeeLowFull(j) \/ PopVictim(j) \/ ShedVictim(j)

-----------------------------------------------------------------------------
(* Workers *)

Take(w, j) == worker' = [worker EXCEPT ![w].pc = "have", ![w].job = j]

(* Both the priority pass and the blocking select receive from high. *)
TakeHigh(w) ==
  /\ worker[w].pc \in {"loop", "wait"}
  /\ high # <<>>
  /\ Take(w, Head(high))
  /\ high' = Tail(high)
  /\ UNCHANGED <<low, epoch, jobEpoch, submit, victim, stop, closer, owed, runs>>

(* The priority pass finds high empty. *)
FallThrough(w) ==
  /\ worker[w].pc = "loop"
  /\ high = <<>>
  /\ worker' = [worker EXCEPT ![w].pc = "wait"]
  /\ UNCHANGED <<high, low, epoch, jobEpoch, submit, victim, stop, closer, owed, runs>>

TakeLow(w) ==
  /\ worker[w].pc = "wait"
  /\ low # <<>>
  /\ Take(w, Head(low))
  /\ low' = Tail(low)
  /\ UNCHANGED <<high, epoch, jobEpoch, submit, victim, stop, closer, owed, runs>>

Exit(w) ==
  /\ worker[w].pc = "wait"
  /\ stop
  /\ worker' = [worker EXCEPT ![w].pc = "exited"]
  /\ UNCHANGED <<high, low, epoch, jobEpoch, submit, victim, stop, closer, owed, runs>>

IsStale(j) == jobEpoch[j] # EpochAny /\ jobEpoch[j] # epoch

(* Mutants of Dispatch: the epoch is ignored; EpochAny is not exempt. *)
DispatchFresh(w) ==
  /\ worker[w].pc = "have"
  /\ worker' = [worker EXCEPT ![w].pc = "run", ![w].mode = "fresh"]
  /\ UNCHANGED <<high, low, epoch, jobEpoch, submit, victim, stop, closer, owed, runs>>

DispatchNoSticky(w) ==
  /\ worker[w].pc = "have"
  /\ worker' = [worker EXCEPT ![w].pc = "run",
                  ![w].mode = IF jobEpoch[worker[w].job] # epoch THEN "stale" ELSE "fresh"]
  /\ UNCHANGED <<high, low, epoch, jobEpoch, submit, victim, stop, closer, owed, runs>>

(* dispatch reads the epoch once; the job then runs with that verdict. *)
Dispatch(w) ==
  /\ worker[w].pc = "have"
  /\ worker' = [worker EXCEPT ![w].pc = "run",
                  ![w].mode = IF IsStale(worker[w].job) THEN "stale" ELSE "fresh"]
  /\ UNCHANGED <<high, low, epoch, jobEpoch, submit, victim, stop, closer, owed, runs>>

FinishRun(w) ==
  /\ worker[w].pc = "run"
  /\ RunJob(worker[w].job, worker[w].mode)
  /\ worker' = [worker EXCEPT ![w] = Idle]
  /\ UNCHANGED <<high, low, epoch, jobEpoch, submit, victim, stop, closer, owed>>

WorkerStep(w) ==
  TakeHigh(w) \/ FallThrough(w) \/ TakeLow(w) \/ Exit(w) \/ Dispatch(w) \/ FinishRun(w)

-----------------------------------------------------------------------------
(* Close and BumpEpoch *)

CloseStop ==
  /\ closer = "open"
  /\ closer' = "waiting" /\ stop' = TRUE
  /\ owed' = {j \in Jobs : submit[j] = "true"}
  /\ UNCHANGED <<high, low, epoch, jobEpoch, submit, victim, worker, runs>>

(* Mutant of CloseWaited: Close does not wait for the workers. *)
CloseNotWaited ==
  /\ closer = "waiting"
  /\ closer' = "draining"
  /\ UNCHANGED <<high, low, epoch, jobEpoch, submit, victim, worker, stop, owed, runs>>

(* workersWG.Wait returns. *)
CloseWaited ==
  /\ closer = "waiting"
  /\ \A w \in Workers : worker[w].pc = "exited"
  /\ closer' = "draining"
  /\ UNCHANGED <<high, low, epoch, jobEpoch, submit, victim, worker, stop, owed, runs>>

DrainHigh ==
  /\ closer = "draining" /\ high # <<>>
  /\ RunJob(Head(high), "stale")
  /\ high' = Tail(high)
  /\ UNCHANGED <<low, epoch, jobEpoch, submit, victim, worker, stop, closer, owed>>

DrainLow ==
  /\ closer = "draining" /\ low # <<>>
  /\ RunJob(Head(low), "stale")
  /\ low' = Tail(low)
  /\ UNCHANGED <<high, epoch, jobEpoch, submit, victim, worker, stop, closer, owed>>

CloseReturn ==
  /\ closer = "draining" /\ high = <<>> /\ low = <<>>
  /\ closer' = "closed"
  /\ UNCHANGED <<high, low, epoch, jobEpoch, submit, victim, worker, stop, owed, runs>>

CloseStep == CloseWaited \/ DrainHigh \/ DrainLow \/ CloseReturn

BumpEpoch ==
  /\ epoch < MaxEpoch
  /\ epoch' = epoch + 1
  /\ UNCHANGED <<high, low, jobEpoch, submit, victim, worker, stop, closer, owed, runs>>

(* Every call has returned and the pool is closed: nothing is left to do. *)
Quiescent ==
  /\ closer = "closed"
  /\ \A j \in Jobs : submit[j] \in Returned
  /\ UNCHANGED vars

Next ==
  \/ \E j \in Jobs : Build(j) \/ Submit(j)
  \/ \E w \in Workers : WorkerStep(w)
  \/ CloseStop \/ CloseStep
  \/ BumpEpoch
  \/ Quiescent

(* The Go scheduler runs every runnable goroutine; nobody has to call      *)
(* Submit, Close or BumpEpoch.                                             *)
Fairness ==
  /\ \A j \in Jobs : WF_vars(Submit(j))
  /\ \A w \in Workers : WF_vars(WorkerStep(w))
  /\ WF_vars(CloseStep)

Spec == Init /\ [][Next]_vars
FairSpec == Spec /\ Fairness

-----------------------------------------------------------------------------
(* Properties *)

(* Job: "Run is invoked exactly once": never twice, whichever of a worker, *)
(* a shedding producer, a rejected Submit and Close gets to the job first. *)
AtMostOnce == \A j \in Jobs : Len(runs[j]) <= 1

(* "live-message work is never shed": a high job's Run(stale=true) means   *)
(* its epoch is over or the pool is shutting down, never backpressure.     *)
HighNeverShed ==
  \A j \in High : runs[j] = <<"stale">> => stop \/ IsStale(j)

(* Close "cancels every job still queued, so no caller is left waiting":   *)
(* when it has returned, every job accepted before it began has been run,  *)
(* or is in the hand of a producer about to cancel it.                     *)
CloseHearsAll ==
  closer = "closed" =>
    \A j \in owed : runs[j] # <<>> \/ \E k \in Jobs : submit[k] = "shedding" /\ victim[k] = j

(* "so waiters always hear back": with the pool open, an accepted job is   *)
(* run; once Close has begun, the ones accepted before it still are.  A    *)
(* call that returned stays returned, so []<> says "not left waiting".     *)
AcceptedIsHeard ==
  \A j \in Jobs : []<>(submit[j] = "true" => runs[j] # <<>> \/ (stop /\ j \notin owed))

(* The Job comment to the letter: every accepted job has been run once the *)
(* pool has closed and every Submit has returned.                          *)
WaitersAlwaysHear ==
  (closer = "closed" /\ \A j \in Jobs : submit[j] \in {"none"} \cup Returned) =>
    \A j \in Jobs : submit[j] = "true" => runs[j] # <<>>

(* The pool implements the abstract service: a job is pending from the     *)
(* moment it is built, running once a worker's dispatch said fresh, and    *)
(* revoked when the pool's epoch has moved past its own.                   *)
PhaseOf(j) ==
  IF runs[j] # <<>> THEN runs[j][Len(runs[j])]
  ELSE IF \E w \in Workers : worker[w].pc = "run" /\ worker[w].job = j
                               /\ worker[w].mode = "fresh" THEN "running"
  ELSE IF submit[j] = "none" THEN "idle" ELSE "pending"

Service == INSTANCE JobService WITH
  phase   <- [j \in Jobs |-> PhaseOf(j)],
  revoked <- {j \in Jobs \ Sticky : submit[j] # "none" /\ jobEpoch[j] # epoch}

ServiceSpec == Service!Spec
=============================================================================
