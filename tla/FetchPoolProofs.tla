--------------------------- MODULE FetchPoolProofs ---------------------------
(***************************************************************************)
(* Proofs about FetchPool, for any number of jobs, workers and slots.      *)
(* The heart is Ownership: an accepted job is in exactly one place -- a    *)
(* lane, a worker's hand, a shedding producer's hand -- until it is run.   *)
(***************************************************************************)
EXTENDS FetchPool, TLAPS

Busy(w) == worker[w].pc \in {"have", "run"}
In(s, j) == \E i \in 1 .. Len(s) : s[i] = j
InWorker(w, j) == Busy(w) /\ worker[w].job = j
InShedder(k, j) == submit[k] = "shedding" /\ victim[k] = j

NoDuplicates(s) == \A a, b \in 1 .. Len(s) : s[a] = s[b] => a = b

(* The hands hold jobs. *)
HandsFull ==
  /\ \A w \in Workers : Busy(w) => worker[w].job \in Jobs
  /\ \A k \in Jobs : submit[k] = "shedding" => victim[k] \in Jobs

(* A queued or held job was accepted and has not been run. *)
Unrun ==
  \A j \in Jobs :
    \/ In(high, j) \/ In(low, j)
    \/ \E w \in Workers : InWorker(w, j)
    \/ \E k \in Jobs : InShedder(k, j)
    => submit[j] = "true" /\ runs[j] = <<>>

(* A job is in no two places. *)
OnePlace ==
  /\ NoDuplicates(high) /\ NoDuplicates(low)
  /\ \A j \in Jobs, w \in Workers :
       InWorker(w, j) => /\ ~In(high, j) /\ ~In(low, j)
                         /\ \A v \in Workers : InWorker(v, j) => v = w
                         /\ \A k \in Jobs : ~InShedder(k, j)
  /\ \A j \in Jobs, k \in Jobs :
       InShedder(k, j) => /\ ~In(high, j) /\ ~In(low, j)
                          /\ \A m \in Jobs : InShedder(m, j) => m = k

(* Nothing is run before its Submit has returned, nor more than once. *)
RunOnce ==
  \A j \in Jobs :
    /\ submit[j] \in {"none"} \cup InCall => runs[j] = <<>>
    /\ Len(runs[j]) \in {0, 1}

Ownership == HandsFull /\ Unrun /\ OnePlace /\ RunOnce

-----------------------------------------------------------------------------
(* What the queue operations do to the set of queued jobs. *)

(* Appending a job adds it at the end and disturbs no other position. *)
LEMMA AppendFacts ==
  ASSUME NEW S, NEW s \in Seq(S), NEW e \in S
  PROVE  /\ Append(s, e) \in Seq(S)
         /\ Len(Append(s, e)) = Len(s) + 1
         /\ Append(s, e)[Len(s) + 1] = e
         /\ \A i \in 1 .. Len(s) : Append(s, e)[i] = s[i]
  OBVIOUS

(* Receiving from a lane removes its first job and shifts the others. *)
LEMMA TailFacts ==
  ASSUME NEW S, NEW s \in Seq(S), s # <<>>
  PROVE  /\ Head(s) \in S /\ Head(s) = s[1] /\ 1 \in 1 .. Len(s)
         /\ Tail(s) \in Seq(S)
         /\ Len(Tail(s)) = Len(s) - 1 /\ Len(s) \in Nat \ {0}
         /\ \A i \in 1 .. Len(s) - 1 : Tail(s)[i] = s[i + 1]
  OBVIOUS

(* Appending a new job to a duplicate-free lane. *)
LEMMA LaneAppend ==
  ASSUME NEW S, NEW s \in Seq(S), NEW e \in S, ~In(s, e), NoDuplicates(s)
  PROVE  /\ NoDuplicates(Append(s, e))
         /\ \A j : In(Append(s, e), j) <=> In(s, j) \/ j = e
  BY AppendFacts DEF In, NoDuplicates

(* Receiving from a duplicate-free lane takes exactly its head out. *)
LEMMA LaneTail ==
  ASSUME NEW S, NEW s \in Seq(S), s # <<>>, NoDuplicates(s)
  PROVE  /\ Head(s) \in S
         /\ In(s, Head(s))
         /\ NoDuplicates(Tail(s))
         /\ \A j : In(Tail(s), j) <=> In(s, j) /\ j # Head(s)
<1> USE TailFacts
<1>1. Head(s) \in S /\ In(s, Head(s))
  BY DEF In
<1>2. NoDuplicates(Tail(s))
  BY DEF NoDuplicates
<1>3. ASSUME NEW j, In(Tail(s), j) PROVE In(s, j) /\ j # Head(s)
  BY <1>3 DEF In, NoDuplicates
<1>4. ASSUME NEW j, In(s, j), j # Head(s) PROVE In(Tail(s), j)
  <2>1. PICK i \in 1 .. Len(s) : s[i] = j
    BY <1>4 DEF In
  <2>2. i # 1 /\ i - 1 \in 1 .. Len(Tail(s)) /\ Tail(s)[i - 1] = j
    BY <1>4, <2>1
  <2>3. QED BY <2>2 DEF In
<1>5. QED BY <1>1, <1>2, <1>3, <1>4

(* Only accepted jobs are queued, and only jobs. *)
LEMMA InType ==
  ASSUME NEW S, NEW s \in Seq(S), NEW j, In(s, j)
  PROVE  j \in S
  BY DEF In

-----------------------------------------------------------------------------
(* Type correctness *)

LEMMA TypeInit == Init => TypeOK
<1> SUFFICES ASSUME Init PROVE TypeOK
  OBVIOUS
<1>1. high \in Seq(High) /\ Len(high) <= HighCap /\ low \in Seq(Jobs \ High) /\ Len(low) <= LowCap
  BY PoolAssumption DEF Init
<1>2. jobEpoch \in [Jobs -> Nat \cup {EpochAny}] /\ victim \in [Jobs -> Jobs \cup {NoJob}]
  BY DEF Init
<1>3. worker \in [Workers -> HandOf]
  BY DEF Init, Idle, HandOf, Outcomes
<1>4. runs \in [Jobs -> Seq(Outcomes)]
  BY DEF Init
<1>5. submit \in [Jobs -> {"none"} \cup InCall \cup Returned]
  BY DEF Init
<1>6. epoch \in 0 .. MaxEpoch
  BY PoolAssumption DEF Init
<1>7. stop \in BOOLEAN /\ closer \in {"open", "waiting", "draining", "closed"} /\ owed \subseteq Jobs
  BY DEF Init
<1>8. QED
  BY <1>1, <1>2, <1>3, <1>4, <1>5, <1>6, <1>7 DEF TypeOK

(* Recording an outcome keeps the type of runs and touches one job only. *)
LEMMA RunJobFacts ==
  ASSUME TypeOK, NEW j \in Jobs, NEW mode \in Outcomes, RunJob(j, mode)
  PROVE  /\ runs' \in [Jobs -> Seq(Outcomes)]
         /\ runs'[j] = Append(runs[j], mode)
         /\ \A k \in Jobs : k # j => runs'[k] = runs[k]
         /\ runs[j] = <<>> => Len(runs'[j]) = 1
<1>1. runs'[j] = Append(runs[j], mode) /\ runs[j] \in Seq(Outcomes)
  BY DEF TypeOK, RunJob
<1>2. runs[j] = <<>> => Len(Append(runs[j], mode)) = 1
  BY <1>1, AppendFacts
<1>3. QED BY <1>1, <1>2 DEF TypeOK, RunJob

(* A worker that receives a job holds it; the others keep their hands. *)
LEMMA TakeFacts ==
  ASSUME TypeOK, NEW w \in Workers, NEW j \in Jobs, Take(w, j)
  PROVE  /\ worker' \in [Workers -> HandOf]
         /\ worker'[w].pc = "have" /\ worker'[w].job = j
         /\ \A v \in Workers : v # w => worker'[v] = worker[v]
<1>1. worker[w] \in HandOf
  BY DEF TypeOK
<1>2. [worker[w] EXCEPT !.pc = "have", !.job = j] \in HandOf
  BY <1>1 DEF HandOf
<1>3. worker' = [worker EXCEPT ![w] = [worker[w] EXCEPT !.pc = "have", !.job = j]]
  BY DEF Take, TypeOK
<1>4. QED
  BY <1>1, <1>2, <1>3 DEF TypeOK, HandOf

(* dispatch fixes the mode and keeps the job. *)
LEMMA DispatchFacts ==
  ASSUME TypeOK, NEW w \in Workers, Dispatch(w)
  PROVE  /\ worker' \in [Workers -> HandOf]
         /\ worker'[w].pc = "run" /\ worker'[w].job = worker[w].job
         /\ worker'[w].mode = IF IsStale(worker[w].job) THEN "stale" ELSE "fresh"
         /\ \A v \in Workers : v # w => worker'[v] = worker[v]
<1> DEFINE m == IF IsStale(worker[w].job) THEN "stale" ELSE "fresh"
<1>1. worker[w] \in HandOf /\ m \in Outcomes
  BY DEF TypeOK, Outcomes
<1>2. [worker[w] EXCEPT !.pc = "run", !.mode = m] \in HandOf
  BY <1>1 DEF HandOf
<1>3. worker' = [worker EXCEPT ![w] = [worker[w] EXCEPT !.pc = "run", !.mode = m]]
  BY DEF Dispatch, TypeOK
<1>4. QED
  BY <1>1, <1>2, <1>3 DEF TypeOK, HandOf

(* Every step keeps the types of all variables and the lanes' capacities. *)
LEMMA TypeStep == TypeOK /\ HandsFull /\ [Next]_vars => TypeOK'
<1> SUFFICES ASSUME TypeOK, HandsFull, [Next]_vars PROVE TypeOK'
  OBVIOUS
<1> USE PoolAssumption DEF TypeOK, Goto, RunJob, InCall, Returned, Outcomes, Idle,
        HandOf, EpochAny
<1>1. ASSUME NEW j \in Jobs, Build(j) PROVE TypeOK'
  BY <1>1 DEF Build
<1>2. ASSUME NEW j \in Jobs, Submit(j) PROVE TypeOK'
  <2>1. ASSUME Reject(j, "built") \/ Reject(j, "open") PROVE TypeOK'
    <3>1. runs' \in [Jobs -> Seq(Outcomes)]
      BY <2>1, RunJobFacts DEF Reject
    <3>2. submit' \in [Jobs -> {"none"} \cup InCall \cup Returned]
      BY <2>1 DEF Reject
    <3>3. QED
      BY <2>1, <3>1, <3>2 DEF Reject
  <2>2. CASE PassStopCheck(j)
    BY <2>2 DEF PassStopCheck
  <2>3. CASE EnqueueHigh(j)
    BY <2>3 DEF EnqueueHigh
  <2>4. CASE EnqueueLow(j)
    BY <2>4 DEF EnqueueLow
  <2>5. CASE SeeLowFull(j)
    BY <2>5 DEF SeeLowFull
  <2>6. CASE PopVictim(j)
    <3>1. CASE low = <<>>
      BY <2>6, <3>1 DEF PopVictim
    <3>2. CASE low # <<>>
      <4>1. Head(low) \in Jobs \ High /\ Tail(low) \in Seq(Jobs \ High)
            /\ Len(Tail(low)) <= LowCap
        BY <3>2, TailFacts
      <4>2. /\ victim' = [victim EXCEPT ![j] = Head(low)]
            /\ submit' = [submit EXCEPT ![j] = "shedding"]
            /\ low' = Tail(low)
        BY <2>6, <3>2 DEF PopVictim
      <4>3. QED
        BY <2>6, <3>2, <4>1, <4>2 DEF PopVictim
    <3>3. QED BY <3>1, <3>2
  <2>7. CASE ShedVictim(j)
    BY <2>7 DEF ShedVictim, HandsFull
  <2>8. QED BY <1>2, <2>1, <2>2, <2>3, <2>4, <2>5, <2>6, <2>7 DEF Submit
<1>3. ASSUME NEW w \in Workers, WorkerStep(w) PROVE TypeOK'
  <2>1. CASE TakeHigh(w)
    <3>1. Head(high) \in High /\ Tail(high) \in Seq(High) /\ Len(Tail(high)) <= HighCap
      BY <2>1, TailFacts DEF TakeHigh
    <3>2. worker' \in [Workers -> HandOf]
      BY <2>1, <3>1, TakeFacts DEF TakeHigh
    <3>3. QED BY <2>1, <3>1, <3>2 DEF TakeHigh
  <2>2. CASE FallThrough(w)
    BY <2>2 DEF FallThrough
  <2>3. CASE TakeLow(w)
    <3>1. Head(low) \in Jobs /\ Tail(low) \in Seq(Jobs \ High) /\ Len(Tail(low)) <= LowCap
      BY <2>3, TailFacts DEF TakeLow
    <3>2. worker' \in [Workers -> HandOf]
      BY <2>3, <3>1, TakeFacts DEF TakeLow
    <3>3. QED BY <2>3, <3>1, <3>2 DEF TakeLow
  <2>4. CASE Exit(w)
    BY <2>4 DEF Exit
  <2>5. CASE Dispatch(w)
    <3>1. worker' \in [Workers -> HandOf]
      BY <2>5, DispatchFacts
    <3>2. QED BY <2>5, <3>1 DEF Dispatch
  <2>6. CASE FinishRun(w)
    BY <2>6 DEF FinishRun, HandsFull, Busy
  <2>7. QED BY <1>3, <2>1, <2>2, <2>3, <2>4, <2>5, <2>6 DEF WorkerStep
<1>4. CASE CloseStop
  BY <1>4 DEF CloseStop
<1>5. CASE CloseStep
  <2>1. CASE CloseWaited
    BY <2>1 DEF CloseWaited
  <2>2. CASE DrainHigh
    BY <2>2, TailFacts DEF DrainHigh
  <2>3. CASE DrainLow
    BY <2>3, TailFacts DEF DrainLow
  <2>4. CASE CloseReturn
    BY <2>4 DEF CloseReturn
  <2>5. QED BY <1>5, <2>1, <2>2, <2>3, <2>4 DEF CloseStep
<1>6. CASE BumpEpoch
  BY <1>6 DEF BumpEpoch
<1>7. CASE UNCHANGED vars
  BY <1>7 DEF vars
<1>8. QED
  BY <1>1, <1>2, <1>3, <1>4, <1>5, <1>6, <1>7 DEF Next, Quiescent

-----------------------------------------------------------------------------
(* Ownership is inductive *)

LEMMA OwnershipInit == Init => Ownership
<1> SUFFICES ASSUME Init PROVE Ownership
  OBVIOUS
<1>1. \A w \in Workers : ~Busy(w)
  BY DEF Init, Busy, Idle
<1>2. \A j \in Jobs : submit[j] = "none" /\ runs[j] = <<>>
  BY DEF Init
<1>3. \A j : ~In(high, j) /\ ~In(low, j)
  <2>1. Len(high) = 0 /\ Len(low) = 0
    BY DEF Init
  <2>2. QED BY <2>1 DEF In
<1>4. NoDuplicates(high) /\ NoDuplicates(low)
  BY DEF Init, NoDuplicates
<1>5. QED
  BY <1>1, <1>2, <1>3, <1>4
     DEF Ownership, HandsFull, Unrun, OnePlace, RunOnce, InWorker, InShedder

(* Running a job for the first time, its Submit having returned. *)
LEMMA RunOnceStep ==
  ASSUME RunOnce, NEW v \in Jobs, submit'[v] \in Returned, Len(runs'[v]) = 1,
         \A k \in Jobs : k # v => runs'[k] = runs[k] /\ submit'[k] = submit[k]
  PROVE  RunOnce'
<1> SUFFICES ASSUME NEW k \in Jobs
             PROVE  /\ submit'[k] \in {"none"} \cup InCall => runs'[k] = <<>>
                    /\ Len(runs'[k]) \in {0, 1}
  BY DEF RunOnce
<1>1. CASE k = v
  <2>1. submit'[k] \notin {"none"} \cup InCall
    BY <1>1 DEF Returned, InCall
  <2>2. Len(runs'[k]) \in {0, 1}
    BY <1>1
  <2>3. QED BY <2>1, <2>2
<1>2. CASE k # v
  BY <1>2 DEF RunOnce
<1>3. QED BY <1>1, <1>2

LEMMA OwnershipStep == TypeOK /\ Ownership /\ [Next]_vars => Ownership'
<1> SUFFICES ASSUME TypeOK, Ownership, [Next]_vars PROVE Ownership'
  OBVIOUS
<1> USE PoolAssumption
<1> USE DEF Ownership, HandsFull, Unrun, OnePlace, RunOnce, InWorker, InShedder, Busy
<1>1. ASSUME NEW j \in Jobs, Build(j) PROVE Ownership'
  BY <1>1 DEF Build, Goto, TypeOK, InCall
<1>2. ASSUME NEW j \in Jobs, Reject(j, "built") \/ Reject(j, "open") PROVE Ownership'
  <2>1. /\ submit[j] \in {"built", "open"} /\ submit' = [submit EXCEPT ![j] = "false"]
        /\ UNCHANGED <<high, low, victim, worker>>
    BY <1>2 DEF Reject, Goto
  <2>2. /\ runs'[j] = Append(runs[j], "stale") /\ runs[j] = <<>>
        /\ \A k \in Jobs : k # j => runs'[k] = runs[k]
    BY <1>2, <2>1, RunJobFacts DEF Reject, Outcomes, InCall
  <2>3. Len(runs'[j]) = 1
    BY <2>2
  <2>4. /\ submit'[j] = "false"
        /\ \A k \in Jobs : k # j => submit'[k] = submit[k]
    BY <2>1 DEF TypeOK
  <2>5. HandsFull' /\ OnePlace'
    BY <2>1, <2>4
  <2>6. RunOnce'
    BY <2>2, <2>3, <2>4, RunOnceStep DEF Returned
  <2>7. Unrun'
    BY <2>1, <2>2, <2>4
  <2>8. QED BY <2>5, <2>6, <2>7
<1>3. ASSUME NEW j \in Jobs, PassStopCheck(j) PROVE Ownership'
  BY <1>3 DEF PassStopCheck, Goto, TypeOK, InCall
<1>4. ASSUME NEW j \in Jobs, EnqueueHigh(j) PROVE Ownership'
  BY <1>4, LaneAppend, InType DEF EnqueueHigh, Goto, TypeOK, InCall
<1>5. ASSUME NEW j \in Jobs, EnqueueLow(j) PROVE Ownership'
  <2>1. /\ submit[j] = "open" /\ j \in Jobs \ High
        /\ submit'[j] = "true" /\ \A k \in Jobs : k # j => submit'[k] = submit[k]
        /\ UNCHANGED <<high, victim, worker, runs>>
    BY <1>5 DEF EnqueueLow, Goto, TypeOK
  <2>2. low' = Append(low, j) /\ low \in Seq(Jobs \ High) /\ ~In(low, j)
    BY <1>5, <2>1 DEF EnqueueLow, TypeOK, InCall
  <2>3. NoDuplicates(low') /\ \A k : In(low', k) <=> In(low, k) \/ k = j
    BY <2>1, <2>2, LaneAppend
  <2>4. ~In(high, j)
    BY <2>1, InType DEF TypeOK
  <2>5. HandsFull'
    BY <2>1
  <2>6. Unrun' /\ RunOnce'
    BY <2>1, <2>3 DEF InCall
  <2>7. OnePlace'
    BY <2>1, <2>3 DEF InCall
  <2>8. QED BY <2>5, <2>6, <2>7
<1>6. ASSUME NEW j \in Jobs, SeeLowFull(j) PROVE Ownership'
  BY <1>6 DEF SeeLowFull, Goto, TypeOK, InCall
<1>7. ASSUME NEW j \in Jobs, PopVictim(j) PROVE Ownership'
  <2>1. CASE low = <<>>
    BY <1>7, <2>1 DEF PopVictim, Goto, TypeOK, InCall
  <2>2. CASE low # <<>>
    <3> DEFINE v == Head(low)
    <3>1. /\ submit[j] = "full" /\ submit'[j] = "shedding"
          /\ victim'[j] = v
          /\ \A k \in Jobs : k # j => submit'[k] = submit[k] /\ victim'[k] = victim[k]
          /\ low' = Tail(low)
          /\ UNCHANGED <<high, worker, runs>>
      BY <1>7, <2>2 DEF PopVictim, Goto, TypeOK
    <3>2. /\ v \in Jobs \ High /\ In(low, v) /\ NoDuplicates(low')
          /\ \A k : In(low', k) <=> In(low, k) /\ k # v
      BY <2>2, <3>1, LaneTail DEF TypeOK
    <3>3. ~In(high, v)
      BY <3>2, InType DEF TypeOK
    <3> HIDE DEF v
    <3>4. HandsFull'
      BY <3>1, <3>2
    <3>5. v # j
      BY <3>1, <3>2
    <3>6. Unrun' /\ RunOnce'
      BY <3>1, <3>2, <3>5 DEF InCall
    <3>7. OnePlace'
      BY <3>1, <3>2, <3>3
    <3>8. QED BY <3>4, <3>6, <3>7
  <2>3. QED BY <2>1, <2>2
<1>8. ASSUME NEW j \in Jobs, ShedVictim(j) PROVE Ownership'
  <2> DEFINE v == victim[j]
  <2>1. /\ InShedder(j, v) /\ v \in Jobs /\ RunJob(v, "stale")
        /\ submit'[j] = "open" /\ \A k \in Jobs : k # j => submit'[k] = submit[k]
        /\ \A k \in Jobs : k # j => victim'[k] = victim[k]
        /\ UNCHANGED <<high, low, worker>>
    BY <1>8 DEF ShedVictim, Goto, TypeOK
  <2>2. runs[v] = <<>> /\ submit[v] = "true" /\ v # j /\ runs[j] = <<>>
    BY <2>1 DEF InCall
  <2>3. /\ Len(runs'[v]) = 1
        /\ \A k \in Jobs : k # v => runs'[k] = runs[k]
    BY <2>1, <2>2, RunJobFacts DEF Outcomes
  <2> HIDE DEF v
  <2>4. HandsFull' /\ OnePlace'
    BY <2>1
  <2>5. RunOnce'
    <3> SUFFICES ASSUME NEW k \in Jobs
                 PROVE  /\ submit'[k] \in {"none"} \cup InCall => runs'[k] = <<>>
                        /\ Len(runs'[k]) \in {0, 1}
      OBVIOUS
    <3>1. CASE k = v
      BY <2>1, <2>2, <2>3, <3>1 DEF InCall
    <3>2. CASE k = j
      BY <2>2, <2>3, <3>2
    <3>3. CASE k # v /\ k # j
      BY <2>1, <2>3, <3>3
    <3>4. QED BY <3>1, <3>2, <3>3
  <2>6. Unrun'
    BY <2>1, <2>2, <2>3
  <2>7. QED BY <2>4, <2>5, <2>6
<1>9. ASSUME NEW w \in Workers, TakeHigh(w) PROVE Ownership'
  <2> DEFINE v == Head(high)
  <2>1. /\ ~Busy(w) /\ high # <<>> /\ high' = Tail(high) /\ Take(w, v)
        /\ UNCHANGED <<low, submit, victim, runs>>
    BY <1>9 DEF TakeHigh
  <2>2. /\ v \in High /\ v \in Jobs /\ In(high, v) /\ NoDuplicates(high')
        /\ \A k : In(high', k) <=> In(high, k) /\ k # v
    BY <2>1, LaneTail DEF TypeOK
  <2>3. ~In(low, v)
    BY <2>2, InType DEF TypeOK
  <2>4. /\ worker'[w].pc = "have" /\ worker'[w].job = v
        /\ \A x \in Workers : x # w => worker'[x] = worker[x]
    BY <2>1, <2>2, TakeFacts
  <2> HIDE DEF v
  <2>5. HandsFull' /\ RunOnce'
    BY <2>1, <2>2, <2>4
  <2>6. Unrun'
    BY <2>1, <2>2, <2>4
  <2>7. OnePlace'
    BY <2>1, <2>2, <2>3, <2>4
  <2>8. QED BY <2>5, <2>6, <2>7
<1>10. ASSUME NEW w \in Workers, FallThrough(w) PROVE Ownership'
  BY <1>10 DEF FallThrough, TypeOK, HandOf
<1>11. ASSUME NEW w \in Workers, TakeLow(w) PROVE Ownership'
  <2> DEFINE v == Head(low)
  <2>1. /\ ~Busy(w) /\ low # <<>> /\ low' = Tail(low) /\ Take(w, v)
        /\ UNCHANGED <<high, submit, victim, runs>>
    BY <1>11 DEF TakeLow
  <2>2. /\ v \in Jobs \ High /\ v \in Jobs /\ In(low, v) /\ NoDuplicates(low')
        /\ \A k : In(low', k) <=> In(low, k) /\ k # v
    BY <2>1, LaneTail DEF TypeOK
  <2>3. ~In(high, v)
    BY <2>2, InType DEF TypeOK
  <2>4. /\ worker'[w].pc = "have" /\ worker'[w].job = v
        /\ \A x \in Workers : x # w => worker'[x] = worker[x]
    BY <2>1, <2>2, TakeFacts
  <2> HIDE DEF v
  <2>5. HandsFull' /\ RunOnce'
    BY <2>1, <2>2, <2>4
  <2>6. Unrun'
    BY <2>1, <2>2, <2>4
  <2>7. OnePlace'
    BY <2>1, <2>2, <2>3, <2>4
  <2>8. QED BY <2>5, <2>6, <2>7
<1>12. ASSUME NEW w \in Workers, Exit(w) PROVE Ownership'
  BY <1>12 DEF Exit, TypeOK, HandOf
<1>13. ASSUME NEW w \in Workers, Dispatch(w) PROVE Ownership'
  <2>1. /\ worker[w].pc = "have" /\ worker'[w].pc = "run" /\ worker'[w].job = worker[w].job
        /\ \A x \in Workers : x # w => worker'[x] = worker[x]
        /\ UNCHANGED <<high, low, submit, victim, runs>>
    BY <1>13, DispatchFacts DEF Dispatch
  <2>2. \A x \in Workers, j \in Jobs : InWorker(x, j)' <=> InWorker(x, j)
    BY <2>1
  <2>3. HandsFull' /\ RunOnce'
    BY <2>1
  <2>4. Unrun' /\ OnePlace'
    BY <2>1, <2>2
  <2>5. QED BY <2>3, <2>4
<1>14. ASSUME NEW w \in Workers, FinishRun(w) PROVE Ownership'
  <2> DEFINE v == worker[w].job
  <2>1. /\ InWorker(w, v) /\ v \in Jobs /\ worker[w].mode \in Outcomes
        /\ RunJob(v, worker[w].mode)
        /\ UNCHANGED <<high, low, submit, victim>>
    BY <1>14 DEF FinishRun, TypeOK, HandOf
  <2>2. ~Busy(w)' /\ \A x \in Workers : x # w => worker'[x] = worker[x]
    BY <1>14 DEF FinishRun, TypeOK, Idle
  <2>3. /\ runs[v] = <<>> /\ submit[v] = "true"
    BY <2>1
  <2>9. /\ Len(runs'[v]) = 1
        /\ \A k \in Jobs : k # v => runs'[k] = runs[k]
    BY <2>1, <2>3, RunJobFacts
  <2> HIDE DEF v
  <2>4. HandsFull'
    BY <2>1, <2>2
  <2>5. RunOnce'
    BY <2>1, <2>3, <2>9, RunOnceStep DEF Returned
  <2>6. Unrun'
    BY <2>1, <2>2, <2>3, <2>9
  <2>7. OnePlace'
    BY <2>1, <2>2
  <2>8. QED BY <2>4, <2>5, <2>6, <2>7
<1>15. CASE CloseStop \/ CloseWaited \/ CloseReturn \/ BumpEpoch \/ UNCHANGED vars
  BY <1>15 DEF CloseStop, CloseWaited, CloseReturn, BumpEpoch, vars
<1>16. CASE DrainHigh
  <2> DEFINE v == Head(high)
  <2>1. /\ high # <<>> /\ high' = Tail(high) /\ RunJob(v, "stale")
        /\ UNCHANGED <<low, submit, victim, worker>>
    BY <1>16 DEF DrainHigh
  <2>2. /\ v \in High /\ v \in Jobs /\ In(high, v) /\ NoDuplicates(high')
        /\ \A k : In(high', k) <=> In(high, k) /\ k # v
    BY <2>1, LaneTail DEF TypeOK
  <2>3. ~In(low, v)
    BY <2>2, InType DEF TypeOK
  <2>4. /\ runs[v] = <<>> /\ submit[v] = "true"
    BY <2>2
  <2>9. /\ Len(runs'[v]) = 1
        /\ \A k \in Jobs : k # v => runs'[k] = runs[k]
    BY <2>1, <2>2, <2>4, RunJobFacts DEF Outcomes
  <2> HIDE DEF v
  <2>5. HandsFull' /\ OnePlace'
    BY <2>1, <2>2
  <2>6. RunOnce'
    BY <2>1, <2>2, <2>4, <2>9, RunOnceStep DEF Returned
  <2>7. Unrun'
    BY <2>1, <2>2, <2>3, <2>4, <2>9
  <2>8. QED BY <2>5, <2>6, <2>7
<1>17. CASE DrainLow
  <2> DEFINE v == Head(low)
  <2>1. /\ low # <<>> /\ low' = Tail(low) /\ RunJob(v, "stale")
        /\ UNCHANGED <<high, submit, victim, worker>>
    BY <1>17 DEF DrainLow
  <2>2. /\ v \in Jobs \ High /\ v \in Jobs /\ In(low, v) /\ NoDuplicates(low')
        /\ \A k : In(low', k) <=> In(low, k) /\ k # v
    BY <2>1, LaneTail DEF TypeOK
  <2>3. ~In(high, v)
    BY <2>2, InType DEF TypeOK
  <2>4. /\ runs[v] = <<>> /\ submit[v] = "true"
    BY <2>2
  <2>9. /\ Len(runs'[v]) = 1
        /\ \A k \in Jobs : k # v => runs'[k] = runs[k]
    BY <2>1, <2>2, <2>4, RunJobFacts DEF Outcomes
  <2> HIDE DEF v
  <2>5. HandsFull' /\ OnePlace'
    BY <2>1, <2>2
  <2>6. RunOnce'
    BY <2>1, <2>2, <2>4, <2>9, RunOnceStep DEF Returned
  <2>7. Unrun'
    BY <2>1, <2>2, <2>3, <2>4, <2>9
  <2>8. QED BY <2>5, <2>6, <2>7
<1>18. QED
  BY <1>1, <1>2, <1>3, <1>4, <1>5, <1>6, <1>7, <1>8, <1>9, <1>10, <1>11, <1>12,
     <1>13, <1>14, <1>15, <1>16, <1>17
     DEF Next, Submit, WorkerStep, CloseStep, Quiescent

-----------------------------------------------------------------------------
(* The safety theorems about ownership *)

Inv1 == TypeOK /\ Ownership

LEMMA Inv1Step == Inv1 /\ [Next]_vars => Inv1'
  BY TypeStep, OwnershipStep DEF Inv1, Ownership

LEMMA Inv1Always == Spec => []Inv1
<1>1. Init => Inv1
  BY TypeInit, OwnershipInit DEF Inv1
<1>2. QED BY <1>1, Inv1Step, PTL DEF Spec

(* The types and the lane bounds hold for every pool size. *)
THEOREM TypeCorrect == Spec => []TypeOK
<1>1. Inv1 => TypeOK
  BY DEF Inv1
<1>2. QED BY <1>1, Inv1Always, PTL

(* "Run is invoked exactly once": no interleaving of workers, shedding     *)
(* producers, rejections and Close runs a job twice.                       *)
THEOREM RunsAtMostOnce == Spec => []AtMostOnce
<1>1. Inv1 => AtMostOnce
  <2> SUFFICES ASSUME Inv1, NEW j \in Jobs PROVE Len(runs[j]) <= 1
    BY DEF AtMostOnce
  <2>1. Len(runs[j]) \in {0, 1}
    BY DEF Inv1, Ownership, RunOnce
  <2>2. CASE Len(runs[j]) = 0
    BY <2>2
  <2>3. CASE Len(runs[j]) = 1
    BY <2>3
  <2>4. QED BY <2>1, <2>2, <2>3
<1>2. QED BY <1>1, Inv1Always, PTL

-----------------------------------------------------------------------------
(* Epochs: a stale verdict stays true, because epochs only grow. *)

Epochs ==
  /\ \A j \in Jobs : submit[j] # "none" =>
       /\ jobEpoch[j] = EpochAny <=> j \in Sticky
       /\ jobEpoch[j] <= epoch
  /\ \A w \in Workers : worker[w].pc = "run" /\ worker[w].mode = "stale" =>
       IsStale(worker[w].job)
  /\ \A k \in Jobs : submit[k] = "shedding" => victim[k] \notin High
  /\ closer = "open" <=> ~stop

LEMMA EpochsInit == Init => Epochs
  BY DEF Init, Epochs, Idle

LEMMA EpochsStep == Inv1 /\ Epochs /\ [Next]_vars => Epochs'
<1> SUFFICES ASSUME Inv1, Epochs, [Next]_vars PROVE Epochs'
  OBVIOUS
<1>0. TypeOK /\ HandsFull /\ Unrun
  BY DEF Inv1, Ownership
<1> USE PoolAssumption DEF Epochs, IsStale
<1>1. ASSUME NEW j \in Jobs, Build(j) PROVE Epochs'
  <2>1. /\ submit[j] = "none" /\ submit'[j] = "built"
        /\ jobEpoch'[j] = IF j \in Sticky THEN EpochAny ELSE epoch
        /\ \A k \in Jobs : k # j => submit'[k] = submit[k] /\ jobEpoch'[k] = jobEpoch[k]
        /\ UNCHANGED <<epoch, worker, victim, stop, closer>>
    BY <1>0, <1>1 DEF Build, Goto, TypeOK
  <2>2. jobEpoch'[j] <= epoch /\ (jobEpoch'[j] = EpochAny <=> j \in Sticky)
    BY <1>0, <2>1 DEF TypeOK, EpochAny
  <2>3. \A w \in Workers : worker[w].pc = "run" => worker[w].job \in Jobs /\ worker[w].job # j
    BY <1>0, <2>1 DEF HandsFull, Unrun, Busy, InWorker
  <2>4. QED BY <2>1, <2>2, <2>3
<1>2. ASSUME NEW j \in Jobs, Submit(j) PROVE Epochs'
  <2>1. CASE Reject(j, "built") \/ Reject(j, "open") \/ PassStopCheck(j)
             \/ EnqueueHigh(j) \/ EnqueueLow(j) \/ SeeLowFull(j)
    <3>1. /\ submit[j] # "none" /\ submit'[j] # "shedding"
          /\ \A k \in Jobs : k # j => submit'[k] = submit[k]
          /\ UNCHANGED <<epoch, jobEpoch, worker, victim, stop, closer>>
      BY <1>0, <2>1 DEF Reject, PassStopCheck, EnqueueHigh, EnqueueLow, SeeLowFull, Goto, TypeOK
    <3>2. QED BY <3>1
  <2>2. CASE PopVictim(j)
    <3>1. /\ submit[j] # "none"
          /\ submit'[j] = "shedding" => victim'[j] \notin High
          /\ \A k \in Jobs : k # j => submit'[k] = submit[k] /\ victim'[k] = victim[k]
          /\ UNCHANGED <<epoch, jobEpoch, worker, stop, closer>>
      BY <1>0, <2>2, TailFacts DEF PopVictim, Goto, TypeOK
    <3>2. QED BY <3>1
  <2>3. CASE ShedVictim(j)
    <3>1. /\ submit[j] # "none" /\ submit'[j] # "shedding"
          /\ \A k \in Jobs : k # j => submit'[k] = submit[k] /\ victim'[k] = victim[k]
          /\ UNCHANGED <<epoch, jobEpoch, worker, stop, closer>>
      BY <1>0, <2>3 DEF ShedVictim, Goto, TypeOK
    <3>2. QED BY <3>1
  <2>4. QED BY <1>2, <2>1, <2>2, <2>3 DEF Submit
<1>3. ASSUME NEW w \in Workers, WorkerStep(w) PROVE Epochs'
  <2>1. CASE TakeHigh(w) \/ TakeLow(w)
    <3>1. PICK j \in Jobs : Take(w, j)
      BY <1>0, <2>1, TailFacts DEF TakeHigh, TakeLow, TypeOK
    <3>2. QED BY <1>0, <2>1, <3>1, TakeFacts DEF TakeHigh, TakeLow
  <2>2. CASE FallThrough(w) \/ Exit(w) \/ FinishRun(w)
    <3>1. worker'[w].pc # "run"
      BY <1>0, <2>2 DEF FallThrough, Exit, FinishRun, TypeOK, HandOf, Idle
    <3>2. /\ \A x \in Workers : x # w => worker'[x] = worker[x]
          /\ UNCHANGED <<epoch, jobEpoch, submit, victim, stop, closer>>
      BY <1>0, <2>2 DEF FallThrough, Exit, FinishRun, TypeOK
    <3>3. QED BY <3>1, <3>2
  <2>3. CASE Dispatch(w)
    <3>1. /\ worker'[w].job = worker[w].job
          /\ worker'[w].mode = "stale" => IsStale(worker[w].job)
          /\ \A x \in Workers : x # w => worker'[x] = worker[x]
      <4>1. /\ worker'[w].job = worker[w].job
            /\ worker'[w].mode = IF IsStale(worker[w].job) THEN "stale" ELSE "fresh"
            /\ \A x \in Workers : x # w => worker'[x] = worker[x]
        BY <1>0, <2>3, DispatchFacts
      <4>2. CASE IsStale(worker[w].job)
        BY <4>1, <4>2
      <4>3. CASE ~IsStale(worker[w].job)
        BY <4>1, <4>3
      <4>4. QED BY <4>2, <4>3
    <3>2. UNCHANGED <<epoch, jobEpoch, submit, victim, stop, closer>>
      BY <2>3 DEF Dispatch
    <3>3. QED BY <3>1, <3>2
  <2>4. QED BY <1>3, <2>1, <2>2, <2>3 DEF WorkerStep
<1>4. CASE CloseStop \/ CloseStep \/ UNCHANGED vars
  BY <1>4 DEF CloseStop, CloseStep, CloseWaited, DrainHigh, DrainLow, CloseReturn, vars
<1>5. CASE BumpEpoch
  <2>1. /\ epoch' = epoch + 1 /\ epoch \in Nat
        /\ UNCHANGED <<jobEpoch, submit, worker, victim, stop, closer>>
    BY <1>0, <1>5 DEF BumpEpoch, TypeOK
  <2>2. \A j \in Jobs : jobEpoch[j] \in Int
    BY <1>0 DEF TypeOK, EpochAny
  <2>3. \A j \in Jobs : jobEpoch[j] <= epoch => jobEpoch[j] <= epoch' /\ jobEpoch[j] # epoch'
    BY <2>1, <2>2
  <2>4. \A w \in Workers : worker[w].pc = "run" =>
          worker[w].job \in Jobs /\ submit[worker[w].job] # "none"
    BY <1>0 DEF HandsFull, Unrun, Busy, InWorker
  <2>5. QED BY <2>1, <2>3, <2>4
<1>6. QED
  BY <1>1, <1>2, <1>3, <1>4, <1>5 DEF Next, Quiescent

Inv2 == Inv1 /\ Epochs

LEMMA Inv2Always == Spec => []Inv2
<1>1. Init => Epochs
  BY EpochsInit
<1>2. Spec => []Epochs
  BY <1>1, EpochsStep, Inv1Always, PTL DEF Spec
<1>3. QED BY <1>2, Inv1Always, PTL DEF Inv2

-----------------------------------------------------------------------------
(* High-priority work is never shed *)

LEMMA HighStep == Inv2 /\ HighNeverShed /\ [Next]_vars => HighNeverShed'
<1> SUFFICES ASSUME Inv2, HighNeverShed, [Next]_vars,
                    NEW h \in High, runs'[h] = <<"stale">>
             PROVE  stop' \/ IsStale(h)'
  BY DEF HighNeverShed
<1>0. TypeOK /\ Ownership /\ Epochs /\ Epochs' /\ h \in Jobs
  BY EpochsStep, PoolAssumption DEF Inv2, Inv1
<1>1. stop => stop'
  BY DEF Next, Build, Submit, Reject, PassStopCheck, EnqueueHigh, EnqueueLow, SeeLowFull,
         PopVictim, ShedVictim, WorkerStep, TakeHigh, FallThrough, TakeLow, Exit, Dispatch,
         FinishRun, CloseStop, CloseStep, CloseWaited, DrainHigh, DrainLow, CloseReturn,
         BumpEpoch, Quiescent, vars
<1>2. CASE runs'[h] = runs[h]
  <2>1. stop \/ IsStale(h)
    BY <1>2 DEF HighNeverShed
  <2>2. submit[h] # "none"
    BY <1>0, <1>2 DEF Ownership, RunOnce
  <2>3. ASSUME IsStale(h) PROVE IsStale(h)'
    <3>1. jobEpoch[h] \in Int /\ epoch \in Int /\ jobEpoch[h] < epoch /\ jobEpoch[h] # EpochAny
      BY <1>0, <2>2, <2>3 DEF Epochs, IsStale, TypeOK, EpochAny
    <3>2. epoch' = epoch \/ epoch' = epoch + 1
      BY DEF Next, Build, Submit, Reject, PassStopCheck, EnqueueHigh, EnqueueLow, SeeLowFull,
         PopVictim, ShedVictim, WorkerStep, TakeHigh, FallThrough, TakeLow, Exit, Dispatch,
         FinishRun, CloseStop, CloseStep, CloseWaited, DrainHigh, DrainLow, CloseReturn,
         BumpEpoch, Quiescent, vars
    <3>3. jobEpoch'[h] = jobEpoch[h]
      <4>1. CASE \E j \in Jobs : Build(j)
        BY <1>0, <2>2, <4>1 DEF Build, Goto, TypeOK
      <4>2. CASE UNCHANGED jobEpoch
        BY <4>2
      <4>3. QED
        BY <4>1, <4>2 DEF Next, Submit, Reject, PassStopCheck, EnqueueHigh, EnqueueLow,
         SeeLowFull, PopVictim, ShedVictim, WorkerStep, TakeHigh, FallThrough, TakeLow, Exit,
         Dispatch, FinishRun, CloseStop, CloseStep, CloseWaited, DrainHigh, DrainLow,
         CloseReturn, BumpEpoch, Quiescent, vars
    <3>4. QED BY <3>1, <3>2, <3>3 DEF IsStale
  <2>4. QED BY <1>1, <2>1, <2>3
<1>3. CASE runs'[h] # runs[h]
  <2>1. CASE \E j \in Jobs : Reject(j, "built") \/ Reject(j, "open")
    BY <1>1, <2>1 DEF Reject
  <2>2. CASE DrainHigh \/ DrainLow
    BY <1>0, <1>1, <2>2 DEF DrainHigh, DrainLow, Epochs
  <2>3. ASSUME NEW k \in Jobs, ShedVictim(k) PROVE FALSE
    BY <1>0, <1>3, <2>3, RunJobFacts
       DEF ShedVictim, Goto, Epochs, Ownership, HandsFull, Outcomes
  <2>4. ASSUME NEW w \in Workers, FinishRun(w) PROVE IsStale(h)'
    <3>1. /\ worker[w].job \in Jobs /\ worker[w].mode \in Outcomes /\ worker[w].pc = "run"
          /\ runs[worker[w].job] = <<>>
      BY <1>0, <2>4 DEF FinishRun, Ownership, HandsFull, Unrun, InWorker, Busy, TypeOK, HandOf
    <3>2. worker[w].job = h /\ runs'[h] = Append(runs[h], worker[w].mode)
      BY <1>0, <1>3, <2>4, <3>1, RunJobFacts DEF FinishRun
    <3>3. Append(<<>>, worker[w].mode) = <<worker[w].mode>>
      BY <3>1
    <3>4. worker[w].mode = "stale"
      BY <3>1, <3>2, <3>3
    <3>5. IsStale(h)
      BY <1>0, <3>1, <3>2, <3>4 DEF Epochs
    <3>6. QED BY <2>4, <3>5 DEF FinishRun, IsStale
  <2>5. QED
    BY <1>3, <2>1, <2>2, <2>3, <2>4
       DEF Next, Build, Submit, PassStopCheck, EnqueueHigh, EnqueueLow, SeeLowFull,
         PopVictim, WorkerStep, TakeHigh, FallThrough, TakeLow, Exit, Dispatch,
         CloseStop, CloseStep, CloseWaited, CloseReturn, BumpEpoch, Quiescent, vars
<1>4. QED BY <1>2, <1>3

(* "live-message work is never shed": for any lane sizes and any number of *)
(* producers, a high job is cancelled only by its epoch or by shutdown.    *)
THEOREM HighWorkIsNeverShed == Spec => []HighNeverShed
<1>1. Init => HighNeverShed
  BY PoolAssumption DEF Init, HighNeverShed
<1>2. QED BY <1>1, Inv2Always, HighStep, PTL DEF Spec

-----------------------------------------------------------------------------
(* Close: nothing accepted before it is forgotten *)

InHand(j) == \/ \E w \in Workers : InWorker(w, j)
             \/ \E k \in Jobs : InShedder(k, j)
Accounted(j) == In(high, j) \/ In(low, j) \/ InHand(j) \/ runs[j] # <<>>

(* An accepted job is somewhere until it is run; Close looks at the lanes  *)
(* only when no worker holds anything.                                     *)
Closing ==
  /\ \A j \in Jobs : submit[j] = "true" => Accounted(j)
  /\ \A j \in owed : submit[j] = "true"
  /\ closer \in {"draining", "closed"} => \A w \in Workers : worker[w].pc = "exited"
  /\ CloseHearsAll

(* A run job stays run. *)
LEMMA RunKept ==
  ASSUME TypeOK, NEW v \in Jobs, NEW mode \in Outcomes, RunJob(v, mode)
  PROVE  /\ runs'[v] # <<>>
         /\ \A j \in Jobs : runs[j] # <<>> => runs'[j] # <<>>
<1>1. runs[v] \in Seq(Outcomes) /\ runs'[v] = Append(runs[v], mode)
  BY RunJobFacts DEF TypeOK
<1>2. Append(runs[v], mode) # <<>>
  BY <1>1
<1>3. QED BY <1>1, <1>2, RunJobFacts

(* No step loses a job: it stays where it is, moves on, or is run. *)
LEMMA AccountedStep ==
  ASSUME Inv2, [Next]_vars, NEW j \in Jobs, Accounted(j)
  PROVE  Accounted(j)'
<1>0. TypeOK /\ Ownership /\ HandsFull /\ OnePlace
  BY DEF Inv2, Inv1, Ownership
<1> USE DEF Accounted, InHand, InWorker, InShedder, Busy
<1>1. ASSUME NEW k \in Jobs, EnqueueHigh(k) PROVE Accounted(j)'
  <2>1. ~In(high, k) /\ NoDuplicates(high) /\ high' = Append(high, k) /\ high \in Seq(High) /\ k \in High
    BY <1>0, <1>1 DEF EnqueueHigh, Goto, Ownership, Unrun, InCall, OnePlace, TypeOK
  <2>2. In(high, j) => In(high', j)
    BY <2>1, LaneAppend
  <2>3. /\ \A m \in Jobs : InShedder(m, j) => InShedder(m, j)'
        /\ UNCHANGED <<low, worker, runs>>
    BY <1>0, <1>1 DEF EnqueueHigh, Goto, TypeOK
  <2>4. QED BY <2>2, <2>3
<1>2. ASSUME NEW k \in Jobs, EnqueueLow(k) PROVE Accounted(j)'
  <2>1. ~In(low, k) /\ NoDuplicates(low) /\ low' = Append(low, k) /\ low \in Seq(Jobs \ High)
        /\ k \in Jobs \ High
    BY <1>0, <1>2 DEF EnqueueLow, Goto, Ownership, Unrun, InCall, OnePlace, TypeOK
  <2>2. In(low, j) => In(low', j)
    BY <2>1, LaneAppend
  <2>3. /\ \A m \in Jobs : InShedder(m, j) => InShedder(m, j)'
        /\ UNCHANGED <<high, worker, runs>>
    BY <1>0, <1>2 DEF EnqueueLow, Goto, TypeOK
  <2>4. QED BY <2>2, <2>3
<1>3. ASSUME NEW k \in Jobs, Build(k) \/ PassStopCheck(k) \/ SeeLowFull(k) PROVE Accounted(j)'
  <2>1. /\ \A m \in Jobs : InShedder(m, j) => InShedder(m, j)'
        /\ UNCHANGED <<high, low, worker, runs>>
    BY <1>0, <1>3 DEF Build, PassStopCheck, SeeLowFull, Goto, TypeOK
  <2>2. QED BY <2>1
<1>4. ASSUME NEW k \in Jobs, Reject(k, "built") \/ Reject(k, "open") PROVE Accounted(j)'
  <2>1. /\ \A m \in Jobs : InShedder(m, j) => InShedder(m, j)'
        /\ UNCHANGED <<high, low, worker>>
    BY <1>0, <1>4 DEF Reject, Goto, TypeOK
  <2>2. runs[j] # <<>> => runs'[j] # <<>>
    BY <1>0, <1>4, RunKept DEF Reject, Outcomes
  <2>3. QED BY <2>1, <2>2
<1>5. ASSUME NEW k \in Jobs, PopVictim(k) PROVE Accounted(j)'
  <2>1. CASE low = <<>>
    <3>1. /\ \A m \in Jobs : InShedder(m, j) => InShedder(m, j)'
          /\ UNCHANGED <<high, low, worker, runs>>
      BY <1>0, <1>5, <2>1 DEF PopVictim, Goto, TypeOK
    <3>2. QED BY <3>1
  <2>2. CASE low # <<>>
    <3>1. /\ submit[k] = "full" /\ submit'[k] = "shedding" /\ victim'[k] = Head(low)
          /\ \A m \in Jobs : m # k => submit'[m] = submit[m] /\ victim'[m] = victim[m]
          /\ low' = Tail(low) /\ UNCHANGED <<high, worker, runs>>
      BY <1>0, <1>5, <2>2 DEF PopVictim, Goto, TypeOK
    <3>2. \A m \in Jobs : InShedder(m, j) => InShedder(m, j)'
      BY <3>1
    <3>3. In(low, j) => In(low', j) \/ j = Head(low)
      BY <1>0, <2>2, <3>1, LaneTail DEF OnePlace, TypeOK
    <3>4. QED BY <3>1, <3>2, <3>3
  <2>3. QED BY <2>1, <2>2
<1>6. ASSUME NEW k \in Jobs, ShedVictim(k) PROVE Accounted(j)'
  <2>1. /\ victim[k] \in Jobs /\ RunJob(victim[k], "stale")
        /\ \A m \in Jobs : m # k /\ InShedder(m, j) => InShedder(m, j)'
        /\ UNCHANGED <<high, low, worker>>
    BY <1>0, <1>6 DEF ShedVictim, Goto, TypeOK, HandsFull
  <2>2. runs'[victim[k]] # <<>> /\ (runs[j] # <<>> => runs'[j] # <<>>)
    BY <1>0, <2>1, RunKept DEF Outcomes
  <2>3. QED BY <2>1, <2>2
<1>7. ASSUME NEW w \in Workers, TakeHigh(w) PROVE Accounted(j)'
  <2>1. /\ high # <<>> /\ high' = Tail(high) /\ Take(w, Head(high)) /\ Head(high) \in Jobs
        /\ ~Busy(w) /\ UNCHANGED <<low, submit, victim, runs>>
    BY <1>0, <1>7, TailFacts, PoolAssumption DEF TakeHigh, TypeOK
  <2>2. /\ Busy(w)' /\ worker'[w].job = Head(high)
        /\ \A x \in Workers : x # w => worker'[x] = worker[x]
    BY <1>0, <2>1, TakeFacts
  <2>3. In(high, j) => In(high', j) \/ j = Head(high)
    BY <1>0, <2>1, LaneTail DEF OnePlace, TypeOK
  <2>4. QED BY <2>1, <2>2, <2>3
<1>8. ASSUME NEW w \in Workers, TakeLow(w) PROVE Accounted(j)'
  <2>1. /\ low # <<>> /\ low' = Tail(low) /\ Take(w, Head(low)) /\ Head(low) \in Jobs
        /\ ~Busy(w) /\ UNCHANGED <<high, submit, victim, runs>>
    BY <1>0, <1>8, TailFacts DEF TakeLow, TypeOK
  <2>2. /\ Busy(w)' /\ worker'[w].job = Head(low)
        /\ \A x \in Workers : x # w => worker'[x] = worker[x]
    BY <1>0, <2>1, TakeFacts
  <2>3. In(low, j) => In(low', j) \/ j = Head(low)
    BY <1>0, <2>1, LaneTail DEF OnePlace, TypeOK
  <2>4. QED BY <2>1, <2>2, <2>3
<1>9. ASSUME NEW w \in Workers, FallThrough(w) \/ Exit(w) PROVE Accounted(j)'
  <2>1. /\ ~Busy(w) /\ \A x \in Workers : x # w => worker'[x] = worker[x]
        /\ UNCHANGED <<high, low, submit, victim, runs>>
    BY <1>0, <1>9 DEF FallThrough, Exit, TypeOK
  <2>2. QED BY <2>1
<1>10. ASSUME NEW w \in Workers, Dispatch(w) PROVE Accounted(j)'
  <2>1. /\ Busy(w)' /\ worker'[w].job = worker[w].job
        /\ \A x \in Workers : x # w => worker'[x] = worker[x]
        /\ UNCHANGED <<high, low, submit, victim, runs>>
    BY <1>0, <1>10, DispatchFacts DEF Dispatch
  <2>2. QED BY <2>1
<1>11. ASSUME NEW w \in Workers, FinishRun(w) PROVE Accounted(j)'
  <2>1. /\ worker[w].job \in Jobs /\ worker[w].mode \in Outcomes
        /\ RunJob(worker[w].job, worker[w].mode)
        /\ \A x \in Workers : x # w => worker'[x] = worker[x]
        /\ UNCHANGED <<high, low, submit, victim>>
    BY <1>0, <1>11 DEF FinishRun, TypeOK, HandOf, HandsFull
  <2>2. runs'[worker[w].job] # <<>> /\ (runs[j] # <<>> => runs'[j] # <<>>)
    BY <1>0, <2>1, RunKept
  <2>3. QED BY <2>1, <2>2
<1>12. CASE DrainHigh
  <2>1. /\ high # <<>> /\ high' = Tail(high) /\ Head(high) \in Jobs /\ RunJob(Head(high), "stale")
        /\ UNCHANGED <<low, worker, submit, victim>>
    BY <1>0, <1>12, TailFacts, PoolAssumption DEF DrainHigh, TypeOK
  <2>2. runs'[Head(high)] # <<>> /\ (runs[j] # <<>> => runs'[j] # <<>>)
    BY <1>0, <2>1, RunKept DEF Outcomes
  <2>3. In(high, j) => In(high', j) \/ j = Head(high)
    BY <1>0, <2>1, LaneTail DEF OnePlace, TypeOK
  <2>4. QED BY <2>1, <2>2, <2>3
<1>13. CASE DrainLow
  <2>1. /\ low # <<>> /\ low' = Tail(low) /\ Head(low) \in Jobs /\ RunJob(Head(low), "stale")
        /\ UNCHANGED <<high, worker, submit, victim>>
    BY <1>0, <1>13, TailFacts DEF DrainLow, TypeOK
  <2>2. runs'[Head(low)] # <<>> /\ (runs[j] # <<>> => runs'[j] # <<>>)
    BY <1>0, <2>1, RunKept DEF Outcomes
  <2>3. In(low, j) => In(low', j) \/ j = Head(low)
    BY <1>0, <2>1, LaneTail DEF OnePlace, TypeOK
  <2>4. QED BY <2>1, <2>2, <2>3
<1>14. CASE CloseStop \/ CloseWaited \/ CloseReturn \/ BumpEpoch \/ UNCHANGED vars
  BY <1>14 DEF CloseStop, CloseWaited, CloseReturn, BumpEpoch, vars
<1>15. QED
  BY <1>1, <1>2, <1>3, <1>4, <1>5, <1>6, <1>7, <1>8, <1>9, <1>10, <1>11, <1>12, <1>13, <1>14
     DEF Next, Submit, WorkerStep, CloseStep, Quiescent

LEMMA ClosingStep == Inv2 /\ Closing /\ [Next]_vars => Closing'
<1> SUFFICES ASSUME Inv2, Closing, [Next]_vars PROVE Closing'
  OBVIOUS
<1>0. TypeOK /\ Ownership /\ HandsFull
  BY DEF Inv2, Inv1, Ownership
<1>1. ASSUME NEW j \in Jobs PROVE submit[j] = "true" => submit'[j] = "true"
  BY <1>0 DEF Next, Goto, TypeOK, Build, Submit, Reject, PassStopCheck, EnqueueHigh, EnqueueLow, SeeLowFull,
         PopVictim, ShedVictim, WorkerStep, TakeHigh, FallThrough, TakeLow, Exit, Dispatch,
         FinishRun, CloseStop, CloseStep, CloseWaited, DrainHigh, DrainLow, CloseReturn,
         BumpEpoch, Quiescent, vars
<1>2. ASSUME NEW j \in Jobs, submit'[j] = "true" PROVE Accounted(j)'
  <2>1. CASE submit[j] = "true"
    BY <2>1, AccountedStep DEF Closing
  <2>2. CASE submit[j] # "true"
    <3>1. EnqueueHigh(j) \/ EnqueueLow(j)
      BY <1>0, <1>2, <2>2 DEF Next, Goto, TypeOK, Build, Submit, Reject, PassStopCheck, EnqueueHigh, EnqueueLow, SeeLowFull,
         PopVictim, ShedVictim, WorkerStep, TakeHigh, FallThrough, TakeLow, Exit, Dispatch,
         FinishRun, CloseStop, CloseStep, CloseWaited, DrainHigh, DrainLow, CloseReturn,
         BumpEpoch, Quiescent, vars
    <3>2. CASE EnqueueHigh(j)
      <4>1. ~In(high, j) /\ NoDuplicates(high) /\ high' = Append(high, j) /\ high \in Seq(High)
            /\ j \in High
        BY <1>0, <3>2 DEF EnqueueHigh, Goto, Ownership, Unrun, InCall, OnePlace, TypeOK
      <4>2. In(high', j)
        BY <4>1, LaneAppend
      <4>3. QED BY <4>2 DEF Accounted
    <3>3. CASE EnqueueLow(j)
      <4>1. ~In(low, j) /\ NoDuplicates(low) /\ low' = Append(low, j) /\ low \in Seq(Jobs \ High)
            /\ j \in Jobs \ High
        BY <1>0, <3>3 DEF EnqueueLow, Goto, Ownership, Unrun, InCall, OnePlace, TypeOK
      <4>2. In(low', j)
        BY <4>1, LaneAppend
      <4>3. QED BY <4>2 DEF Accounted
    <3>4. QED BY <3>1, <3>2, <3>3
  <2>3. QED BY <2>1, <2>2
<1>3. ASSUME NEW j \in owed' PROVE submit'[j] = "true"
  <2>1. owed' = owed \/ (owed' = {k \in Jobs : submit[k] = "true"} /\ UNCHANGED submit)
    BY DEF Next, Build, Submit, Reject, PassStopCheck, EnqueueHigh, EnqueueLow, SeeLowFull,
         PopVictim, ShedVictim, WorkerStep, TakeHigh, FallThrough, TakeLow, Exit, Dispatch,
         FinishRun, CloseStop, CloseStep, CloseWaited, DrainHigh, DrainLow, CloseReturn,
         BumpEpoch, Quiescent, vars
  <2>2. QED BY <1>0, <1>1, <1>3, <2>1 DEF Closing, TypeOK
<1>4. ASSUME closer' \in {"draining", "closed"}, NEW w \in Workers
      PROVE  worker'[w].pc = "exited"
  <2>1. CASE closer \in {"draining", "closed"}
    <3>1. \A x \in Workers : worker[x].pc = "exited"
      BY <2>1 DEF Closing
    <3>2. worker' = worker
      BY <3>1 DEF Next, Build, Submit, Reject, PassStopCheck, EnqueueHigh, EnqueueLow, SeeLowFull,
         PopVictim, ShedVictim, WorkerStep, TakeHigh, FallThrough, TakeLow, Exit, Dispatch,
         FinishRun, CloseStop, CloseStep, CloseWaited, DrainHigh, DrainLow, CloseReturn,
         BumpEpoch, Quiescent, vars
    <3>3. QED BY <3>1, <3>2
  <2>2. CASE closer \notin {"draining", "closed"}
    <3>1. CloseWaited
      BY <1>4, <2>2 DEF Next, Build, Submit, Reject, PassStopCheck, EnqueueHigh, EnqueueLow, SeeLowFull,
         PopVictim, ShedVictim, WorkerStep, TakeHigh, FallThrough, TakeLow, Exit, Dispatch,
         FinishRun, CloseStop, CloseStep, CloseWaited, DrainHigh, DrainLow, CloseReturn,
         BumpEpoch, Quiescent, vars
    <3>2. QED BY <3>1 DEF CloseWaited
  <2>3. QED BY <2>1, <2>2
<1>5. ASSUME closer' = "closed", NEW j \in owed'
      PROVE  runs'[j] # <<>> \/ \E k \in Jobs : InShedder(k, j)'
  <2>1. CASE closer = "closed"
    <3>1. /\ owed' = owed /\ j \in Jobs /\ j \in owed
          /\ runs[j] # <<>> \/ \E k \in Jobs : InShedder(k, j)
          /\ \A x \in Workers : worker[x].pc = "exited"
      <4>1. owed' = owed
        BY <2>1 DEF Next, Build, Submit, Reject, PassStopCheck, EnqueueHigh, EnqueueLow, SeeLowFull,
         PopVictim, ShedVictim, WorkerStep, TakeHigh, FallThrough, TakeLow, Exit, Dispatch,
         FinishRun, CloseStop, CloseStep, CloseWaited, DrainHigh, DrainLow, CloseReturn,
         BumpEpoch, Quiescent, vars
      <4>2. QED BY <1>0, <1>5, <2>1, <4>1 DEF Closing, CloseHearsAll, InShedder, TypeOK
    <3>2. CASE \E k \in Jobs : ShedVictim(k)
      <4>1. PICK k \in Jobs : ShedVictim(k)
        BY <3>2
      <4>2. /\ victim[k] \in Jobs /\ RunJob(victim[k], "stale")
            /\ \A m \in Jobs : m # k /\ InShedder(m, j) => InShedder(m, j)'
            /\ InShedder(k, j) => j = victim[k]
        BY <1>0, <4>1 DEF ShedVictim, Goto, TypeOK, HandsFull, InShedder
      <4>3. runs'[victim[k]] # <<>> /\ (runs[j] # <<>> => runs'[j] # <<>>)
        BY <1>0, <3>1, <4>2, RunKept DEF Outcomes
      <4>4. QED BY <3>1, <4>2, <4>3
    <3>3. CASE \E k \in Jobs : Reject(k, "built") \/ Reject(k, "open")
      <4>1. \A m \in Jobs : InShedder(m, j) => InShedder(m, j)'
        BY <1>0, <3>3 DEF Reject, Goto, TypeOK, InShedder
      <4>2. runs[j] # <<>> => runs'[j] # <<>>
        BY <1>0, <3>1, <3>3, RunKept DEF Reject, Outcomes
      <4>3. QED BY <3>1, <4>1, <4>2
    <3>4. CASE UNCHANGED runs /\ \A m \in Jobs : InShedder(m, j) => InShedder(m, j)'
      BY <3>1, <3>4
    <3>5. QED
      <4>1. ASSUME NEW k \in Jobs,
                   Build(k) \/ PassStopCheck(k) \/ EnqueueHigh(k) \/ EnqueueLow(k)
                     \/ SeeLowFull(k) \/ PopVictim(k)
            PROVE  UNCHANGED runs /\ \A m \in Jobs : InShedder(m, j) => InShedder(m, j)'
        BY <1>0, <4>1 DEF Build, PassStopCheck, EnqueueHigh, EnqueueLow, SeeLowFull, PopVictim,
                          Goto, TypeOK, InShedder
      <4>2. ASSUME NEW w \in Workers, WorkerStep(w) PROVE FALSE
        BY <3>1, <4>2 DEF WorkerStep, TakeHigh, FallThrough, TakeLow, Exit, Dispatch, FinishRun
      <4>3. ASSUME BumpEpoch \/ Quiescent \/ UNCHANGED vars
            PROVE  UNCHANGED runs /\ \A m \in Jobs : InShedder(m, j) => InShedder(m, j)'
        BY <4>3 DEF BumpEpoch, Quiescent, vars, InShedder
      <4>4. ASSUME CloseStop \/ CloseStep PROVE FALSE
        BY <2>1, <4>4 DEF CloseStop, CloseStep, CloseWaited, DrainHigh, DrainLow, CloseReturn
      <4>5. QED
        BY <3>2, <3>3, <3>4, <4>1, <4>2, <4>3, <4>4 DEF Next, Submit
  <2>2. CASE closer # "closed"
    <3>1. CloseReturn
      BY <1>5, <2>2 DEF Next, Build, Submit, Reject, PassStopCheck, EnqueueHigh, EnqueueLow, SeeLowFull,
         PopVictim, ShedVictim, WorkerStep, TakeHigh, FallThrough, TakeLow, Exit, Dispatch,
         FinishRun, CloseStop, CloseStep, CloseWaited, DrainHigh, DrainLow, CloseReturn,
         BumpEpoch, Quiescent, vars
    <3>2. /\ high = <<>> /\ low = <<>> /\ j \in Jobs /\ submit[j] = "true"
          /\ \A w \in Workers : ~Busy(w)
          /\ UNCHANGED <<submit, victim, runs>>
      BY <1>0, <1>5, <3>1 DEF CloseReturn, Closing, Busy, TypeOK
    <3>3. Len(high) = 0 /\ Len(low) = 0
      BY <3>2
    <3>4. ~In(high, j) /\ ~In(low, j)
      BY <3>3 DEF In
    <3>5. Accounted(j)
      BY <3>2 DEF Closing
    <3>6. QED BY <3>2, <3>4, <3>5 DEF Accounted, InHand, InWorker, InShedder
  <2>3. QED BY <2>1, <2>2
<1>6. QED
  BY <1>2, <1>3, <1>4, <1>5 DEF Closing, CloseHearsAll, InShedder

(* "no caller is left waiting": every job accepted before Close began has  *)
(* been run when Close returns, or a producer is about to cancel it.       *)
THEOREM CloseHearsEveryone == Spec => []CloseHearsAll
<1>1. Init => Closing
  BY DEF Init, Closing, CloseHearsAll
<1>2. Spec => []Closing
  BY <1>1, Inv2Always, ClosingStep, PTL DEF Spec
<1>3. Closing => CloseHearsAll
  BY DEF Closing
<1>4. QED BY <1>2, <1>3, PTL

-----------------------------------------------------------------------------
(* The pool implements JobService *)

Running(j) == \E w \in Workers : /\ worker[w].pc = "run" /\ worker[w].job = j
                                 /\ worker[w].mode = "fresh"
Revoked == {j \in Jobs \ Sticky : submit[j] # "none" /\ jobEpoch[j] # epoch}

(* A job whose pool state does not change keeps its abstract phase. *)
LEMMA PhaseFrame ==
  ASSUME NEW j \in Jobs, runs'[j] = runs[j], Running(j)' <=> Running(j),
         submit'[j] = "none" <=> submit[j] = "none"
  PROVE  PhaseOf(j)' = PhaseOf(j)
  BY DEF PhaseOf, Running

(* Running a job for the first time moves it to the outcome's phase. *)
LEMMA PhaseRun ==
  ASSUME TypeOK, NEW j \in Jobs, NEW mode \in Outcomes, RunJob(j, mode), runs[j] = <<>>
  PROVE  PhaseOf(j)' = mode
<1>1. runs'[j] = <<mode>>
  BY RunJobFacts DEF TypeOK
<1>2. runs'[j] # <<>> /\ runs'[j][Len(runs'[j])] = mode
  BY <1>1
<1>3. QED BY <1>2 DEF PhaseOf

(* An accepted or held job that no worker runs fresh is pending. *)
LEMMA PhasePending ==
  ASSUME NEW j \in Jobs, runs[j] = <<>>, submit[j] # "none", ~Running(j)
  PROVE  PhaseOf(j) = "pending"
  BY DEF PhaseOf, Running

LEMMA MoveIs ==
  ASSUME NEW v \in Jobs, NEW from, NEW to, PhaseOf(v) = from, PhaseOf(v)' = to,
         \A k \in Jobs : k # v => PhaseOf(k)' = PhaseOf(k), Revoked' = Revoked
  PROVE  Service!Move(v, from, to)
  BY DEF Service!Move, Revoked

LEMMA StutterIs ==
  ASSUME \A k \in Jobs : PhaseOf(k)' = PhaseOf(k), Revoked' = Revoked
  PROVE  UNCHANGED Service!vars
  BY DEF Service!vars, Revoked

(* A cancellation: the job is run stale, nothing else moves. *)
LEMMA CancelIs ==
  ASSUME Inv2, NEW v \in Jobs, RunJob(v, "stale"), runs[v] = <<>>, submit[v] # "none",
         ~Running(v), submit'[v] # "none",
         \A k \in Jobs : k # v => (submit'[k] = "none" <=> submit[k] = "none"),
         \A k \in Jobs : Running(k)' <=> Running(k),
         UNCHANGED <<epoch, jobEpoch>>
  PROVE  Service!Next
<1>0. TypeOK /\ "stale" \in Outcomes
  BY DEF Inv2, Inv1, Outcomes
<1>1. PhaseOf(v) = "pending" /\ PhaseOf(v)' = "stale"
  BY <1>0, PhasePending, PhaseRun
<1>2. ASSUME NEW k \in Jobs, k # v PROVE PhaseOf(k)' = PhaseOf(k)
  <2>1. runs'[k] = runs[k]
    BY <1>0, <1>2, RunJobFacts
  <2>2. QED BY <1>2, <2>1, PhaseFrame
<1>3. Revoked' = Revoked
  BY DEF Revoked
<1>4. Service!Move(v, "pending", "stale")
  BY <1>1, <1>2, <1>3, MoveIs
<1>5. QED BY <1>4 DEF Service!Next, Service!Cancel

LEMMA ServiceInit == Init => Service!Init
<1> SUFFICES ASSUME Init PROVE Service!Init
  OBVIOUS
<1>1. \A j \in Jobs : PhaseOf(j) = "idle"
  BY DEF Init, PhaseOf, Idle
<1>2. {j \in Jobs \ Sticky : submit[j] # "none" /\ jobEpoch[j] # epoch} = {}
  BY DEF Init
<1>3. QED BY <1>1, <1>2 DEF Service!Init

LEMMA ServiceStep == Inv2 /\ [Next]_vars => [Service!Next]_(Service!vars)
<1> SUFFICES ASSUME Inv2, [Next]_vars PROVE Service!Next \/ UNCHANGED Service!vars
  OBVIOUS
<1>0. TypeOK /\ Ownership /\ HandsFull /\ OnePlace /\ Unrun /\ RunOnce /\ Epochs
  BY DEF Inv2, Inv1, Ownership
<1>a. \A j \in Jobs : Running(j) => \E w \in Workers : InWorker(w, j) /\ worker[w].pc = "run"
  BY DEF Running, InWorker, Busy
<1>b. \A j \in Jobs : Running(j) => submit[j] = "true" /\ runs[j] = <<>>
  BY <1>0, <1>a DEF Unrun
<1>1. ASSUME NEW j \in Jobs, Build(j) PROVE Service!Next
  <2>1. /\ submit[j] = "none" /\ submit'[j] = "built" /\ runs[j] = <<>>
        /\ j \notin Sticky => jobEpoch'[j] = epoch
        /\ \A k \in Jobs : k # j => submit'[k] = submit[k] /\ jobEpoch'[k] = jobEpoch[k]
        /\ UNCHANGED <<epoch, worker, runs>>
    BY <1>0, <1>1 DEF Build, Goto, TypeOK, RunOnce
  <2>2. PhaseOf(j) = "idle" /\ PhaseOf(j)' = "pending"
    BY <1>b, <2>1 DEF PhaseOf, Running
  <2>3. ASSUME NEW k \in Jobs, k # j PROVE PhaseOf(k)' = PhaseOf(k)
    BY <2>1, <2>3, PhaseFrame DEF Running
  <2>4. Revoked' = Revoked
    BY <2>1 DEF Revoked
  <2>5. Service!Move(j, "idle", "pending")
    BY <2>2, <2>3, <2>4, MoveIs
  <2>6. QED BY <2>5 DEF Service!Next, Service!Hand
<1>2. ASSUME NEW j \in Jobs, Reject(j, "built") \/ Reject(j, "open") PROVE Service!Next
  <2>1. /\ RunJob(j, "stale") /\ submit[j] \in InCall /\ submit'[j] = "false"
        /\ \A k \in Jobs : k # j => submit'[k] = submit[k]
        /\ UNCHANGED <<epoch, jobEpoch, worker>>
    BY <1>0, <1>2 DEF Reject, Goto, TypeOK, InCall
  <2>2. runs[j] = <<>> /\ ~Running(j) /\ submit[j] # "none"
    BY <1>0, <1>b, <2>1 DEF RunOnce, InCall
  <2>3. \A k \in Jobs : Running(k)' <=> Running(k)
    BY <2>1 DEF Running
  <2>4. QED BY <2>1, <2>2, <2>3, CancelIs
<1>3. ASSUME NEW j \in Jobs,
             PassStopCheck(j) \/ EnqueueHigh(j) \/ EnqueueLow(j) \/ SeeLowFull(j) \/ PopVictim(j)
      PROVE  UNCHANGED Service!vars
  <2>1. /\ submit[j] # "none" /\ submit'[j] # "none"
        /\ \A k \in Jobs : k # j => submit'[k] = submit[k]
        /\ UNCHANGED <<epoch, jobEpoch, worker, runs>>
    BY <1>0, <1>3 DEF PassStopCheck, EnqueueHigh, EnqueueLow, SeeLowFull, PopVictim, Goto, TypeOK
  <2>2. \A k \in Jobs : PhaseOf(k)' = PhaseOf(k)
    BY <2>1, PhaseFrame DEF Running
  <2>3. Revoked' = Revoked
    BY <2>1 DEF Revoked
  <2>4. QED BY <2>2, <2>3, StutterIs
<1>4. ASSUME NEW j \in Jobs, ShedVictim(j) PROVE Service!Next
  <2> DEFINE v == victim[j]
  <2>1. /\ v \in Jobs /\ InShedder(j, v) /\ RunJob(v, "stale")
        /\ submit[j] # "none" /\ submit'[j] # "none"
        /\ \A k \in Jobs : k # j => submit'[k] = submit[k]
        /\ UNCHANGED <<epoch, jobEpoch, worker>>
    BY <1>0, <1>4 DEF ShedVictim, Goto, TypeOK, HandsFull, InShedder
  <2>2. runs[v] = <<>> /\ submit[v] = "true"
    BY <1>0, <2>1 DEF Unrun
  <2>3. ~Running(v)
    BY <1>0, <1>a, <2>1 DEF OnePlace
  <2>4. \A k \in Jobs : Running(k)' <=> Running(k)
    BY <2>1 DEF Running
  <2>5. \A k \in Jobs : submit'[k] = "none" <=> submit[k] = "none"
    BY <2>1
  <2>6. submit'[v] # "none" /\ submit[v] # "none"
    BY <2>1, <2>2, <2>5
  <2>7. QED BY <2>1, <2>2, <2>3, <2>4, <2>5, <2>6, CancelIs
<1>5. ASSUME NEW w \in Workers,
             TakeHigh(w) \/ TakeLow(w) \/ FallThrough(w) \/ Exit(w)
      PROVE  UNCHANGED Service!vars
  <2>1. /\ worker[w].pc # "run" /\ worker'[w].pc # "run"
        /\ \A x \in Workers : x # w => worker'[x] = worker[x]
        /\ UNCHANGED <<epoch, jobEpoch, submit, runs>>
    BY <1>0, <1>5 DEF TakeHigh, TakeLow, Take, FallThrough, Exit, TypeOK, HandOf
  <2>2. \A k \in Jobs : Running(k)' <=> Running(k)
    BY <2>1 DEF Running
  <2>3. \A k \in Jobs : PhaseOf(k)' = PhaseOf(k)
    BY <2>1, <2>2, PhaseFrame
  <2>4. Revoked' = Revoked
    BY <2>1 DEF Revoked
  <2>5. QED BY <2>3, <2>4, StutterIs
<1>6. ASSUME NEW w \in Workers, Dispatch(w) PROVE Service!Next \/ UNCHANGED Service!vars
  <2>0. PICK v \in Jobs : v = worker[w].job
    BY <1>0, <1>6 DEF Dispatch, HandsFull, Busy
  <2>1. /\ worker[w].pc = "have" /\ worker'[w].pc = "run" /\ worker'[w].job = v
        /\ \A x \in Workers : x # w => worker'[x] = worker[x]
        /\ UNCHANGED <<epoch, jobEpoch, submit, runs>>
    BY <1>0, <1>6, <2>0, DispatchFacts DEF Dispatch
  <2>2. worker'[w].mode = IF IsStale(v) THEN "stale" ELSE "fresh"
    BY <1>0, <1>6, <2>0, DispatchFacts
  <2>3. /\ v \in Jobs /\ InWorker(w, v) /\ runs[v] = <<>> /\ submit[v] = "true"
        /\ \A x \in Workers : InWorker(x, v) => x = w
    BY <1>0, <2>0, <2>1 DEF HandsFull, Unrun, OnePlace, InWorker, Busy
  <2>4. ~Running(v)
    BY <1>a, <2>1, <2>3
  <2>5. Revoked' = Revoked
    BY <2>1 DEF Revoked
  <2>6. ASSUME NEW k \in Jobs, k # v PROVE PhaseOf(k)' = PhaseOf(k)
    <3>1. Running(k)' <=> Running(k)
      BY <2>0, <2>1, <2>6 DEF Running
    <3>2. QED BY <2>1, <3>1, PhaseFrame
  <2>7. CASE IsStale(v)
    <3>1. ~Running(v)'
      <4>1. worker'[w].mode = "stale"
        BY <2>2, <2>7
      <4>2. \A x \in Workers : x # w => ~(worker'[x].pc = "run" /\ worker'[x].job = v)
        BY <2>1, <2>3 DEF InWorker, Busy
      <4>3. QED BY <4>1, <4>2 DEF Running
    <3>2. PhaseOf(v)' = PhaseOf(v)
      BY <2>1, <2>3, <2>4, <3>1, PhaseFrame
    <3>3. QED BY <2>5, <2>6, <3>2, StutterIs
  <2>8. CASE ~IsStale(v)
    <3>1. Running(v)'
      BY <2>1, <2>2, <2>8 DEF Running
    <3>2. PhaseOf(v) = "pending" /\ PhaseOf(v)' = "running"
      BY <2>1, <2>3, <2>4, <3>1, PhasePending DEF PhaseOf, Running
    <3>3. v \notin Revoked
      BY <1>0, <2>3, <2>8 DEF Revoked, IsStale, Epochs
    <3>4. Service!Move(v, "pending", "running")
      BY <2>3, <2>5, <2>6, <3>2, MoveIs
    <3>5. Service!Start(v)
      BY <3>3, <3>4 DEF Service!Start, Revoked
    <3>6. QED BY <2>3, <3>5 DEF Service!Next
  <2>9. QED BY <2>7, <2>8
<1>7. ASSUME NEW w \in Workers, FinishRun(w) PROVE Service!Next
  <2>0. PICK v \in Jobs, m \in Outcomes : v = worker[w].job /\ m = worker[w].mode
    BY <1>0, <1>7 DEF FinishRun, HandsFull, Busy, TypeOK, HandOf
  <2>1. /\ worker[w].pc = "run" /\ v \in Jobs /\ InWorker(w, v) /\ m \in Outcomes
        /\ RunJob(v, m) /\ worker'[w].pc = "loop"
        /\ \A x \in Workers : x # w => worker'[x] = worker[x]
        /\ UNCHANGED <<epoch, jobEpoch, submit>>
    BY <1>0, <1>7, <2>0 DEF FinishRun, InWorker, Busy, TypeOK, Idle
  <2>2. /\ runs[v] = <<>> /\ submit[v] = "true"
        /\ \A x \in Workers : InWorker(x, v) => x = w
    BY <1>0, <2>1 DEF Unrun, OnePlace
  <2>3. Running(v) <=> m = "fresh"
    BY <2>0, <2>1, <2>2 DEF Running, InWorker, Busy
  <2>4. \A k \in Jobs : k # v => (Running(k)' <=> Running(k))
    BY <2>0, <2>1 DEF Running
  <2>5. Revoked' = Revoked
    BY <2>1 DEF Revoked
  <2>6. PhaseOf(v)' = m
    BY <1>0, <2>1, <2>2, PhaseRun
  <2>7. ASSUME NEW k \in Jobs, k # v PROVE PhaseOf(k)' = PhaseOf(k)
    <3>1. runs'[k] = runs[k]
      BY <1>0, <2>1, <2>7, RunJobFacts
    <3>2. QED BY <2>1, <2>4, <2>7, <3>1, PhaseFrame
  <2>8. CASE m = "fresh"
    <3>1. PhaseOf(v) = "running"
      BY <2>2, <2>3, <2>8 DEF PhaseOf, Running
    <3>2. Service!Move(v, "running", "fresh")
      BY <2>1, <2>5, <2>6, <2>7, <2>8, <3>1, MoveIs
    <3>3. QED BY <2>1, <3>2 DEF Service!Next, Service!Finish
  <2>9. CASE m = "stale"
    <3>1. PhaseOf(v) = "pending"
      BY <2>1, <2>2, <2>3, <2>9, PhasePending
    <3>2. Service!Move(v, "pending", "stale")
      BY <2>1, <2>5, <2>6, <2>7, <2>9, <3>1, MoveIs
    <3>3. QED BY <2>1, <3>2 DEF Service!Next, Service!Cancel
  <2>10. QED BY <2>1, <2>8, <2>9 DEF Outcomes
<1>8. ASSUME DrainHigh \/ DrainLow PROVE Service!Next
  <2>1. PICK v \in Jobs : (In(high, v) \/ In(low, v)) /\ RunJob(v, "stale")
    BY <1>0, <1>8, LaneTail, PoolAssumption DEF DrainHigh, DrainLow, TypeOK, OnePlace
  <2>2. runs[v] = <<>> /\ submit[v] = "true" /\ ~Running(v)
    BY <1>0, <1>a, <2>1 DEF Unrun, OnePlace
  <2>3. UNCHANGED <<epoch, jobEpoch, submit, worker>>
    BY <1>8 DEF DrainHigh, DrainLow
  <2>4. \A k \in Jobs : Running(k)' <=> Running(k)
    BY <2>3 DEF Running
  <2>5. QED BY <2>1, <2>2, <2>3, <2>4, CancelIs
<1>9. CASE CloseStop \/ CloseWaited \/ CloseReturn \/ UNCHANGED vars
  <2>1. UNCHANGED <<epoch, jobEpoch, submit, worker, runs>>
    BY <1>9 DEF CloseStop, CloseWaited, CloseReturn, vars
  <2>2. \A k \in Jobs : PhaseOf(k)' = PhaseOf(k)
    BY <2>1, PhaseFrame DEF Running
  <2>3. Revoked' = Revoked
    BY <2>1 DEF Revoked
  <2>4. QED BY <2>2, <2>3, StutterIs
<1>10. CASE BumpEpoch
  <2>1. epoch' = epoch + 1 /\ epoch \in Nat /\ UNCHANGED <<jobEpoch, submit, worker, runs>>
    BY <1>0, <1>10, PoolAssumption DEF BumpEpoch, TypeOK
  <2>2. \A k \in Jobs : PhaseOf(k)' = PhaseOf(k)
    BY <2>1, PhaseFrame DEF Running
  <2>3. \A k \in Jobs : submit[k] # "none" => jobEpoch[k] # epoch'
    <3>1. \A k \in Jobs : jobEpoch[k] \in Int
      BY <1>0 DEF TypeOK, EpochAny
    <3>2. QED BY <1>0, <2>1, <3>1 DEF Epochs
  <2>4. \A k \in Jobs : PhaseOf(k) # "idle" <=> submit[k] # "none"
    <3> SUFFICES ASSUME NEW k \in Jobs PROVE PhaseOf(k) # "idle" <=> submit[k] # "none"
      OBVIOUS
    <3>1. CASE runs[k] # <<>>
      <4>1. submit[k] # "none"
        BY <1>0, <3>1 DEF RunOnce
      <4>2. Len(runs[k]) = 1 /\ runs[k] \in Seq(Outcomes)
        BY <1>0, <3>1 DEF RunOnce, TypeOK
      <4>3. runs[k][Len(runs[k])] \in Outcomes
        BY <4>2
      <4>4. QED BY <3>1, <4>1, <4>3 DEF PhaseOf, Outcomes
    <3>2. CASE runs[k] = <<>>
      BY <1>b, <3>2 DEF PhaseOf, Running
    <3>3. QED BY <3>1, <3>2
  <2>5. Revoked' = Revoked \cup {k \in Jobs \ Sticky : PhaseOf(k) # "idle"}
    BY <2>1, <2>3, <2>4 DEF Revoked
  <2>6. Service!Revoke
    BY <2>2, <2>5 DEF Service!Revoke, Revoked
  <2>7. QED BY <2>6 DEF Service!Next
<1>11. QED
  BY <1>1, <1>2, <1>3, <1>4, <1>5, <1>6, <1>7, <1>8, <1>9, <1>10
     DEF Next, Submit, WorkerStep, CloseStep, Quiescent

(* Every behaviour of the pool is a behaviour of the abstract service: at  *)
(* most one start or cancellation per job, and no fresh start of a job its *)
(* epoch has left behind.                                                  *)
THEOREM PoolImplementsService == Spec => ServiceSpec
<1>1. Init => Service!Init
  BY ServiceInit
<1>2. QED
  BY <1>1, Inv2Always, ServiceStep, PTL DEF Spec, ServiceSpec, Service!Spec
=============================================================================
