----------------------------- MODULE JobService -----------------------------
(***************************************************************************)
(* What the fetch pool promises the callers of Pool.Submit, with no lanes, *)
(* workers or shutdown in sight (the comments of Job, Pool and BumpEpoch   *)
(* in internal/network/pool.go):                                           *)
(*   - a job is started fresh or cancelled, never both, and at most once;  *)
(*   - a job that BumpEpoch overtook while it was still waiting is never   *)
(*     started fresh; one already started finishes normally;               *)
(*   - Sticky jobs (Epoch = EpochAny) are overtaken by nothing.            *)
(***************************************************************************)

CONSTANTS
  Jobs,      (* every job ever built                                       *)
  Sticky     (* the jobs built with Epoch = EpochAny                       *)

VARIABLES
  phase,     (* how far each job has come                                  *)
  revoked    (* the jobs whose epoch is over                               *)

vars == <<phase, revoked>>

Init ==
  /\ phase = [j \in Jobs |-> "idle"]
  /\ revoked = {}

Move(j, from, to) ==
  /\ phase[j] = from
  /\ phase' = [phase EXCEPT ![j] = to]
  /\ UNCHANGED revoked

(* The caller builds the job and hands it to Submit. *)
Hand(j) == Move(j, "idle", "pending")

(* A worker commits to doing the work. *)
Start(j) == j \notin revoked /\ Move(j, "pending", "running")

Finish(j) == Move(j, "running", "fresh")

(* Run(stale=true): overtaken, shed, or the pool is shutting down. *)
Cancel(j) == Move(j, "pending", "stale")

(* A room or server change overtakes everything handed in so far. *)
Revoke ==
  /\ revoked' = revoked \cup {j \in Jobs \ Sticky : phase[j] # "idle"}
  /\ UNCHANGED phase

Next ==
  \/ Revoke
  \/ \E j \in Jobs : Hand(j) \/ Start(j) \/ Finish(j) \/ Cancel(j)

Spec == Init /\ [][Next]_vars
=============================================================================
