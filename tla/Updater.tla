-------------------------------- MODULE Updater --------------------------------
(***************************************************************************)
(* How an update replaces the running install (internal/update/apply.go,   *)
(* internal/ui/update_ui.go): the staged files of a release are renamed    *)
(* over the installed ones, libraries first, the binary last, each with a  *)
(* backup beside it and a rollback. Any rename or removal may fail, the    *)
(* process may die between any two, and each start sweeps the backups away *)
(* in a goroutine of its own.                                              *)
(***************************************************************************)
EXTENDS Integers, Sequences, SequencesExt

CONSTANTS
  Libs,         (* the bundle's libraries, in directory order; <<>> for    *)
                (* the single-file install                                 *)
  Introduced,   (* libraries the installed release did not have            *)
  Bin, NoFile,
  MaxAttempts,  (* bound on presses of Get the update                      *)
  MaxCrashes    (* bound on deaths of the process                          *)

ASSUME UpdaterAssumption ==
  /\ Libs \in Seq(ToSet(Libs)) /\ IsInjective(Libs)
  /\ Bin \notin ToSet(Libs) /\ Introduced \subseteq ToSet(Libs) /\ NoFile \notin Nat
  /\ {MaxAttempts, MaxCrashes} \subseteq Nat

Files == ToSet(Libs) \cup {Bin}

VARIABLES
  target, backup, staged,   (* for each file, the release under its name,  *)
                            (* under .old, and in the staging directory    *)
  running,                  (* the application runs                        *)
  byHand,                   (* it was started from the backup              *)
  job,                      (* the update goroutine: its step and the      *)
                            (* files it has not swapped                    *)
  restart,                  (* App.updateStaged: restart to apply          *)
  sweeping, swept,          (* the sweep of this start: files listed, and  *)
                            (* whether it has listed                       *)
  base,                     (* history: the binary at the last start or    *)
                            (* attempt                                     *)
  stranded,                 (* history: a file was left at its backup by a *)
                            (* failed rollback or a crash                  *)
  ignored,                  (* history: the application was started, or an *)
                            (* update tried, while the binary was there    *)
  overlapped,               (* history: an update was started before the   *)
                            (* sweep of its start was over                 *)
  attempts, crashes

place == <<target, backup, staged>>
bounds == <<attempts, crashes>>
vars == <<place, running, byHand, job, restart, sweeping, swept, base, stranded, ignored,
          overlapped, bounds>>

Release == 0 .. MaxAttempts
AtRest == [pc |-> "idle", todo |-> <<>>]

Flags ==
  /\ {running, byHand, restart, swept, stranded, ignored, overlapped} \subseteq BOOLEAN

Contents ==
  /\ {target, backup, staged} \subseteq [Files -> Release \cup {NoFile}]
  /\ base \in Release \cup {NoFile}
  /\ attempts \in 0 .. MaxAttempts /\ crashes \in 0 .. MaxCrashes

Places ==
  /\ job \in [pc : {"idle", "next", "backup", "install", "rollback", "sweep"}, todo : Seq(Files)]
  /\ sweeping \subseteq Files

TypeOK == Flags /\ Contents /\ Places

Nowhere == [f \in Files |-> NoFile]

Init ==
  /\ target = [f \in Files |-> IF f \in Introduced THEN NoFile ELSE 0]
  /\ backup = Nowhere /\ staged = Nowhere
  /\ running = TRUE /\ byHand = FALSE /\ job = AtRest /\ restart = FALSE
  /\ sweeping = {} /\ swept = FALSE
  /\ base = 0 /\ stranded = FALSE /\ ignored = FALSE /\ overlapped = FALSE
  /\ attempts = 0 /\ crashes = 0

f0 == Head(job.todo)
To(pc) == job' = [job EXCEPT !.pc = pc]

-----------------------------------------------------------------------------
(* Start of the application and its sweep of old backups *)

(* From the binary, or by hand from the backup the error message named.     *)
Boot ==
  /\ ~running /\ (target[Bin] # NoFile \/ backup[Bin] # NoFile)
  /\ running' = TRUE /\ swept' = FALSE /\ restart' = FALSE
  /\ byHand' = (target[Bin] = NoFile) /\ ignored' = (ignored \/ byHand')
  /\ base' = target[Bin]
  /\ UNCHANGED <<place, job, sweeping, stranded, overlapped, bounds>>

SweepList ==
  /\ running /\ ~swept /\ swept' = TRUE
  /\ sweeping' = {f \in Files : backup[f] # NoFile}
  /\ UNCHANGED <<place, running, byHand, job, restart, base, stranded, ignored, overlapped, bounds>>

(* A backup that is locked stays for a later start. *)
SweepOne(f) ==
  /\ f \in sweeping /\ sweeping' = sweeping \ {f}
  /\ backup' \in {backup, [backup EXCEPT ![f] = NoFile]}
  /\ UNCHANGED <<target, staged, running, byHand, job, restart, swept, base, stranded, ignored,
                 overlapped, bounds>>

-----------------------------------------------------------------------------
(* The update goroutine *)

(* Mutant of Order: the binary is swapped as soon as it is found. *)
OrderBinFirst == <<Bin>> \o Libs

Order == Libs \o <<Bin>>

(* Get the update. The download is verified and extracted whole, or nothing *)
(* happens. Nothing waits for the sweep of this start. An update of a       *)
(* hand-started backup has other names and is left out.                     *)
StartUpdate ==
  /\ running /\ ~byHand /\ job.pc = "idle" /\ ~restart
  /\ overlapped' = (overlapped \/ ~swept \/ sweeping # {})
  /\ attempts < MaxAttempts /\ attempts' = attempts + 1
  /\ staged' = [f \in Files |-> attempts + 1]
  /\ job' = [pc |-> "next", todo |-> Order]
  /\ base' = target[Bin]
  /\ ignored' = (ignored \/ target[Bin] = NoFile)
  /\ UNCHANGED <<target, backup, running, byHand, restart, sweeping, swept, stranded, crashes>>

(* Every error: the staging directory goes, the modal shows the message.    *)
Abort == job' = AtRest /\ staged' = Nowhere

Advance ==
  job' = [pc |-> IF Tail(job.todo) = <<>> THEN "sweep" ELSE "next", todo |-> Tail(job.todo)]

Rest == <<running, byHand, restart, sweeping, swept, base, ignored, overlapped, bounds>>

(* A library that was not there moves in; other files are swapped.          *)
MoveIn ==
  /\ job.pc = "next" /\ f0 # Bin /\ target[f0] = NoFile
  /\ \/ /\ target' = [target EXCEPT ![f0] = staged[f0]]
        /\ staged' = [staged EXCEPT ![f0] = NoFile]
        /\ Advance
     \/ Abort /\ UNCHANGED target
  /\ UNCHANGED <<backup, stranded, Rest>>

(* stageReplaceFile: the stale backup goes, or does not. *)
ClearBackup ==
  /\ job.pc = "next" /\ (f0 = Bin \/ target[f0] # NoFile)
  /\ backup' \in {backup, [backup EXCEPT ![f0] = NoFile]}
  /\ To("backup")
  /\ UNCHANGED <<target, staged, stranded, Rest>>

BackUp ==
  /\ job.pc = "backup"
  /\ \/ /\ target[f0] # NoFile
        /\ backup' = [backup EXCEPT ![f0] = target[f0]]
        /\ target' = [target EXCEPT ![f0] = NoFile]
        /\ To("install") /\ UNCHANGED staged
     \/ Abort /\ UNCHANGED <<target, backup>>
  /\ UNCHANGED <<stranded, Rest>>

(* Mutant of Install: a failed install is reported and nothing else. *)
InstallNoRollback ==
  /\ job.pc = "install"
  /\ \/ /\ target' = [target EXCEPT ![f0] = staged[f0]]
        /\ staged' = [staged EXCEPT ![f0] = NoFile]
        /\ Advance
     \/ Abort /\ UNCHANGED target
  /\ UNCHANGED <<backup, stranded, Rest>>

Install ==
  /\ job.pc = "install"
  /\ \/ /\ target' = [target EXCEPT ![f0] = staged[f0]]
        /\ staged' = [staged EXCEPT ![f0] = NoFile]
        /\ Advance
     \/ To("rollback") /\ UNCHANGED <<target, staged>>
  /\ UNCHANGED <<backup, stranded, Rest>>

(* Mutant of Rollback: the backups are swept after a failure too. *)
RollbackSweeping ==
  /\ job.pc = "rollback" /\ Abort
  /\ \/ /\ backup[f0] # NoFile
        /\ target' = [target EXCEPT ![f0] = backup[f0]]
        /\ UNCHANGED stranded
     \/ stranded' = TRUE /\ UNCHANGED target
  /\ backup' = Nowhere
  /\ UNCHANGED Rest

Rollback ==
  /\ job.pc = "rollback" /\ Abort
  /\ \/ /\ backup[f0] # NoFile
        /\ target' = [target EXCEPT ![f0] = backup[f0]]
        /\ backup' = [backup EXCEPT ![f0] = NoFile]
        /\ UNCHANGED stranded
     \/ stranded' = TRUE /\ UNCHANGED <<target, backup>>
  /\ UNCHANGED Rest

(* The swap is complete: the backups go, those that can.                    *)
Finish ==
  /\ job.pc = "sweep"
  /\ \E K \in SUBSET Files : backup' = [f \in Files |-> IF f \in K THEN NoFile ELSE backup[f]]
  /\ job' = AtRest /\ restart' = TRUE
  /\ UNCHANGED <<target, staged, running, byHand, sweeping, swept, base, stranded, ignored,
                 overlapped, bounds>>

-----------------------------------------------------------------------------
Gone == running' = FALSE /\ job' = AtRest /\ sweeping' = {} /\ swept' = FALSE

(* Restart to apply, or any exit while nothing is being swapped.            *)
Quit ==
  /\ running /\ job.pc = "idle" /\ Gone
  /\ UNCHANGED <<place, byHand, restart, base, stranded, ignored, overlapped, bounds>>

Crash ==
  /\ running /\ crashes < MaxCrashes /\ crashes' = crashes + 1
  /\ Gone
  /\ stranded' = (stranded \/ job.pc \in {"install", "rollback"})
  /\ UNCHANGED <<place, byHand, restart, base, ignored, overlapped, attempts>>

(* Nothing is left that could be started. *)
Lost == ~running /\ target[Bin] = NoFile /\ backup[Bin] = NoFile /\ UNCHANGED vars

Next ==
  \/ Boot \/ SweepList \/ (\E f \in Files : SweepOne(f))
  \/ StartUpdate \/ MoveIn \/ ClearBackup \/ BackUp \/ Install \/ Rollback \/ Finish
  \/ Quit \/ Crash \/ Lost

Spec == Init /\ [][Next]_vars

-----------------------------------------------------------------------------
(* Properties *)

(* StageReplace: "the install always works". Whatever fails and wherever    *)
(* the process dies, the binary is under its name or at its backup. Two     *)
(* things may lose it: with the binary at its backup, the application is    *)
(* started from there or the update is tried again; or the update runs      *)
(* beside the sweep of its start (RetryKeepsBinary and SwapKeepsBinary are  *)
(* the promise without these exceptions).                                  *)
BinarySurvives == target[Bin] # NoFile \/ backup[Bin] # NoFile \/ ignored \/ overlapped

(* apply.go:168: "A failed install rolls back so the install always works". *)
(* After an update, run when the binary was in place, there is a binary;    *)
(* the sweep of this start may run beside it.                               *)
SwapKeepsBinary ==
  job.pc = "idle" => target[Bin] # NoFile \/ backup[Bin] # NoFile \/ ignored

(* apply.go:169: "a failed rollback is a hard error naming where the good   *)
(* binary is". It is still there when the update has been tried again.      *)
RetryKeepsBinary ==
  job.pc = "idle" => target[Bin] # NoFile \/ backup[Bin] # NoFile \/ overlapped

(* StageBundle: the binary is the commit point. It is never newer than a    *)
(* library beside it, after any sequence of updates, failures and crashes.  *)
BinaryIsLast ==
  target[Bin] # NoFile =>
    \A f \in ToSet(Libs) : target[f] # NoFile => target[Bin] <= target[f]

(* A failed update, whichever file it failed at, leaves every file that was *)
(* installed in place and the binary it found, unless a rollback failed or  *)
(* the process died with a file at its backup.                              *)
FailureIsClean ==
  job.pc = "idle" /\ ~stranded =>
    /\ \A f \in Files \ Introduced : target[f] # NoFile
    /\ running /\ ~restart => target[Bin] = base

=============================================================================
