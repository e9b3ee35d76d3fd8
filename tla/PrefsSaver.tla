------------------------------ MODULE PrefsSaver ------------------------------
(***************************************************************************)
(* How preferences reach their file (internal/config/preferences.go): the  *)
(* user's thread and pool workers change them in memory and mark them      *)
(* dirty, a saver goroutine writes them after a debounce, the user's       *)
(* thread also writes at once (Settings-Apply, the resets, the exit), an   *)
(* import replaces the file and freezes every later write, Close flushes.  *)
(* A version of the preferences is the number of changes made so far; a    *)
(* file holds every change up to its version.                              *)
(***************************************************************************)
EXTENDS Integers

CONSTANTS
  Workers,     (* pool workers that record learned formats                 *)
  Imported,    (* the contents of an imported settings file                *)
  MaxChanges,  (* bound on changes                                         *)
  MaxApplies,  (* bound on writes and imports the user asks for            *)
  MaxFails     (* bound on writes that fail                                *)

ASSUME PrefsAssumption ==
  /\ Imported \notin Nat
  /\ {MaxChanges, MaxApplies, MaxFails} \subseteq Nat

User  == "user"
Saver == "saver"
Mutators == Workers \cup {User}

VARIABLES
  mem,       (* version in memory, under AssetPreferences.mu               *)
  file,      (* version under the file's name, or Imported                 *)
  pending, dirty, frozen, stop,
  armed,     (* the debounce timer                                         *)
  saver,     (* saverLoop: select, saving, gone                            *)
  mutator,   (* each setter: where it is and the version it made           *)
  save,      (* each call of SaveNow: where it is and what it marshaled    *)
  importing, (* ImportSettings has renamed and not yet frozen              *)
  exit,      (* the user's thread on its way out                           *)
  promised,  (* history: the last version whose setter or reset returned   *)
  raced,     (* history: a reset or the exit wrote beside the saver        *)
  failed,    (* history: the last write failed                             *)
  overtaken, (* history: a write of the saver ended while the user's       *)
             (* thread was still writing an older version                  *)
  applies, fails

memory  == <<mem, mutator>>
signals == <<pending, dirty, frozen, stop>>
disk    == <<file, failed, fails>>
vars == <<memory, signals, disk, armed, saver, save, importing, exit, promised, raced,
          overtaken, applies>>

Flags ==
  /\ {pending, dirty, frozen, stop, importing} \subseteq BOOLEAN
  /\ {raced, failed, overtaken} \subseteq BOOLEAN

Versions ==
  /\ mem \in 0 .. MaxChanges /\ promised \in 0 .. MaxChanges
  /\ file \in 0 .. MaxChanges \cup {Imported}
  /\ mutator \in [Mutators -> [pc : {"idle", "changed", "marked"}, v : 0 .. MaxChanges]]
  /\ save \in [{User, Saver} -> [pc : {"no", "clear", "marshal", "write"}, v : 0 .. MaxChanges]]

Places ==
  /\ armed \in {"no", "running"} /\ saver \in {"select", "saving", "gone"}
  /\ exit \in {"no", "leaving", "stopping", "flushing", "closed"}
  /\ applies \in 0 .. MaxApplies /\ fails \in 0 .. MaxFails

TypeOK == Flags /\ Versions /\ Places

Init ==
  /\ mem = 0 /\ file = 0
  /\ pending = FALSE /\ dirty = FALSE /\ frozen = FALSE /\ stop = FALSE
  /\ armed = "no" /\ saver = "select" /\ importing = FALSE /\ exit = "no"
  /\ mutator = [m \in Mutators |-> [pc |-> "idle", v |-> 0]]
  /\ save = [s \in {User, Saver} |-> [pc |-> "no", v |-> 0]]
  /\ promised = 0 /\ raced = FALSE /\ failed = FALSE /\ overtaken = FALSE
  /\ applies = 0 /\ fails = 0

Latest(a, b) == IF a < b THEN b ELSE a

(* The user's thread does one thing at a time.                              *)
UserFree ==
  save[User].pc = "no" /\ mutator[User].pc = "idle" /\ ~importing /\ exit = "no"

-----------------------------------------------------------------------------
(* Setters: the change under the lock, then the two steps of markDirty *)

Change(m) ==
  /\ mutator[m].pc = "idle" /\ mem < MaxChanges
  /\ IF m = User THEN UserFree ELSE exit \in {"no", "leaving"}
  /\ mem' = mem + 1
  /\ mutator' = [mutator EXCEPT ![m] = [pc |-> "changed", v |-> mem + 1]]
  /\ UNCHANGED <<signals, disk, armed, saver, save, importing, exit, promised, raced, overtaken,
                 applies>>

MarkPending(m) ==
  /\ mutator[m].pc = "changed"
  /\ mutator' = [mutator EXCEPT ![m].pc = "marked"]
  /\ pending' = TRUE
  /\ UNCHANGED <<mem, dirty, frozen, stop, disk, armed, saver, save, importing, exit, promised,
                 raced, overtaken, applies>>

(* Mutant of SendDirty: no buffer, so a saver that is writing hears nothing. *)
SendDirtyUnbuffered(m) ==
  /\ mutator[m].pc = "marked"
  /\ mutator' = [mutator EXCEPT ![m].pc = "idle"]
  /\ dirty' = (saver = "select")
  /\ promised' = Latest(promised, mutator[m].v)
  /\ UNCHANGED <<mem, pending, frozen, stop, disk, armed, saver, save, importing, exit, raced,
                 overtaken, applies>>

(* The channel of one keeps the signal until the saver takes it.            *)
SendDirty(m) ==
  /\ mutator[m].pc = "marked"
  /\ mutator' = [mutator EXCEPT ![m].pc = "idle"]
  /\ dirty' = TRUE
  /\ promised' = Latest(promised, mutator[m].v)
  /\ UNCHANGED <<mem, pending, frozen, stop, disk, armed, saver, save, importing, exit, raced,
                 overtaken, applies>>

-----------------------------------------------------------------------------
(* SaveNow *)

(* The call: an import owns the file now, or the work begins.               *)
Enter(s) == save' = IF frozen THEN save ELSE [save EXCEPT ![s].pc = "clear"]

Clear(s) ==
  /\ save[s].pc = "clear"
  /\ save' = [save EXCEPT ![s].pc = "marshal"]
  /\ pending' = FALSE
  /\ UNCHANGED <<memory, dirty, frozen, stop, disk, armed, saver, importing, exit, promised,
                 raced, overtaken, applies>>

Marshal(s) ==
  /\ save[s].pc = "marshal"
  /\ save' = [save EXCEPT ![s] = [pc |-> "write", v |-> mem]]
  /\ UNCHANGED <<memory, signals, disk, armed, saver, importing, exit, promised, raced,
                 overtaken, applies>>

(* Back to the saver's select, or to the next step of the user's thread.    *)
SaveReturns(s) ==
  /\ save' = [save EXCEPT ![s].pc = "no"]
  /\ saver' = IF s = Saver THEN "select" ELSE saver
  /\ exit' = IF s = User /\ exit = "flushing" THEN "closed" ELSE exit
  /\ overtaken' = (overtaken \/ (s = Saver /\ save[User].pc = "write" /\ save[User].v < save[s].v))

(* Mutant of Write: the signals that came during the write count as served. *)
WriteDrains(s) ==
  /\ save[s].pc = "write"
  /\ file' = save[s].v /\ failed' = FALSE /\ dirty' = FALSE
  /\ promised' = IF s = User THEN Latest(promised, save[s].v) ELSE promised
  /\ SaveReturns(s)
  /\ UNCHANGED <<memory, pending, frozen, stop, armed, fails, importing, raced, applies>>

(* atomicWriteFile: complete and synced, then renamed over the old file.    *)
Write(s) ==
  /\ save[s].pc = "write"
  /\ file' = save[s].v /\ failed' = FALSE
  /\ promised' = IF s = User THEN Latest(promised, save[s].v) ELSE promised
  /\ SaveReturns(s)
  /\ UNCHANGED <<memory, signals, armed, fails, importing, raced, applies>>

WriteFails(s) ==
  /\ save[s].pc = "write" /\ fails < MaxFails /\ fails' = fails + 1
  /\ failed' = TRUE
  /\ SaveReturns(s)
  /\ UNCHANGED <<memory, signals, armed, file, importing, promised, raced, applies>>

-----------------------------------------------------------------------------
(* What the user asks for *)

Ask == UserFree /\ applies < MaxApplies /\ applies' = applies + 1

(* Settings-Apply.                                                          *)
Apply ==
  /\ Ask /\ Enter(User)
  /\ UNCHANGED <<memory, signals, disk, armed, saver, importing, exit, promised, raced,
                 overtaken>>

(* ResetSettings and ResetAll change memory and save, marking nothing.      *)
Reset ==
  /\ Ask /\ Enter(User)
  /\ mem < MaxChanges /\ mem' = mem + 1
  /\ raced' = (raced \/ save[Saver].pc # "no")
  /\ UNCHANGED <<mutator, signals, disk, armed, saver, importing, exit, promised, overtaken>>

(* ImportSettings: the rename; then the freeze. *)
ImportReplaces ==
  /\ Ask /\ ~frozen
  /\ file' = Imported /\ failed' = FALSE /\ importing' = TRUE
  /\ UNCHANGED <<memory, signals, fails, armed, saver, save, exit, promised, raced, overtaken>>

ImportFreezes ==
  /\ importing /\ importing' = FALSE
  /\ frozen' = TRUE
  /\ UNCHANGED <<memory, pending, dirty, stop, disk, armed, saver, save, exit, promised, raced,
                 overtaken, applies>>

-----------------------------------------------------------------------------
(* saverLoop *)

TakeDirty ==
  /\ saver = "select" /\ dirty /\ dirty' = FALSE
  /\ armed' = "running"
  /\ UNCHANGED <<memory, pending, frozen, stop, disk, saver, save, importing, exit, promised,
                 raced, overtaken, applies>>

TimerFires ==
  /\ saver = "select" /\ armed = "running" /\ armed' = "no"
  /\ Enter(Saver)
  /\ saver' = IF frozen THEN "select" ELSE "saving"
  /\ raced' = (raced \/ (exit = "leaving" /\ save[User].pc # "no"))
  /\ UNCHANGED <<memory, signals, disk, importing, exit, promised, overtaken, applies>>

TakeStop ==
  /\ saver = "select" /\ stop
  /\ saver' = "gone" /\ armed' = "no"
  /\ UNCHANGED <<memory, signals, disk, save, importing, exit, promised, raced, overtaken,
                 applies>>

-----------------------------------------------------------------------------
(* The way out: a last save, then the pool's workers end, then Close *)

Exit ==
  /\ UserFree /\ exit' = "leaving"
  /\ Enter(User)
  /\ raced' = (raced \/ save[Saver].pc # "no")
  /\ UNCHANGED <<memory, signals, disk, armed, saver, importing, promised, overtaken, applies>>

CloseStops ==
  /\ exit = "leaving" /\ save[User].pc = "no" /\ \A w \in Workers : mutator[w].pc = "idle"
  /\ exit' = "stopping" /\ stop' = TRUE
  /\ UNCHANGED <<memory, pending, dirty, frozen, disk, armed, saver, save, importing, promised,
                 raced, overtaken, applies>>

(* Mutant of CloseFlushes: the saver is trusted to have saved everything. *)
CloseTrusts ==
  /\ exit = "stopping" /\ saver = "gone"
  /\ exit' = "closed" /\ UNCHANGED save
  /\ UNCHANGED <<memory, signals, disk, armed, saver, importing, promised, raced, overtaken,
                 applies>>

CloseFlushes ==
  /\ exit = "stopping" /\ saver = "gone"
  /\ IF pending /\ ~frozen THEN exit' = "flushing" /\ Enter(User)
     ELSE exit' = "closed" /\ UNCHANGED save
  /\ UNCHANGED <<memory, signals, disk, armed, saver, importing, promised, raced, overtaken,
                 applies>>

-----------------------------------------------------------------------------
Saves == \E s \in {User, Saver} : Clear(s) \/ Marshal(s) \/ Write(s)
Marks == \E m \in Mutators : MarkPending(m) \/ SendDirty(m)
Loops == TakeDirty \/ TimerFires \/ TakeStop

Done == exit = "closed" /\ UNCHANGED vars

Next ==
  \/ (\E m \in Mutators : Change(m)) \/ Marks
  \/ Saves \/ (\E s \in {User, Saver} : WriteFails(s))
  \/ Apply \/ Reset \/ ImportReplaces \/ ImportFreezes
  \/ Loops \/ Exit \/ CloseStops \/ CloseFlushes \/ Done

Fairness ==
  /\ \A s \in {User, Saver} : WF_vars(Clear(s) \/ Marshal(s) \/ Write(s))
  /\ \A m \in Mutators : WF_vars(MarkPending(m) \/ SendDirty(m))
  /\ WF_vars(Loops) /\ WF_vars(ImportFreezes)

Spec == Init /\ [][Next]_vars /\ Fairness

-----------------------------------------------------------------------------
(* Properties *)

(* Nobody is at work in a running session and nothing will start by itself. *)
Quiet ==
  /\ saver = "select" /\ armed = "no" /\ ~dirty /\ ~importing /\ exit = "no"
  /\ \A t \in {User, Saver} : save[t].pc = "no"
  /\ \A m \in Mutators : mutator[m].pc = "idle"

(* SaveNow and markDirty: no change is forgotten. When nothing is under way *)
(* that would still save, the file holds what is in memory, however the     *)
(* changes, the signals, Settings-Apply and the saver overlapped. Given up  *)
(* when the last write failed, after an import, and in two races: a reset   *)
(* beside the saver, and a write of the user's thread that outlasts one of  *)
(* the saver's (NewestLands and ResetPersists are the promise without       *)
(* these).                                                                 *)
QuietIsSaved == Quiet => file = mem \/ failed \/ frozen \/ raced \/ overtaken

(* As long as the session lasts, what is in memory reaches the file: the    *)
(* saver always gets to the signal that a change left behind. The same      *)
(* cases are given up.                                                     *)
Converges ==
  <>[](file = mem \/ failed \/ frozen \/ raced \/ overtaken \/ exit # "no")

(* preferences.go:3262: "Persisted now." A reset, when nobody is at work any *)
(* more, is in the file.                                                   *)
ResetPersists == Quiet => file = mem \/ failed \/ frozen \/ overtaken

(* preferences.go:3285: "a concurrent mutation re-marks pending and is       *)
(* picked up by the next flush even if this marshal misses it". The newest  *)
(* of two overlapping writes is what stays.                                *)
NewestLands == Quiet => file = mem \/ failed \/ frozen \/ raced

(* preferences.go:1536: "frozen blocks every further write after            *)
(* ImportSettings replaced the file on disk".                              *)
ImportStands == frozen => file = Imported

(* Close: every change a setter or a reset has returned from is in the file *)
(* when Close returns, unless the last write failed, an import owns the     *)
(* file, or the exit's own save and one of the saver's were under way at    *)
(* once.                                                                    *)
CloseSaves ==
  exit = "closed" => file = Imported \/ frozen \/ failed \/ raced \/ promised <= file
=============================================================================
