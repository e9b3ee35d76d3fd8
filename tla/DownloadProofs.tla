----------------------------- MODULE DownloadProofs -----------------------------
(***************************************************************************)
(* Proofs about what is downloaded: a release, swapped over the install    *)
(* (Updater), and whole files, through the tiers and the client            *)
(* (RawFetch). The two share no variable.                                  *)
(*                                                                         *)
(* Updater, for any libraries, any number of attempts and crashes. The     *)
(* proofs rest on what the update goroutine knows in the middle of a       *)
(* bundle: what it has not swapped is still staged and ends with the       *)
(* binary, what it has swapped is of this release (Bundle), and the file   *)
(* it is swapping lies at its backup (Aside).                              *)
(*                                                                         *)
(* RawFetch, for any callers, URLs and sizes. The memory tier never        *)
(* accounts for less than it holds and owes (Booked), and whoever takes it *)
(* over its budget has still to evict (Evicting).                          *)
(***************************************************************************)
EXTENDS Updater, RawFetch, FiniteSetTheorems, TLAPS

Todo(f) == \E k \in DOMAIN job.todo : job.todo[k] = f

(* The file under swap, between its two renames. *)
Mid(f) == job.pc \in {"install", "rollback"} /\ f = f0

Process ==
  /\ ~running => job = AtRest /\ sweeping = {} /\ ~swept
  /\ job.pc # "idle" => ~restart /\ (overlapped \/ (swept /\ sweeping = {}))

Bundle ==
  /\ job.pc = "sweep" => job.todo = <<>>
  /\ job.pc \notin {"idle", "sweep"} =>
       /\ job.todo # <<>> /\ job.todo[Len(job.todo)] = Bin
       /\ \A j, k \in DOMAIN job.todo : job.todo[j] = job.todo[k] => j = k
  /\ job.pc # "idle" =>
       \A f \in Files : IF Todo(f) THEN staged[f] = attempts ELSE target[f] = attempts

(* No file is of a release that nobody tried. *)
Known ==
  \A f \in Files : /\ target[f] = NoFile \/ target[f] <= attempts
                   /\ backup[f] = NoFile \/ backup[f] <= attempts
                   /\ staged[f] = NoFile \/ staged[f] <= attempts

(* Only a sweep beside the update takes that backup away.                   *)
Aside ==
  \A f \in Files : Mid(f) => target[f] = NoFile /\ (backup[f] # NoFile \/ overlapped)

(* While anything may remove the binary's backup, the binary is in place. *)
Survives ==
  /\ (running /\ (~swept \/ sweeping # {})) \/ (job.pc # "idle" /\ ~Mid(Bin))
       => target[Bin] # NoFile \/ ignored \/ overlapped
  /\ BinarySurvives

(* The binary, in place or at its backup, is no newer than any library, in  *)
(* place or at its backup.                                                 *)
Ordered ==
  /\ BinaryIsLast
  /\ \A f \in ToSet(Libs) :
       Mid(f) /\ target[Bin] # NoFile /\ backup[f] # NoFile => target[Bin] <= backup[f]
  /\ Mid(Bin) /\ backup[Bin] # NoFile =>
       \A f \in ToSet(Libs) : target[f] # NoFile => backup[Bin] <= target[f]

Clean ==
  ~stranded =>
    /\ \A f \in Files \ Introduced : target[f] # NoFile \/ Mid(f)
    /\ running /\ ~restart /\ job.pc # "sweep" =>
         IF Mid(Bin) THEN backup[Bin] \in {base, NoFile} ELSE target[Bin] = base

UpdaterInv == Process /\ Bundle /\ Known /\ Aside /\ Survives /\ Ordered /\ Clean

-----------------------------------------------------------------------------
(* The bundle, file by file *)

LEMMA UpdaterConstants ==
  /\ MaxAttempts \in Nat /\ MaxCrashes \in Nat
  /\ 0 \in Release /\ \A r \in Release : r \in Nat /\ r # NoFile
  /\ Bin \in Files /\ Bin \notin ToSet(Libs) /\ Bin \notin Introduced
  /\ \A f \in Files : f # Bin => f \in ToSet(Libs)
  /\ \A f \in ToSet(Libs) : f \in Files /\ f # Bin
<1>1. MaxAttempts \in Nat /\ MaxCrashes \in Nat /\ NoFile \notin Nat
  BY UpdaterAssumption
<1>2. 0 \in Release /\ \A r \in Release : r \in Nat /\ r # NoFile
  BY <1>1 DEF Release
<1>3. QED BY <1>1, <1>2, UpdaterAssumption DEF Files

LEMMA OrderFacts ==
  /\ Order \in Seq(Files) /\ Order # <<>> /\ Order[Len(Order)] = Bin
  /\ \A j, k \in DOMAIN Order : Order[j] = Order[k] => j = k
  /\ \A f \in Files : \E k \in DOMAIN Order : Order[k] = f
<1> DEFINE n == Len(Libs)
<1>1. Libs \in Seq(Files) /\ n \in Nat /\ DOMAIN Libs = 1 .. n
  BY UpdaterAssumption DEF Files
<1>2. \A k \in 1 .. n : Libs[k] # Bin
  BY <1>1, UpdaterAssumption DEF ToSet
<1>3. /\ Order \in Seq(Files) /\ Len(Order) = n + 1 /\ Order[n + 1] = Bin
      /\ \A k \in 1 .. n : Order[k] = Libs[k]
  BY <1>1, UpdaterConstants DEF Order
<1> HIDE DEF n
<1>4. \A j, k \in 1 .. n : Libs[j] = Libs[k] => j = k
  BY <1>1, UpdaterAssumption DEF IsInjective
<1>5. DOMAIN Order = 1 .. n + 1
  BY <1>1, <1>3
<1>6. \A j, k \in DOMAIN Order : Order[j] = Order[k] => j = k
  BY <1>1, <1>2, <1>3, <1>4, <1>5
<1>7. \A f \in Files : \E k \in DOMAIN Order : Order[k] = f
  BY <1>1, <1>3, <1>5 DEF Files, ToSet
<1>8. QED BY <1>1, <1>3, <1>5, <1>6, <1>7

LEMMA HeadFacts ==
  ASSUME Places, Bundle, job.pc \notin {"idle", "sweep"}
  PROVE  /\ f0 \in Files /\ f0 = job.todo[1] /\ Todo(f0)
         /\ Len(job.todo) \in Nat /\ Len(job.todo) > 0 /\ DOMAIN job.todo = 1 .. Len(job.todo)
         /\ f0 = Bin <=> Len(job.todo) = 1
<1>1. job.todo \in Seq(Files) /\ job.todo # <<>> /\ job.todo[Len(job.todo)] = Bin
  BY DEF Places, Bundle
<1>2. Len(job.todo) \in Nat /\ Len(job.todo) > 0 /\ DOMAIN job.todo = 1 .. Len(job.todo)
  BY <1>1
<1>3. f0 = job.todo[1] /\ f0 \in Files /\ 1 \in DOMAIN job.todo /\ Len(job.todo) \in DOMAIN job.todo
  BY <1>1, <1>2 DEF f0
<1>4. job.todo[1] = job.todo[Len(job.todo)] => 1 = Len(job.todo)
  BY <1>3 DEF Bundle
<1>5. QED BY <1>1, <1>2, <1>3, <1>4 DEF Todo

LEMMA TailFacts ==
  ASSUME NEW S, NEW t \in Seq(S), t # <<>>
  PROVE  /\ Tail(t) \in Seq(S) /\ Len(Tail(t)) = Len(t) - 1
         /\ \A k \in 1 .. Len(t) - 1 : Tail(t)[k] = t[k + 1]
  OBVIOUS

LEMMA NoneLeft == ASSUME NEW S, NEW t \in Seq(S) PROVE t = <<>> <=> Len(t) = 0
  OBVIOUS

(* The next file, or the end after the binary. *)
LEMMA Advancing ==
  ASSUME Places, Bundle, job.pc \notin {"idle", "sweep"}, Advance
  PROVE  /\ job' \in [pc : {"next", "sweep"}, todo : Seq(Files)]
         /\ job'.pc = "sweep" <=> f0 = Bin
         /\ job'.pc = "sweep" => job'.todo = <<>>
         /\ job'.pc = "next" =>
              /\ job'.todo # <<>> /\ job'.todo[Len(job'.todo)] = Bin
              /\ \A j, k \in DOMAIN job'.todo : job'.todo[j] = job'.todo[k] => j = k
         /\ \A f \in Files : Todo(f)' <=> Todo(f) /\ f # f0
<1> DEFINE t == job.todo
           u == Tail(t)
<1>1. t \in Seq(Files) /\ Len(t) \in Nat /\ Len(t) > 0 /\ f0 = t[1] /\ (f0 = Bin <=> Len(t) = 1)
  BY HeadFacts DEF Places
<1> HIDE DEF t
<1>2. u \in Seq(Files) /\ Len(u) = Len(t) - 1 /\ \A k \in 1 .. Len(t) - 1 : u[k] = t[k + 1]
  <2>1. t # <<>>
    BY <1>1
  <2>2. QED BY <1>1, <2>1, TailFacts
<1> HIDE DEF u
<1>3. DOMAIN t = 1 .. Len(t) /\ DOMAIN u = 1 .. Len(t) - 1 /\ (u = <<>> <=> Len(t) = 1)
  BY <1>1, <1>2
<1>4. t[Len(t)] = Bin /\ \A j, k \in 1 .. Len(t) : t[j] = t[k] => j = k
  BY <1>3 DEF Bundle, t
<1>5. job' = [pc |-> IF u = <<>> THEN "sweep" ELSE "next", todo |-> u]
  BY DEF Advance, t, u
<1>6. u # <<>> => /\ u[Len(u)] = Bin
                  /\ \A j, k \in DOMAIN u : u[j] = u[k] => j = k
  BY <1>1, <1>2, <1>3, <1>4
<1>7. \A f \in Files : (\E k \in DOMAIN u : u[k] = f) <=> (\E k \in DOMAIN t : t[k] = f) /\ f # f0
  <2> SUFFICES ASSUME NEW f \in Files
               PROVE  (\E k \in DOMAIN u : u[k] = f) <=> (\E k \in DOMAIN t : t[k] = f) /\ f # f0
    OBVIOUS
  <2>1. ASSUME NEW k \in DOMAIN u, u[k] = f PROVE (\E j \in DOMAIN t : t[j] = f) /\ f # f0
    <3>1. k + 1 \in DOMAIN t /\ t[k + 1] = f /\ k + 1 # 1 /\ 1 \in DOMAIN t
      BY <1>1, <1>2, <1>3, <2>1
    <3>2. QED BY <1>1, <1>3, <1>4, <3>1
  <2>2. ASSUME NEW k \in DOMAIN t, t[k] = f, f # f0 PROVE \E j \in DOMAIN u : u[j] = f
    <3>1. k - 1 \in DOMAIN u /\ u[k - 1] = f
      BY <1>1, <1>2, <1>3, <2>2
    <3>2. QED BY <3>1
  <2>3. QED BY <2>1, <2>2
<1>8. QED BY <1>1, <1>2, <1>3, <1>5, <1>6, <1>7 DEF Todo, t

-----------------------------------------------------------------------------
(* Type correctness *)

LEMMA TypeInit == Init => TypeOK
<1> SUFFICES ASSUME Init PROVE TypeOK
  OBVIOUS
<1>1. Flags
  BY DEF Init, Flags
<1>2. Contents
  BY UpdaterConstants DEF Init, Contents, Nowhere
<1>3. Places
  BY DEF Init, Places, AtRest
<1>4. QED BY <1>1, <1>2, <1>3 DEF TypeOK

LEMMA FlagsKept == Flags /\ [Next]_vars => Flags'
<1> SUFFICES ASSUME Flags, [Next]_vars PROVE Flags'
  OBVIOUS
<1> USE DEF Flags
<1>1. CASE Boot
  BY <1>1 DEF Boot
<1>2. CASE SweepList
  BY <1>2 DEF SweepList
<1>3. ASSUME NEW f \in Files, SweepOne(f) PROVE Flags'
  BY <1>3 DEF SweepOne
<1>4. CASE StartUpdate
  BY <1>4 DEF StartUpdate
<1>5. CASE MoveIn
  BY <1>5 DEF MoveIn, Advance, Abort, Rest
<1>6. CASE ClearBackup
  BY <1>6 DEF ClearBackup, To, Rest
<1>7. CASE BackUp
  BY <1>7 DEF BackUp, To, Abort, Rest
<1>8. CASE Install
  BY <1>8 DEF Install, Advance, To, Rest
<1>9. CASE Rollback
  BY <1>9 DEF Rollback, Abort, Rest
<1>10. CASE Finish
  BY <1>10 DEF Finish
<1>11. CASE Quit
  BY <1>11 DEF Quit, Gone
<1>12. CASE Crash
  BY <1>12 DEF Crash, Gone
<1>13. CASE UNCHANGED vars
  BY <1>13 DEF vars
<1>14. QED
  BY <1>1, <1>2, <1>3, <1>4, <1>5, <1>6, <1>7, <1>8, <1>9, <1>10, <1>11, <1>12, <1>13
     DEF Next, Lost

LEMMA ContentsKept == Contents /\ Places /\ Bundle /\ [Next]_vars => Contents'
<1> SUFFICES ASSUME Contents, Places, Bundle, [Next]_vars PROVE Contents'
  OBVIOUS
<1> USE DEF Contents, bounds, place, Nowhere, Release
<1>1. CASE Boot
  BY <1>1, UpdaterConstants DEF Boot
<1>2. CASE SweepList
  BY <1>2, UpdaterConstants DEF SweepList
<1>3. ASSUME NEW f \in Files, SweepOne(f) PROVE Contents'
  BY <1>3, UpdaterConstants DEF SweepOne
<1>4. CASE StartUpdate
  BY <1>4, UpdaterConstants DEF StartUpdate
<1>5. CASE MoveIn
  BY <1>5, UpdaterConstants DEF MoveIn, Advance, Abort, Rest
<1>6. CASE ClearBackup
  BY <1>6, UpdaterConstants DEF ClearBackup, To, Rest
<1>7. CASE BackUp
  BY <1>7, UpdaterConstants DEF BackUp, To, Abort, Rest
<1>8. CASE Install
  BY <1>8, UpdaterConstants DEF Install, Advance, To, Rest
<1>9. CASE Rollback
  BY <1>9, UpdaterConstants DEF Rollback, Abort, Rest
<1>10. CASE Finish
  BY <1>10, UpdaterConstants DEF Finish
<1>11. CASE Quit
  BY <1>11, UpdaterConstants DEF Quit, Gone
<1>12. CASE Crash
  BY <1>12, UpdaterConstants DEF Crash, Gone
<1>13. CASE UNCHANGED vars
  BY <1>13, UpdaterConstants DEF vars
<1>14. QED
  BY <1>1, <1>2, <1>3, <1>4, <1>5, <1>6, <1>7, <1>8, <1>9, <1>10, <1>11, <1>12, <1>13
     DEF Next, Lost

LEMMA PlacesKept == Places /\ Bundle /\ [Next]_vars => Places'
<1> SUFFICES ASSUME Places, Bundle, [Next]_vars PROVE Places'
  OBVIOUS
<1> USE DEF Places, AtRest
<1>1. CASE Boot
  BY <1>1, OrderFacts DEF Boot
<1>2. CASE SweepList
  BY <1>2, OrderFacts DEF SweepList
<1>3. ASSUME NEW f \in Files, SweepOne(f) PROVE Places'
  BY <1>3, OrderFacts DEF SweepOne
<1>4. CASE StartUpdate
  BY <1>4, OrderFacts DEF StartUpdate
<1>5. CASE MoveIn
  <2>1. job' = AtRest \/ Advance
    BY <1>5 DEF MoveIn, Abort
  <2>2. CASE job' = AtRest
    BY <1>5, <2>2 DEF MoveIn, Rest
  <2>3. CASE Advance
    <3>1. job' \in [pc : {"next", "sweep"}, todo : Seq(Files)]
      BY <1>5, <2>3, Advancing DEF MoveIn
    <3>2. QED BY <1>5, <3>1 DEF MoveIn, Rest
  <2>4. QED BY <2>1, <2>2, <2>3
<1>6. CASE ClearBackup
  BY <1>6, OrderFacts DEF ClearBackup, To, Rest
<1>7. CASE BackUp
  <2>1. job' = AtRest \/ job' = [job EXCEPT !.pc = "install"]
    BY <1>7 DEF BackUp, Abort, To
  <2>2. CASE job' = AtRest
    BY <1>7, <2>2 DEF BackUp, Rest
  <2>3. CASE job' = [job EXCEPT !.pc = "install"]
    BY <1>7, <2>3 DEF BackUp, Rest
  <2>4. QED BY <2>1, <2>2, <2>3
<1>8. CASE Install
  <2>1. Advance \/ job' = [job EXCEPT !.pc = "rollback"]
    BY <1>8 DEF Install, To
  <2>2. job' \in [pc : {"rollback", "next", "sweep"}, todo : Seq(Files)]
    BY <1>8, <2>1, Advancing DEF Install
  <2>3. QED BY <1>8, <2>2 DEF Install, Rest
<1>9. CASE Rollback
  BY <1>9, OrderFacts DEF Rollback, Abort, Rest
<1>10. CASE Finish
  BY <1>10, OrderFacts DEF Finish
<1>11. CASE Quit
  BY <1>11, OrderFacts DEF Quit, Gone
<1>12. CASE Crash
  BY <1>12, OrderFacts DEF Crash, Gone
<1>13. CASE UNCHANGED vars
  BY <1>13, OrderFacts DEF vars
<1>14. QED
  BY <1>1, <1>2, <1>3, <1>4, <1>5, <1>6, <1>7, <1>8, <1>9, <1>10, <1>11, <1>12, <1>13
     DEF Next, Lost

LEMMA SameTodo == job'.todo = job.todo => f0' = f0 /\ \A f : Todo(f)' <=> Todo(f)
  BY DEF f0, Todo

-----------------------------------------------------------------------------
(* What the goroutine knows *)

LEMMA ProcessKept == TypeOK /\ Process /\ Bundle /\ [Next]_vars => Process'
<1> SUFFICES ASSUME TypeOK, Process, Bundle, [Next]_vars PROVE Process'
  OBVIOUS
<1> USE DEF Process, TypeOK, Flags, Places, AtRest, place
<1>1. CASE Boot
  BY <1>1 DEF Boot
<1>2. CASE SweepList
  BY <1>2 DEF SweepList
<1>3. ASSUME NEW f \in Files, SweepOne(f) PROVE Process'
  BY <1>3 DEF SweepOne
<1>4. CASE StartUpdate
  BY <1>4 DEF StartUpdate
<1>5. CASE MoveIn
  BY <1>5 DEF MoveIn, Advance, Abort, Rest
<1>6. CASE ClearBackup
  BY <1>6 DEF ClearBackup, To, Rest
<1>7. CASE BackUp
  BY <1>7 DEF BackUp, To, Abort, Rest
<1>8. CASE Install
  BY <1>8 DEF Install, Advance, To, Rest
<1>9. CASE Rollback
  BY <1>9 DEF Rollback, Abort, Rest
<1>10. CASE Finish
  BY <1>10 DEF Finish
<1>11. CASE Quit
  BY <1>11 DEF Quit, Gone
<1>12. CASE Crash
  BY <1>12 DEF Crash, Gone
<1>13. CASE UNCHANGED vars
  BY <1>13 DEF vars
<1>14. QED
  BY <1>1, <1>2, <1>3, <1>4, <1>5, <1>6, <1>7, <1>8, <1>9, <1>10, <1>11, <1>12, <1>13
     DEF Next, Lost

LEMMA BundleKept == TypeOK /\ Process /\ Bundle /\ [Next]_vars => Bundle'
<1> SUFFICES ASSUME TypeOK, Process, Bundle, [Next]_vars PROVE Bundle'
  OBVIOUS
<1> USE DEF TypeOK, Contents, Places
<1>1. ASSUME job'.pc = "idle" PROVE Bundle'
  BY <1>1 DEF Bundle
<1>2. ASSUME UNCHANGED <<job, target, staged, attempts>> PROVE Bundle'
  <2>1. \A f : Todo(f)' <=> Todo(f)
    BY <1>2 DEF Todo
  <2>2. QED BY <1>2, <2>1 DEF Bundle
<1>3. ASSUME Advance, job.pc \notin {"idle", "sweep"}, target' = [target EXCEPT ![f0] = staged[f0]],
             staged' = [staged EXCEPT ![f0] = NoFile], UNCHANGED attempts
      PROVE  Bundle'
  <2>1. f0 \in Files /\ Todo(f0)
    BY <1>3, HeadFacts
  <2>2. \A f \in Files : IF Todo(f) THEN staged[f] = attempts ELSE target[f] = attempts
    BY <1>3 DEF Bundle
  <2>3. target'[f0] = attempts /\ \A f \in Files : f # f0 => target'[f] = target[f] /\ staged'[f] = staged[f]
    BY <1>3, <2>1, <2>2
  <2>4. \A f \in Files : Todo(f)' <=> Todo(f) /\ f # f0
    BY <1>3, Advancing
  <2>5. \A f \in Files : IF Todo(f)' THEN staged'[f] = attempts ELSE target'[f] = attempts
    BY <2>2, <2>3, <2>4
  <2>6. /\ job'.pc = "sweep" => job'.todo = <<>>
        /\ job'.pc \notin {"idle", "sweep"} =>
             /\ job'.todo # <<>> /\ job'.todo[Len(job'.todo)] = Bin
             /\ \A j, k \in DOMAIN job'.todo : job'.todo[j] = job'.todo[k] => j = k
    BY <1>3, Advancing
  <2>7. QED BY <1>3, <2>5, <2>6 DEF Bundle
<1>4. CASE Boot \/ SweepList \/ (\E f \in Files : SweepOne(f)) \/ UNCHANGED vars
  <2>1. UNCHANGED <<job, target, staged, attempts>>
    BY <1>4 DEF Boot, SweepList, SweepOne, vars, place, bounds
  <2>2. QED BY <1>2, <2>1
<1>5. CASE StartUpdate
  <2>1. /\ job' = [pc |-> "next", todo |-> Order] /\ attempts' = attempts + 1
        /\ \A f \in Files : staged'[f] = attempts'
    BY <1>5 DEF StartUpdate
  <2>2. \A f \in Files : Todo(f)'
    BY <2>1, OrderFacts DEF Todo
  <2>3. QED BY <2>1, <2>2, OrderFacts DEF Bundle
<1>6. CASE MoveIn
  <2>1. CASE Abort
    BY <1>1, <2>1 DEF Abort, AtRest
  <2>2. CASE ~Abort
    BY <1>3, <1>6, <2>2 DEF MoveIn, Rest, bounds
  <2>3. QED BY <2>1, <2>2
<1>7. CASE ClearBackup
  <2>1. job' = [job EXCEPT !.pc = "backup"] /\ UNCHANGED <<target, staged, attempts>> /\ job.pc = "next"
    BY <1>7 DEF ClearBackup, To, Rest, bounds
  <2>2. \A f : Todo(f)' <=> Todo(f)
    BY <2>1, SameTodo
  <2>3. QED BY <2>1, <2>2 DEF Bundle
<1>8. CASE BackUp
  <2>1. CASE Abort
    BY <1>1, <2>1 DEF Abort, AtRest
  <2>2. CASE ~Abort
    <3>1. /\ job' = [job EXCEPT !.pc = "install"] /\ UNCHANGED <<staged, attempts>> /\ job.pc = "backup"
          /\ target' = [target EXCEPT ![f0] = NoFile]
      BY <1>8, <2>2 DEF BackUp, To, Rest, bounds
    <3>2. \A f : Todo(f)' <=> Todo(f)
      BY <3>1, SameTodo
    <3>3. Todo(f0) /\ \A f \in Files : f # f0 => target'[f] = target[f]
      BY <3>1, HeadFacts
    <3>4. \A f \in Files : IF Todo(f)' THEN staged'[f] = attempts' ELSE target'[f] = attempts'
      BY <3>1, <3>2, <3>3 DEF Bundle
    <3>5. QED BY <3>1, <3>4 DEF Bundle
  <2>3. QED BY <2>1, <2>2
<1>9. CASE Install
  <2>1. CASE Advance
    <3>1. job'.pc # "rollback" /\ job.pc = "install"
      BY <1>9, <2>1, Advancing DEF Install
    <3>2. QED BY <1>3, <1>9, <2>1, <3>1 DEF Install, To, Rest, bounds
  <2>2. CASE ~Advance
    <3>1. /\ job' = [job EXCEPT !.pc = "rollback"] /\ UNCHANGED <<target, staged, attempts>>
          /\ job.pc = "install"
      BY <1>9, <2>2 DEF Install, To, Rest, bounds
    <3>2. \A f : Todo(f)' <=> Todo(f)
      BY <3>1, SameTodo
    <3>3. QED BY <3>1, <3>2 DEF Bundle
  <2>3. QED BY <2>1, <2>2
<1>10. CASE Rollback \/ Finish \/ Quit \/ Crash
  BY <1>1, <1>10 DEF Rollback, Finish, Quit, Crash, Gone, Abort, AtRest
<1>11. QED
  BY <1>4, <1>5, <1>6, <1>7, <1>8, <1>9, <1>10 DEF Next, Lost

LEMMA KnownKept == TypeOK /\ Process /\ Bundle /\ Known /\ [Next]_vars => Known'
<1> SUFFICES ASSUME TypeOK, Process, Bundle, Known, [Next]_vars PROVE Known'
  OBVIOUS
<1> USE DEF Known, TypeOK, Contents, Places, Process, Nowhere, place, bounds
<1>1. CASE Boot
  BY <1>1, UpdaterConstants DEF Boot
<1>2. CASE SweepList
  BY <1>2, UpdaterConstants DEF SweepList
<1>3. ASSUME NEW f \in Files, SweepOne(f) PROVE Known'
  BY <1>3, UpdaterConstants DEF SweepOne
<1>4. CASE StartUpdate
  BY <1>4, UpdaterConstants DEF StartUpdate
<1>5. CASE MoveIn
  BY <1>5, UpdaterConstants DEF MoveIn, Advance, Abort, Rest
<1>6. CASE ClearBackup
  BY <1>6, UpdaterConstants DEF ClearBackup, To, Rest
<1>7. CASE BackUp
  BY <1>7, UpdaterConstants DEF BackUp, To, Abort, Rest
<1>8. CASE Install
  BY <1>8, UpdaterConstants DEF Install, Advance, To, Rest
<1>9. CASE Rollback
  BY <1>9, UpdaterConstants DEF Rollback, Abort, Rest
<1>10. CASE Finish
  BY <1>10, UpdaterConstants DEF Finish
<1>11. CASE Quit
  BY <1>11, UpdaterConstants DEF Quit, Gone
<1>12. CASE Crash
  BY <1>12, UpdaterConstants DEF Crash, Gone
<1>13. CASE UNCHANGED vars
  BY <1>13, UpdaterConstants DEF vars
<1>14. QED
  BY <1>1, <1>2, <1>3, <1>4, <1>5, <1>6, <1>7, <1>8, <1>9, <1>10, <1>11, <1>12, <1>13
     DEF Next, Lost

(* The next file is staged; when it is the binary, all libraries are in.   *)
LEMMA StagedHead ==
  ASSUME TypeOK, Bundle, job.pc \notin {"idle", "sweep"}
  PROVE  /\ f0 \in Files /\ staged[f0] = attempts /\ attempts \in Nat /\ attempts # NoFile
         /\ f0 = Bin => \A f \in ToSet(Libs) : target[f] = attempts
<1>1. f0 \in Files /\ Todo(f0) /\ f0 = job.todo[1] /\ DOMAIN job.todo = 1 .. Len(job.todo)
      /\ (f0 = Bin => Len(job.todo) = 1)
  BY HeadFacts DEF TypeOK
<1>2. \A f \in Files : IF Todo(f) THEN staged[f] = attempts ELSE target[f] = attempts
  BY DEF Bundle
<1>3. attempts \in Nat /\ attempts # NoFile
  BY UpdaterConstants DEF TypeOK, Contents, Release
<1>4. ASSUME f0 = Bin, NEW f \in ToSet(Libs) PROVE target[f] = attempts
  <2>1. f \in Files /\ f # Bin
    BY UpdaterConstants
  <2>2. ~Todo(f)
    BY <1>1, <1>4, <2>1 DEF Todo
  <2>3. QED BY <1>2, <2>1, <2>2
<1>5. QED BY <1>1, <1>2, <1>3, <1>4

(* The ways MoveIn, BackUp and Install end. *)
LEMMA MovedIn ==
  ASSUME MoveIn
  PROVE  /\ job.pc = "next" /\ f0 # Bin /\ UNCHANGED <<backup, stranded, attempts>>
         /\ UNCHANGED <<running, restart, swept, sweeping, base, ignored, overlapped>>
         /\ \/ Advance /\ target' = [target EXCEPT ![f0] = staged[f0]]
            \/ job' = AtRest /\ target' = target
  BY DEF MoveIn, Abort, Rest, bounds

LEMMA BackedUp ==
  ASSUME BackUp
  PROVE  /\ job.pc = "backup" /\ UNCHANGED <<stranded, attempts>>
         /\ UNCHANGED <<running, restart, swept, sweeping, base, ignored, overlapped>>
         /\ \/ /\ job' = [job EXCEPT !.pc = "install"] /\ target[f0] # NoFile
               /\ target' = [target EXCEPT ![f0] = NoFile]
               /\ backup' = [backup EXCEPT ![f0] = target[f0]]
            \/ job' = AtRest /\ UNCHANGED <<target, backup>>
  BY DEF BackUp, Abort, To, Rest, bounds

LEMMA Installed ==
  ASSUME Install
  PROVE  /\ job.pc = "install" /\ UNCHANGED <<backup, stranded, attempts>>
         /\ UNCHANGED <<running, restart, swept, sweeping, base, ignored, overlapped>>
         /\ \/ Advance /\ target' = [target EXCEPT ![f0] = staged[f0]]
            \/ job' = [job EXCEPT !.pc = "rollback"] /\ target' = target
  BY DEF Install, To, Rest, bounds

LEMMA AsideKept == TypeOK /\ Process /\ Bundle /\ Aside /\ [Next]_vars => Aside'
<1> SUFFICES ASSUME TypeOK, Process, Bundle, Aside, [Next]_vars PROVE Aside'
  OBVIOUS
<1> USE DEF Aside, Mid, TypeOK, Contents, Places, Process, AtRest, place
<1>1. CASE Boot
  BY <1>1, SameTodo, UpdaterConstants DEF Boot
<1>2. CASE SweepList
  BY <1>2, SameTodo, UpdaterConstants DEF SweepList
<1>3. ASSUME NEW f \in Files, SweepOne(f) PROVE Aside'
  BY <1>3, SameTodo, UpdaterConstants DEF SweepOne
<1>4. CASE StartUpdate
  BY <1>4, SameTodo, UpdaterConstants DEF StartUpdate
<1>5. CASE MoveIn
  BY <1>5, SameTodo, UpdaterConstants DEF MoveIn, Advance, Abort, Rest
<1>6. CASE ClearBackup
  BY <1>6, SameTodo, UpdaterConstants DEF ClearBackup, To, Rest
<1>7. CASE BackUp
  BY <1>7, SameTodo, UpdaterConstants DEF BackUp, To, Abort, Rest
<1>8. CASE Install
  BY <1>8, SameTodo, UpdaterConstants DEF Install, Advance, To, Rest
<1>9. CASE Rollback
  BY <1>9, SameTodo, UpdaterConstants DEF Rollback, Abort, Rest
<1>10. CASE Finish
  BY <1>10, SameTodo, UpdaterConstants DEF Finish
<1>11. CASE Quit
  BY <1>11, SameTodo, UpdaterConstants DEF Quit, Gone
<1>12. CASE Crash
  BY <1>12, SameTodo, UpdaterConstants DEF Crash, Gone
<1>13. CASE UNCHANGED vars
  BY <1>13, SameTodo, UpdaterConstants DEF vars
<1>14. QED
  BY <1>1, <1>2, <1>3, <1>4, <1>5, <1>6, <1>7, <1>8, <1>9, <1>10, <1>11, <1>12, <1>13
     DEF Next, Lost

LEMMA SurvivesKept == TypeOK /\ Process /\ Bundle /\ Aside /\ Survives /\ [Next]_vars => Survives'
<1> SUFFICES ASSUME TypeOK, Process, Bundle, Aside, Survives, [Next]_vars PROVE Survives'
  OBVIOUS
<1> USE DEF Survives, BinarySurvives, Mid, TypeOK, Flags, Contents, Places, Process, AtRest, place
<1>1. CASE Boot
  BY <1>1, SameTodo, UpdaterConstants DEF Boot
<1>2. CASE SweepList
  BY <1>2, SameTodo, UpdaterConstants DEF SweepList
<1>3. ASSUME NEW f \in Files, SweepOne(f) PROVE Survives'
  BY <1>3, SameTodo, UpdaterConstants DEF SweepOne
<1>4. CASE StartUpdate
  BY <1>4, SameTodo, UpdaterConstants DEF StartUpdate
<1>5. CASE MoveIn
  BY <1>5, SameTodo, UpdaterConstants DEF MoveIn, Advance, Abort, Rest
<1>6. CASE ClearBackup
  BY <1>6, SameTodo, UpdaterConstants DEF ClearBackup, To, Rest
<1>7. CASE BackUp
  BY <1>7, SameTodo, UpdaterConstants DEF BackUp, To, Abort, Rest
<1>8. CASE Install
  <2>1. CASE Advance /\ target' = [target EXCEPT ![f0] = staged[f0]]
    <3>1. /\ job'.pc \notin {"install", "rollback"} /\ staged[f0] # NoFile /\ f0 \in Files
          /\ job.pc = "install"
      BY <1>8, <2>1, Installed, Advancing, StagedHead
    <3>2. target'[Bin] # NoFile \/ ignored \/ overlapped
      BY <2>1, <3>1, UpdaterConstants
    <3>3. QED BY <1>8, <3>1, <3>2, Installed
  <2>2. CASE job' = [job EXCEPT !.pc = "rollback"] /\ target' = target
    <3>1. f0' = f0
      BY <2>2, SameTodo
    <3>2. QED BY <1>8, <2>2, <3>1, Installed
  <2>3. QED BY <1>8, <2>1, <2>2, Installed
<1>9. CASE Rollback
  BY <1>9, SameTodo, UpdaterConstants DEF Rollback, Abort, Rest
<1>10. CASE Finish
  BY <1>10, SameTodo, UpdaterConstants DEF Finish
<1>11. CASE Quit
  BY <1>11, SameTodo, UpdaterConstants DEF Quit, Gone
<1>12. CASE Crash
  BY <1>12, SameTodo, UpdaterConstants DEF Crash, Gone
<1>13. CASE UNCHANGED vars
  BY <1>13, SameTodo, UpdaterConstants DEF vars
<1>14. QED
  BY <1>1, <1>2, <1>3, <1>4, <1>5, <1>6, <1>7, <1>8, <1>9, <1>10, <1>11, <1>12, <1>13
     DEF Next, Lost

LEMMA OrderedKept == TypeOK /\ Process /\ Bundle /\ Known /\ Aside /\ Ordered /\ [Next]_vars => Ordered'
<1> SUFFICES ASSUME TypeOK, Process, Bundle, Known, Aside, Ordered, [Next]_vars PROVE Ordered'
  OBVIOUS
<1> USE DEF Ordered, BinaryIsLast, Mid, TypeOK, Contents, Places, Process, AtRest, place
<1>1. CASE Boot
  BY <1>1, SameTodo, UpdaterConstants DEF Boot
<1>2. CASE SweepList
  BY <1>2, SameTodo, UpdaterConstants DEF SweepList
<1>3. ASSUME NEW f \in Files, SweepOne(f) PROVE Ordered'
  BY <1>3, SameTodo, UpdaterConstants DEF SweepOne
<1>4. CASE StartUpdate
  BY <1>4, SameTodo, UpdaterConstants DEF StartUpdate
<1>5. CASE MoveIn
  <2>1. CASE Advance /\ target' = [target EXCEPT ![f0] = staged[f0]]
    <3>1. /\ job'.pc \notin {"install", "rollback"} /\ staged[f0] = attempts /\ f0 \in Files
          /\ f0 # Bin
      BY <1>5, <2>1, MovedIn, Advancing, StagedHead
    <3>2. target'[Bin] = target[Bin] /\ target'[f0] = attempts
          /\ \A f \in ToSet(Libs) : f # f0 => target'[f] = target[f]
      BY <2>1, <3>1, UpdaterConstants
    <3>3. target[Bin] # NoFile => target[Bin] <= attempts
      BY UpdaterConstants DEF Known
    <3>4. QED BY <3>1, <3>2, <3>3
  <2>2. CASE job' = AtRest /\ target' = target
    BY <2>2
  <2>3. QED BY <1>5, <2>1, <2>2, MovedIn
<1>6. CASE ClearBackup
  BY <1>6, SameTodo, UpdaterConstants DEF ClearBackup, To, Rest
<1>7. CASE BackUp
  <2>1. CASE job' = AtRest /\ UNCHANGED <<target, backup>>
    BY <2>1
  <2>2. CASE job' = [job EXCEPT !.pc = "install"]
    <3>1. /\ f0' = f0 /\ f0 \in Files /\ target[f0] # NoFile
          /\ target'[f0] = NoFile /\ backup'[f0] = target[f0]
          /\ \A f \in Files : f # f0 => target'[f] = target[f]
      BY <1>7, <2>2, SameTodo, BackedUp, StagedHead
    <3>2. CASE f0 = Bin
      BY <2>2, <3>1, <3>2, UpdaterConstants
    <3>3. CASE f0 # Bin
      BY <2>2, <3>1, <3>3, UpdaterConstants
    <3>4. QED BY <3>2, <3>3
  <2>3. QED BY <1>7, <2>1, <2>2, BackedUp
<1>8. CASE Install
  <2>1. CASE Advance /\ target' = [target EXCEPT ![f0] = staged[f0]]
    <3>1. /\ job'.pc \notin {"install", "rollback"} /\ staged[f0] = attempts /\ f0 \in Files
          /\ attempts \in Nat
          /\ f0 = Bin => \A f \in ToSet(Libs) : target[f] = attempts
      BY <1>8, <2>1, Installed, Advancing, StagedHead
    <3>2. target'[f0] = attempts /\ \A f \in Files : f # f0 => target'[f] = target[f]
      BY <2>1, <3>1
    <3>3. CASE f0 = Bin
      BY <3>1, <3>2, <3>3, UpdaterConstants
    <3>4. CASE f0 # Bin
      <4>1. target[Bin] # NoFile => target[Bin] <= attempts
        BY UpdaterConstants DEF Known
      <4>2. QED BY <3>1, <3>2, <3>4, <4>1, UpdaterConstants
    <3>5. QED BY <3>3, <3>4
  <2>2. CASE job' = [job EXCEPT !.pc = "rollback"] /\ target' = target
    <3>1. f0' = f0
      BY <2>2, SameTodo
    <3>2. QED BY <1>8, <2>2, <3>1, Installed
  <2>3. QED BY <1>8, <2>1, <2>2, Installed
<1>9. CASE Rollback
  BY <1>9, SameTodo, UpdaterConstants DEF Rollback, Abort, Rest
<1>10. CASE Finish
  BY <1>10, SameTodo, UpdaterConstants DEF Finish
<1>11. CASE Quit
  BY <1>11, SameTodo, UpdaterConstants DEF Quit, Gone
<1>12. CASE Crash
  BY <1>12, SameTodo, UpdaterConstants DEF Crash, Gone
<1>13. CASE UNCHANGED vars
  BY <1>13, SameTodo, UpdaterConstants DEF vars
<1>14. QED
  BY <1>1, <1>2, <1>3, <1>4, <1>5, <1>6, <1>7, <1>8, <1>9, <1>10, <1>11, <1>12, <1>13
     DEF Next, Lost

LEMMA CleanKept == TypeOK /\ Process /\ Bundle /\ Aside /\ Clean /\ [Next]_vars => Clean'
<1> SUFFICES ASSUME TypeOK, Process, Bundle, Aside, Clean, [Next]_vars PROVE Clean'
  OBVIOUS
<1> USE DEF Clean, Mid, TypeOK, Contents, Places, Process, AtRest, place
<1>1. CASE Boot
  BY <1>1, SameTodo, UpdaterConstants DEF Boot
<1>2. CASE SweepList
  BY <1>2, SameTodo, UpdaterConstants DEF SweepList
<1>3. ASSUME NEW f \in Files, SweepOne(f) PROVE Clean'
  BY <1>3, SameTodo, UpdaterConstants DEF SweepOne
<1>4. CASE StartUpdate
  BY <1>4, SameTodo, UpdaterConstants DEF StartUpdate
<1>5. CASE MoveIn
  BY <1>5, SameTodo, UpdaterConstants DEF MoveIn, Advance, Abort, Rest
<1>6. CASE ClearBackup
  BY <1>6, SameTodo, UpdaterConstants DEF ClearBackup, To, Rest
<1>7. CASE BackUp
  BY <1>7, SameTodo, UpdaterConstants DEF BackUp, To, Abort, Rest
<1>8. CASE Install
  <2>1. CASE Advance /\ target' = [target EXCEPT ![f0] = staged[f0]]
    <3>1. /\ job'.pc \notin {"install", "rollback"} /\ staged[f0] # NoFile /\ f0 \in Files
          /\ job'.pc = "sweep" <=> f0 = Bin
      BY <1>8, <2>1, Installed, Advancing, StagedHead
    <3>2. target'[f0] # NoFile /\ \A f \in Files : f # f0 => target'[f] = target[f]
      BY <2>1, <3>1
    <3>3. QED BY <1>8, <3>1, <3>2, Installed, UpdaterConstants
  <2>2. CASE job' = [job EXCEPT !.pc = "rollback"] /\ target' = target
    <3>1. f0' = f0
      BY <2>2, SameTodo
    <3>2. QED BY <1>8, <2>2, <3>1, Installed
  <2>3. QED BY <1>8, <2>1, <2>2, Installed
<1>9. CASE Rollback
  BY <1>9, SameTodo, UpdaterConstants DEF Rollback, Abort, Rest
<1>10. CASE Finish
  BY <1>10, SameTodo, UpdaterConstants DEF Finish
<1>11. CASE Quit
  BY <1>11, SameTodo, UpdaterConstants DEF Quit, Gone
<1>12. CASE Crash
  BY <1>12, SameTodo, UpdaterConstants DEF Crash, Gone
<1>13. CASE UNCHANGED vars
  BY <1>13, SameTodo, UpdaterConstants DEF vars
<1>14. QED
  BY <1>1, <1>2, <1>3, <1>4, <1>5, <1>6, <1>7, <1>8, <1>9, <1>10, <1>11, <1>12, <1>13
     DEF Next, Lost


-----------------------------------------------------------------------------
(* The invariant holds from the start and is kept; the types and it lean on *)
(* each other, so the two are proved together.                             *)
LEMMA UpdaterInvInit == Init => TypeOK /\ UpdaterInv
<1> SUFFICES ASSUME Init PROVE TypeOK /\ UpdaterInv
  OBVIOUS
<1>1. TypeOK
  BY TypeInit
<1>2. job.pc = "idle" /\ job = AtRest /\ running /\ ~swept /\ ~restart /\ sweeping = {}
  BY DEF Init, AtRest
<1>3. /\ \A f \in Files : /\ target[f] = IF f \in Introduced THEN NoFile ELSE 0
                          /\ backup[f] = NoFile /\ staged[f] = NoFile
      /\ attempts = 0 /\ base = 0
  BY DEF Init, Nowhere
<1>4. Process /\ Bundle /\ Aside
  BY <1>2 DEF Process, Bundle, Aside, Mid
<1>5. Known
  BY <1>3 DEF Known
<1>6. Survives /\ Ordered
  BY <1>2, <1>3, UpdaterConstants DEF Survives, BinarySurvives, Ordered, BinaryIsLast, Mid
<1>7. Clean
  BY <1>2, <1>3, UpdaterConstants DEF Clean, Mid
<1>8. QED BY <1>1, <1>4, <1>5, <1>6, <1>7 DEF UpdaterInv

LEMMA UpdaterInvariant == Spec => [](TypeOK /\ UpdaterInv)
<1>1. TypeOK /\ UpdaterInv /\ [Next]_vars => (TypeOK /\ UpdaterInv)'
  BY FlagsKept, ContentsKept, PlacesKept, ProcessKept, BundleKept, KnownKept, AsideKept,
     SurvivesKept, OrderedKept, CleanKept
     DEF TypeOK, UpdaterInv
<1>2. QED BY UpdaterInvInit, <1>1, PTL DEF Spec

(* The variables keep their types.                                         *)
THEOREM UpdaterTypeCorrect == Spec => []TypeOK
  BY UpdaterInvariant, PTL

(* StageReplace: whatever renames and removals fail and wherever the        *)
(* process dies, the binary is under its name or at its backup, unless it   *)
(* was left at its backup and that ignored, or the sweep of the start ran   *)
(* beside the update.                                                      *)
THEOREM BinaryStays == Spec => []BinarySurvives
<1>1. UpdaterInv => BinarySurvives
  BY DEF UpdaterInv, Survives
<1>2. QED BY UpdaterInvariant, <1>1, PTL

(* StageBundle: the binary is swapped last, so it is never newer than a     *)
(* library beside it.                                                      *)
THEOREM BinaryComesLast == Spec => []BinaryIsLast
<1>1. UpdaterInv => BinaryIsLast
  BY DEF UpdaterInv, Ordered
<1>2. QED BY UpdaterInvariant, <1>1, PTL

(* StageBundle and stageReplaceFile: an update that failed has left every   *)
(* file in place, and the binary it found.                                 *)
THEOREM FailuresAreClean == Spec => []FailureIsClean
<1>1. UpdaterInv => FailureIsClean
  BY UpdaterConstants DEF UpdaterInv, Clean, Mid, FailureIsClean
<1>2. QED BY UpdaterInvariant, <1>1, PTL

-----------------------------------------------------------------------------
(* RawFetch                                                                  *)

(* What a caller has in hand: a URL unless it is idle, and an entry it took  *)
(* out of the tier only before it inserts its own or while it evicts.        *)
InHand ==
  \A c \in Callers :
    /\ caller[c].pc # "idle" => caller[c].url \in Urls
    /\ caller[c].owes > 0 => caller[c].pc \in {"insert", "evict"}

(* Bytes that left the tier and are not given back yet, and bytes that are   *)
(* in it and not charged yet.                                                *)
Charging(c) == IF caller[c].pc = "charge" THEN Size[caller[c].url] ELSE 0
Owed == Weight(Callers, [c \in Callers |-> caller[c].owes])
Due  == Weight(Callers, [c \in Callers |-> Charging(c)])

(* The tier never accounts for less than it holds.                           *)
Booked == bytes + Due >= Resident + Owed

(* Over the budget, somebody is on the way to evict.                         *)
Evicting ==
  bytes <= T2Budget \/ lru = <<>> \/ \E c \in Callers : caller[c].pc \in {"charge", "evict"}

(* The count of failures and the windows of the history.                     *)
Counted ==
  /\ windows \in 0 .. MaxTier
  /\ failures = LET w == windows + (IF open THEN 1 ELSE 0) IN IF w > MaxTier THEN MaxTier ELSE w

(* An attempt is slept off only if there is one more.                         *)
Retried == \A u \in Urls : flight[u].pc = "sleeping" => flight[u].attempt < Attempts

Records == [pc : Steps, url : Urls \cup {NoUrl}, owes : Nat, net : BOOLEAN]
Flights == [pc : {"none", "asking", "reading", "sleeping"}, attempt : 0 .. Attempts]

Shape == RawTypeOK /\ InHand /\ Retried

RawInv == Shape /\ Booked /\ Evicting /\ Counted

-----------------------------------------------------------------------------
LEMMA RawConstants ==
  /\ T2Budget \in Nat /\ T2Budget > 0 /\ Attempts \in Nat /\ Attempts > 0
  /\ MaxTier \in Nat /\ MaxTier > 0 /\ MaxFetches \in Nat /\ IsFiniteSet(Callers)
  /\ NoUrl \notin Urls /\ Size \in [Urls -> Nat] /\ \A u \in Urls : Size[u] \in Nat /\ Size[u] > 0
<1>1. /\ T2Budget \in Nat \ {0} /\ Attempts \in Nat \ {0} /\ MaxTier \in Nat \ {0}
      /\ MaxFetches \in Nat /\ IsFiniteSet(Callers) /\ NoUrl \notin Urls
      /\ Size \in [Urls -> Nat \ {0}]
  BY RawFetchAssumption
<1>2. QED BY <1>1

(* Weights *)

LEMMA ColumnFacts ==
  ASSUME NEW k, NEW n \in Nat
  PROVE  IsFiniteSet({k} \X (1 .. n)) /\ Cardinality({k} \X (1 .. n)) = n
<1>1. IsFiniteSet(1 .. n) /\ Cardinality(1 .. n) = n
  <2>1. IsFiniteSet(1 .. n) /\ Cardinality(1 .. n) = IF 1 > n THEN 0 ELSE n - 1 + 1
    BY FS_Interval
  <2>2. QED BY <2>1
<1>2. IsFiniteSet({k}) /\ Cardinality({k}) = 1
  BY FS_Singleton
<1> DEFINE one == {k}  many == 1 .. n
<1> HIDE DEF one, many
<1>3. IsFiniteSet(one \X many) /\ Cardinality(one \X many) = Cardinality(one) * Cardinality(many)
  BY <1>1, <1>2, FS_Product DEF one, many
<1>4. Cardinality(one) * Cardinality(many) = n
  BY <1>1, <1>2 DEF one, many
<1>5. QED BY <1>3, <1>4 DEF one, many

LEMMA WeightFacts ==
  ASSUME NEW K, IsFiniteSet(K), NEW f, \A k \in K : f[k] \in Nat
  PROVE  Weight(K, f) \in Nat /\ IsFiniteSet(UNION {{k} \X (1 .. f[k]) : k \in K})
<1> DEFINE columns == {{k} \X (1 .. f[k]) : k \in K}
           column == [k \in K |-> {k} \X (1 .. f[k])]
<1>1. \A k \in K : IsFiniteSet({k} \X (1 .. f[k]))
  BY ColumnFacts
<1>2. column \in Surjection(K, columns)
  BY DEF Surjection
<1>3. IsFiniteSet(columns)
  BY <1>2, FS_Surjection
<1>4. IsFiniteSet(UNION columns)
  BY <1>1, <1>3, FS_UNION
<1>5. QED BY <1>4, FS_CardinalityType DEF Weight

LEMMA WeightOfNone == ASSUME NEW f PROVE Weight({}, f) = 0
  BY FS_EmptySet DEF Weight

LEMMA WeightOfZeros == ASSUME NEW K, NEW f, \A k \in K : f[k] = 0 PROVE Weight(K, f) = 0
<1>1. UNION {{k} \X (1 .. f[k]) : k \in K} = {}
  <2>1. \A k \in K : {k} \X (1 .. f[k]) = {}
    <3>1. 1 .. 0 = {}
      OBVIOUS
    <3>2. QED BY <3>1
  <2>2. QED BY <2>1
<1>2. QED BY <1>1, FS_EmptySet DEF Weight

(* One element more. *)
LEMMA WeightSplit ==
  ASSUME NEW K, IsFiniteSet(K), NEW f, NEW k, k \notin K, \A j \in K \cup {k} : f[j] \in Nat
  PROVE  Weight(K \cup {k}, f) = Weight(K, f) + f[k]
<1> DEFINE rest == UNION {{j} \X (1 .. f[j]) : j \in K}  column == {k} \X (1 .. f[k])
<1>1. UNION {{j} \X (1 .. f[j]) : j \in K \cup {k}} = rest \cup column /\ rest \cap column = {}
  OBVIOUS
<1>2. IsFiniteSet(rest) /\ Cardinality(rest) \in Nat /\ Weight(K, f) = Cardinality(rest)
  BY WeightFacts, FS_CardinalityType DEF Weight
<1>3. IsFiniteSet(column) /\ Cardinality(column) = f[k] /\ f[k] \in Nat
  BY ColumnFacts
<1> HIDE DEF rest, column
<1>4. Cardinality(rest \cup column)
        = Cardinality(rest) + Cardinality(column) - Cardinality(rest \cap column)
  BY <1>2, <1>3, FS_Union
<1>5. Cardinality(rest \cap column) = 0
  BY <1>1, FS_EmptySet
<1>6. Weight(K \cup {k}, f) = Cardinality(rest \cup column)
  BY <1>1 DEF Weight
<1>7. QED BY <1>2, <1>3, <1>4, <1>5, <1>6

LEMMA WeightAlike ==
  ASSUME NEW K, NEW f, NEW g, \A k \in K : f[k] = g[k]
  PROVE  Weight(K, f) = Weight(K, g)
<1>1. {{k} \X (1 .. f[k]) : k \in K} = {{k} \X (1 .. g[k]) : k \in K}
  OBVIOUS
<1>2. QED BY <1>1 DEF Weight

(* One weight changes. *)
LEMMA WeightChange ==
  ASSUME NEW K, IsFiniteSet(K), NEW f, NEW g, NEW k \in K,
         \A j \in K : f[j] \in Nat /\ g[j] \in Nat /\ (j # k => f[j] = g[j])
  PROVE  Weight(K, g) + f[k] = Weight(K, f) + g[k]
<1> DEFINE L == K \ {k}
<1>1. IsFiniteSet(L) /\ L \cup {k} = K /\ k \notin L
  BY FS_Subset
<1> HIDE DEF L
<1>2. Weight(L, f) \in Nat /\ Weight(L, g) \in Nat
  BY <1>1, WeightFacts
<1>3. Weight(L, f) = Weight(L, g)
  BY <1>1, WeightAlike
<1>4. Weight(K, f) = Weight(L, f) + f[k] /\ Weight(K, g) = Weight(L, g) + g[k]
  <2>0. \A j \in L \cup {k} : f[j] \in Nat /\ g[j] \in Nat
    BY <1>1
  <2>1. Weight(L \cup {k}, f) = Weight(L, f) + f[k]
    BY <1>1, <2>0, WeightSplit
  <2>2. Weight(L \cup {k}, g) = Weight(L, g) + g[k]
    BY <1>1, <2>0, WeightSplit
  <2>3. QED BY <1>1, <2>1, <2>2
<1>5. f[k] \in Nat /\ g[k] \in Nat
  OBVIOUS
<1>6. QED BY <1>2, <1>3, <1>4, <1>5

-----------------------------------------------------------------------------
(* The order of the tier                                                     *)

LEMMA WithoutFacts ==
  ASSUME lru \in Seq(Urls), IsInjective(lru), NEW u
  PROVE  /\ Without(u) \in Seq(Urls) /\ IsInjective(Without(u))
         /\ ToSet(Without(u)) = ToSet(lru) \ {u}
<1>1. CASE u \notin ToSet(lru)
  BY <1>1 DEF Without
<1>2. CASE u \in ToSet(lru)
  <2> DEFINE i == CHOOSE j \in DOMAIN lru : lru[j] = u
  <2>1. i \in DOMAIN lru /\ lru[i] = u
    BY <1>2 DEF ToSet
  <2> HIDE DEF i
  <2>2. i \in 1 .. Len(lru) /\ Len(lru) \in Nat /\ DOMAIN lru = 1 .. Len(lru)
    BY <2>1
  <2> DEFINE left == SubSeq(lru, 1, i - 1)  right == SubSeq(lru, i + 1, Len(lru))
             s == left \o right
  <2>3. /\ left \in Seq(Urls) /\ Len(left) = i - 1
        /\ \A j \in 1 .. i - 1 : left[j] = lru[j]
    BY <2>2
  <2>4. /\ right \in Seq(Urls) /\ Len(right) = Len(lru) - i
        /\ \A j \in 1 .. Len(lru) - i : right[j] = lru[j + i]
    <3>1. \A a, b \in Nat : a >= 1 /\ a <= b + 1 /\ b <= Len(lru) =>
            /\ SubSeq(lru, a, b) \in Seq(Urls) /\ Len(SubSeq(lru, a, b)) = b - a + 1
            /\ \A j \in 1 .. b - a + 1 : SubSeq(lru, a, b)[j] = lru[a + j - 1]
      BY <2>2
    <3>2. i + 1 \in Nat /\ i + 1 >= 1 /\ i + 1 <= Len(lru) + 1 /\ Len(lru) <= Len(lru)
          /\ Len(lru) - (i + 1) + 1 = Len(lru) - i
          /\ \A j \in 1 .. Len(lru) - i : (i + 1) + j - 1 = j + i
      BY <2>2
    <3>3. /\ right \in Seq(Urls) /\ Len(right) = Len(lru) - (i + 1) + 1
          /\ \A j \in 1 .. Len(lru) - (i + 1) + 1 : right[j] = lru[(i + 1) + j - 1]
      BY <2>2, <3>1, <3>2
    <3>4. QED BY <3>2, <3>3
  <2> HIDE DEF left, right
  <2>5. /\ s \in Seq(Urls) /\ Len(s) = Len(lru) - 1 /\ DOMAIN s = 1 .. Len(lru) - 1
        /\ \A j \in 1 .. Len(lru) - 1 : s[j] = IF j < i THEN left[j] ELSE right[j - (i - 1)]
    <3>1. \A p, q \in Seq(Urls) :
            /\ p \o q \in Seq(Urls) /\ Len(p \o q) = Len(p) + Len(q)
            /\ Len(p) \in Nat /\ Len(q) \in Nat /\ DOMAIN (p \o q) = 1 .. Len(p) + Len(q)
            /\ \A j \in 1 .. Len(p) + Len(q) :
                 (p \o q)[j] = IF j <= Len(p) THEN p[j] ELSE q[j - Len(p)]
      OBVIOUS
    <3>2. Len(left) + Len(right) = Len(lru) - 1 /\ \A j \in Nat : j <= Len(left) <=> j < i
      BY <2>2, <2>3, <2>4
    <3>3. /\ s \in Seq(Urls) /\ Len(s) = Len(left) + Len(right)
          /\ DOMAIN s = 1 .. Len(left) + Len(right)
          /\ \A j \in 1 .. Len(left) + Len(right) :
               s[j] = IF j <= Len(left) THEN left[j] ELSE right[j - Len(left)]
      BY <2>3, <2>4, <3>1
    <3>4. QED BY <2>2, <2>3, <2>4, <3>2, <3>3
  <2> HIDE DEF s
  <2>6. \A j \in 1 .. Len(lru) - 1 : s[j] = IF j < i THEN lru[j] ELSE lru[j + 1]
    <3> TAKE j \in 1 .. Len(lru) - 1
    <3>1. CASE j < i
      BY <2>2, <2>3, <2>5, <3>1
    <3>2. CASE j >= i
      <4>1. j - (i - 1) \in 1 .. Len(lru) - i /\ (j - (i - 1)) + i = j + 1
        BY <2>2, <3>2
      <4>2. QED BY <2>2, <2>4, <2>5, <3>2, <4>1
    <3>3. QED BY <2>2, <3>1, <3>2
  <2>7. Without(u) = s
    BY <1>2 DEF Without, RemoveAt, s, left, right, i
  <2>8. \A a, b \in 1 .. Len(lru) : lru[a] = lru[b] => a = b
    BY <2>2 DEF IsInjective
  <2>9. IsInjective(s)
    <3> SUFFICES ASSUME NEW a \in DOMAIN s, NEW b \in DOMAIN s, s[a] = s[b] PROVE a = b
      BY DEF IsInjective
    <3>1. a \in Int /\ b \in Int /\ a \in 1 .. Len(lru) - 1 /\ b \in 1 .. Len(lru) - 1
      BY <2>2, <2>5
    <3>2. /\ a \in 1 .. Len(lru) /\ a + 1 \in 1 .. Len(lru)
          /\ b \in 1 .. Len(lru) /\ b + 1 \in 1 .. Len(lru)
      BY <2>2, <3>1
    <3>3. (IF a < i THEN a ELSE a + 1) = (IF b < i THEN b ELSE b + 1)
      BY <2>6, <2>8, <3>1, <3>2
    <3>4. QED BY <2>2, <3>1, <3>3
  <2>10. ASSUME NEW x PROVE x \in ToSet(s) <=> x \in ToSet(lru) \ {u}
    <3>1. ASSUME NEW j \in DOMAIN s PROVE s[j] \in ToSet(lru) /\ s[j] # u
      <4>1. j \in 1 .. Len(lru) - 1 /\ j \in Int
        BY <2>2, <2>5
      <4>2. \E a \in 1 .. Len(lru) : s[j] = lru[a] /\ a # i
        <5>1. CASE j < i
          BY <2>2, <2>6, <4>1, <5>1
        <5>2. CASE j >= i
          <6>1. j + 1 \in 1 .. Len(lru) /\ j + 1 # i /\ s[j] = lru[j + 1]
            BY <2>2, <2>6, <4>1, <5>2
          <6>2. QED BY <6>1
        <5>3. QED BY <2>2, <4>1, <5>1, <5>2
      <4>3. PICK a \in 1 .. Len(lru) : s[j] = lru[a] /\ a # i
        BY <4>2
      <4>4. lru[a] # u
        BY <2>1, <2>2, <2>8, <4>3
      <4>5. QED BY <2>2, <4>3, <4>4 DEF ToSet
    <3>2. ASSUME NEW j \in DOMAIN lru, lru[j] # u PROVE lru[j] \in ToSet(s)
      <4>1. CASE j < i
        <5>1. j \in DOMAIN s /\ s[j] = lru[j]
          BY <2>2, <2>5, <2>6, <4>1
        <5>2. QED BY <5>1 DEF ToSet
      <4>2. CASE j > i
        <5>1. j - 1 \in DOMAIN s /\ s[j - 1] = lru[j]
          BY <2>2, <2>5, <2>6, <4>2
        <5>2. QED BY <5>1 DEF ToSet
      <4>3. QED BY <2>1, <2>2, <3>2, <4>1, <4>2
    <3>3. QED BY <3>1, <3>2 DEF ToSet
  <2>11. QED BY <2>5, <2>7, <2>9, <2>10
<1>3. QED BY <1>1, <1>2

LEMMA AppendedFacts ==
  ASSUME NEW q \in Seq(Urls), IsInjective(q), NEW u \in Urls, u \notin ToSet(q)
  PROVE  /\ Append(q, u) \in Seq(Urls) /\ IsInjective(Append(q, u))
         /\ ToSet(Append(q, u)) = ToSet(q) \cup {u}
<1>1. /\ Append(q, u) \in Seq(Urls) /\ Len(q) \in Nat
      /\ DOMAIN Append(q, u) = 1 .. Len(q) + 1 /\ DOMAIN q = 1 .. Len(q)
      /\ \A i \in 1 .. Len(q) : Append(q, u)[i] = q[i]
      /\ Append(q, u)[Len(q) + 1] = u
  OBVIOUS
<1>2. \A i \in 1 .. Len(q) : q[i] # u
  BY <1>1 DEF ToSet
<1> DEFINE s == Append(q, u)
<1> HIDE DEF s
<1>3. /\ DOMAIN s = 1 .. Len(q) + 1 /\ s[Len(q) + 1] = u
      /\ \A i \in 1 .. Len(q) : s[i] = q[i]
  BY <1>1 DEF s
<1>4. IsInjective(s)
  BY <1>1, <1>2, <1>3 DEF IsInjective
<1>5. ToSet(s) = ToSet(q) \cup {u}
  BY <1>1, <1>3 DEF ToSet
<1>6. QED BY <1>1, <1>4, <1>5 DEF s

LEMMA NewestFacts ==
  ASSUME lru \in Seq(Urls), IsInjective(lru), NEW u \in Urls
  PROVE  /\ Newest(u) \in Seq(Urls) /\ IsInjective(Newest(u)) /\ Newest(u) # <<>>
         /\ ToSet(Newest(u)) = ToSet(lru) \cup {u}
<1>1. /\ Without(u) \in Seq(Urls) /\ IsInjective(Without(u))
      /\ ToSet(Without(u)) = ToSet(lru) \ {u}
  BY WithoutFacts
<1>2. /\ Append(Without(u), u) \in Seq(Urls) /\ IsInjective(Append(Without(u), u))
      /\ ToSet(Append(Without(u), u)) = ToSet(Without(u)) \cup {u}
  BY <1>1, AppendedFacts
<1>3. Append(Without(u), u) # <<>>
  BY <1>1
<1>4. QED BY <1>1, <1>2, <1>3 DEF Newest

LEMMA OldestFacts ==
  ASSUME lru \in Seq(Urls), IsInjective(lru), lru # <<>>
  PROVE  /\ Tail(lru) \in Seq(Urls) /\ IsInjective(Tail(lru)) /\ Head(lru) \in ToSet(lru)
         /\ Head(lru) \in Urls /\ ToSet(Tail(lru)) = ToSet(lru) \ {Head(lru)}
<1> DEFINE t == Tail(lru)
<1>1. /\ t \in Seq(Urls) /\ Len(lru) \in Nat /\ Len(lru) > 0 /\ DOMAIN lru = 1 .. Len(lru)
      /\ DOMAIN t = 1 .. Len(lru) - 1 /\ Head(lru) = lru[1] /\ Head(lru) \in Urls
      /\ \A i \in 1 .. Len(lru) - 1 : t[i] = lru[i + 1]
  OBVIOUS
<1> HIDE DEF t
<1>2. \A i, j \in 1 .. Len(lru) : lru[i] = lru[j] => i = j
  BY <1>1 DEF IsInjective
<1>3. IsInjective(t)
  <2> SUFFICES ASSUME NEW i \in DOMAIN t, NEW j \in DOMAIN t, t[i] = t[j] PROVE i = j
    BY DEF IsInjective
  <2>1. i + 1 \in 1 .. Len(lru) /\ j + 1 \in 1 .. Len(lru) /\ lru[i + 1] = lru[j + 1]
    BY <1>1
  <2>2. i + 1 = j + 1
    BY <1>2, <2>1
  <2>3. QED BY <1>1, <2>2
<1>4. ASSUME NEW i \in DOMAIN t PROVE t[i] \in ToSet(lru) \ {Head(lru)}
  <2>1. i + 1 \in 1 .. Len(lru) /\ i + 1 # 1 /\ 1 \in 1 .. Len(lru) /\ t[i] = lru[i + 1]
    BY <1>1
  <2>2. lru[i + 1] # lru[1]
    BY <1>2, <2>1
  <2>3. QED BY <1>1, <2>1, <2>2 DEF ToSet
<1>5. ASSUME NEW i \in DOMAIN lru, lru[i] # Head(lru) PROVE lru[i] \in ToSet(t)
  <2>1. i # 1
    BY <1>1, <1>5
  <2>2. i - 1 \in DOMAIN t /\ t[i - 1] = lru[i]
    BY <1>1, <2>1
  <2>3. QED BY <2>2 DEF ToSet
<1>6. Head(lru) \in ToSet(lru)
  BY <1>1 DEF ToSet
<1>7. ToSet(t) = ToSet(lru) \ {Head(lru)}
  BY <1>4, <1>5 DEF ToSet
<1>8. QED BY <1>1, <1>3, <1>6, <1>7 DEF t

LEMMA TierIsFinite ==
  ASSUME lru \in Seq(Urls)
  PROVE  /\ IsFiniteSet(ToSet(lru)) /\ ToSet(lru) \subseteq Urls /\ Resident \in Nat
         /\ lru = <<>> => Resident = 0
<1>1. Len(lru) \in Nat /\ DOMAIN lru = 1 .. Len(lru) /\ \A i \in DOMAIN lru : lru[i] \in Urls
  OBVIOUS
<1>2. lru \in Surjection(1 .. Len(lru), ToSet(lru))
  BY <1>1 DEF Surjection, ToSet
<1>3. IsFiniteSet(1 .. Len(lru))
  BY <1>1, FS_Interval
<1>4. IsFiniteSet(ToSet(lru)) /\ ToSet(lru) \subseteq Urls
  BY <1>1, <1>2, <1>3, FS_Surjection DEF ToSet
<1>5. Resident \in Nat
  <2>1. \A u \in ToSet(lru) : Size[u] \in Nat
    BY <1>4, RawConstants
  <2>2. QED BY <1>4, <2>1, WeightFacts DEF Resident
<1>6. ASSUME lru = <<>> PROVE Resident = 0
  <2>1. ToSet(lru) = {}
    BY <1>6 DEF ToSet
  <2>2. QED BY <2>1, WeightOfNone DEF Resident
<1>7. QED BY <1>4, <1>5, <1>6

-----------------------------------------------------------------------------
(* Types                                                                     *)

LEMMA GotoFacts ==
  ASSUME caller \in [Callers -> Records], InHand, NEW c \in Callers, caller[c].owes = 0,
         NEW pc \in Steps, pc # "idle" => caller[c].pc # "idle", Goto(c, pc)
  PROVE  /\ caller' \in [Callers -> Records] /\ InHand'
         /\ caller'[c].pc = pc /\ caller'[c].owes = 0
         /\ \A d \in Callers : d # c => caller'[d] = caller[d]
<1> DEFINE here == IF pc = "idle" THEN Idle ELSE [caller[c] EXCEPT !.pc = pc]
<1>1. caller' = [caller EXCEPT ![c] = here]
  BY DEF Goto
<1>2. Idle \in Records /\ Idle.pc = "idle" /\ Idle.owes = 0
  BY DEF Idle, Records, Steps
<1>3. here \in Records /\ here.pc = pc /\ here.owes = 0 /\ (pc # "idle" => here.url = caller[c].url)
  BY <1>2 DEF Records
<1> HIDE DEF here
<1>4. /\ caller' \in [Callers -> Records] /\ caller'[c] = here
      /\ \A d \in Callers : d # c => caller'[d] = caller[d]
  BY <1>1, <1>3
<1>5. InHand'
  BY <1>3, <1>4 DEF InHand
<1>6. QED BY <1>3, <1>4, <1>5

LEMMA LandFacts ==
  ASSUME RawTypeOK, InHand, Retried, NEW u \in Urls, NEW pc \in {"idle", "remove"}, Land(u, pc)
  PROVE  /\ caller' \in [Callers -> Records] /\ InHand'
         /\ flight' \in [Urls -> Flights] /\ Retried'
         /\ \A c \in Callers : \/ caller'[c] = caller[c]
                               \/ /\ caller[c].pc = "wait" /\ caller[c].owes = 0
                                  /\ caller'[c].pc = pc /\ caller'[c].owes = 0
<1>1. NoFlight \in Flights /\ NoFlight.pc = "none"
  BY RawConstants DEF NoFlight, Flights
<1>2. flight' \in [Urls -> Flights] /\ Retried'
  BY <1>1 DEF Land, RawTypeOK, Flights, Retried
<1>3. Idle \in Records /\ Idle.pc = "idle" /\ Idle.owes = 0
  BY DEF Idle, Records, Steps
<1>4. ASSUME NEW c \in Callers
      PROVE  /\ caller'[c] \in Records
             /\ \/ caller'[c] = caller[c]
                \/ /\ caller[c].pc = "wait" /\ caller[c].owes = 0
                   /\ caller'[c].pc = pc /\ caller'[c].owes = 0
                   /\ (pc # "idle" => caller'[c].url \in Urls)
  <2>1. caller[c] \in Records
    BY DEF RawTypeOK, Records
  <2>2. CASE At(c, "wait") /\ caller[c].url = u
    <3> DEFINE next == [caller[c] EXCEPT !.pc = pc, !.net = TRUE]
    <3>1. caller'[c] = IF pc = "idle" THEN Idle ELSE next
      BY <2>2 DEF Land
    <3>2. next \in Records /\ next.pc = pc /\ next.owes = caller[c].owes /\ next.url = u
      BY <2>1, <2>2 DEF Records, Steps
    <3> HIDE DEF next
    <3>3. QED BY <1>3, <2>2, <3>1, <3>2 DEF At
  <2>3. CASE ~(At(c, "wait") /\ caller[c].url = u)
    BY <2>1, <2>3 DEF Land
  <2>4. QED BY <2>2, <2>3
<1>5. caller' \in [Callers -> Records]
  BY <1>4 DEF Land
<1>6. InHand'
  BY <1>4 DEF InHand
<1>7. QED BY <1>2, <1>4, <1>5, <1>6

(* The steps that neither take anything out of the tier nor account for it.  *)
Unmoved ==
  /\ UNCHANGED bytes /\ lru' \in Seq(Urls) /\ IsInjective(lru') /\ ToSet(lru') = ToSet(lru)
  /\ lru' = <<>> => lru = <<>>
  /\ \A c \in Callers :
       \/ caller'[c] = caller[c]
       \/ /\ caller[c].pc # "charge" /\ caller'[c].pc # "charge"
          /\ caller[c].owes = 0 /\ caller'[c].owes = 0
          /\ caller[c].pc = "evict" => bytes <= T2Budget \/ lru = <<>>

LEMMA CallerTypes == Shape => caller \in [Callers -> Records] /\ flight \in [Urls -> Flights]
  BY DEF Shape, RawTypeOK, Records, Flights

(* A step of a caller alone, when it only goes somewhere.                    *)
LEMMA WalkFacts ==
  ASSUME Shape, NEW c \in Callers, caller[c].owes = 0, NEW pc \in Steps,
         pc # "charge", caller[c].pc \notin {"charge", "idle"}, Goto(c, pc),
         caller[c].pc = "evict" => bytes <= T2Budget \/ lru = <<>>,
         UNCHANGED tier
  PROVE  Unmoved /\ caller' \in [Callers -> Records] /\ InHand'
<1>1. /\ caller' \in [Callers -> Records] /\ InHand'
      /\ caller'[c].pc = pc /\ caller'[c].owes = 0
      /\ \A d \in Callers : d # c => caller'[d] = caller[d]
  BY GotoFacts, CallerTypes DEF Shape
<1>2. QED BY <1>1 DEF Unmoved, tier, Shape, RawTypeOK

LEMMA CallFacts ==
  ASSUME Shape, NEW c \in Callers, NEW u \in Urls, Call(c, u)
  PROVE  Unmoved /\ Shape'
<1> DEFINE next == [caller[c] EXCEPT !.pc = "t2", !.url = u]
<1>1. caller[c] \in Records /\ caller[c].pc = "idle" /\ caller[c].owes = 0
  <2>1. caller[c] \in Records
    BY CallerTypes
  <2>2. caller[c] = Idle
    BY DEF Call
  <2>3. Idle.pc = "idle" /\ Idle.owes = 0
    BY DEF Idle
  <2>4. QED BY <2>1, <2>2, <2>3
<1>2. next \in Records /\ next.pc = "t2" /\ next.owes = 0 /\ next.url = u
  BY <1>1 DEF Records, Steps
<1>3. caller' = [caller EXCEPT ![c] = next]
  BY DEF Call
<1> HIDE DEF next
<1>4. /\ caller' \in [Callers -> Records] /\ caller'[c] = next
      /\ \A d \in Callers : d # c => caller'[d] = caller[d]
  BY <1>2, <1>3, CallerTypes
<1>5. InHand'
  BY <1>2, <1>4 DEF Shape, InHand
<1>6. UNCHANGED <<tier, disk, flight, negative, host>>
  BY DEF Call
<1>7. Unmoved
  BY <1>1, <1>2, <1>4, <1>6 DEF Unmoved, tier, Shape, RawTypeOK
<1>8. QED BY <1>4, <1>5, <1>6, <1>7 DEF Shape, RawTypeOK, Records, Retried, tier, host

LEMMA LookFacts ==
  ASSUME Shape, NEW c \in Callers,
         \/ LookT2(c) \/ LookDisk(c) \/ LookNegative(c) \/ LookBackoff(c) \/ Join(c)
         \/ GiveUp(c) \/ Put(c)
  PROVE  Unmoved /\ Shape'
<1>0. {"idle", "disk", "remove", "negative", "backoff", "join", "wait"} \subseteq Steps
  BY DEF Steps
<1>1. CASE LookT2(c)
  <2>1. /\ caller[c].pc = "t2" /\ caller[c].owes = 0 /\ caller[c].url \in Urls
        /\ UNCHANGED <<bytes, disk, flight, negative, host, fetches>>
    BY <1>1 DEF LookT2, At, Shape, InHand
  <2>2. /\ lru' \in Seq(Urls) /\ IsInjective(lru') /\ ToSet(lru') = ToSet(lru)
        /\ lru' = <<>> => lru = <<>>
    <3>1. CASE lru' = lru
      BY <3>1 DEF Shape, RawTypeOK
    <3>2. CASE caller[c].url \in ToSet(lru) /\ lru' = Newest(caller[c].url)
      <4> DEFINE u == caller[c].url
      <4>1. u \in Urls /\ u \in ToSet(lru) /\ lru' = Newest(u)
            /\ lru \in Seq(Urls) /\ IsInjective(lru)
        BY <2>1, <3>2 DEF Shape, RawTypeOK
      <4> HIDE DEF u
      <4>2. /\ Newest(u) \in Seq(Urls) /\ IsInjective(Newest(u)) /\ Newest(u) # <<>>
            /\ ToSet(Newest(u)) = ToSet(lru) \cup {u}
        BY <4>1, NewestFacts
      <4>3. ToSet(lru) \cup {u} = ToSet(lru)
        BY <4>1
      <4>4. QED BY <4>1, <4>2, <4>3
    <3>3. QED BY <1>1, <3>1, <3>2 DEF LookT2
  <2>3. PICK pc \in Steps : pc \in {"idle", "disk"} /\ Goto(c, pc)
    BY <1>0, <1>1 DEF LookT2
  <2>4. /\ caller' \in [Callers -> Records] /\ InHand'
        /\ caller'[c].pc = pc /\ caller'[c].owes = 0
        /\ \A d \in Callers : d # c => caller'[d] = caller[d]
    BY <2>1, <2>3, GotoFacts, CallerTypes DEF Shape
  <2>5. Unmoved
    BY <2>1, <2>2, <2>3, <2>4 DEF Unmoved
  <2>6. QED BY <2>1, <2>2, <2>4, <2>5 DEF Shape, RawTypeOK, Records, Retried, host
<1>2. CASE LookDisk(c) \/ LookNegative(c) \/ LookBackoff(c) \/ GiveUp(c)
  <2>1. /\ caller[c].pc \in {"disk", "negative", "backoff", "wait"} /\ caller[c].owes = 0
        /\ UNCHANGED <<tier, disk, flight, negative, host, fetches>>
    BY <1>2 DEF LookDisk, LookNegative, LookBackoff, GiveUp, At
  <2>2. PICK pc \in Steps :
          pc \in {"idle", "remove", "negative", "backoff", "join"} /\ Goto(c, pc)
    BY <1>0, <1>2 DEF LookDisk, LookNegative, LookBackoff, GiveUp
  <2>3. Unmoved /\ caller' \in [Callers -> Records] /\ InHand'
    BY <2>1, <2>2, WalkFacts
  <2>4. QED BY <2>1, <2>3 DEF Shape, RawTypeOK, Records, Retried, tier, host
<1>3. CASE Put(c)
  <2>1. /\ caller[c].pc = "put" /\ caller[c].owes = 0 /\ Goto(c, "idle")
        /\ disk' = disk \cup {caller[c].url} /\ UNCHANGED <<tier, flight, negative, host, fetches>>
    BY <1>3 DEF Put, At
  <2>2. caller[c].url \in Urls
    BY <2>1 DEF Shape, InHand
  <2>3. Unmoved /\ caller' \in [Callers -> Records] /\ InHand'
    BY <1>0, <2>1, WalkFacts
  <2>4. QED BY <2>1, <2>2, <2>3 DEF Shape, RawTypeOK, Records, Retried, tier, host
<1>4. CASE Join(c)
  <2>1. /\ caller[c].pc = "join" /\ caller[c].owes = 0
        /\ UNCHANGED <<tier, disk, negative, host, fetches>>
    BY <1>4 DEF Join, At
  <2>2. PICK pc \in Steps : pc = "wait" /\ Goto(c, pc)
    BY <1>0, <1>4 DEF Join
  <2>3. Unmoved /\ caller' \in [Callers -> Records] /\ InHand'
    BY <2>1, <2>2, WalkFacts
  <2>4. flight' \in [Urls -> Flights] /\ Retried'
    <3>1. flight' = [flight EXCEPT ![caller[c].url] =
                      IF @ = NoFlight THEN [pc |-> "asking", attempt |-> 1] ELSE @]
      BY <1>4 DEF Join
    <3>2. [pc |-> "asking", attempt |-> 1] \in Flights
      BY RawConstants DEF Flights
    <3>3. caller[c].url \in Urls
      BY <2>1 DEF Shape, InHand
    <3>4. \A u \in Urls : flight'[u] = flight[u] \/ flight'[u] = [pc |-> "asking", attempt |-> 1]
      BY <3>1, CallerTypes
    <3>5. flight' \in [Urls -> Flights]
      BY <3>1, <3>2, CallerTypes
    <3>6. QED BY <3>4, <3>5 DEF Shape, Retried
  <2>5. QED BY <2>1, <2>3, <2>4 DEF Shape, RawTypeOK, Records, Flights, tier, host
<1>5. QED BY <1>1, <1>2, <1>3, <1>4

-----------------------------------------------------------------------------
(* The accounts                                                              *)

Shares == \A c \in Callers : caller[c].owes \in Nat /\ Charging(c) \in Nat

LEMMA ShareTypes == Shape => Shares
<1> SUFFICES ASSUME Shape, NEW c \in Callers
             PROVE  caller[c].owes \in Nat /\ Charging(c) \in Nat
  BY DEF Shares
<1>1. caller[c] \in Records
  BY CallerTypes
<1>2. CASE caller[c].pc = "charge"
  <2>1. caller[c].url \in Urls
    BY <1>2 DEF Shape, InHand
  <2>2. QED BY <1>1, <1>2, <2>1, RawConstants DEF Charging, Records
<1>3. CASE caller[c].pc # "charge"
  BY <1>1, <1>3 DEF Charging, Records
<1>4. QED BY <1>2, <1>3

Accounts ==
  /\ \A c \in Callers : caller[c].owes \in Nat /\ Charging(c) \in Nat
  /\ Owed \in Nat /\ Due \in Nat /\ Resident \in Nat /\ bytes \in Int /\ T2Budget \in Nat

LEMMA AccountTypes == Shape => Accounts
<1> SUFFICES ASSUME Shape PROVE Accounts
  OBVIOUS
<1>1. \A c \in Callers : caller[c].owes \in Nat /\ Charging(c) \in Nat
  BY ShareTypes DEF Shares
<1>2. Owed \in Nat
  <2> DEFINE f == [c \in Callers |-> caller[c].owes]
  <2>1. \A c \in Callers : f[c] \in Nat
    BY <1>1
  <2> HIDE DEF f
  <2>2. Weight(Callers, f) \in Nat
    BY <2>1, RawConstants, WeightFacts
  <2>3. QED BY <2>2 DEF Owed, f
<1>3. Due \in Nat
  <2> DEFINE f == [c \in Callers |-> Charging(c)]
  <2>1. \A c \in Callers : f[c] \in Nat
    BY <1>1
  <2> HIDE DEF f
  <2>2. Weight(Callers, f) \in Nat
    BY <2>1, RawConstants, WeightFacts
  <2>3. QED BY <2>2 DEF Due, f
<1>4. Resident \in Nat
  BY TierIsFinite DEF Shape, RawTypeOK
<1>5. QED BY <1>1, <1>2, <1>3, <1>4, RawConstants DEF Accounts, Shape, RawTypeOK

LEMMA AccountsNext == Shape' => Owed' \in Nat /\ Due' \in Nat /\ Resident' \in Nat
<1>1. Shape' => Accounts'
  BY AccountTypes, PTL
<1>2. QED BY <1>1 DEF Accounts

(* What one caller's step does to the sums over all of them.                 *)
LEMMA AccountChange ==
  ASSUME Shape, Shape', NEW c \in Callers, \A d \in Callers : d # c => caller'[d] = caller[d]
  PROVE  /\ Owed' + caller[c].owes = Owed + caller'[c].owes
         /\ Due' + Charging(c) = Due + Charging(c)'
<1>1. /\ \A d \in Callers : caller[d].owes \in Nat /\ Charging(d) \in Nat
      /\ \A d \in Callers : caller'[d].owes \in Nat /\ Charging(d)' \in Nat
  <2>1. Shape' => Shares'
    BY ShareTypes, PTL
  <2>2. QED BY <2>1, ShareTypes DEF Shares
<1>2. IsFiniteSet(Callers)
  BY RawConstants
<1>3. Owed' + caller[c].owes = Owed + caller'[c].owes
  <2> DEFINE f == [d \in Callers |-> caller[d].owes]  g == [d \in Callers |-> caller'[d].owes]
  <2>1. /\ f[c] = caller[c].owes /\ g[c] = caller'[c].owes
        /\ \A d \in Callers : f[d] \in Nat /\ g[d] \in Nat /\ (d # c => f[d] = g[d])
    BY <1>1
  <2>2. Owed = Weight(Callers, f) /\ Owed' = Weight(Callers, g)
    BY DEF Owed
  <2> HIDE DEF f, g
  <2>3. Weight(Callers, g) + f[c] = Weight(Callers, f) + g[c]
    BY <1>2, <2>1, WeightChange
  <2>4. QED BY <2>1, <2>2, <2>3
<1>4. Due' + Charging(c) = Due + Charging(c)'
  <2> DEFINE f == [d \in Callers |-> Charging(d)]  g == [d \in Callers |-> Charging(d)']
  <2>0. \A d \in Callers : d # c => Charging(d)' = Charging(d)
    BY DEF Charging
  <2>1. /\ f[c] = Charging(c) /\ g[c] = Charging(c)'
        /\ \A d \in Callers : f[d] \in Nat /\ g[d] \in Nat /\ (d # c => f[d] = g[d])
    BY <1>1, <2>0
  <2>2. Due = Weight(Callers, f) /\ Due' = Weight(Callers, g)
    BY DEF Due
  <2> HIDE DEF f, g
  <2>3. Weight(Callers, g) + f[c] = Weight(Callers, f) + g[c]
    BY <1>2, <2>1, WeightChange
  <2>4. QED BY <2>1, <2>2, <2>3
<1>5. QED BY <1>3, <1>4

(* One entry less, one more.                                                 *)
LEMMA ResidentChange ==
  ASSUME Shape, NEW u \in Urls
  PROVE  /\ u \in ToSet(lru) => Weight(ToSet(lru) \ {u}, Size) + Size[u] = Resident
         /\ Weight(ToSet(lru) \cup {u}, Size) <= Resident + Size[u]
         /\ Weight(ToSet(lru) \ {u}, Size) \in Nat /\ Weight(ToSet(lru) \cup {u}, Size) \in Nat
         /\ Size[u] \in Nat /\ Size[u] > 0 /\ Resident \in Nat
<1> DEFINE K == ToSet(lru)  L == K \ {u}
<1>1. IsFiniteSet(K) /\ K \subseteq Urls /\ Resident \in Nat /\ Resident = Weight(K, Size)
  BY TierIsFinite DEF Shape, RawTypeOK, Resident
<1> HIDE DEF K
<1>2. IsFiniteSet(L) /\ IsFiniteSet({u}) /\ u \notin L /\ L \cup {u} = K \cup {u} /\ L \subseteq Urls
  BY <1>1, FS_Subset, FS_Singleton
<1>3. \A v \in Urls : Size[v] \in Nat /\ Size[v] > 0
  BY RawConstants
<1> HIDE DEF L
<1>4. \A v \in L \cup {u} : Size[v] \in Nat
  BY <1>2, <1>3
<1>5. Weight(L \cup {u}, Size) = Weight(L, Size) + Size[u]
  BY <1>2, <1>4, WeightSplit
<1>6. Weight(L, Size) \in Nat
  BY <1>2, <1>4, WeightFacts
<1>7. CASE u \in K
  <2>1. K \cup {u} = K
    BY <1>7
  <2>2. QED BY <1>1, <1>2, <1>3, <1>5, <1>6, <2>1 DEF K, L
<1>8. CASE u \notin K
  <2>1. L = K
    BY <1>8 DEF L
  <2>2. QED BY <1>1, <1>2, <1>3, <1>5, <1>6, <1>8, <2>1 DEF K, L
<1>9. QED BY <1>7, <1>8

LEMMA EmptyTier == ASSUME NEW q \in Seq(Urls), ToSet(q) = {} PROVE q = <<>>
<1>1. Len(q) \in Nat /\ DOMAIN q = 1 .. Len(q)
  OBVIOUS
<1>2. DOMAIN q = {}
  BY DEF ToSet
<1>3. Len(q) = 0
  BY <1>1, <1>2
<1>4. QED BY <1>3

LEMMA UnmovedBooks ==
  ASSUME Shape, Shape', Booked, Evicting, Unmoved
  PROVE  Booked' /\ Evicting'
<1>1. bytes' = bytes /\ Resident' = Resident
  BY DEF Unmoved, Resident
<1>2. Owed' = Owed
  <2> DEFINE f == [d \in Callers |-> caller[d].owes]  g == [d \in Callers |-> caller'[d].owes]
  <2>1. \A d \in Callers : g[d] = f[d]
    BY DEF Unmoved
  <2>2. Owed = Weight(Callers, f) /\ Owed' = Weight(Callers, g)
    BY DEF Owed
  <2> HIDE DEF f, g
  <2>3. QED BY <2>1, <2>2, WeightAlike
<1>3. Due' = Due
  <2> DEFINE f == [d \in Callers |-> Charging(d)]  g == [d \in Callers |-> Charging(d)']
  <2>1. \A d \in Callers : g[d] = f[d]
    BY DEF Unmoved, Charging
  <2>2. Due = Weight(Callers, f) /\ Due' = Weight(Callers, g)
    BY DEF Due
  <2> HIDE DEF f, g
  <2>3. QED BY <2>1, <2>2, WeightAlike
<1>4. Booked'
  BY <1>1, <1>2, <1>3 DEF Booked
<1>5. Evicting'
  <2>1. lru = <<>> => lru' = <<>>
    <3> SUFFICES ASSUME lru = <<>> PROVE lru' = <<>>
      OBVIOUS
    <3>1. ToSet(lru) = {}
      BY DEF ToSet
    <3>2. lru' \in Seq(Urls) /\ ToSet(lru') = {}
      BY <3>1 DEF Unmoved
    <3>3. QED BY <3>2, EmptyTier
  <2>2. CASE bytes <= T2Budget \/ lru = <<>>
    BY <1>1, <2>1, <2>2 DEF Evicting
  <2>3. CASE ~(bytes <= T2Budget \/ lru = <<>>)
    <3>1. PICK c \in Callers : caller[c].pc \in {"charge", "evict"}
      BY <2>3 DEF Evicting
    <3>2. caller'[c] = caller[c]
      BY <2>3, <3>1 DEF Unmoved
    <3>3. QED BY <3>1, <3>2 DEF Evicting
  <2>4. QED BY <2>2, <2>3
<1>6. QED BY <1>4, <1>5

-----------------------------------------------------------------------------
(* ByteBudgetLRU.Add. Each step of it changes one caller and the tier.       *)

LEMMA OneCallerShape ==
  ASSUME Shape, NEW c \in Callers, NEW r \in Records,
         r.pc # "idle" => r.url \in Urls, r.owes > 0 => r.pc \in {"insert", "evict"},
         caller' = [caller EXCEPT ![c] = r],
         lru' \in Seq(Urls), IsInjective(lru'), bytes' \in Int,
         UNCHANGED <<disk, flight, negative, host>>
  PROVE  /\ Shape' /\ caller'[c] = r /\ \A d \in Callers : d # c => caller'[d] = caller[d]
<1>1. /\ caller' \in [Callers -> Records] /\ caller'[c] = r
      /\ \A d \in Callers : d # c => caller'[d] = caller[d]
  BY CallerTypes
<1>2. InHand'
  BY <1>1 DEF Shape, InHand
<1>3. QED BY <1>1, <1>2 DEF Shape, RawTypeOK, Records, Retried, host

LEMMA AddedFacts ==
  ASSUME Shape, NEW c \in Callers, caller[c].owes = 0, caller[c].pc \in {"remove", "evict"},
         caller[c].pc = "evict" => bytes <= T2Budget \/ lru = <<>>,
         Added(c), UNCHANGED <<tier, disk, flight, negative, host>>
  PROVE  Unmoved /\ Shape'
<1>1. PICK pc \in Steps : pc \in {"put", "idle"} /\ Goto(c, pc)
  <2>1. "put" \in Steps /\ "idle" \in Steps
    BY DEF Steps
  <2>2. QED BY <2>1 DEF Added
<1>2. Unmoved /\ caller' \in [Callers -> Records] /\ InHand'
  BY <1>1, WalkFacts
<1>3. QED BY <1>2 DEF Shape, RawTypeOK, Records, Retried, tier, host

(* The tier stays covered when the accounts gain at least what it gains.     *)
LEMMA BooksBalance ==
  ASSUME Shape, Shape', Booked,
         NEW b0 \in Nat, NEW b1 \in Nat, bytes' + b0 = bytes + b1,
         NEW d0 \in Nat, NEW d1 \in Nat, Due' + d0 = Due + d1,
         NEW r0 \in Nat, NEW r1 \in Nat, Resident' + r0 = Resident + r1,
         NEW o0 \in Nat, NEW o1 \in Nat, Owed' + o0 = Owed + o1,
         b1 + d1 + r0 + o0 >= b0 + d0 + r1 + o1
  PROVE  Booked'
<1>1. /\ bytes \in Int /\ Due \in Nat /\ Owed \in Nat /\ Resident \in Nat
      /\ bytes' \in Int /\ Due' \in Nat /\ Owed' \in Nat /\ Resident' \in Nat
  BY AccountTypes, AccountsNext DEF Accounts, Shape, RawTypeOK
<1>2. PICK b \in Int, d \in Nat, r \in Nat, o \in Nat :
        b = bytes /\ d = Due /\ r = Resident /\ o = Owed
  BY <1>1
<1>3. PICK bn \in Int, dn \in Nat, rn \in Nat, on \in Nat :
        bn = bytes' /\ dn = Due' /\ rn = Resident' /\ on = Owed'
  BY <1>1
<1>4. /\ bn + b0 = b + b1 /\ dn + d0 = d + d1 /\ rn + r0 = r + r1 /\ on + o0 = o + o1
      /\ b + d >= r + o
  BY <1>2, <1>3 DEF Booked
<1>5. bn + dn >= rn + on
  BY <1>4
<1>6. QED BY <1>3, <1>5 DEF Booked

LEMMA RemoveOldBooks ==
  ASSUME Shape, Booked, Evicting, NEW c \in Callers, RemoveOld(c)
  PROVE  Shape' /\ Booked' /\ Evicting'
<1> DEFINE u == caller[c].url
<1>1. /\ caller[c] \in Records /\ caller[c].pc = "remove" /\ caller[c].owes = 0 /\ u \in Urls
      /\ UNCHANGED <<bytes, disk, flight, negative, host>>
  BY CallerTypes DEF RemoveOld, At, Shape, InHand
<1>2. CASE Size[u] > T2Budget
  <2>1. Added(c) /\ UNCHANGED tier
    BY <1>1, <1>2 DEF RemoveOld, tier
  <2>2. Unmoved /\ Shape'
    BY <1>1, <2>1, AddedFacts
  <2>3. QED BY <2>2, UnmovedBooks
<1>3. CASE ~(Size[u] > T2Budget)
  <2> DEFINE owed == IF u \in ToSet(lru) THEN Size[u] ELSE 0
             r == [caller[c] EXCEPT !.pc = "insert", !.owes = owed]
  <2>1. lru' = Without(u) /\ caller' = [caller EXCEPT ![c] = r]
    BY <1>3 DEF RemoveOld
  <2>2. Size[u] \in Nat /\ owed \in Nat
    BY <1>1, RawConstants
  <2>3. r \in Records /\ r.pc = "insert" /\ r.owes = owed /\ r.url = u
    BY <1>1, <2>2 DEF Records, Steps
  <2>4. /\ lru \in Seq(Urls) /\ IsInjective(lru) /\ lru' \in Seq(Urls) /\ IsInjective(lru')
        /\ ToSet(lru') = ToSet(lru) \ {u} /\ bytes' = bytes /\ bytes' \in Int
    <3>1. lru \in Seq(Urls) /\ IsInjective(lru) /\ bytes \in Int
      BY DEF Shape, RawTypeOK
    <3>2. QED BY <1>1, <2>1, <3>1, WithoutFacts
  <2> HIDE DEF r, u
  <2>5. Shape' /\ caller'[c] = r /\ \A d \in Callers : d # c => caller'[d] = caller[d]
    BY <1>1, <2>1, <2>3, <2>4, OneCallerShape
  <2>6. /\ Owed' + caller[c].owes = Owed + caller'[c].owes
        /\ Due' + Charging(c) = Due + Charging(c)'
    BY <2>5, AccountChange
  <2>7. Charging(c) = 0 /\ Charging(c)' = 0
    BY <1>1, <2>3, <2>5 DEF Charging
  <2>8. Owed' + 0 = Owed + owed /\ Due' + 0 = Due + 0
    <3>1. caller[c].owes = 0 /\ caller'[c].owes = owed
      BY <1>1, <2>3, <2>5
    <3> HIDE DEF owed
    <3>2. QED BY <2>6, <2>7, <3>1
  <2>9. Resident' + owed = Resident /\ Resident' \in Nat /\ Resident \in Nat
    <3>1. Resident' = Weight(ToSet(lru) \ {u}, Size)
      BY <2>4 DEF Resident
    <3>2. /\ u \in ToSet(lru) => Weight(ToSet(lru) \ {u}, Size) + Size[u] = Resident
          /\ Weight(ToSet(lru) \ {u}, Size) \in Nat /\ Resident \in Nat
      BY <1>1, ResidentChange
    <3>3. u \notin ToSet(lru) => ToSet(lru) \ {u} = ToSet(lru)
      OBVIOUS
    <3>4. CASE u \in ToSet(lru)
      BY <2>2, <3>1, <3>2, <3>4
    <3>5. CASE u \notin ToSet(lru)
      BY <2>2, <3>1, <3>2, <3>3, <3>5 DEF Resident
    <3>6. QED BY <3>4, <3>5
  <2> HIDE DEF owed
  <2>10. Booked'
    <3>1. bytes' + 0 = bytes + 0 /\ Resident' + owed = Resident + 0
      BY <2>4, <2>9, AccountTypes DEF Accounts
    <3>2. 0 \in Nat /\ owed \in Nat /\ 0 + 0 + owed + 0 >= 0 + 0 + 0 + owed
      BY <2>2
    <3>3. QED BY <2>5, <2>8, <3>1, <3>2, BooksBalance
  <2>11. Evicting'
    <3>1. CASE bytes <= T2Budget
      BY <2>4, <3>1 DEF Evicting
    <3>2. CASE lru = <<>>
      <4>1. ToSet(lru) = {}
        BY <3>2 DEF ToSet
      <4>2. ToSet(lru') = {}
        BY <2>4, <4>1
      <4>3. lru' = <<>>
        BY <2>4, <4>2, EmptyTier
      <4>4. QED BY <4>3 DEF Evicting
    <3>3. CASE \E d \in Callers : caller[d].pc \in {"charge", "evict"}
      <4>1. PICK d \in Callers : caller[d].pc \in {"charge", "evict"}
        BY <3>3
      <4>2. caller'[d] = caller[d]
        BY <1>1, <2>5, <4>1
      <4>3. QED BY <4>1, <4>2 DEF Evicting
    <3>4. QED BY <3>1, <3>2, <3>3 DEF Evicting
  <2>12. QED BY <2>5, <2>10, <2>11
<1>4. QED BY <1>2, <1>3

LEMMA GiveBackBooks ==
  ASSUME Shape, Booked, Evicting, NEW c \in Callers, GiveBack(c)
  PROVE  Shape' /\ Booked' /\ Evicting'
<1> DEFINE r == [caller[c] EXCEPT !.owes = 0]
<1>1. /\ caller[c] \in Records /\ caller[c].owes > 0 /\ caller[c].owes \in Nat
      /\ caller[c].pc \in {"insert", "evict"} /\ caller[c].url \in Urls
      /\ lru \in Seq(Urls) /\ IsInjective(lru) /\ bytes \in Int
  <2>1. caller[c] \in Records
    BY CallerTypes
  <2>2. caller[c].owes > 0
    BY DEF GiveBack
  <2>3. QED BY <2>1, <2>2 DEF Shape, RawTypeOK, InHand, Records
<1>2. /\ bytes' = bytes - caller[c].owes /\ caller' = [caller EXCEPT ![c] = r] /\ lru' = lru
      /\ UNCHANGED <<disk, flight, negative, host>>
  BY DEF GiveBack
<1>3. r \in Records /\ r.pc = caller[c].pc /\ r.owes = 0 /\ r.url = caller[c].url
  BY <1>1 DEF Records
<1> HIDE DEF r
<1>4. Shape' /\ caller'[c] = r /\ \A d \in Callers : d # c => caller'[d] = caller[d]
  <2>1. bytes' \in Int /\ lru' \in Seq(Urls) /\ IsInjective(lru')
    BY <1>1, <1>2
  <2>2. ~(r.owes > 0)
    BY <1>3
  <2>3. r.pc # "idle" => r.url \in Urls
    BY <1>1, <1>3
  <2>4. QED BY <1>2, <1>3, <2>1, <2>2, <2>3, OneCallerShape
<1>5. /\ Owed' + caller[c].owes = Owed + caller'[c].owes
      /\ Due' + Charging(c) = Due + Charging(c)'
  BY <1>4, AccountChange
<1>6. Charging(c) = 0 /\ Charging(c)' = 0
  BY <1>1, <1>3, <1>4 DEF Charging
<1>7. Owed \in Nat /\ Due \in Nat /\ bytes \in Int /\ T2Budget \in Nat
  BY AccountTypes DEF Accounts
<1>8. Resident' = Resident /\ Resident \in Nat
  BY <1>1, <1>2, TierIsFinite DEF Resident
<1> DEFINE owed == caller[c].owes
<1>10. Booked'
  <2>1. owed \in Nat /\ caller'[c].owes = 0 /\ bytes' = bytes - owed
    BY <1>1, <1>2, <1>3, <1>4
  <2>2. Owed' + owed = Owed + 0 /\ Due' + 0 = Due + 0
    BY <1>5, <1>6, <2>1
  <2> HIDE DEF owed
  <2>3. bytes' + owed = bytes + 0 /\ Resident' + 0 = Resident + 0
    BY <1>7, <1>8, <2>1
  <2>4. 0 \in Nat /\ 0 + 0 + 0 + owed >= owed + 0 + 0 + 0
    BY <2>1
  <2>5. QED BY <1>4, <2>1, <2>2, <2>3, <2>4, BooksBalance
<1>11. Evicting'
  <2>1. CASE bytes <= T2Budget
    BY <1>1, <1>2, <1>7, <2>1 DEF Evicting
  <2>2. CASE lru = <<>>
    BY <1>2, <2>2 DEF Evicting
  <2>3. CASE \E d \in Callers : caller[d].pc \in {"charge", "evict"}
    <3>1. PICK d \in Callers : caller[d].pc \in {"charge", "evict"}
      BY <2>3
    <3>2. caller'[d].pc = caller[d].pc
      BY <1>3, <1>4
    <3>3. QED BY <3>1, <3>2 DEF Evicting
  <2>4. QED BY <2>1, <2>2, <2>3 DEF Evicting
<1>12. QED BY <1>4, <1>10, <1>11

LEMMA InsertBooks ==
  ASSUME Shape, Booked, Evicting, NEW c \in Callers, Insert(c)
  PROVE  Shape' /\ Booked' /\ Evicting'
<1> DEFINE u == caller[c].url  r == [caller[c] EXCEPT !.pc = "charge"]  size == Size[u]
<1>1. /\ caller[c] \in Records /\ caller[c].pc = "insert" /\ caller[c].owes = 0 /\ u \in Urls
      /\ lru \in Seq(Urls) /\ IsInjective(lru) /\ bytes \in Int
      /\ bytes' = bytes /\ UNCHANGED <<disk, flight, negative, host>>
  BY CallerTypes DEF Insert, At, Shape, InHand, RawTypeOK
<1>2. lru' = Newest(u) /\ caller' = [caller EXCEPT ![c] = r]
  BY DEF Insert, Goto
<1>3. r \in Records /\ r.pc = "charge" /\ r.owes = 0 /\ r.url = u
  BY <1>1 DEF Records, Steps
<1>4. /\ lru' \in Seq(Urls) /\ IsInjective(lru') /\ ToSet(lru') = ToSet(lru) \cup {u}
      /\ bytes' \in Int
  <2> HIDE DEF u
  <2>1. QED BY <1>1, <1>2, NewestFacts
<1> HIDE DEF r, u
<1>5. Shape' /\ caller'[c] = r /\ \A d \in Callers : d # c => caller'[d] = caller[d]
  <2>1. ~(r.owes > 0)
    BY <1>3
  <2>2. r.pc # "idle" => r.url \in Urls
    BY <1>1, <1>3
  <2>3. QED BY <1>1, <1>2, <1>3, <1>4, <2>1, <2>2, OneCallerShape
<1>6. /\ Owed' + caller[c].owes = Owed + caller'[c].owes
      /\ Due' + Charging(c) = Due + Charging(c)'
  BY <1>5, AccountChange
<1>7. Charging(c) = 0 /\ Charging(c)' = size /\ size \in Nat
  BY <1>1, <1>3, <1>5, RawConstants DEF Charging, u
<1>8. Weight(ToSet(lru) \cup {u}, Size) <= Resident + size /\ Resident \in Nat
  BY <1>1, ResidentChange
<1>9. Resident' = Weight(ToSet(lru) \cup {u}, Size) /\ Resident' \in Nat
  BY <1>4, <1>5, AccountsNext DEF Resident
<1> HIDE DEF size
<1>10. Booked'
  <2>1. Owed' + 0 = Owed + 0 /\ Due' + 0 = Due + size
    BY <1>1, <1>3, <1>5, <1>6, <1>7
  <2>2. PICK now \in Nat, before \in Nat : now = Resident' /\ before = Resident
    BY <1>8, <1>9
  <2>3. now <= before + size
    BY <1>8, <1>9, <2>2
  <2>4. Resident' + before = Resident + now
    BY <1>8, <1>9, <2>2
  <2>5. bytes' + 0 = bytes + 0
    BY <1>1
  <2>6. 0 \in Nat /\ 0 + size + before + 0 >= 0 + 0 + now + 0
    BY <1>7, <2>3
  <2>7. QED BY <1>5, <1>7, <2>1, <2>4, <2>5, <2>6, BooksBalance
<1>11. Evicting'
  BY <1>3, <1>5 DEF Evicting
<1>12. QED BY <1>5, <1>10, <1>11

LEMMA ChargeBooks ==
  ASSUME Shape, Booked, Evicting, NEW c \in Callers, Charge(c)
  PROVE  Shape' /\ Booked' /\ Evicting'
<1> DEFINE u == caller[c].url  r == [caller[c] EXCEPT !.pc = "evict"]  size == Size[u]
<1>1. /\ caller[c] \in Records /\ caller[c].pc = "charge" /\ caller[c].owes = 0 /\ u \in Urls
      /\ lru \in Seq(Urls) /\ IsInjective(lru) /\ bytes \in Int
      /\ lru' = lru /\ UNCHANGED <<disk, flight, negative, host>>
  BY CallerTypes DEF Charge, At, Shape, InHand, RawTypeOK
<1>2. bytes' = bytes + size /\ caller' = [caller EXCEPT ![c] = r]
  BY DEF Charge, Goto
<1>3. r \in Records /\ r.pc = "evict" /\ r.owes = 0 /\ r.url = u
  BY <1>1 DEF Records, Steps
<1>4. size \in Nat /\ bytes' \in Int /\ lru' \in Seq(Urls) /\ IsInjective(lru')
  BY <1>1, <1>2, RawConstants
<1> HIDE DEF r, u
<1>5. Shape' /\ caller'[c] = r /\ \A d \in Callers : d # c => caller'[d] = caller[d]
  <2>1. ~(r.owes > 0)
    BY <1>3
  <2>2. r.pc # "idle" => r.url \in Urls
    BY <1>1, <1>3
  <2>3. QED BY <1>1, <1>2, <1>3, <1>4, <2>1, <2>2, OneCallerShape
<1>6. /\ Owed' + caller[c].owes = Owed + caller'[c].owes
      /\ Due' + Charging(c) = Due + Charging(c)'
  BY <1>5, AccountChange
<1>7. Charging(c) = size /\ Charging(c)' = 0
  BY <1>1, <1>3, <1>5 DEF Charging, u
<1>8. Resident' = Resident /\ Resident \in Nat
  BY <1>1, AccountTypes DEF Accounts, Resident
<1> HIDE DEF size
<1>9. Booked'
  <2>1. Owed' + 0 = Owed + 0 /\ Due' + size = Due + 0
    BY <1>1, <1>3, <1>5, <1>6, <1>7
  <2>2. bytes' + 0 = bytes + size /\ Resident' + 0 = Resident + 0
    BY <1>1, <1>2, <1>4, <1>8
  <2>3. 0 \in Nat /\ size + 0 + 0 + 0 >= 0 + size + 0 + 0
    BY <1>4
  <2>4. QED BY <1>4, <1>5, <2>1, <2>2, <2>3, BooksBalance
<1>10. Evicting'
  BY <1>3, <1>5 DEF Evicting
<1>11. QED BY <1>5, <1>9, <1>10

LEMMA EvictOldestBooks ==
  ASSUME Shape, Booked, Evicting, NEW c \in Callers, EvictOldest(c)
  PROVE  Shape' /\ Booked' /\ Evicting'
<1> DEFINE u == Head(lru)  size == Size[u]  r == [caller[c] EXCEPT !.owes = size]
<1>1. /\ caller[c] \in Records /\ caller[c].pc = "evict" /\ caller[c].owes = 0
      /\ caller[c].url \in Urls
      /\ lru \in Seq(Urls) /\ IsInjective(lru) /\ bytes \in Int
      /\ bytes' = bytes /\ UNCHANGED <<disk, flight, negative, host>>
  BY CallerTypes DEF EvictOldest, At, Shape, InHand, RawTypeOK
<1>2. CASE bytes <= T2Budget \/ lru = <<>>
  <2>1. Added(c) /\ UNCHANGED tier
    BY <1>1, <1>2 DEF EvictOldest, tier
  <2>2. Unmoved /\ Shape'
    BY <1>1, <1>2, <2>1, AddedFacts
  <2>3. QED BY <2>2, UnmovedBooks
<1>3. CASE ~(bytes <= T2Budget \/ lru = <<>>)
  <2>1. lru' = Tail(lru) /\ caller' = [caller EXCEPT ![c] = r]
    BY <1>3 DEF EvictOldest
  <2>2. /\ lru' \in Seq(Urls) /\ IsInjective(lru') /\ u \in ToSet(lru) /\ u \in Urls
        /\ ToSet(lru') = ToSet(lru) \ {u}
    BY <1>1, <1>3, <2>1, OldestFacts
  <2>3. /\ Weight(ToSet(lru) \ {u}, Size) + size = Resident
        /\ Weight(ToSet(lru) \ {u}, Size) \in Nat /\ size \in Nat /\ Resident \in Nat
    BY <2>2, ResidentChange
  <2> HIDE DEF size, u
  <2>4. r \in Records /\ r.pc = "evict" /\ r.owes = size /\ r.url = caller[c].url
    BY <1>1, <2>3 DEF Records
  <2> HIDE DEF r
  <2>5. Shape' /\ caller'[c] = r /\ \A d \in Callers : d # c => caller'[d] = caller[d]
    <3>1. r.owes > 0 => r.pc \in {"insert", "evict"}
      BY <2>4
    <3>2. r.pc # "idle" => r.url \in Urls
      BY <1>1, <2>4
    <3>3. bytes' \in Int
      BY <1>1
    <3>4. QED BY <1>1, <2>1, <2>2, <2>4, <3>1, <3>2, <3>3, OneCallerShape
  <2>6. /\ Owed' + caller[c].owes = Owed + caller'[c].owes
        /\ Due' + Charging(c) = Due + Charging(c)'
    BY <2>5, AccountChange
  <2>7. Charging(c) = 0 /\ Charging(c)' = 0
    BY <1>1, <2>4, <2>5 DEF Charging
  <2>8. Booked'
    <3>1. Owed' + 0 = Owed + size /\ Due' + 0 = Due + 0
      BY <1>1, <2>4, <2>5, <2>6, <2>7
    <3>2. Resident' = Weight(ToSet(lru) \ {u}, Size)
      BY <2>2 DEF Resident
    <3>3. bytes' + 0 = bytes + 0 /\ Resident' + size = Resident + 0
      BY <1>1, <2>3, <3>2
    <3>4. 0 \in Nat /\ 0 + 0 + size + 0 >= 0 + 0 + 0 + size
      BY <2>3
    <3>5. QED BY <2>3, <2>5, <3>1, <3>3, <3>4, BooksBalance
  <2>9. Evicting'
    BY <2>4, <2>5 DEF Evicting
  <2>10. QED BY <2>5, <2>8, <2>9
<1>4. QED BY <1>2, <1>3

-----------------------------------------------------------------------------
(* The shared request                                                        *)

LEMMA LandingShape ==
  ASSUME Shape, NEW u \in Urls, NEW pc \in {"idle", "remove"}, Land(u, pc),
         UNCHANGED <<tier, disk>>, negative' \subseteq Urls,
         failures' \in 0 .. MaxTier, open' \in BOOLEAN
  PROVE  Unmoved /\ Shape'
<1>1. /\ caller' \in [Callers -> Records] /\ InHand'
      /\ flight' \in [Urls -> Flights] /\ Retried'
      /\ \A c \in Callers : \/ caller'[c] = caller[c]
                            \/ /\ caller[c].pc = "wait" /\ caller[c].owes = 0
                               /\ caller'[c].pc = pc /\ caller'[c].owes = 0
  BY LandFacts DEF Shape
<1>2. Unmoved
  BY <1>1 DEF Unmoved, Shape, RawTypeOK, tier
<1>3. QED BY <1>1, <1>2 DEF Shape, RawTypeOK, Records, Flights, tier

LEMMA FlightShape ==
  ASSUME Shape, NEW u \in Urls, NEW f \in Flights, f.pc = "sleeping" => f.attempt < Attempts,
         flight' = [flight EXCEPT ![u] = f],
         UNCHANGED <<tier, disk, caller, negative>>,
         failures' \in 0 .. MaxTier, open' \in BOOLEAN
  PROVE  Unmoved /\ Shape'
<1>1. flight' \in [Urls -> Flights] /\ Retried'
  <2>1. flight' \in [Urls -> Flights] /\ \A v \in Urls : flight'[v] = IF v = u THEN f ELSE flight[v]
    BY CallerTypes
  <2>2. QED BY <2>1 DEF Shape, Retried
<1>2. InHand'
  BY DEF Shape, InHand
<1>3. Unmoved
  BY DEF Unmoved, Shape, RawTypeOK, tier
<1>4. QED BY <1>1, <1>2, <1>3 DEF Shape, RawTypeOK, Flights, tier

LEMMA HostTypes ==
  ASSUME Shape, RecordFailure \/ RecordSuccess \/ UNCHANGED host
  PROVE  failures' \in 0 .. MaxTier /\ open' \in BOOLEAN
<1>1. failures \in 0 .. MaxTier /\ open \in BOOLEAN /\ MaxTier \in Nat
  BY RawConstants DEF Shape, RawTypeOK
<1>2. CASE RecordFailure
  <2>1. failures' = failures \/ (failures # MaxTier /\ failures' = failures + 1)
    BY <1>2 DEF RecordFailure
  <2>2. failures' \in 0 .. MaxTier
    BY <1>1, <2>1
  <2>3. QED BY <1>2, <2>2 DEF RecordFailure
<1>3. CASE RecordSuccess
  <2>1. failures' = 0 /\ open' = FALSE
    BY <1>3 DEF RecordSuccess
  <2>2. 0 \in 0 .. MaxTier
    BY <1>1
  <2>3. QED BY <2>1, <2>2
<1>4. CASE UNCHANGED host
  BY <1>1, <1>4 DEF host
<1>5. QED BY <1>2, <1>3, <1>4

LEMMA RetryShape ==
  ASSUME Shape, NEW u \in Urls, flight[u].pc # "none", Retry(u),
         UNCHANGED <<tier, disk, negative>>, RecordFailure \/ UNCHANGED host
  PROVE  Unmoved /\ Shape'
<1>1. failures' \in 0 .. MaxTier /\ open' \in BOOLEAN
  BY HostTypes
<1>2. CASE flight[u].attempt < Attempts
  <2> DEFINE f == [flight[u] EXCEPT !.pc = "sleeping"]
  <2>1. flight[u] \in Flights
    BY CallerTypes
  <2>2. f \in Flights /\ f.pc = "sleeping" /\ f.attempt < Attempts
    BY <1>2, <2>1 DEF Flights
  <2>3. flight' = [flight EXCEPT ![u] = f] /\ UNCHANGED caller
    BY <1>2 DEF Retry
  <2> HIDE DEF f
  <2>4. QED BY <1>1, <2>2, <2>3, FlightShape
<1>3. CASE ~(flight[u].attempt < Attempts)
  <2>1. Land(u, "idle")
    BY <1>3 DEF Retry
  <2>2. negative' \subseteq Urls
    BY DEF Shape, RawTypeOK
  <2>3. QED BY <1>1, <2>1, <2>2, LandingShape
<1>4. QED BY <1>2, <1>3

LEMMA ProgressShape ==
  ASSUME Shape, NEW u \in Urls, Progress(u)
  PROVE  Unmoved /\ Shape'
<1>0. /\ flight[u] \in Flights /\ flight[u].attempt \in 0 .. Attempts /\ Attempts \in Nat
      /\ negative \subseteq Urls
  BY CallerTypes, RawConstants DEF Flights, Shape, RawTypeOK
<1>1. CASE AttemptFails(u)
  <2>1. /\ flight[u].pc # "none" /\ Retry(u) /\ UNCHANGED <<tier, disk, negative>> /\ RecordFailure
    BY <1>1 DEF AttemptFails
  <2>2. QED BY <2>1, RetryShape
<1>2. CASE Answer404(u)
  <2>1. /\ Land(u, "idle") /\ UNCHANGED <<tier, disk>> /\ negative' = negative \cup {u}
        /\ RecordSuccess
    BY <1>2 DEF Answer404
  <2>2. failures' \in 0 .. MaxTier /\ open' \in BOOLEAN /\ negative' \subseteq Urls
    BY <1>0, <2>1, HostTypes
  <2>3. QED BY <2>1, <2>2, LandingShape
<1>3. CASE Answer200(u)
  <2> DEFINE f == [flight[u] EXCEPT !.pc = "reading"]
  <2>1. f \in Flights /\ f.pc = "reading"
    BY <1>0 DEF Flights
  <2>2. flight' = [flight EXCEPT ![u] = f] /\ UNCHANGED <<tier, disk, caller, negative, host>>
    BY <1>3 DEF Answer200
  <2>3. failures' \in 0 .. MaxTier /\ open' \in BOOLEAN
    BY <2>2, HostTypes
  <2> HIDE DEF f
  <2>4. QED BY <2>1, <2>2, <2>3, FlightShape
<1>4. CASE BodyEnds(u)
  <2>1. Land(u, "remove") /\ UNCHANGED <<tier, disk, negative>> /\ RecordSuccess
    BY <1>4 DEF BodyEnds
  <2>2. failures' \in 0 .. MaxTier /\ open' \in BOOLEAN /\ negative' \subseteq Urls
    BY <1>0, <2>1, HostTypes
  <2>3. QED BY <2>1, <2>2, LandingShape
<1>5. CASE BodyFails(u)
  <2>1. flight[u].pc # "none" /\ Retry(u) /\ UNCHANGED <<tier, disk, negative, host>>
    BY <1>5 DEF BodyFails
  <2>2. QED BY <2>1, RetryShape
<1>6. CASE Wake(u)
  <2> DEFINE f == [pc |-> "asking", attempt |-> flight[u].attempt + 1]
  <2>1. flight[u].attempt < Attempts
    BY <1>6 DEF Wake, Shape, Retried
  <2>2. flight[u].attempt + 1 \in 0 .. Attempts
    BY <1>0, <2>1
  <2>3. f \in Flights /\ f.pc = "asking"
    BY <2>2 DEF Flights
  <2>4. flight' = [flight EXCEPT ![u] = f] /\ UNCHANGED <<tier, disk, caller, negative, host>>
    BY <1>6 DEF Wake
  <2>5. failures' \in 0 .. MaxTier /\ open' \in BOOLEAN
    BY <2>4, HostTypes
  <2> HIDE DEF f
  <2>6. QED BY <2>3, <2>4, <2>5, FlightShape
<1>7. QED BY <1>1, <1>2, <1>3, <1>4, <1>5, <1>6 DEF Progress

(* Time passes, or the misses are forgotten.                                 *)
LEMMA PassingShape ==
  ASSUME Shape, WindowElapses \/ ClearNotFound \/ \E u \in Urls : NegativeExpires(u)
  PROVE  Unmoved /\ Shape'
<1>1. UNCHANGED <<tier, disk, caller, flight, failures>> /\ open' \in BOOLEAN /\ negative' \subseteq Urls
  BY DEF WindowElapses, ClearNotFound, NegativeExpires, host, Shape, RawTypeOK
<1>2. Unmoved
  BY <1>1 DEF Unmoved, Shape, RawTypeOK, tier
<1>3. InHand' /\ Retried'
  BY <1>1 DEF Shape, InHand, Retried
<1>4. QED BY <1>1, <1>2, <1>3 DEF Shape, RawTypeOK, tier

-----------------------------------------------------------------------------
(* The backoff                                                               *)

LEMMA CountKept ==
  ASSUME Shape, Counted, RecordFailure \/ RecordSuccess \/ WindowElapses \/ UNCHANGED host
  PROVE  Counted'
<1>1. failures \in Nat /\ open \in BOOLEAN /\ MaxTier \in Nat /\ MaxTier > 0 /\ windows \in 0 .. MaxTier
  BY RawConstants DEF Shape, RawTypeOK, Counted
<1>2. /\ open => failures = IF windows + 1 > MaxTier THEN MaxTier ELSE windows + 1
      /\ ~open => failures = windows
  <2>1. open => failures = IF windows + 1 > MaxTier THEN MaxTier ELSE windows + 1
    BY <1>1 DEF Counted
  <2>2. ~open => failures = windows
    <3>1. ~open => failures = IF windows + 0 > MaxTier THEN MaxTier ELSE windows + 0
      BY <1>1 DEF Counted
    <3>2. (IF windows + 0 > MaxTier THEN MaxTier ELSE windows + 0) = windows
      BY <1>1
    <3>3. QED BY <3>1, <3>2
  <2>3. QED BY <2>1, <2>2
<1>3. SUFFICES /\ windows' \in 0 .. MaxTier
               /\ open' => failures' = IF windows' + 1 > MaxTier THEN MaxTier ELSE windows' + 1
               /\ ~open' => failures' = windows'
  <2>1. ASSUME windows' \in 0 .. MaxTier, ~open', failures' = windows'
        PROVE  failures' = IF windows' + 0 > MaxTier THEN MaxTier ELSE windows' + 0
    <3>1. \A w \in 0 .. MaxTier : w = IF w + 0 > MaxTier THEN MaxTier ELSE w + 0
      BY <1>1
    <3>2. QED BY <2>1, <3>1
  <2>2. QED BY <2>1 DEF Counted
<1>4. CASE RecordFailure
  <2>1. open' /\ windows' = windows
    BY <1>4 DEF RecordFailure
  <2>2. CASE open
    BY <1>1, <1>2, <1>4, <2>1, <2>2 DEF RecordFailure
  <2>3. CASE ~open
    <3>1. failures = windows /\ failures' = IF failures = MaxTier THEN failures ELSE failures + 1
      BY <1>2, <1>4, <2>3 DEF RecordFailure
    <3>2. failures' = IF windows + 1 > MaxTier THEN MaxTier ELSE windows + 1
      BY <1>1, <3>1
    <3>3. QED BY <1>1, <2>1, <3>2
  <2>4. QED BY <2>2, <2>3
<1>5. CASE RecordSuccess
  BY <1>1, <1>5 DEF RecordSuccess
<1>6. CASE WindowElapses
  <2>1. /\ open /\ ~open' /\ failures' = failures
        /\ windows' = IF windows < MaxTier THEN windows + 1 ELSE windows
    BY <1>6 DEF WindowElapses
  <2>2. failures = IF windows + 1 > MaxTier THEN MaxTier ELSE windows + 1
    BY <1>2, <2>1
  <2>3. windows' \in 0 .. MaxTier /\ failures' = windows'
    BY <1>1, <2>1, <2>2
  <2>4. QED BY <2>1, <2>3
<1>7. CASE UNCHANGED host
  BY <1>1, <1>2, <1>7 DEF host
<1>8. QED BY <1>4, <1>5, <1>6, <1>7

-----------------------------------------------------------------------------
LEMMA RawInvStarts == RawInit => RawInv
<1> SUFFICES ASSUME RawInit PROVE RawInv
  OBVIOUS
<1>1. /\ lru = <<>> /\ bytes = 0 /\ disk = {} /\ negative = {}
      /\ failures = 0 /\ open = FALSE /\ windows = 0
      /\ caller = [c \in Callers |-> Idle] /\ flight = [u \in Urls |-> NoFlight]
  BY DEF RawInit
<1>2. MaxTier \in Nat /\ MaxTier > 0 /\ Attempts \in Nat /\ T2Budget \in Nat
  BY RawConstants
<1>3. Idle \in Records /\ Idle.pc = "idle" /\ Idle.owes = 0
  BY DEF Idle, Records, Steps
<1>4. NoFlight \in Flights /\ NoFlight.pc = "none"
  BY <1>2 DEF NoFlight, Flights
<1>5. /\ caller \in [Callers -> Records] /\ \A c \in Callers : caller[c] = Idle
      /\ flight \in [Urls -> Flights] /\ \A u \in Urls : flight[u] = NoFlight
  BY <1>1, <1>3, <1>4
<1>6. lru \in Seq(Urls) /\ IsInjective(lru)
  <2>1. lru \in Seq(Urls) /\ DOMAIN lru = {}
    BY <1>1
  <2>2. QED BY <2>1 DEF IsInjective
<1>7. Shape
  <2>1. InHand /\ Retried
    BY <1>3, <1>4, <1>5 DEF InHand, Retried
  <2>2. failures \in 0 .. MaxTier /\ bytes \in Int
    BY <1>1, <1>2
  <2>3. open \in BOOLEAN /\ disk \subseteq Urls /\ negative \subseteq Urls
    BY <1>1
  <2>4. RawTypeOK
    BY <1>5, <1>6, <2>2, <2>3 DEF RawTypeOK, Records, Flights
  <2>5. QED BY <2>1, <2>4 DEF Shape
<1>8. Booked
  <2>1. Owed = 0
    <3>1. \A c \in Callers : [d \in Callers |-> caller[d].owes][c] = 0
      BY <1>3, <1>5
    <3>2. QED BY <3>1, WeightOfZeros DEF Owed
  <2>2. Due \in Nat /\ Resident = 0
    BY <1>1, <1>6, <1>7, AccountTypes, TierIsFinite DEF Accounts
  <2>3. QED BY <1>1, <2>1, <2>2 DEF Booked
<1>9. Evicting
  BY <1>1 DEF Evicting
<1>10. Counted
  BY <1>1, <1>2 DEF Counted
<1>11. QED BY <1>7, <1>8, <1>9, <1>10 DEF RawInv

LEMMA RawInvKept == RawInv /\ [RawNext]_rawVars => RawInv'
<1> SUFFICES ASSUME RawInv, [RawNext]_rawVars PROVE RawInv'
  OBVIOUS
<1> USE DEF RawInv
<1>1. ASSUME NEW c \in Callers, Step(c) PROVE RawInv'
  <2>1. CASE \/ LookT2(c) \/ LookDisk(c) \/ LookNegative(c) \/ LookBackoff(c) \/ Join(c)
             \/ Put(c)
    <3>1. Unmoved /\ Shape'
      BY <2>1, LookFacts
    <3>2. Counted'
      <4>1. UNCHANGED host
        BY <2>1 DEF LookT2, LookDisk, LookNegative, LookBackoff, Join, Put
      <4>2. QED BY <4>1, CountKept
    <3>3. QED BY <3>1, <3>2, UnmovedBooks
  <2>2. CASE RemoveOld(c) \/ GiveBack(c) \/ Insert(c) \/ Charge(c) \/ EvictOldest(c)
    <3>1. Shape' /\ Booked' /\ Evicting'
      BY <2>2, RemoveOldBooks, GiveBackBooks, InsertBooks, ChargeBooks, EvictOldestBooks
    <3>2. Counted'
      <4>1. UNCHANGED host
        BY <2>2 DEF RemoveOld, GiveBack, Insert, Charge, EvictOldest
      <4>2. QED BY <4>1, CountKept
    <3>3. QED BY <3>1, <3>2
  <2>3. QED BY <1>1, <2>1, <2>2 DEF Step
<1>2. ASSUME NEW c \in Callers, GiveUp(c) PROVE RawInv'
  <2>1. Unmoved /\ Shape'
    BY <1>2, LookFacts
  <2>2. UNCHANGED host
    BY <1>2 DEF GiveUp
  <2>3. QED BY <2>1, <2>2, UnmovedBooks, CountKept
<1>3. ASSUME NEW c \in Callers, NEW u \in Urls, Call(c, u) PROVE RawInv'
  <2>1. Unmoved /\ Shape'
    BY <1>3, CallFacts
  <2>2. UNCHANGED host
    BY <1>3 DEF Call
  <2>3. QED BY <2>1, <2>2, UnmovedBooks, CountKept
<1>4. ASSUME NEW u \in Urls, Progress(u) PROVE RawInv'
  <2>1. Unmoved /\ Shape'
    BY <1>4, ProgressShape
  <2>2. RecordFailure \/ RecordSuccess \/ UNCHANGED host
    BY <1>4 DEF Progress, AttemptFails, Answer404, Answer200, BodyEnds, BodyFails, Wake
  <2>3. QED BY <2>1, <2>2, UnmovedBooks, CountKept
<1>5. ASSUME WindowElapses \/ ClearNotFound \/ \E u \in Urls : NegativeExpires(u) PROVE RawInv'
  <2>1. Unmoved /\ Shape'
    BY <1>5, PassingShape
  <2>2. WindowElapses \/ UNCHANGED host
    BY <1>5 DEF ClearNotFound, NegativeExpires
  <2>3. QED BY <2>1, <2>2, UnmovedBooks, CountKept
<1>6. CASE UNCHANGED rawVars
  <2>1. UNCHANGED <<lru, bytes, disk, caller, flight, negative, failures, open, windows>>
    BY <1>6 DEF rawVars, tier, host
  <2>2. Shape'
    BY <2>1 DEF Shape, RawTypeOK, InHand, Retried
  <2>3. Unmoved /\ UNCHANGED host
    BY <2>1 DEF Unmoved, host, Shape, RawTypeOK
  <2>4. QED BY <2>2, <2>3, UnmovedBooks, CountKept
<1>7. QED BY <1>1, <1>2, <1>3, <1>4, <1>5, <1>6 DEF RawNext

(* RawTypeOK holds in every reachable state of RawFetch, for any callers,    *)
(* URLs, sizes and bounds.                                                   *)
THEOREM RawTypeCorrect == RawSpec => []RawTypeOK
<1>1. RawInv => RawTypeOK
  BY DEF RawInv, Shape
<1>2. QED BY <1>1, RawInvStarts, RawInvKept, PTL DEF RawSpec

(* However the Adds of any number of callers interleave on the tier that has *)
(* no lock of its own (memory.go:160-175), when none is under way it holds   *)
(* no more than its budget: what it accounts covers what it holds, and       *)
(* whoever took it over has still to evict.                                  *)
THEOREM MemoryRestsWithinBudget == RawSpec => []RestWithinBudget
<1>1. RawInv => RestWithinBudget
  <2> SUFFICES ASSUME RawInv, \A c \in Callers : ~Adding(c) PROVE Resident <= T2Budget
    BY DEF RestWithinBudget
  <2>1. Accounts /\ Booked /\ Evicting
    BY AccountTypes DEF RawInv
  <2>2. \A c \in Callers : caller[c].pc \notin {"charge", "evict"}
    BY DEF Adding
  <2>3. Due = 0
    <3>1. \A c \in Callers : [d \in Callers |-> Charging(d)][c] = 0
      BY <2>2 DEF Charging
    <3>2. QED BY <3>1, WeightOfZeros DEF Due
  <2>4. CASE bytes <= T2Budget
    BY <2>1, <2>3, <2>4 DEF Accounts, Booked
  <2>5. CASE lru = <<>>
    BY <2>1, <2>5, TierIsFinite, RawConstants DEF RawInv, Shape, RawTypeOK
  <2>6. QED BY <2>1, <2>2, <2>4, <2>5 DEF Evicting
<1>2. QED BY <1>1, RawInvStarts, RawInvKept, PTL DEF RawSpec

(* The count behind the host's backoff is the number of windows it has been  *)
(* down for, whatever the number of requests that failed in each             *)
(* (client.go:577-608).                                                      *)
THEOREM BurstsCountOnce == RawSpec => []BurstCountsOnce
<1>1. RawInv => BurstCountsOnce
  BY DEF RawInv, Counted, BurstCountsOnce
<1>2. QED BY <1>1, RawInvStarts, RawInvKept, PTL DEF RawSpec

=============================================================================
