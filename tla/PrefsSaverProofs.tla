--------------------------- MODULE PrefsSaverProofs ---------------------------
(***************************************************************************)
(* Proofs about PrefsSaver, for any set of pool workers and any number of  *)
(* changes, applies and failing writes. Close keeps its promise because,   *)
(* from the exit's own save on, one save runs at a time (Alone), and a     *)
(* change that is not in the file, nor in the bytes a save is about to     *)
(* write, has left pending up (Covered). A quiet session has saved its     *)
(* changes because the saver never writes an old version without being     *)
(* called again (Recalled), and so neither does the user's thread, unless  *)
(* it was overtaken.                                                       *)
(***************************************************************************)
EXTENDS PrefsSaver, TLAPS

Savers == {User, Saver}

(* The user's thread imports in a running session, and saves nothing after. *)
ImportOwns ==
  /\ importing => exit = "no"
  /\ importing \/ frozen => save[User].pc = "no"

(* Where the saver and the user's thread stand on the way out. *)
Leaving ==
  /\ save[Saver].pc # "no" => saver = "saving"
  /\ exit \in {"flushing", "closed"} => saver = "gone"
  /\ exit \in {"stopping", "closed"} => save[User].pc = "no"
  /\ exit # "no" => mutator[User].pc = "idle"
  /\ stop => exit # "no"
  /\ exit \in {"stopping", "flushing", "closed"} => \A m \in Mutators : mutator[m].pc = "idle"

(* Nothing is promised, marked or written that was never changed. *)
Bounded ==
  /\ promised <= mem
  /\ \A m \in Mutators : mutator[m].v <= mem
  /\ \A s \in Savers : save[s].v <= mem

(* With pending down, version x holds every change marked or promised. *)
Holds(x) ==
  ~pending => promised <= x /\ \A m \in Mutators : mutator[m].pc = "marked" => mutator[m].v <= x

Alone == exit # "no" /\ ~raced /\ ~frozen => save[User].pc = "no" \/ save[Saver].pc = "no"

Covered ==
  exit # "no" /\ ~raced /\ ~frozen =>
    /\ \A s \in Savers : save[s].pc = "write" => Holds(save[s].v)
    /\ save[User].pc = "no" /\ save[Saver].pc = "no" /\ ~failed /\ file # Imported => Holds(file)

(* Close's flush clears pending for good. *)
Flushed ==
  ~frozen => /\ exit = "flushing" /\ save[User].pc # "clear" => ~pending
             /\ exit = "closed" => ~pending

PrefsInv == ImportOwns /\ Leaving /\ Bounded /\ Alone /\ Covered /\ Flushed

-----------------------------------------------------------------------------
(* Type correctness *)

LEMMA Constants == MaxChanges \in Nat /\ MaxApplies \in Nat /\ MaxFails \in Nat
                   /\ \A n \in 0 .. MaxChanges : n \in Nat /\ n # Imported
  BY PrefsAssumption

LEMMA TypeInit == Init => TypeOK
<1> SUFFICES ASSUME Init PROVE TypeOK
  OBVIOUS
<1>1. Flags
  BY DEF Init, Flags
<1>2. Versions
  BY Constants DEF Init, Versions
<1>3. Places
  BY Constants DEF Init, Places
<1>4. QED BY <1>1, <1>2, <1>3 DEF TypeOK

LEMMA FlagsKept == Flags /\ [Next]_vars => Flags'
<1> SUFFICES ASSUME Flags, [Next]_vars PROVE Flags'
  OBVIOUS
<1> USE DEF Flags, signals, disk
<1>1. ASSUME NEW m \in Mutators, Change(m) PROVE Flags'
  BY <1>1 DEF Change, UserFree
<1>2. ASSUME NEW m \in Mutators, MarkPending(m) PROVE Flags'
  BY <1>2 DEF MarkPending
<1>3. ASSUME NEW m \in Mutators, SendDirty(m) PROVE Flags'
  BY <1>3 DEF SendDirty, Latest
<1>4. ASSUME NEW s \in Savers, Clear(s) PROVE Flags'
  BY <1>4 DEF Clear
<1>5. ASSUME NEW s \in Savers, Marshal(s) PROVE Flags'
  BY <1>5 DEF Marshal
<1>6. ASSUME NEW s \in Savers, Write(s) PROVE Flags'
  BY <1>6 DEF Write, SaveReturns, Latest
<1>7. ASSUME NEW s \in Savers, WriteFails(s) PROVE Flags'
  BY <1>7 DEF WriteFails, SaveReturns
<1>8. CASE Apply
  BY <1>8 DEF Apply, Ask, UserFree, Enter
<1>9. CASE Reset
  BY <1>9 DEF Reset, Ask, UserFree, Enter
<1>10. CASE ImportReplaces
  BY <1>10 DEF ImportReplaces, Ask, UserFree
<1>11. CASE ImportFreezes
  BY <1>11 DEF ImportFreezes
<1>12. CASE TakeDirty
  BY <1>12 DEF TakeDirty
<1>13. CASE TimerFires
  BY <1>13 DEF TimerFires, Enter
<1>14. CASE TakeStop
  BY <1>14 DEF TakeStop
<1>15. CASE Exit
  BY <1>15 DEF Exit, UserFree, Enter
<1>16. CASE CloseStops
  BY <1>16 DEF CloseStops
<1>17. CASE CloseFlushes
  BY <1>17 DEF CloseFlushes, Enter
<1>18. CASE UNCHANGED vars
  BY <1>18 DEF vars
<1>19. QED
  BY <1>1, <1>2, <1>3, <1>4, <1>5, <1>6, <1>7, <1>8, <1>9, <1>10, <1>11, <1>12, <1>13, <1>14, <1>15, <1>16, <1>17, <1>18
     DEF Next, Saves, Marks, Loops, Done, Savers

LEMMA VersionsKept == Versions /\ [Next]_vars => Versions'
<1> SUFFICES ASSUME Versions, [Next]_vars PROVE Versions'
  OBVIOUS
<1> USE DEF Versions, Savers, memory, disk
<1>1. ASSUME NEW m \in Mutators, Change(m) PROVE Versions'
  BY <1>1, Constants DEF Change, UserFree
<1>2. ASSUME NEW m \in Mutators, MarkPending(m) PROVE Versions'
  BY <1>2, Constants DEF MarkPending
<1>3. ASSUME NEW m \in Mutators, SendDirty(m) PROVE Versions'
  BY <1>3, Constants DEF SendDirty, Latest
<1>4. ASSUME NEW s \in Savers, Clear(s) PROVE Versions'
  BY <1>4, Constants DEF Clear
<1>5. ASSUME NEW s \in Savers, Marshal(s) PROVE Versions'
  BY <1>5, Constants DEF Marshal
<1>6. ASSUME NEW s \in Savers, Write(s) PROVE Versions'
  BY <1>6, Constants DEF Write, SaveReturns, Latest
<1>7. ASSUME NEW s \in Savers, WriteFails(s) PROVE Versions'
  BY <1>7, Constants DEF WriteFails, SaveReturns
<1>8. CASE Apply
  BY <1>8, Constants DEF Apply, Ask, UserFree, Enter
<1>9. CASE Reset
  BY <1>9, Constants DEF Reset, Ask, UserFree, Enter
<1>10. CASE ImportReplaces
  BY <1>10, Constants DEF ImportReplaces, Ask, UserFree
<1>11. CASE ImportFreezes
  BY <1>11, Constants DEF ImportFreezes
<1>12. CASE TakeDirty
  BY <1>12, Constants DEF TakeDirty
<1>13. CASE TimerFires
  BY <1>13, Constants DEF TimerFires, Enter
<1>14. CASE TakeStop
  BY <1>14, Constants DEF TakeStop
<1>15. CASE Exit
  BY <1>15, Constants DEF Exit, UserFree, Enter
<1>16. CASE CloseStops
  BY <1>16, Constants DEF CloseStops
<1>17. CASE CloseFlushes
  BY <1>17, Constants DEF CloseFlushes, Enter
<1>18. CASE UNCHANGED vars
  BY <1>18, Constants DEF vars
<1>19. QED
  BY <1>1, <1>2, <1>3, <1>4, <1>5, <1>6, <1>7, <1>8, <1>9, <1>10, <1>11, <1>12, <1>13, <1>14, <1>15, <1>16, <1>17, <1>18
     DEF Next, Saves, Marks, Loops, Done, Savers

LEMMA PlacesKept == Places /\ [Next]_vars => Places'
<1> SUFFICES ASSUME Places, [Next]_vars PROVE Places'
  OBVIOUS
<1> USE DEF Places, disk
<1>1. ASSUME NEW m \in Mutators, Change(m) PROVE Places'
  BY <1>1, Constants DEF Change, UserFree
<1>2. ASSUME NEW m \in Mutators, MarkPending(m) PROVE Places'
  BY <1>2, Constants DEF MarkPending
<1>3. ASSUME NEW m \in Mutators, SendDirty(m) PROVE Places'
  BY <1>3, Constants DEF SendDirty, Latest
<1>4. ASSUME NEW s \in Savers, Clear(s) PROVE Places'
  BY <1>4, Constants DEF Clear
<1>5. ASSUME NEW s \in Savers, Marshal(s) PROVE Places'
  BY <1>5, Constants DEF Marshal
<1>6. ASSUME NEW s \in Savers, Write(s) PROVE Places'
  BY <1>6, Constants DEF Write, SaveReturns, Latest
<1>7. ASSUME NEW s \in Savers, WriteFails(s) PROVE Places'
  BY <1>7, Constants DEF WriteFails, SaveReturns
<1>8. CASE Apply
  BY <1>8, Constants DEF Apply, Ask, UserFree, Enter
<1>9. CASE Reset
  BY <1>9, Constants DEF Reset, Ask, UserFree, Enter
<1>10. CASE ImportReplaces
  BY <1>10, Constants DEF ImportReplaces, Ask, UserFree
<1>11. CASE ImportFreezes
  BY <1>11, Constants DEF ImportFreezes
<1>12. CASE TakeDirty
  BY <1>12, Constants DEF TakeDirty
<1>13. CASE TimerFires
  BY <1>13, Constants DEF TimerFires, Enter
<1>14. CASE TakeStop
  BY <1>14, Constants DEF TakeStop
<1>15. CASE Exit
  BY <1>15, Constants DEF Exit, UserFree, Enter
<1>16. CASE CloseStops
  BY <1>16, Constants DEF CloseStops
<1>17. CASE CloseFlushes
  BY <1>17, Constants DEF CloseFlushes, Enter
<1>18. CASE UNCHANGED vars
  BY <1>18, Constants DEF vars
<1>19. QED
  BY <1>1, <1>2, <1>3, <1>4, <1>5, <1>6, <1>7, <1>8, <1>9, <1>10, <1>11, <1>12, <1>13, <1>14, <1>15, <1>16, <1>17, <1>18
     DEF Next, Saves, Marks, Loops, Done, Savers

(* The variables keep their types, and no version exceeds the changes made. *)
THEOREM TypeCorrect == Spec => []TypeOK
<1>1. TypeOK /\ [Next]_vars => TypeOK'
  BY FlagsKept, VersionsKept, PlacesKept DEF TypeOK
<1>2. QED BY TypeInit, <1>1, PTL DEF Spec

-----------------------------------------------------------------------------
(* The import and the way out *)

LEMMA ImportKept == Versions /\ ImportOwns /\ [Next]_vars => ImportOwns'
<1> SUFFICES ASSUME Versions, ImportOwns, [Next]_vars PROVE ImportOwns'
  OBVIOUS
<1> USE DEF ImportOwns, Versions, Savers, User, Saver, signals, disk
<1>1. ASSUME NEW m \in Mutators, Change(m) PROVE ImportOwns'
  BY <1>1 DEF Change, UserFree
<1>2. ASSUME NEW m \in Mutators, MarkPending(m) PROVE ImportOwns'
  BY <1>2 DEF MarkPending
<1>3. ASSUME NEW m \in Mutators, SendDirty(m) PROVE ImportOwns'
  BY <1>3 DEF SendDirty, Latest
<1>4. ASSUME NEW s \in Savers, Clear(s) PROVE ImportOwns'
  BY <1>4 DEF Clear
<1>5. ASSUME NEW s \in Savers, Marshal(s) PROVE ImportOwns'
  BY <1>5 DEF Marshal
<1>6. ASSUME NEW s \in Savers, Write(s) PROVE ImportOwns'
  BY <1>6 DEF Write, SaveReturns, Latest
<1>7. ASSUME NEW s \in Savers, WriteFails(s) PROVE ImportOwns'
  BY <1>7 DEF WriteFails, SaveReturns
<1>8. CASE Apply
  BY <1>8 DEF Apply, Ask, UserFree, Enter
<1>9. CASE Reset
  BY <1>9 DEF Reset, Ask, UserFree, Enter
<1>10. CASE ImportReplaces
  BY <1>10 DEF ImportReplaces, Ask, UserFree
<1>11. CASE ImportFreezes
  BY <1>11 DEF ImportFreezes
<1>12. CASE TakeDirty
  BY <1>12 DEF TakeDirty
<1>13. CASE TimerFires
  BY <1>13 DEF TimerFires, Enter
<1>14. CASE TakeStop
  BY <1>14 DEF TakeStop
<1>15. CASE Exit
  BY <1>15 DEF Exit, UserFree, Enter
<1>16. CASE CloseStops
  BY <1>16 DEF CloseStops
<1>17. CASE CloseFlushes
  BY <1>17 DEF CloseFlushes, Enter
<1>18. CASE UNCHANGED vars
  BY <1>18 DEF vars
<1>19. QED
  BY <1>1, <1>2, <1>3, <1>4, <1>5, <1>6, <1>7, <1>8, <1>9, <1>10, <1>11, <1>12, <1>13, <1>14, <1>15, <1>16, <1>17, <1>18
     DEF Next, Saves, Marks, Loops, Done, Savers

LEMMA LeavingKept == Versions /\ Leaving /\ [Next]_vars => Leaving'
<1> SUFFICES ASSUME Versions, Leaving, [Next]_vars PROVE Leaving'
  OBVIOUS
<1> USE DEF Leaving, Versions, Savers, Mutators, User, Saver, memory, signals
<1>1. ASSUME NEW m \in Mutators, Change(m) PROVE Leaving'
  BY <1>1 DEF Change, UserFree
<1>2. ASSUME NEW m \in Mutators, MarkPending(m) PROVE Leaving'
  BY <1>2 DEF MarkPending
<1>3. ASSUME NEW m \in Mutators, SendDirty(m) PROVE Leaving'
  BY <1>3 DEF SendDirty, Latest
<1>4. ASSUME NEW s \in Savers, Clear(s) PROVE Leaving'
  BY <1>4 DEF Clear
<1>5. ASSUME NEW s \in Savers, Marshal(s) PROVE Leaving'
  BY <1>5 DEF Marshal
<1>6. ASSUME NEW s \in Savers, Write(s) PROVE Leaving'
  BY <1>6 DEF Write, SaveReturns, Latest
<1>7. ASSUME NEW s \in Savers, WriteFails(s) PROVE Leaving'
  BY <1>7 DEF WriteFails, SaveReturns
<1>8. CASE Apply
  BY <1>8 DEF Apply, Ask, UserFree, Enter
<1>9. CASE Reset
  BY <1>9 DEF Reset, Ask, UserFree, Enter
<1>10. CASE ImportReplaces
  BY <1>10 DEF ImportReplaces, Ask, UserFree
<1>11. CASE ImportFreezes
  BY <1>11 DEF ImportFreezes
<1>12. CASE TakeDirty
  BY <1>12 DEF TakeDirty
<1>13. CASE TimerFires
  BY <1>13 DEF TimerFires, Enter
<1>14. CASE TakeStop
  BY <1>14 DEF TakeStop
<1>15. CASE Exit
  BY <1>15 DEF Exit, UserFree, Enter
<1>16. CASE CloseStops
  BY <1>16 DEF CloseStops
<1>17. CASE CloseFlushes
  BY <1>17 DEF CloseFlushes, Enter
<1>18. CASE UNCHANGED vars
  BY <1>18 DEF vars
<1>19. QED
  BY <1>1, <1>2, <1>3, <1>4, <1>5, <1>6, <1>7, <1>8, <1>9, <1>10, <1>11, <1>12, <1>13, <1>14, <1>15, <1>16, <1>17, <1>18
     DEF Next, Saves, Marks, Loops, Done, Savers

-----------------------------------------------------------------------------
(* What the file covers *)

LEMMA BoundedKept == Versions /\ Bounded /\ [Next]_vars => Bounded'
<1> SUFFICES ASSUME Versions, Bounded, [Next]_vars PROVE Bounded'
  OBVIOUS
<1> USE DEF Bounded, Versions, Savers, memory
<1>1. ASSUME NEW m \in Mutators, Change(m) PROVE Bounded'
  BY <1>1, Constants DEF Change, UserFree
<1>2. ASSUME NEW m \in Mutators, MarkPending(m) PROVE Bounded'
  BY <1>2, Constants DEF MarkPending
<1>3. ASSUME NEW m \in Mutators, SendDirty(m) PROVE Bounded'
  BY <1>3, Constants DEF SendDirty, Latest
<1>4. ASSUME NEW s \in Savers, Clear(s) PROVE Bounded'
  BY <1>4, Constants DEF Clear
<1>5. ASSUME NEW s \in Savers, Marshal(s) PROVE Bounded'
  BY <1>5, Constants DEF Marshal
<1>6. ASSUME NEW s \in Savers, Write(s) PROVE Bounded'
  BY <1>6, Constants DEF Write, SaveReturns, Latest
<1>7. ASSUME NEW s \in Savers, WriteFails(s) PROVE Bounded'
  BY <1>7, Constants DEF WriteFails, SaveReturns
<1>8. CASE Apply
  BY <1>8, Constants DEF Apply, Ask, UserFree, Enter
<1>9. CASE Reset
  BY <1>9, Constants DEF Reset, Ask, UserFree, Enter
<1>10. CASE ImportReplaces
  BY <1>10, Constants DEF ImportReplaces, Ask, UserFree
<1>11. CASE ImportFreezes
  BY <1>11, Constants DEF ImportFreezes
<1>12. CASE TakeDirty
  BY <1>12, Constants DEF TakeDirty
<1>13. CASE TimerFires
  BY <1>13, Constants DEF TimerFires, Enter
<1>14. CASE TakeStop
  BY <1>14, Constants DEF TakeStop
<1>15. CASE Exit
  BY <1>15, Constants DEF Exit, UserFree, Enter
<1>16. CASE CloseStops
  BY <1>16, Constants DEF CloseStops
<1>17. CASE CloseFlushes
  BY <1>17, Constants DEF CloseFlushes, Enter
<1>18. CASE UNCHANGED vars
  BY <1>18, Constants DEF vars
<1>19. QED
  BY <1>1, <1>2, <1>3, <1>4, <1>5, <1>6, <1>7, <1>8, <1>9, <1>10, <1>11, <1>12, <1>13, <1>14, <1>15, <1>16, <1>17, <1>18
     DEF Next, Saves, Marks, Loops, Done, Savers

LEMMA AloneKept == Versions /\ Places /\ ImportOwns /\ Leaving /\ Alone /\ [Next]_vars => Alone'
<1> SUFFICES ASSUME Versions, Places, ImportOwns, Leaving, Alone, [Next]_vars PROVE Alone'
  OBVIOUS
<1> USE DEF Alone, Versions, Leaving, Savers, User, Saver, signals
<1>1. ASSUME NEW m \in Mutators, Change(m) PROVE Alone'
  BY <1>1 DEF Change, UserFree
<1>2. ASSUME NEW m \in Mutators, MarkPending(m) PROVE Alone'
  BY <1>2 DEF MarkPending
<1>3. ASSUME NEW m \in Mutators, SendDirty(m) PROVE Alone'
  BY <1>3 DEF SendDirty, Latest
<1>4. ASSUME NEW s \in Savers, Clear(s) PROVE Alone'
  BY <1>4 DEF Clear
<1>5. ASSUME NEW s \in Savers, Marshal(s) PROVE Alone'
  BY <1>5 DEF Marshal
<1>6. ASSUME NEW s \in Savers, Write(s) PROVE Alone'
  BY <1>6 DEF Write, SaveReturns, Latest
<1>7. ASSUME NEW s \in Savers, WriteFails(s) PROVE Alone'
  BY <1>7 DEF WriteFails, SaveReturns
<1>8. CASE Apply
  BY <1>8 DEF Apply, Ask, UserFree, Enter
<1>9. CASE Reset
  BY <1>9 DEF Reset, Ask, UserFree, Enter
<1>10. CASE ImportReplaces
  BY <1>10 DEF ImportReplaces, Ask, UserFree
<1>11. CASE ImportFreezes
  BY <1>11 DEF ImportFreezes
<1>12. CASE TakeDirty
  BY <1>12 DEF TakeDirty
<1>13. CASE TimerFires
  <2>1. exit' = exit /\ frozen' = frozen /\ saver = "select" /\ save'[User].pc = save[User].pc
    BY <1>13 DEF TimerFires, Enter
  <2>2. raced' = (raced \/ (exit = "leaving" /\ save[User].pc # "no"))
    BY <1>13 DEF TimerFires
  <2>3. exit # "no" /\ save[User].pc # "no" => exit = "leaving"
    BY <1>13, <2>1 DEF Places
  <2>4. QED BY <2>1, <2>2, <2>3
<1>14. CASE TakeStop
  BY <1>14 DEF TakeStop
<1>15. CASE Exit
  BY <1>15 DEF Exit, UserFree, Enter
<1>16. CASE CloseStops
  BY <1>16 DEF CloseStops
<1>17. CASE CloseFlushes
  BY <1>17 DEF CloseFlushes, Enter
<1>18. CASE UNCHANGED vars
  BY <1>18 DEF vars
<1>19. QED
  BY <1>1, <1>2, <1>3, <1>4, <1>5, <1>6, <1>7, <1>8, <1>9, <1>10, <1>11, <1>12, <1>13, <1>14, <1>15, <1>16, <1>17, <1>18
     DEF Next, Saves, Marks, Loops, Done, Savers

LEMMA FlushedKept == Versions /\ Leaving /\ Flushed /\ [Next]_vars => Flushed'
<1> SUFFICES ASSUME Versions, Leaving, Flushed, [Next]_vars PROVE Flushed'
  OBVIOUS
<1> USE DEF Flushed, Versions, Leaving, Savers, Mutators, User, Saver, signals, memory
<1>1. ASSUME NEW m \in Mutators, Change(m) PROVE Flushed'
  BY <1>1 DEF Change, UserFree
<1>2. ASSUME NEW m \in Mutators, MarkPending(m) PROVE Flushed'
  BY <1>2 DEF MarkPending
<1>3. ASSUME NEW m \in Mutators, SendDirty(m) PROVE Flushed'
  BY <1>3 DEF SendDirty, Latest
<1>4. ASSUME NEW s \in Savers, Clear(s) PROVE Flushed'
  BY <1>4 DEF Clear
<1>5. ASSUME NEW s \in Savers, Marshal(s) PROVE Flushed'
  BY <1>5 DEF Marshal
<1>6. ASSUME NEW s \in Savers, Write(s) PROVE Flushed'
  BY <1>6 DEF Write, SaveReturns, Latest
<1>7. ASSUME NEW s \in Savers, WriteFails(s) PROVE Flushed'
  BY <1>7 DEF WriteFails, SaveReturns
<1>8. CASE Apply
  BY <1>8 DEF Apply, Ask, UserFree, Enter
<1>9. CASE Reset
  BY <1>9 DEF Reset, Ask, UserFree, Enter
<1>10. CASE ImportReplaces
  BY <1>10 DEF ImportReplaces, Ask, UserFree
<1>11. CASE ImportFreezes
  BY <1>11 DEF ImportFreezes
<1>12. CASE TakeDirty
  BY <1>12 DEF TakeDirty
<1>13. CASE TimerFires
  BY <1>13 DEF TimerFires, Enter
<1>14. CASE TakeStop
  BY <1>14 DEF TakeStop
<1>15. CASE Exit
  BY <1>15 DEF Exit, UserFree, Enter
<1>16. CASE CloseStops
  BY <1>16 DEF CloseStops
<1>17. CASE CloseFlushes
  BY <1>17 DEF CloseFlushes, Enter
<1>18. CASE UNCHANGED vars
  BY <1>18 DEF vars
<1>19. QED
  BY <1>1, <1>2, <1>3, <1>4, <1>5, <1>6, <1>7, <1>8, <1>9, <1>10, <1>11, <1>12, <1>13, <1>14, <1>15, <1>16, <1>17, <1>18
     DEF Next, Saves, Marks, Loops, Done, Savers

LEMMA CoveredKept == Versions /\ ImportOwns /\ Leaving /\ Bounded /\ Alone /\ Covered /\ [Next]_vars => Covered'
<1> SUFFICES ASSUME Versions, ImportOwns, Leaving, Bounded, Alone, Covered, [Next]_vars PROVE Covered'
  OBVIOUS
<1> USE DEF Covered, Holds, Versions, Leaving, Alone, Bounded, Savers, User, Saver, signals, memory, disk
<1>1. ASSUME NEW m \in Mutators, Change(m) PROVE Covered'
  BY <1>1, Constants DEF Change, UserFree
<1>2. ASSUME NEW m \in Mutators, MarkPending(m) PROVE Covered'
  BY <1>2, Constants DEF MarkPending
<1>3. ASSUME NEW m \in Mutators, SendDirty(m) PROVE Covered'
  BY <1>3, Constants DEF SendDirty, Latest
<1>4. ASSUME NEW s \in Savers, Clear(s) PROVE Covered'
  BY <1>4, Constants DEF Clear
<1>5. ASSUME NEW s \in Savers, Marshal(s) PROVE Covered'
  BY <1>5, Constants DEF Marshal
<1>6. ASSUME NEW s \in Savers, Write(s) PROVE Covered'
  BY <1>6, Constants DEF Write, SaveReturns, Latest
<1>7. ASSUME NEW s \in Savers, WriteFails(s) PROVE Covered'
  BY <1>7, Constants DEF WriteFails, SaveReturns
<1>8. CASE Apply
  BY <1>8, Constants DEF Apply, Ask, UserFree, Enter
<1>9. CASE Reset
  BY <1>9, Constants DEF Reset, Ask, UserFree, Enter
<1>10. CASE ImportReplaces
  BY <1>10, Constants DEF ImportReplaces, Ask, UserFree
<1>11. CASE ImportFreezes
  BY <1>11, Constants DEF ImportFreezes
<1>12. CASE TakeDirty
  BY <1>12, Constants DEF TakeDirty
<1>13. CASE TimerFires
  BY <1>13, Constants DEF TimerFires, Enter
<1>14. CASE TakeStop
  BY <1>14, Constants DEF TakeStop
<1>15. CASE Exit
  BY <1>15, Constants DEF Exit, UserFree, Enter
<1>16. CASE CloseStops
  BY <1>16, Constants DEF CloseStops
<1>17. CASE CloseFlushes
  BY <1>17, Constants DEF CloseFlushes, Enter
<1>18. CASE UNCHANGED vars
  BY <1>18, Constants DEF vars
<1>19. QED
  BY <1>1, <1>2, <1>3, <1>4, <1>5, <1>6, <1>7, <1>8, <1>9, <1>10, <1>11, <1>12, <1>13, <1>14, <1>15, <1>16, <1>17, <1>18
     DEF Next, Saves, Marks, Loops, Done, Savers

-----------------------------------------------------------------------------
LEMMA PrefsInvInit == Init => PrefsInv
  BY DEF Init, PrefsInv, ImportOwns, Leaving, Bounded, Alone, Covered, Flushed, Savers

LEMMA PrefsInvariant == Spec => []PrefsInv
<1>1. TypeOK /\ PrefsInv /\ [Next]_vars => PrefsInv'
  BY ImportKept, LeavingKept, BoundedKept, AloneKept, CoveredKept, FlushedKept DEF PrefsInv, TypeOK
<1>2. QED BY PrefsInvInit, TypeCorrect, <1>1, PTL DEF Spec

(* Close: every change a setter or a reset has returned from is in the file *)
(* when Close returns.                                                     *)
THEOREM CloseKeepsChanges == Spec => []CloseSaves
<1>1. ASSUME TypeOK, PrefsInv, exit = "closed", file # Imported, ~frozen, ~failed, ~raced
      PROVE  promised <= file
  <2>1. save[User].pc = "no" /\ save[Saver].pc = "no" /\ ~pending
    BY <1>1 DEF PrefsInv, Leaving, Flushed
  <2>2. Holds(file)
    BY <1>1, <2>1 DEF PrefsInv, Covered
  <2>3. QED BY <2>1, <2>2 DEF Holds
<1>2. TypeOK /\ PrefsInv => CloseSaves
  BY <1>1 DEF CloseSaves
<1>3. QED BY TypeCorrect, PrefsInvariant, <1>2, PTL

-----------------------------------------------------------------------------
(* The running session *)

(* The saver will run again. *)
Called == dirty \/ armed = "running" \/ \E m \in Mutators : mutator[m].pc # "idle"

(* A save that will write what is in memory. *)
Carries(s) ==
  save[s].pc \in {"clear", "marshal"} \/ (save[s].pc = "write" /\ save[s].v = mem)

Running == exit = "no" /\ ~raced /\ ~frozen

(* Whoever is about to write, or has written, an old version is followed by *)
(* another save; the user's thread otherwise was overtaken.                 *)
Recalled ==
  Running =>
    /\ save[Saver].pc = "write" => save[Saver].v = mem \/ Called
    /\ save[User].pc = "write" =>
         save[User].v = mem \/ Called \/ Carries(Saver) \/ overtaken
    /\ ~importing =>
         file = mem \/ failed \/ Called \/ Carries(Saver) \/ Carries(User) \/ overtaken

LEMMA RecalledKept == Versions /\ Leaving /\ Bounded /\ Recalled /\ [Next]_vars => Recalled'
<1> SUFFICES ASSUME Versions, Leaving, Bounded, Recalled, [Next]_vars PROVE Recalled'
  OBVIOUS
<1>6. ASSUME NEW s \in Savers, Write(s) PROVE Recalled'
  <2>1. /\ save' = [save EXCEPT ![s].pc = "no"] /\ save[s].pc = "write" /\ file' = save[s].v
        /\ mem' = mem /\ mutator' = mutator /\ importing' = importing
    BY <1>6 DEF Write, SaveReturns, memory
  <2>2. (Called' <=> Called) /\ (Running' => Running)
    BY <1>6 DEF Write, SaveReturns, Called, Running, signals, memory
  <2>3. (overtaken => overtaken') /\ (s = Saver /\ save[User].pc = "write" /\ save[User].v < save[s].v => overtaken')
    BY <1>6 DEF Write, SaveReturns
  <2>4. save[User].v <= mem /\ save[User].v \in Nat /\ save[Saver].v \in Nat /\ mem \in Nat
    BY Constants DEF Bounded, Versions, Savers
  <2>5. CASE s = Saver
    <3>1. save'[User] = save[User] /\ save'[Saver].pc = "no"
      BY <2>1, <2>5 DEF Versions, User, Saver
    <3>2. Running /\ ~Called => save[Saver].v = mem
      BY <2>1, <2>5 DEF Recalled
    <3>3. Running /\ save[User].pc = "write" => save[User].v = mem \/ Called \/ overtaken'
      BY <2>1, <2>3, <2>4, <2>5, <3>2 DEF Recalled
    <3>4. Running /\ ~importing => file' = mem \/ failed' \/ Called
      BY <2>1, <2>5, <3>2
    <3>5. QED BY <2>1, <2>2, <3>1, <3>3, <3>4 DEF Recalled
  <2>6. CASE s = User
    <3>1. save'[Saver] = save[Saver] /\ save'[User].pc = "no"
      BY <2>1, <2>6 DEF Versions, User, Saver
    <3>2. Carries(Saver) <=> Carries(Saver)'
      BY <2>1, <3>1 DEF Carries
    <3>3. Running => file' = mem \/ failed' \/ Called \/ Carries(Saver) \/ overtaken
      BY <2>1, <2>6 DEF Recalled
    <3>4. QED BY <2>1, <2>2, <2>3, <3>1, <3>2, <3>3 DEF Recalled
  <2>7. QED BY <2>5, <2>6 DEF Savers
<1>7. ASSUME NEW s \in Savers, WriteFails(s) PROVE Recalled'
  <2>1. /\ save' = [save EXCEPT ![s].pc = "no"] /\ save[s].pc = "write" /\ failed'
        /\ mem' = mem /\ mutator' = mutator /\ importing' = importing
    BY <1>7 DEF WriteFails, SaveReturns, memory
  <2>2. (Called' <=> Called) /\ (Running' => Running)
    BY <1>7 DEF WriteFails, SaveReturns, Called, Running, signals, memory
  <2>3. (overtaken => overtaken') /\ (s = Saver /\ save[User].pc = "write" /\ save[User].v < save[s].v => overtaken')
    BY <1>7 DEF WriteFails, SaveReturns
  <2>4. save[User].v <= mem /\ save[User].v \in Nat /\ save[Saver].v \in Nat /\ mem \in Nat
    BY Constants DEF Bounded, Versions, Savers
  <2>5. CASE s = Saver
    <3>1. save'[User] = save[User] /\ save'[Saver].pc = "no"
      BY <2>1, <2>5 DEF Versions, User, Saver
    <3>2. Running /\ ~Called => save[Saver].v = mem
      BY <2>1, <2>5 DEF Recalled
    <3>3. Running /\ save[User].pc = "write" => save[User].v = mem \/ Called \/ overtaken'
      BY <2>1, <2>3, <2>4, <2>5, <3>2 DEF Recalled
    <3>4. Running /\ ~importing => file' = mem \/ failed' \/ Called
      BY <2>1, <2>5, <3>2
    <3>5. QED BY <2>1, <2>2, <3>1, <3>3, <3>4 DEF Recalled
  <2>6. CASE s = User
    <3>1. save'[Saver] = save[Saver] /\ save'[User].pc = "no"
      BY <2>1, <2>6 DEF Versions, User, Saver
    <3>2. Carries(Saver) <=> Carries(Saver)'
      BY <2>1, <3>1 DEF Carries
    <3>3. Running => file' = mem \/ failed' \/ Called \/ Carries(Saver) \/ overtaken
      BY <2>1, <2>6 DEF Recalled
    <3>4. QED BY <2>1, <2>2, <2>3, <3>1, <3>2, <3>3 DEF Recalled
  <2>7. QED BY <2>5, <2>6 DEF Savers
<1> USE DEF Recalled, Running, Called, Carries, Versions, Leaving, Bounded, Savers, User, Saver, Mutators, signals, memory, disk
<1>1. ASSUME NEW m \in Mutators, Change(m) PROVE Recalled'
  BY <1>1, Constants DEF Change, UserFree
<1>2. ASSUME NEW m \in Mutators, MarkPending(m) PROVE Recalled'
  BY <1>2, Constants DEF MarkPending
<1>3. ASSUME NEW m \in Mutators, SendDirty(m) PROVE Recalled'
  BY <1>3, Constants DEF SendDirty, Latest
<1>4. ASSUME NEW s \in Savers, Clear(s) PROVE Recalled'
  BY <1>4, Constants DEF Clear
<1>5. ASSUME NEW s \in Savers, Marshal(s) PROVE Recalled'
  BY <1>5, Constants DEF Marshal
<1>8. CASE Apply
  BY <1>8, Constants DEF Apply, Ask, UserFree, Enter
<1>9. CASE Reset
  <2>1. save' = IF frozen THEN save ELSE [save EXCEPT ![User].pc = "clear"]
    BY <1>9 DEF Reset, Enter
  <2>2. raced' = (raced \/ save[Saver].pc # "no") /\ frozen' = frozen /\ exit' = exit
    BY <1>9 DEF Reset
  <2>3. SUFFICES ASSUME Running' PROVE save'[Saver].pc = "no" /\ save'[User].pc = "clear"
    OBVIOUS
  <2>4. QED BY <2>1, <2>2, <2>3
<1>10. CASE ImportReplaces
  BY <1>10, Constants DEF ImportReplaces, Ask, UserFree
<1>11. CASE ImportFreezes
  BY <1>11, Constants DEF ImportFreezes
<1>12. CASE TakeDirty
  BY <1>12, Constants DEF TakeDirty
<1>13. CASE TimerFires
  BY <1>13, Constants DEF TimerFires, Enter
<1>14. CASE TakeStop
  BY <1>14, Constants DEF TakeStop
<1>15. CASE Exit
  BY <1>15, Constants DEF Exit, UserFree, Enter
<1>16. CASE CloseStops
  BY <1>16, Constants DEF CloseStops
<1>17. CASE CloseFlushes
  BY <1>17, Constants DEF CloseFlushes, Enter
<1>18. CASE UNCHANGED vars
  BY <1>18, Constants DEF vars
<1>19. QED
  BY <1>1, <1>2, <1>3, <1>4, <1>5, <1>6, <1>7, <1>8, <1>9, <1>10, <1>11, <1>12, <1>13, <1>14, <1>15, <1>16, <1>17, <1>18
     DEF Next, Saves, Marks, Loops, Done, Savers

(* SaveNow and markDirty: when nobody is at work in a running session and   *)
(* nothing will start by itself, the file holds what is in memory, unless   *)
(* the last write failed, an import owns the file, a reset ran beside the   *)
(* saver, or a write of the user's thread outlasted one of the saver's.     *)
THEOREM QuietKeepsChanges == Spec => []QuietIsSaved
<1>1. Init => Recalled
  BY DEF Init, Recalled, Running, Savers
<1>2. TypeOK /\ PrefsInv /\ Recalled /\ [Next]_vars => Recalled'
  BY RecalledKept DEF PrefsInv, TypeOK
<1>3. Recalled => QuietIsSaved
  BY DEF Recalled, Running, Called, Carries, QuietIsSaved, Quiet, User, Saver
<1>4. QED BY TypeCorrect, PrefsInvariant, <1>1, <1>2, <1>3, PTL DEF Spec
=============================================================================
