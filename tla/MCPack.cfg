SPECIFICATION FairSpec
CONSTANTS
 MountSets = {"a", "b"} Off = "off" NoIdx = NoIdx i1 = i1 i2 = i2 i3 = i3 i4 = i4 i5 = i5 r1 = r1 r2 = r2
 Readers = {r1, r2} Ids = {i1, i2, i3, i4, i5} MaxChanges = 3 MaxRescans = 1
INVARIANTS NoReadAfterClose NoHandleLeak LayerIsWanted
PROPERTY WantedPackAppears
CHECK_DEADLOCK FALSE
