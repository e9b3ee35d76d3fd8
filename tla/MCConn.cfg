SPECIFICATION FairSpec
CONSTANTS Sizes = {1, 2} IncomingCap = 1 MaxPings = 1
 BacklogCap = 2 MaxBytes = 3 MaxPackets = 4
INVARIANT DropLosesNothing
PROPERTY DropSurfaces
CHECK_DEADLOCK FALSE
