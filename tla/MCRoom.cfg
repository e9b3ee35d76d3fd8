SPECIFICATION RoomFairSpec
CONSTANTS Kinds <- AllKinds Knobs <- Waiting
 Bases = {"body", "pre"} QueueCap = 3 Threshold = 1 MissingCap = 1
 ShoutTicks = 1 PreanimTicks = 2 StayTicks = 1 WaitTicks = 1 LongPreanim = 3
 MaxMessages = 4
INVARIANTS SoundIsCurrent NoPlaceholder PreanimNotSkipped
PROPERTIES StageInOrder ColdNeverStaged RoomDrains
CHECK_DEADLOCK FALSE
