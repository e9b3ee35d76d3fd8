SPECIFICATION Spec
CONSTANTS IncomingCap = 2 MaxPackets = 2 MaxAssets = 2 MaxEvents = 1
INVARIANTS NoMissedWake ScreenIsCurrent NeverSpins
PROPERTY PacketsAreTaken
