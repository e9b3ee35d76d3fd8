SPECIFICATION Spec
CONSTANTS IncomingCap = 1 MaxPackets = 1 MaxAssets = 2 MaxEvents = 0
INVARIANT DeferredComesNext
