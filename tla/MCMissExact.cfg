SPECIFICATION Spec
CONSTANTS
 pre = pre bare = bare song = song webp = webp png = png
 here = here there = there sprite = sprite music = music
 Spellings <- MCSpellings Url <- MCUrl OriginOf <- MCOriginOf Formats <- Both
 NoSwap = NoSwap Warm <- Cold LearnedCap = 4 EvictBatch = 1 Lists <- MCLists FirstList <- JustWebp
 Probed = {sprite} Exact = {music} OnServer <- Nothing Packs <- TrackPack
 Capacity = 1 MaxGen = 0 MaxSwaps = 1 MaxFlips = 0 MaxFaults = 0 PackMayFail = FALSE
INVARIANT PackAnswersExact
CHECK_DEADLOCK FALSE
