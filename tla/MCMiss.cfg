SPECIFICATION FairSpec
CONSTANTS
 pre = pre bare = bare song = song webp = webp png = png
 here = here there = there sprite = sprite music = music
 Spellings <- MCSpellings Url <- MCUrl OriginOf <- MCOriginOf Formats <- Both
 NoSwap = NoSwap Warm <- ComesBack LearnedCap = 4 EvictBatch = 1 Lists <- MCLists FirstList <- JustWebp
 Probed = {sprite} Exact = {music} OnServer <- SongPng Packs <- OnePack
 Capacity = 1 MaxGen = 1 MaxSwaps = 1 MaxFlips = 1 MaxFaults = 1 PackMayFail = TRUE
INVARIANTS VerdictMatchesList SettledMissIsTrue
PROPERTY StormEnds
CHECK_DEADLOCK FALSE
