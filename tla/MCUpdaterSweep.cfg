SPECIFICATION Spec
CONSTANTS
  engine = engine
  codec = codec
  Bin = Bin
  NoFile = NoFile
  Libs <- NoLibs
  Introduced = {}
  MaxAttempts = 1
  MaxCrashes = 0
INVARIANT
  SwapKeepsBinary
